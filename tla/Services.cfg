SPECIFICATION MCSpec
CONSTANTS
  Email = {e1, e2}
  Request = {q1, q2, q3}
  Prospect = prospect
  Nobody = Nobody
  Nothing = Nothing
  Put = {p1, p2}
  Removal = {d1}
  Null = Null
  NoRecord = NoRecord
  Direct = {u1}
  Linked = {u2}
  MaxLength = 2
  Limit = 1
  Clients = 2
  NoneYet = NoneYet
  Waiting = {s1, s2}
  Job = {j1}
  NoFile = NoFile
  MaxRestarts = 1
  Machine = {w1}
  Player = {l1, l2}
  MaxAsked = 2
  GiveUpAfter = 2
  Stale = 1
  AliveWithin = 1
  MaxDeaths = 2
  Never = Never
INVARIANTS
  ServicesTypeOK RosterIsClaimed
  StoredFilmIsWhole RefusedStoresNothing
  FilmsAreKeptApart
  AnswersAreTrue UnavailableMeansBusyOrGone
PROPERTIES
  OldCredentialsDie
  OthersWorkStands AnsweredLinkResolves
  FilmJobsSettle
  DeadWorkersAreNoticed
CHECK_DEADLOCK FALSE
