SPECIFICATION MCSpec
SYMMETRY Symmetry
CONSTANTS
  Track = {t1, t2}
  Athlete = {a1, a2}
  IdentityColumn = {player_id, jersey_number}
  Value = {v1, v2}
  Coach = {c1, c2}
  Identity = {j1}
  NoAthlete = NoAthlete
  NoRow = NoRow
  Unasked = Unasked
  DeskCoach = {c1}
  Run = {r1, r2}
  WebGrade = {g1}
  Plays = 2
  Workers = 1
  Torn = Torn
  MaxFaults = 1
  DatabaseUp = FALSE
INVARIANTS
  LinkedByCoach IdentityIsAudited
  GradeLinkedByCoach MirrorFollowsFile GradeHasEvidence
PROPERTY AuditLostOnlyToOverlap
CHECK_DEADLOCK FALSE
