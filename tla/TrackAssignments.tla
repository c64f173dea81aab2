-------------------------- MODULE TrackAssignments --------------------------
(***************************************************************************)
(* Who a tracked player is: the rows of film_track_assignments for one     *)
(* film, written by coaches through /assign (backend/api/players.py) and   *)
(* by identity jobs (backend/jobs/worker.py).                              *)
(*                                                                         *)
(* Both read a row, work on the object they read and commit it later; in   *)
(* between others commit.  SQLAlchemy's UPDATE names only the columns      *)
(* whose value differs from the one that was read, so two writers' columns *)
(* mix.  An inserted row meets UNIQUE (video_id, track_id).                *)
(*                                                                         *)
(* Abstractions.  Each writer writes once, stating a value, which may be   *)
(* null, for every identity column; history is the set of the writers      *)
(* whose entries it has.                                                   *)
(***************************************************************************)
EXTENDS FiniteSets, OrmRows

CONSTANTS
  Track,      \* tracks of the film
  Athlete,    \* the roster
  IdentityColumn,  \* player_id, jersey_number, team and position
  Value,      \* what such a column may hold
  Coach,      \* /assign requests
  Identity,   \* runs of identity jobs
  NoAthlete,  \* athlete_id is null
  NoRow,      \* no row for this track
  Unasked     \* no request yet

Writer == Coach \cup Identity

ASSUME AssignmentAssumption ==
  Coach \cap Identity = {} /\ NoAthlete \notin Athlete

VARIABLES
  rows,     \* the table: a row or NoRow per track
  stage,    \* per writer: idle, read, done or failed
  request,  \* per writer: the track, and who it is said to be
  found     \* per writer: the row it read

assignmentVars == <<rows, stage, request, found>>

Who == [IdentityColumn -> Value]

Assignment == [identity : Who, athlete : Athlete \cup {NoAthlete},
               confirmed : BOOLEAN, history : SUBSET Writer]

Request == [track : Track, identity : Who, athlete : Athlete \cup {NoAthlete}]

ASSUME RowAssumption ==
  (\A row \in Assignment : row # NoRow) /\ (\A ask \in Request : ask # Unasked)

AssignmentTypeOK ==
  /\ rows \in [Track -> Assignment \cup {NoRow}]
  /\ stage \in [Writer -> {"idle", "read", "done", "failed"}]
  /\ request \in [Writer -> Request \cup {Unasked}]
  /\ found \in [Writer -> Assignment \cup {NoRow}]

AssignmentInit ==
  /\ rows = [t \in Track |-> NoRow]
  /\ stage = [w \in Writer |-> "idle"]
  /\ request = [w \in Writer |-> Unasked]
  /\ found = [w \in Writer |-> NoRow]

-----------------------------------------------------------------------------
HistoryOf(row) == IF row = NoRow THEN {} ELSE row.history

AthleteOf(row) == IF row = NoRow THEN NoAthlete ELSE row.athlete

\* A request for a track comes in and its row is read.  An identity job
\* names no athlete.
ReadRow(w) ==
  /\ stage[w] = "idle"
  /\ \E ask \in Request :
       /\ w \in Identity => ask.athlete = NoAthlete
       /\ request' = [request EXCEPT ![w] = ask]
       /\ found' = [found EXCEPT ![w] = rows[ask.track]]
  /\ stage' = [stage EXCEPT ![w] = "read"]
  /\ UNCHANGED rows

\* Each of the identity columns is a column of its own.
MergedRow(read, mine, now) ==
  [Merge(read, mine, now) EXCEPT
     !.identity = Merge(read.identity, mine.identity, now.identity)]

\* commit(): an UPDATE of the row that was read, or an INSERT, which fails
\* where another writer's row has appeared in the meantime.
CommitRow(w, mine) ==
  /\ stage[w] = "read"
  /\ LET t == request[w].track IN
       \/ /\ found[w] # NoRow
          /\ rows' = [rows EXCEPT ![t] = MergedRow(found[w], mine, @)]
          /\ stage' = [stage EXCEPT ![w] = "done"]
       \/ /\ found[w] = NoRow /\ rows[t] = NoRow
          /\ rows' = [rows EXCEPT ![t] = mine]
          /\ stage' = [stage EXCEPT ![w] = "done"]
       \/ /\ found[w] = NoRow /\ rows[t] # NoRow
          /\ stage' = [stage EXCEPT ![w] = "failed"]
          /\ UNCHANGED rows
  /\ UNCHANGED <<request, found>>

\* assign_track(): the coach's word, confirmed.
ConfirmedAfter(c, history) ==
  [identity |-> request[c].identity, athlete |-> request[c].athlete,
   confirmed |-> TRUE, history |-> history \cup {c}]

\* Faulty variant: the new entry replaces the ones before it.
ConfirmedAlone(c) == ConfirmedAfter(c, {})

Confirmed(c) == ConfirmedAfter(c, HistoryOf(found[c]))

AssignTrack(c) == CommitRow(c, Confirmed(c))

\* _persist_automatic_assignment(): a proposal; athlete_id is not assigned.
ProposedFor(j, athlete, entry) ==
  [identity |-> request[j].identity, athlete |-> athlete, confirmed |-> FALSE,
   history |-> HistoryOf(found[j]) \cup entry]

\* Faulty variant: a player that is on the roster is linked at once.
ProposedWithLink(j) == ProposedFor(j, CHOOSE a \in Athlete : TRUE, {j})

\* Faulty variant: a proposal leaves no entry.
ProposedUnrecorded(j) == ProposedFor(j, AthleteOf(found[j]), {})

Proposed(j) == ProposedFor(j, AthleteOf(found[j]), {j})

PersistAutomaticAssignment(j) == CommitRow(j, Proposed(j))

\* The database does not answer the read or the commit: the request is
\* answered 500, or the exception leaves the helper and fails the job.
DatabaseFails(w) ==
  /\ stage[w] \in {"idle", "read"}
  /\ stage' = [stage EXCEPT ![w] = "failed"]
  /\ UNCHANGED <<rows, request, found>>

AssignmentNext ==
  \/ \E w \in Writer : ReadRow(w) \/ DatabaseFails(w)
  \/ \E c \in Coach : AssignTrack(c)
  \/ \E j \in Identity : PersistAutomaticAssignment(j)

AssignmentSpec == AssignmentInit /\ [][AssignmentNext]_assignmentVars

-----------------------------------------------------------------------------
(* Properties.                                                             *)

Wrote(w, t) == stage[w] = "done" /\ request[w].track = t

\* "Automatic identification never resolves a real athlete_id by itself,
\* only a coach confirming a track does" (players.py:7): whatever mixes in a
\* row, its athlete is one that a coach has committed for this track, and a
\* confirmed row was confirmed by a coach.
LinkedByCoach ==
  \A t \in Track : rows[t] # NoRow =>
    /\ rows[t].athlete # NoAthlete =>
         \E c \in Coach : Wrote(c, t) /\ request[c].athlete = rows[t].athlete
    /\ rows[t].confirmed => \E c \in Coach : Wrote(c, t)

\* Two have written a row and neither had read what the other wrote.
Overlapped(t) ==
  \E v, w \in Writer : /\ v # w /\ Wrote(v, t) /\ Wrote(w, t)
                       /\ v \notin HistoryOf(found[w]) /\ w \notin HistoryOf(found[v])

\* The identity a row shows is accounted for: each of its columns holds what
\* somebody has committed for this track, and all of them together are one
\* writer's, with its entry in the history and the confirmation it can give,
\* unless writers have overlapped: their columns may mix.
IdentityIsAudited ==
  \A t \in Track : rows[t] # NoRow =>
    /\ \A col \in IdentityColumn : \E w \in Writer :
         Wrote(w, t) /\ request[w].identity[col] = rows[t].identity[col]
    /\ \/ \E w \in rows[t].history :
            /\ Wrote(w, t) /\ rows[t].identity = request[w].identity
            /\ rows[t].confirmed <=> w \in Coach
       \/ Overlapped(t)

\* An entry of the history is lost only to a writer that had read the row
\* before the entry was made: writers that do not overlap lose nothing.
AuditLostOnlyToOverlap ==
  [][\A t \in Track : \A w \in HistoryOf(rows[t]) \ HistoryOf(rows'[t]) :
       \E o \in Writer : /\ stage[o] = "read" /\ stage'[o] = "done"
                         /\ w \notin HistoryOf(found[o])]_assignmentVars
=============================================================================
