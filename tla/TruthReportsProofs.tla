------------------------- MODULE TruthReportsProofs -------------------------
(***************************************************************************)
(* Proofs about TrackAssignments and TruthReports together, for any        *)
(* number of tracks, athletes, coaches, identity jobs, runs and grades,    *)
(* any number of plays and of runs at once, and any number of faults.      *)
(***************************************************************************)
EXTENDS TruthReports, FiniteSetTheorems, TLAPS

USE AssignmentAssumption, RowAssumption

-----------------------------------------------------------------------------
(* What a commit leaves in a row.                                          *)

\* The identity columns are merged one by one.
LEMMA MergedIdentity ==
  ASSUME NEW read \in Who, NEW mine \in Who, NEW now \in Who
  PROVE  /\ Merge(read, mine, now) \in Who
         /\ \A col \in IdentityColumn :
              Merge(read, mine, now)[col] = mine[col] \/ Merge(read, mine, now)[col] = now[col]
  BY DEF Merge, Who

\* What is merged with what was read there becomes what is written.
LEMMA MergedAlone ==
  ASSUME NEW read \in Who, NEW mine \in Who
  PROVE  Merge(read, mine, read) = mine
<1>1. \A col \in IdentityColumn : Merge(read, mine, read)[col] = mine[col]
  BY DEF Merge, Who
<1>2. Merge(read, mine, read) \in Who
  BY MergedIdentity
<1> QED
  BY <1>1, <1>2 DEF Who

\* And so are the others.
LEMMA MergedColumn ==
  ASSUME NEW read \in Assignment, NEW mine \in Assignment, NEW now \in Assignment,
         NEW row, row = MergedRow(read, mine, now)
  PROVE  /\ row \in Assignment
         /\ row.identity = Merge(read.identity, mine.identity, now.identity)
         /\ row.athlete = IF mine.athlete # read.athlete THEN mine.athlete ELSE now.athlete
         /\ row.confirmed = IF mine.confirmed # read.confirmed
                            THEN mine.confirmed ELSE now.confirmed
         /\ row.history = IF mine.history # read.history THEN mine.history ELSE now.history
<1> DEFINE who == Merge(read.identity, mine.identity, now.identity)
           flat == Merge(read, mine, now)
           merged ==
             [identity |-> who,
              athlete |-> IF mine.athlete # read.athlete THEN mine.athlete ELSE now.athlete,
              confirmed |-> IF mine.confirmed # read.confirmed
                            THEN mine.confirmed ELSE now.confirmed,
              history |-> IF mine.history # read.history THEN mine.history ELSE now.history]
<1>1. who \in Who
  <2>1. read.identity \in Who /\ mine.identity \in Who /\ now.identity \in Who
    BY DEF Assignment
  <2> QED
    BY <2>1, MergedIdentity
<1>2. row = [flat EXCEPT !.identity = who]
  BY DEF MergedRow
<1>3. flat =
        [identity |-> IF mine.identity # read.identity THEN mine.identity ELSE now.identity,
         athlete |-> IF mine.athlete # read.athlete THEN mine.athlete ELSE now.athlete,
         confirmed |-> IF mine.confirmed # read.confirmed
                       THEN mine.confirmed ELSE now.confirmed,
         history |-> IF mine.history # read.history THEN mine.history ELSE now.history]
  BY DEF Merge, Assignment
<1>4. row = merged
  <2> HIDE DEF who, flat
  <2> QED
    BY <1>2, <1>3
<1>5. merged \in Assignment
  <2> HIDE DEF who
  <2> QED
    BY <1>1 DEF Assignment
<1> HIDE DEF flat
<1> QED
  BY <1>4, <1>5

\* What a writer is about to commit.
Mine(w) == IF w \in Coach THEN Confirmed(w) ELSE Proposed(w)

LEMMA MineIsRow ==
  ASSUME AssignmentTypeOK, NEW w \in Writer, request[w] \in Request
  PROVE  Mine(w) \in Assignment
<1>1. HistoryOf(found[w]) \subseteq Writer /\ AthleteOf(found[w]) \in Athlete \cup {NoAthlete}
  BY DEF AssignmentTypeOK, HistoryOf, AthleteOf, Assignment
<1>2. request[w].athlete \in Athlete \cup {NoAthlete} /\ request[w].identity \in Who
  BY DEF Request
<1> QED
  BY <1>1, <1>2 DEF Mine, Confirmed, ConfirmedAfter, Proposed, ProposedFor, Assignment, Writer

-----------------------------------------------------------------------------
(* The inductive invariant of the assignments.                             *)

\* A row of a track, or one that was read, is accounted for: its athlete and
\* its confirmation by coaches, its identity column by column and its history
\* by writers who are done.
Accounted(row, t) ==
  row # NoRow =>
    /\ row.athlete # NoAthlete =>
         \E c \in Coach : Wrote(c, t) /\ request[c].athlete = row.athlete
    /\ row.confirmed => \E c \in Coach : Wrote(c, t)
    /\ \A col \in IdentityColumn : \E w \in Writer :
         Wrote(w, t) /\ request[w].identity[col] = row.identity[col]
    /\ \A h \in row.history : Wrote(h, t)

ReadersKnow ==
  \A w \in Writer : stage[w] = "read" =>
    /\ request[w] \in Request
    /\ Accounted(found[w], request[w].track)
    /\ found[w] # NoRow => rows[request[w].track] # NoRow

AssignmentInv ==
  /\ AssignmentTypeOK
  /\ \A t \in Track : Accounted(rows[t], t)
  /\ ReadersKnow

LEMMA AssignmentInvInit == AssignmentInit => AssignmentInv
<1> SUFFICES ASSUME AssignmentInit PROVE AssignmentInv
  OBVIOUS
<1>1. AssignmentTypeOK
  BY DEF AssignmentInit, AssignmentTypeOK
<1>2. \A t \in Track : Accounted(rows[t], t)
  BY DEF AssignmentInit, Accounted
<1>3. ReadersKnow
  BY DEF AssignmentInit, ReadersKnow
<1> QED
  BY <1>1, <1>2, <1>3 DEF AssignmentInv

\* Who has written stays so, with the request that was made.
LEMMA WrittenStays ==
  ASSUME stage' \in [Writer -> {"idle", "read", "done", "failed"}],
         \A w \in Writer : stage[w] = "done" => stage'[w] = "done" /\ request'[w] = request[w],
         NEW row \in Assignment \cup {NoRow}, NEW t \in Track, Accounted(row, t)
  PROVE  Accounted(row, t)'
<1> SUFFICES ASSUME row # NoRow PROVE Accounted(row, t)'
  BY DEF Accounted
<1>1. \A w \in Writer : Wrote(w, t) => Wrote(w, t)' /\ request'[w] = request[w]
  BY DEF Wrote
<1>2. row.history \subseteq Writer /\ Coach \subseteq Writer
  BY DEF Assignment, Writer
<1> QED
  BY <1>1, <1>2 DEF Accounted

LEMMA ReadStaysAccounted ==
  ASSUME NEW v \in Writer, UNCHANGED <<request, found>>, found[v] \in Assignment \cup {NoRow},
         \A w \in Writer : stage[w] = "done" => stage'[w] = "done",
         Accounted(found[v], request[v].track)
  PROVE  Accounted(found[v], request[v].track)'
<1> DEFINE row == found[v]
           t == request[v].track
<1>1. row' = row /\ t' = t
  OBVIOUS
<1>2. \A w \in Writer : Wrote(w, t) => Wrote(w, t)'
  BY DEF Wrote
<1>3. row # NoRow => row.history \subseteq Writer
  BY DEF Assignment
<1>4. Coach \subseteq Writer
  BY DEF Writer
<1> HIDE DEF row, t
<1>5. ASSUME row # NoRow, NEW col \in IdentityColumn
      PROVE  \E w \in Writer : Wrote(w, t)' /\ request'[w].identity[col] = row.identity[col]
  <2>1. PICK w \in Writer : Wrote(w, t) /\ request[w].identity[col] = row.identity[col]
    BY <1>5 DEF Accounted, row, t
  <2> QED
    BY <1>2, <2>1
<1>6. ASSUME row # NoRow
      PROVE  /\ row.athlete # NoAthlete =>
                  \E c \in Coach : Wrote(c, t)' /\ request'[c].athlete = row.athlete
             /\ row.confirmed => \E c \in Coach : Wrote(c, t)'
             /\ \A h \in row.history : Wrote(h, t)'
  BY <1>2, <1>3, <1>4, <1>6 DEF Accounted, row, t
<1> QED
  BY <1>1, <1>5, <1>6 DEF Accounted, row, t

LEMMA ReadRowStep ==
  ASSUME AssignmentInv, NEW w \in Writer, ReadRow(w)
  PROVE  AssignmentInv'
<1> USE DEF AssignmentInv, AssignmentTypeOK
<1>1. PICK ask \in Request :
        /\ request' = [request EXCEPT ![w] = ask]
        /\ found' = [found EXCEPT ![w] = rows[ask.track]]
  BY DEF ReadRow
<1>2. /\ stage[w] = "idle" /\ stage' = [stage EXCEPT ![w] = "read"] /\ rows' = rows
      /\ ask.track \in Track
  BY DEF ReadRow, Request
<1>3. AssignmentTypeOK'
  BY <1>1, <1>2
<1>4. \A v \in Writer : stage[v] = "done" => stage'[v] = "done" /\ request'[v] = request[v]
  BY <1>1, <1>2
<1>5. \A t \in Track : Accounted(rows[t], t)'
  BY <1>2, <1>3, <1>4, WrittenStays
<1>6. ReadersKnow'
  <2> SUFFICES ASSUME NEW v \in Writer, stage'[v] = "read"
               PROVE  /\ request'[v] \in Request
                      /\ Accounted(found[v], request[v].track)'
                      /\ found'[v] # NoRow => rows'[request'[v].track] # NoRow
    BY DEF ReadersKnow
  <2>1. CASE v = w
    <3>1. found'[v] = rows[ask.track] /\ request'[v] = ask
      BY <1>1, <2>1
    <3>2. Accounted(rows[ask.track], ask.track)'
      BY <1>2, <1>5
    <3> QED
      BY <3>1, <3>2, <1>2 DEF Accounted
  <2>2. CASE v # w
    <3>1. /\ found'[v] = found[v] /\ request'[v] = request[v] /\ stage[v] = "read"
      BY <1>1, <1>2, <2>2
    <3>2. /\ request[v] \in Request /\ request[v].track \in Track
          /\ Accounted(found[v], request[v].track)
          /\ found[v] # NoRow => rows[request[v].track] # NoRow
      BY <3>1 DEF ReadersKnow, Request
    <3>3. \A t \in Track : Accounted(found[v], t) => Accounted(found[v], t)'
      BY <1>3, <1>4, <3>1, WrittenStays
    <3> QED
      BY <3>1, <3>2, <3>3, <1>2 DEF Accounted
  <2> QED
    BY <2>1, <2>2
<1> QED
  BY <1>3, <1>5, <1>6

\* A commit leaves the row accounted for, whatever has been merged.
LEMMA CommittedIsAccounted ==
  ASSUME AssignmentInv, NEW w \in Writer, CommitRow(w, Mine(w)),
         stage' = [stage EXCEPT ![w] = "done"], request' = request
  PROVE  Accounted(rows[request[w].track], request[w].track)'
<1> DEFINE t == request[w].track
           row == rows'[t]
<1> USE DEF AssignmentInv, AssignmentTypeOK
<1>1. stage[w] = "read" /\ request[w] \in Request /\ t \in Track
      /\ Accounted(found[w], t) /\ (found[w] # NoRow => rows[t] # NoRow)
  BY DEF CommitRow, ReadersKnow, Request
<1>2. Mine(w) \in Assignment
  BY <1>1, MineIsRow
<1>3. \A v \in Writer, u \in Track : Wrote(v, u) => Wrote(v, u)'
  BY DEF Wrote
<1>4. Wrote(w, t)' /\ ~Wrote(w, t)
  BY <1>1 DEF Wrote
<1>5. /\ Mine(w).identity = request[w].identity
      /\ w \in Coach => Mine(w).athlete = request[w].athlete
      /\ w \notin Coach => Mine(w).athlete = AthleteOf(found[w]) /\ Mine(w).confirmed = FALSE
      /\ Mine(w).history = HistoryOf(found[w]) \cup {w}
  BY DEF Mine, Confirmed, ConfirmedAfter, Proposed, ProposedFor
<1>6. CASE found[w] = NoRow
  <2>1. row = Mine(w)
    BY <1>1, <1>6, <1>2 DEF CommitRow
  <2>2. HistoryOf(found[w]) = {} /\ AthleteOf(found[w]) = NoAthlete
    BY <1>6 DEF HistoryOf, AthleteOf
  <2> QED
    BY <2>1, <2>2, <1>3, <1>4, <1>5 DEF Accounted
<1>7. CASE found[w] # NoRow
  <2> DEFINE read == found[w]
             now == rows[t]
  <2>1. read \in Assignment /\ now \in Assignment /\ Accounted(now, t)
    BY <1>1, <1>7
  <2>2. row = MergedRow(read, Mine(w), now)
    BY <1>1, <1>7 DEF CommitRow
  <2>3. /\ row.identity = Merge(read.identity, Mine(w).identity, now.identity)
        /\ row.athlete = IF Mine(w).athlete # read.athlete THEN Mine(w).athlete ELSE now.athlete
        /\ row.confirmed = IF Mine(w).confirmed # read.confirmed
                           THEN Mine(w).confirmed ELSE now.confirmed
        /\ row.history = IF Mine(w).history # read.history
                         THEN Mine(w).history ELSE now.history
    <3> HIDE DEF row, read, now
    <3> QED
      BY <1>2, <2>1, <2>2, MergedColumn
  <2>4. /\ w \notin read.history
        /\ \A h \in read.history : Wrote(h, t)
        /\ HistoryOf(found[w]) = read.history /\ AthleteOf(found[w]) = read.athlete
    BY <1>1, <1>4, <1>7 DEF Accounted, HistoryOf, AthleteOf
  <2>5. row.history = read.history \cup {w}
    BY <2>3, <2>4, <1>5
  <2>6. \A h \in row.history : Wrote(h, t)'
    <3>1. read.history \subseteq Writer
      BY <2>1 DEF Assignment
    <3> QED
      BY <2>4, <2>5, <1>1, <1>3, <1>4, <3>1
  <2>7. row.athlete # NoAthlete =>
          \E c \in Coach : Wrote(c, t)' /\ request'[c].athlete = row.athlete
    <3>1. CASE w \in Coach /\ row.athlete = request[w].athlete
      BY <3>1, <1>4
    <3>2. CASE row.athlete = now.athlete
      BY <3>2, <2>1, <1>1, <1>3, <1>7 DEF Accounted, Writer
    <3> QED
      BY <3>1, <3>2, <2>3, <2>4, <1>5
  <2>8. row.confirmed => \E c \in Coach : Wrote(c, t)'
    <3>1. CASE w \in Coach
      BY <3>1, <1>4
    <3>2. CASE row.confirmed = now.confirmed
      BY <3>2, <2>1, <1>1, <1>3, <1>7 DEF Accounted, Writer
    <3> QED
      BY <3>1, <3>2, <2>3, <1>5
  <2>9. ASSUME NEW col \in IdentityColumn
        PROVE  \E v \in Writer : Wrote(v, t)' /\ request'[v].identity[col] = row.identity[col]
    <3>1. read.identity \in Who /\ Mine(w).identity \in Who /\ now.identity \in Who
      BY <1>2, <2>1 DEF Assignment
    <3>2. row.identity[col] = Mine(w).identity[col] \/ row.identity[col] = now.identity[col]
      <4> HIDE DEF row, read, now
      <4> QED
        BY <2>3, <3>1, MergedIdentity
    <3>3. CASE row.identity[col] = Mine(w).identity[col]
      BY <3>3, <1>4, <1>5
    <3>4. CASE row.identity[col] = now.identity[col]
      BY <3>4, <2>1, <1>1, <1>3, <1>7 DEF Accounted
    <3> QED
      BY <3>2, <3>3, <3>4
  <2> QED
    BY <2>6, <2>7, <2>8, <2>9 DEF Accounted
<1> QED
  BY <1>6, <1>7

LEMMA CommitRowStep ==
  ASSUME AssignmentInv, NEW w \in Writer, CommitRow(w, Mine(w))
  PROVE  AssignmentInv'
<1> DEFINE t == request[w].track
<1> USE DEF AssignmentInv, AssignmentTypeOK
<1>1. /\ stage[w] = "read" /\ request' = request /\ found' = found
      /\ request[w] \in Request /\ t \in Track
      /\ Mine(w) \in Assignment
      /\ found[w] # NoRow => found[w] \in Assignment /\ rows[t] \in Assignment
  BY MineIsRow DEF CommitRow, ReadersKnow, Request
<1>2. \/ stage' = [stage EXCEPT ![w] = "failed"] /\ rows' = rows
      \/ /\ stage' = [stage EXCEPT ![w] = "done"]
         /\ \E row \in Assignment : rows' = [rows EXCEPT ![t] = row]
  <2>1. CASE found[w] # NoRow
    <3>1. MergedRow(found[w], Mine(w), rows[t]) \in Assignment
      BY <1>1, <2>1, MergedColumn
    <3> QED
      BY <1>1, <2>1, <3>1 DEF CommitRow
  <2>2. CASE found[w] = NoRow
    BY <1>1, <2>2 DEF CommitRow
  <2> QED
    BY <2>1, <2>2
<1>3. AssignmentTypeOK'
  BY <1>1, <1>2
<1>4. \A v \in Writer : stage[v] = "done" => stage'[v] = "done" /\ request'[v] = request[v]
  BY <1>1, <1>2
<1>5. \A u \in Track : Accounted(rows[u], u)'
  <2>1. ASSUME NEW u \in Track, rows'[u] = rows[u] PROVE Accounted(rows[u], u)'
    <3>1. Accounted(rows[u], u) /\ rows[u] \in Assignment \cup {NoRow}
      OBVIOUS
    <3>2. \A row \in Assignment \cup {NoRow} : Accounted(row, u) => Accounted(row, u)'
      BY <1>3, <1>4, WrittenStays
    <3> QED
      BY <2>1, <3>1, <3>2 DEF Accounted
  <2>2. ASSUME stage' = [stage EXCEPT ![w] = "done"] PROVE Accounted(rows[t], t)'
    BY <1>1, <2>2, CommittedIsAccounted
  <2> QED
    BY <1>1, <1>2, <2>1, <2>2
<1>6. ReadersKnow'
  <2> SUFFICES ASSUME NEW v \in Writer, stage'[v] = "read"
               PROVE  /\ request'[v] \in Request
                      /\ Accounted(found[v], request[v].track)'
                      /\ found'[v] # NoRow => rows'[request'[v].track] # NoRow
    BY DEF ReadersKnow
  <2>1. /\ stage[v] = "read" /\ request[v] \in Request /\ request[v].track \in Track
        /\ Accounted(found[v], request[v].track)
        /\ found[v] # NoRow => rows[request[v].track] # NoRow
    BY <1>2 DEF ReadersKnow, Request
  <2>2. Accounted(found[v], request[v].track)'
    BY <1>1, <1>4, <2>1, ReadStaysAccounted
  <2> QED
    BY <1>1, <1>2, <2>1, <2>2
<1> QED
  BY <1>3, <1>5, <1>6

LEMMA DatabaseFailsStep ==
  ASSUME AssignmentInv, NEW w \in Writer, DatabaseFails(w)
  PROVE  AssignmentInv'
<1> USE DEF AssignmentInv, AssignmentTypeOK, DatabaseFails
<1>1. AssignmentTypeOK'
  OBVIOUS
<1>2. \A v \in Writer : stage[v] = "done" => stage'[v] = "done" /\ request'[v] = request[v]
  OBVIOUS
<1>3. ASSUME NEW u \in Track, NEW row \in Assignment \cup {NoRow}, Accounted(row, u)
      PROVE  Accounted(row, u)'
  BY <1>1, <1>2, <1>3, WrittenStays
<1>4. \A u \in Track : Accounted(rows[u], u)'
  BY <1>3 DEF Accounted
<1>5. ReadersKnow'
  <2> SUFFICES ASSUME NEW v \in Writer, stage'[v] = "read"
               PROVE  /\ request'[v] \in Request
                      /\ Accounted(found[v], request[v].track)'
                      /\ found'[v] # NoRow => rows'[request'[v].track] # NoRow
    BY DEF ReadersKnow
  <2>1. /\ stage[v] = "read" /\ request[v] \in Request /\ request[v].track \in Track
        /\ Accounted(found[v], request[v].track)
        /\ found[v] # NoRow => rows[request[v].track] # NoRow
    BY DEF ReadersKnow, Request
  <2>2. Accounted(found[v], request[v].track)'
    BY <1>2, <2>1, ReadStaysAccounted
  <2> QED
    BY <2>1, <2>2
<1> QED
  BY <1>1, <1>4, <1>5

LEMMA AssignmentStep ==
  ASSUME AssignmentInv, [AssignmentNext]_assignmentVars
  PROVE  AssignmentInv'
<1>1. ASSUME NEW w \in Writer, ReadRow(w) PROVE AssignmentInv'
  BY <1>1, ReadRowStep
<1>2. ASSUME NEW w \in Writer, DatabaseFails(w) PROVE AssignmentInv'
  BY <1>2, DatabaseFailsStep
<1>3. ASSUME NEW c \in Coach, AssignTrack(c) PROVE AssignmentInv'
  BY <1>3, CommitRowStep DEF AssignTrack, Mine, Writer
<1>4. ASSUME NEW j \in Identity, PersistAutomaticAssignment(j) PROVE AssignmentInv'
  BY <1>4, CommitRowStep DEF PersistAutomaticAssignment, Mine, Writer
<1>5. ASSUME UNCHANGED assignmentVars PROVE AssignmentInv'
  BY <1>5 DEF assignmentVars, AssignmentInv, AssignmentTypeOK, Accounted, ReadersKnow, Wrote
<1> QED
  BY <1>1, <1>2, <1>3, <1>4, <1>5 DEF AssignmentNext

-----------------------------------------------------------------------------
(* Rows whose writers do not overlap.                                      *)

\* Whose entry has been read was done by then.
HistoryIsPast ==
  \A w \in Writer : \A h \in HistoryOf(found[w]) : stage[h] = "done"

\* A reader that has missed nobody's entry has what the table has.
ReadersAreCurrent ==
  \A w \in Writer :
    /\ stage[w] = "read"
    /\ \A v \in Writer : Wrote(v, request[w].track) => v \in HistoryOf(found[w])
    => found[w] = rows[request[w].track]

\* A row is what one writer in its history has stated.
OneWriters(t) ==
  \E w \in rows[t].history : /\ Wrote(w, t) /\ rows[t].identity = request[w].identity
                             /\ rows[t].confirmed <=> w \in Coach

IdentityInv ==
  /\ HistoryIsPast
  /\ ReadersAreCurrent
  /\ \A t \in Track : rows[t] # NoRow => OneWriters(t) \/ Overlapped(t)

LEMMA IdentityInvInit == AssignmentInit => IdentityInv
<1> SUFFICES ASSUME AssignmentInit PROVE IdentityInv
  OBVIOUS
<1>1. HistoryIsPast
  BY DEF AssignmentInit, HistoryIsPast, HistoryOf
<1>2. ReadersAreCurrent
  BY DEF AssignmentInit, ReadersAreCurrent
<1>3. \A t \in Track : rows[t] = NoRow
  BY DEF AssignmentInit
<1> QED
  BY <1>1, <1>2, <1>3 DEF IdentityInv

\* Over what was read, the whole of a writer's row is written.
LEMMA MergedRowAlone ==
  ASSUME NEW read \in Assignment, NEW mine \in Assignment
  PROVE  MergedRow(read, mine, read) = mine
<1> DEFINE row == MergedRow(read, mine, read)
<1>1. read.identity \in Who /\ mine.identity \in Who
  BY DEF Assignment
<1>2. /\ row \in Assignment
      /\ row.identity = Merge(read.identity, mine.identity, read.identity)
      /\ row.athlete = mine.athlete /\ row.confirmed = mine.confirmed
      /\ row.history = mine.history
  BY MergedColumn
<1>3. row.identity = mine.identity
  BY <1>1, <1>2, MergedAlone
<1> HIDE DEF row
<1>4. \A one \in Assignment :
        one = [identity |-> one.identity, athlete |-> one.athlete,
               confirmed |-> one.confirmed, history |-> one.history]
  BY DEF Assignment
<1>5. row = mine
  BY <1>2, <1>3, <1>4
<1> QED
  BY <1>5 DEF row

\* What neither a commit nor an end changes for a track.
LEMMA TrackUntouched ==
  ASSUME NEW t \in Track, rows'[t] = rows[t],
         \A v \in Writer : Wrote(v, t)' <=> Wrote(v, t),
         \A v \in Writer : Wrote(v, t) => request'[v] = request[v] /\ found'[v] = found[v],
         rows[t] # NoRow => rows[t] \in Assignment,
         rows[t] # NoRow => OneWriters(t) \/ Overlapped(t)
  PROVE  rows'[t] # NoRow => OneWriters(t)' \/ Overlapped(t)'
<1> SUFFICES ASSUME rows[t] # NoRow PROVE OneWriters(t)' \/ Overlapped(t)'
  OBVIOUS
<1>1. CASE OneWriters(t)
  <2>1. rows[t].history \subseteq Writer
    BY DEF Assignment
  <2> QED
    BY <1>1, <2>1 DEF OneWriters
<1>2. CASE Overlapped(t)
  <2>1. PICK v, w \in Writer :
          /\ v # w /\ Wrote(v, t) /\ Wrote(w, t)
          /\ v \notin HistoryOf(found[w]) /\ w \notin HistoryOf(found[v])
    BY <1>2 DEF Overlapped
  <2>2. HistoryOf(found[w])' = HistoryOf(found[w]) /\ HistoryOf(found[v])' = HistoryOf(found[v])
    BY <2>1 DEF HistoryOf
  <2>3. Wrote(v, t)' /\ Wrote(w, t)'
    BY <2>1
  <2> QED
    BY <2>1, <2>2, <2>3 DEF Overlapped
<1> QED
  BY <1>1, <1>2

LEMMA ReadRowIdentity ==
  ASSUME AssignmentInv, IdentityInv, NEW w \in Writer, ReadRow(w)
  PROVE  IdentityInv'
<1> USE DEF AssignmentInv, AssignmentTypeOK
<1>1. PICK ask \in Request :
        /\ request' = [request EXCEPT ![w] = ask]
        /\ found' = [found EXCEPT ![w] = rows[ask.track]]
  BY DEF ReadRow
<1>2. /\ stage[w] = "idle" /\ stage' = [stage EXCEPT ![w] = "read"] /\ rows' = rows
      /\ ask.track \in Track
  BY DEF ReadRow, Request
<1>3. \A v \in Writer, t \in Track : Wrote(v, t)' <=> Wrote(v, t)
  BY <1>1, <1>2 DEF Wrote
<1>4. \A v \in Writer : v # w => /\ found'[v] = found[v] /\ request'[v] = request[v]
                               /\ stage'[v] = stage[v]
  BY <1>1, <1>2
<1>5. found'[w] = rows[ask.track] /\ request'[w] = ask
  BY <1>1
<1>6. HistoryIsPast'
  <2> SUFFICES ASSUME NEW v \in Writer, NEW h \in HistoryOf(found'[v])
               PROVE  stage'[h] = "done"
    BY DEF HistoryIsPast, HistoryOf
  <2>1. CASE v = w
    <3>1. rows[ask.track] # NoRow /\ h \in rows[ask.track].history
      BY <1>5, <2>1 DEF HistoryOf
    <3>2. h \in Writer /\ Wrote(h, ask.track)
      BY <1>2, <3>1 DEF Accounted, Assignment
    <3> QED
      BY <1>2, <3>2 DEF Wrote
  <2>2. CASE v # w
    <3>1. stage[h] = "done"
      BY <1>4, <2>2 DEF IdentityInv, HistoryIsPast
    <3>2. h \in Writer
      BY <1>4, <2>2 DEF HistoryOf, Assignment
    <3> QED
      BY <1>2, <3>1, <3>2
  <2> QED
    BY <2>1, <2>2
<1>7. ReadersAreCurrent'
  <2> SUFFICES ASSUME NEW v \in Writer, stage'[v] = "read",
                      \A u \in Writer : Wrote(u, request[v].track)' => u \in HistoryOf(found[v])'
               PROVE  found'[v] = rows'[request'[v].track]
    BY DEF ReadersAreCurrent
  <2>1. CASE v = w
    BY <1>2, <1>5, <2>1
  <2>2. CASE v # w
    <3>1. stage[v] = "read" /\ request'[v] = request[v] /\ found'[v] = found[v]
      BY <1>4, <2>2
    <3>2. request[v].track \in Track
      BY <3>1 DEF ReadersKnow, Request
    <3>3. \A u \in Writer : Wrote(u, request[v].track) => u \in HistoryOf(found[v])
      BY <1>3, <3>1, <3>2 DEF HistoryOf
    <3> QED
      BY <1>2, <3>1, <3>3 DEF IdentityInv, ReadersAreCurrent
  <2> QED
    BY <2>1, <2>2
<1>8. \A t \in Track : rows'[t] # NoRow => OneWriters(t)' \/ Overlapped(t)'
  <2> TAKE t \in Track
  <2>1. \A v \in Writer : Wrote(v, t) => v # w
    BY <1>2 DEF Wrote
  <2> QED
    BY <1>2, <1>3, <1>4, <2>1, TrackUntouched DEF IdentityInv
<1> QED
  BY <1>6, <1>7, <1>8 DEF IdentityInv

\* A writer that gives up, or whose INSERT is refused.
LEMMA GivingUpIdentity ==
  ASSUME AssignmentInv, IdentityInv, NEW w \in Writer, stage[w] # "done",
         stage' = [stage EXCEPT ![w] = "failed"], UNCHANGED <<rows, request, found>>
  PROVE  IdentityInv'
<1> USE DEF AssignmentInv, AssignmentTypeOK
<1>1. \A v \in Writer : (stage[v] = "done" <=> stage'[v] = "done")
                      /\ (stage'[v] = "read" => stage[v] = "read")
  OBVIOUS
<1>2. \A v \in Writer, t \in Track : Wrote(v, t)' <=> Wrote(v, t)
  BY <1>1 DEF Wrote
<1>3. HistoryIsPast'
  <2> SUFFICES ASSUME NEW v \in Writer, NEW h \in HistoryOf(found[v]) PROVE stage'[h] = "done"
    BY DEF HistoryIsPast, HistoryOf
  <2>1. h \in Writer
    BY DEF HistoryOf, Assignment
  <2> QED
    BY <1>1, <2>1 DEF IdentityInv, HistoryIsPast
<1>4. ReadersAreCurrent'
  <2> SUFFICES ASSUME NEW v \in Writer, stage'[v] = "read",
                      \A u \in Writer : Wrote(u, request[v].track)' => u \in HistoryOf(found[v])'
               PROVE  found[v] = rows[request[v].track]
    BY DEF ReadersAreCurrent
  <2>1. stage[v] = "read" /\ request[v].track \in Track
    BY <1>1 DEF ReadersKnow, Request
  <2>2. \A u \in Writer : Wrote(u, request[v].track) => u \in HistoryOf(found[v])
    BY <1>2, <2>1 DEF HistoryOf
  <2> QED
    BY <2>1, <2>2 DEF IdentityInv, ReadersAreCurrent
<1>5. \A t \in Track : rows'[t] # NoRow => OneWriters(t)' \/ Overlapped(t)'
  BY <1>2, TrackUntouched DEF IdentityInv
<1> QED
  BY <1>3, <1>4, <1>5 DEF IdentityInv

\* Whoever has written the track is either in what the writer has read, and
\* then all of its row is written, or overlaps with it.
LEMMA CommittedIsOneWriters ==
  ASSUME AssignmentInv, IdentityInv, NEW w \in Writer, CommitRow(w, Mine(w)),
         stage' = [stage EXCEPT ![w] = "done"], UNCHANGED <<request, found>>
  PROVE  (OneWriters(request[w].track) \/ Overlapped(request[w].track))'
<1> DEFINE t == request[w].track
<1> USE DEF AssignmentInv, AssignmentTypeOK
<1>1. stage[w] = "read" /\ request[w] \in Request /\ t \in Track
      /\ (found[w] # NoRow => rows[t] # NoRow)
  BY DEF CommitRow, ReadersKnow, Request
<1>2. Mine(w) \in Assignment
  BY <1>1, MineIsRow
<1>3. /\ Mine(w).identity = request[w].identity
      /\ Mine(w).confirmed <=> w \in Coach
      /\ w \in Mine(w).history
  <2>1. ASSUME w \in Coach
        PROVE  /\ Mine(w).identity = request[w].identity
               /\ Mine(w).confirmed = TRUE /\ w \in Mine(w).history
    BY <2>1 DEF Mine, Confirmed, ConfirmedAfter
  <2>2. ASSUME w \notin Coach
        PROVE  /\ Mine(w).identity = request[w].identity
               /\ Mine(w).confirmed = FALSE /\ w \in Mine(w).history
    BY <2>2 DEF Mine, Proposed, ProposedFor
  <2> QED
    BY <2>1, <2>2
<1>4. Wrote(w, t)'
  BY <1>1 DEF Wrote
<1>5. CASE rows'[t] = Mine(w)
  BY <1>3, <1>4, <1>5 DEF OneWriters
<1>6. CASE \E v \in Writer : Wrote(v, t) /\ v \notin HistoryOf(found[w])
  <2>1. PICK v \in Writer : Wrote(v, t) /\ v \notin HistoryOf(found[w])
    BY <1>6
  <2>2. v # w /\ Wrote(v, t)'
    BY <1>1, <2>1 DEF Wrote
  <2>3. w \notin HistoryOf(found[v])
    BY <1>1 DEF IdentityInv, HistoryIsPast
  <2>4. HistoryOf(found[v])' = HistoryOf(found[v]) /\ HistoryOf(found[w])' = HistoryOf(found[w])
    BY DEF HistoryOf
  <2> QED
    BY <1>4, <2>1, <2>2, <2>3, <2>4 DEF Overlapped
<1>7. CASE \A v \in Writer : Wrote(v, t) => v \in HistoryOf(found[w])
  <2>1. found[w] = rows[t]
    BY <1>1, <1>7 DEF IdentityInv, ReadersAreCurrent
  <2>2. CASE found[w] = NoRow
    BY <1>1, <1>2, <1>5, <2>2 DEF CommitRow
  <2>3. CASE found[w] # NoRow
    <3>1. rows'[t] = MergedRow(found[w], Mine(w), found[w]) /\ found[w] \in Assignment
      BY <1>1, <2>1, <2>3 DEF CommitRow
    <3>2. rows'[t] = Mine(w)
      BY <1>2, <3>1, MergedRowAlone
    <3> QED
      BY <1>5, <3>2
  <2> QED
    BY <2>2, <2>3
<1> QED
  BY <1>6, <1>7

LEMMA CommitRowIdentity ==
  ASSUME AssignmentInv, IdentityInv, NEW w \in Writer, CommitRow(w, Mine(w))
  PROVE  IdentityInv'
<1> DEFINE t == request[w].track
<1> USE DEF AssignmentInv, AssignmentTypeOK
<1>1. /\ stage[w] = "read" /\ UNCHANGED <<request, found>> /\ t \in Track
  BY DEF CommitRow, ReadersKnow, Request
<1>2. CASE stage' = [stage EXCEPT ![w] = "failed"] /\ rows' = rows
  BY <1>1, <1>2, GivingUpIdentity
<1>3. CASE stage' = [stage EXCEPT ![w] = "done"]
  <2>1. \A u \in Track : u # t => rows'[u] = rows[u]
    BY <1>1, <1>3 DEF CommitRow
  <2>2. /\ \A v \in Writer : stage[v] = "done" => stage'[v] = "done"
        /\ \A v \in Writer : stage'[v] = "read" => stage[v] = "read"
        /\ stage'[w] = "done"
    BY <1>1, <1>3
  <2>3. \A v \in Writer, u \in Track : u # t => (Wrote(v, u)' <=> Wrote(v, u))
    BY <1>1, <1>3 DEF Wrote
  <2>4. \A v \in Writer : HistoryOf(found[v])' = HistoryOf(found[v])
    BY <1>1 DEF HistoryOf
  <2>5. HistoryIsPast'
    <3>1. \A v \in Writer : HistoryOf(found[v]) \subseteq Writer
      BY DEF HistoryOf, Assignment
    <3> QED
      BY <2>2, <2>4, <3>1 DEF IdentityInv, HistoryIsPast
  <2>6. ReadersAreCurrent'
    <3> SUFFICES ASSUME NEW v \in Writer, stage'[v] = "read",
                        \A u \in Writer :
                          Wrote(u, request[v].track)' => u \in HistoryOf(found[v])'
                 PROVE  found[v] = rows'[request[v].track]
      BY <1>1 DEF ReadersAreCurrent
    <3>1. stage[v] = "read" /\ request[v].track \in Track
      BY <2>2 DEF ReadersKnow, Request
    <3>2. request[v].track # t
      <4>1. w \notin HistoryOf(found[v])
        BY <1>1 DEF IdentityInv, HistoryIsPast
      <4>2. request[v].track = t => Wrote(w, request[v].track)'
        BY <1>1, <2>2 DEF Wrote
      <4> QED
        BY <2>4, <4>1, <4>2
    <3>3. \A u \in Writer : Wrote(u, request[v].track) => u \in HistoryOf(found[v])
      BY <1>1, <2>3, <2>4, <3>1, <3>2
    <3>4. found[v] = rows[request[v].track]
      BY <3>1, <3>3 DEF IdentityInv, ReadersAreCurrent
    <3> QED
      BY <2>1, <3>1, <3>2, <3>4
  <2>7. ASSUME NEW u \in Track, rows'[u] # NoRow PROVE OneWriters(u)' \/ Overlapped(u)'
    <3>1. CASE u = t
      BY <1>1, <1>3, <3>1, CommittedIsOneWriters
    <3>2. CASE u # t
      BY <1>1, <2>1, <2>3, <2>7, <3>2, TrackUntouched DEF IdentityInv
    <3> QED
      BY <3>1, <3>2
  <2> QED
    BY <2>5, <2>6, <2>7 DEF IdentityInv
<1> QED
  BY <1>2, <1>3 DEF CommitRow

LEMMA IdentityStep ==
  ASSUME AssignmentInv, IdentityInv, [AssignmentNext]_assignmentVars
  PROVE  IdentityInv'
<1>1. ASSUME NEW w \in Writer, ReadRow(w) PROVE IdentityInv'
  BY <1>1, ReadRowIdentity
<1>2. ASSUME NEW w \in Writer, DatabaseFails(w) PROVE IdentityInv'
  BY <1>2, GivingUpIdentity DEF DatabaseFails
<1>3. ASSUME NEW c \in Coach, AssignTrack(c) PROVE IdentityInv'
  BY <1>3, CommitRowIdentity DEF AssignTrack, Mine, Writer
<1>4. ASSUME NEW j \in Identity, PersistAutomaticAssignment(j) PROVE IdentityInv'
  BY <1>4, CommitRowIdentity DEF PersistAutomaticAssignment, Mine, Writer
<1>5. ASSUME UNCHANGED assignmentVars PROVE IdentityInv'
  BY <1>5 DEF assignmentVars, IdentityInv, HistoryIsPast, ReadersAreCurrent, OneWriters,
     Overlapped, Wrote, HistoryOf
<1> QED
  BY <1>1, <1>2, <1>3, <1>4, <1>5 DEF AssignmentNext

-----------------------------------------------------------------------------
(* Reports and grades: types, and what a step says of the rest.            *)

\* What has been read is the file that is about to be written.
ReadsAgree ==
  /\ \A g \in Grader : step[g] \in {"save", "fill grades"} => copy[g] \in SUBSET Grader
  /\ \A r \in Run : step[r] \in {"evidence", "fill evidence"} =>
                      reasoned[r] < Plays /\ copy[r] \in SUBSET (Run \X Play)

\* A grade is saved after every play, and before it is mirrored.
GradesAgree ==
  /\ \A g \in Grader : step[g] \in {"look up", "commit", "completed"} => g \in saved
  /\ \A r \in Run : step[r] \in {"save", "fill grades"} \/ r \in saved => reasoned[r] = Plays

\* A run has a track from its start on, and has done nothing before it.
TargetsAgree ==
  \A r \in Run : IF step[r] = "idle" THEN reasoned[r] = 0 ELSE target[r] \in Track

ReportInv == ReportTypeOK /\ ReadsAgree /\ GradesAgree /\ TargetsAgree

LEMMA ReportInvInit == ReportInit => ReportInv
<1> SUFFICES ASSUME ReportInit PROVE ReportInv
  OBVIOUS
<1> USE ReportAssumption DEF ReportInit
<1>1. {} \in SUBSET (Run \X Play) /\ 0 \in 0 .. Plays /\ 0 \in 0 .. MaxFaults
  OBVIOUS
<1>2. ReportTypeOK
  BY <1>1 DEF ReportTypeOK, Step
<1>3. ReadsAgree /\ GradesAgree /\ TargetsAgree
  BY DEF ReadsAgree, GradesAgree, TargetsAgree, Grader
<1> QED
  BY <1>2, <1>3 DEF ReportInv

LEMMA FilledFile ==
  ASSUME NEW file, NEW records, NEW after \in Filled(file, records)
  PROVE  after = records \/ after = Torn
  BY DEF Filled

LEMMA StartReportStep ==
  ASSUME ReportInv, NEW r \in Run, StartReport(r)
  PROVE  ReportInv'
<1>1. /\ Run \subseteq Grader /\ step[r] = "idle"
      /\ step' = [step EXCEPT ![r] = "reason"]
      /\ \E t \in Track : target' = [target EXCEPT ![r] = t]
      /\ UNCHANGED <<evidence, grades, saved, mirror, link, reasoned, copy, faults>>
  BY DEF StartReport, Goto, fileVars, Grader
<1>2. ReportTypeOK'
  BY <1>1 DEF ReportInv, ReportTypeOK, Step
<1>3. ReadsAgree'
  BY <1>1 DEF ReportInv, ReportTypeOK, ReadsAgree
<1>4. GradesAgree'
  BY <1>1 DEF ReportInv, ReportTypeOK, GradesAgree
<1>5. TargetsAgree'
  BY <1>1 DEF ReportInv, ReportTypeOK, TargetsAgree
<1> QED
  BY <1>2, <1>3, <1>4, <1>5 DEF ReportInv

LEMMA ReasonStep ==
  ASSUME ReportInv, NEW r \in Run, Reason(r)
  PROVE  ReportInv'
<1>1. /\ Run \subseteq Grader /\ step[r] = "reason"
      /\ UNCHANGED <<evidence, grades, saved, mirror, target, link, reasoned, faults>>
  BY DEF Reason, fileVars, Grader
<1>2. reasoned[r] < Plays
  BY DEF Reason
<1>3. \/ step' = [step EXCEPT ![r] = "failed"] /\ copy' = copy
      \/ step' = [step EXCEPT ![r] = "evidence"]
         /\ evidence \in SUBSET (Run \X Play) /\ copy' = [copy EXCEPT ![r] = evidence]
  BY DEF Reason, Load, Goto, ReportInv, ReportTypeOK
<1>4. ReportTypeOK'
  BY <1>1, <1>3 DEF ReportInv, ReportTypeOK, Step
<1>5. ReadsAgree'
  BY <1>1, <1>2, <1>3 DEF ReportInv, ReportTypeOK, ReadsAgree
<1>6. GradesAgree'
  <2>1. \A g \in Grader : g # r => step'[g] = step[g]
    BY <1>3 DEF ReportInv, ReportTypeOK
  <2>2. step'[r] \in {"failed", "evidence"}
    BY <1>1, <1>3 DEF ReportInv, ReportTypeOK
  <2> QED
    BY <1>1, <2>1, <2>2 DEF ReportInv, GradesAgree
<1>7. TargetsAgree'
  BY <1>1, <1>3 DEF ReportInv, ReportTypeOK, TargetsAgree
<1> QED
  BY <1>4, <1>5, <1>6, <1>7 DEF ReportInv

LEMMA FillEvidenceStep ==
  ASSUME ReportInv, NEW r \in Run, FillEvidence(r)
  PROVE  ReportInv'
<1>1. /\ Run \subseteq Grader /\ step[r] = "fill evidence"
      /\ step' = [step EXCEPT ![r] = "reason"]
      /\ reasoned' = [reasoned EXCEPT ![r] = @ + 1]
      /\ copy' = [copy EXCEPT ![r] = {}]
      /\ UNCHANGED <<grades, saved, mirror, target, link, faults>>
  BY DEF FillEvidence, FillEvidenceWith, Goto, Grader
<1>2. /\ reasoned[r] < Plays /\ copy[r] \in SUBSET (Run \X Play)
      /\ reasoned[r] \in 0 .. Plays
  BY <1>1 DEF ReportInv, ReportTypeOK, ReadsAgree
<1>3. reasoned[r] + 1 \in 1 .. Plays /\ reasoned[r] + 1 \in 0 .. Plays /\ reasoned[r] # Plays
  BY <1>2, ReportAssumption
<1>4. r \notin saved
  BY <1>3 DEF ReportInv, GradesAgree
<1>5. evidence' \in {Torn} \cup SUBSET (Run \X Play)
  <2> DEFINE records == copy[r] \cup {<<r, reasoned[r] + 1>>}
  <2>1. records \in SUBSET (Run \X Play)
    BY <1>2, <1>3 DEF Play
  <2>2. evidence' \in Filled(evidence, records)
    BY DEF FillEvidence, FillEvidenceWith
  <2> HIDE DEF records
  <2> QED
    BY <2>1, <2>2, FilledFile
<1>6. {} \in SUBSET (Run \X Play)
  OBVIOUS
<1>7. copy' \in [Grader -> (SUBSET (Run \X Play)) \cup SUBSET Grader]
  BY <1>1, <1>6 DEF ReportInv, ReportTypeOK
<1>8. ReportTypeOK'
  BY <1>1, <1>3, <1>5, <1>7 DEF ReportInv, ReportTypeOK, Step
<1>9. ReadsAgree'
  BY <1>1 DEF ReportInv, ReportTypeOK, ReadsAgree
<1>10. GradesAgree'
  BY <1>1, <1>4 DEF ReportInv, ReportTypeOK, GradesAgree
<1>11. TargetsAgree'
  BY <1>1 DEF ReportInv, ReportTypeOK, TargetsAgree
<1> QED
  BY <1>8, <1>9, <1>10, <1>11 DEF ReportInv

LEMMA LoadGradesStep ==
  ASSUME ReportInv, NEW g \in Grader, LoadGrades(g)
  PROVE  ReportInv'
<1>1. /\ Run \subseteq Grader
      /\ g \in Run => step[g] = "reason" /\ reasoned[g] = Plays
      /\ g \notin Run => step[g] = "idle"
      /\ UNCHANGED <<evidence, grades, saved, mirror, target, reasoned, faults>>
  BY DEF LoadGrades, ReadyToGrade, fileVars, Grader
<1>2. \/ step' = [step EXCEPT ![g] = "failed"] /\ copy' = copy
      \/ step' = [step EXCEPT ![g] = "save"]
         /\ grades \in SUBSET Grader /\ copy' = [copy EXCEPT ![g] = grades]
  BY DEF LoadGrades, Load, Goto, ReportInv, ReportTypeOK
<1>3. link' \in [Grader -> Athlete \cup {NoAthlete}]
  BY DEF LoadGrades, ReportInv, ReportTypeOK
<1>4. ReportTypeOK'
  <2>1. step' \in [Grader -> Step]
    BY <1>2 DEF ReportInv, ReportTypeOK, Step
  <2>2. copy' \in [Grader -> (SUBSET (Run \X Play)) \cup SUBSET Grader]
    <3>1. CASE copy' = copy
      BY <3>1 DEF ReportInv, ReportTypeOK
    <3>2. CASE grades \in SUBSET Grader /\ copy' = [copy EXCEPT ![g] = grades]
      <4>1. copy \in [Grader -> (SUBSET (Run \X Play)) \cup SUBSET Grader]
        BY DEF ReportInv, ReportTypeOK
      <4>2. grades \in (SUBSET (Run \X Play)) \cup SUBSET Grader
        BY <3>2
      <4> QED
        BY <3>2, <4>1, <4>2
    <3> QED
      BY <1>2, <3>1, <3>2
  <2> QED
    BY <1>1, <1>3, <2>1, <2>2 DEF ReportInv, ReportTypeOK
<1>5. ReadsAgree'
  <2>1. \A o \in Grader : o # g => step'[o] = step[o] /\ copy'[o] = copy[o]
    BY <1>2 DEF ReportInv, ReportTypeOK
  <2>2. \/ step'[g] = "failed"
        \/ step'[g] = "save" /\ copy'[g] \in SUBSET Grader
    <3>1. CASE step' = [step EXCEPT ![g] = "failed"]
      BY <3>1 DEF ReportInv, ReportTypeOK
    <3>2. CASE /\ step' = [step EXCEPT ![g] = "save"]
               /\ grades \in SUBSET Grader /\ copy' = [copy EXCEPT ![g] = grades]
      <4>1. DOMAIN copy = Grader /\ DOMAIN step = Grader
        BY DEF ReportInv, ReportTypeOK
      <4>2. copy'[g] = grades /\ step'[g] = "save"
        BY <3>2, <4>1
      <4> QED
        BY <3>2, <4>2
    <3> QED
      BY <1>2, <3>1, <3>2
  <2> QED
    BY <1>1, <2>1, <2>2 DEF ReportInv, ReadsAgree
<1>6. GradesAgree'
  BY <1>1, <1>2 DEF ReportInv, ReportTypeOK, GradesAgree
<1>7. TargetsAgree'
  BY <1>1, <1>2 DEF ReportInv, ReportTypeOK, TargetsAgree
<1> QED
  BY <1>4, <1>5, <1>6, <1>7 DEF ReportInv

LEMMA FillGradesStep ==
  ASSUME ReportInv, NEW g \in Grader, FillGrades(g)
  PROVE  ReportInv'
<1>1. /\ Run \subseteq Grader /\ step[g] = "fill grades"
      /\ step' = [step EXCEPT ![g] = "look up"]
      /\ saved' = saved \cup {g}
      /\ copy' = [copy EXCEPT ![g] = {}]
      /\ UNCHANGED <<evidence, mirror, target, link, reasoned, faults>>
  BY DEF FillGrades, Goto, Grader
<1>2. /\ copy[g] \in SUBSET Grader
      /\ g \in Run => reasoned[g] = Plays
  BY <1>1 DEF ReportInv, ReadsAgree, GradesAgree
<1>3. grades' \in {Torn} \cup SUBSET Grader
  <2> DEFINE records == copy[g] \cup {g}
  <2>1. records \in SUBSET Grader
    BY <1>2
  <2>2. grades' \in Filled(grades, records)
    BY DEF FillGrades
  <2> HIDE DEF records
  <2> QED
    BY <2>1, <2>2, FilledFile
<1>4. ReportTypeOK'
  BY <1>1, <1>3 DEF ReportInv, ReportTypeOK, Step
<1>5. ReadsAgree'
  BY <1>1 DEF ReportInv, ReportTypeOK, ReadsAgree
<1>6. GradesAgree'
  BY <1>1, <1>2 DEF ReportInv, ReportTypeOK, GradesAgree
<1>7. TargetsAgree'
  BY <1>1 DEF ReportInv, ReportTypeOK, TargetsAgree
<1> QED
  BY <1>4, <1>5, <1>6, <1>7 DEF ReportInv

\* The steps that only move on, to "next", keeping every record.
MovesOn(g, next) ==
  /\ step' = [step EXCEPT ![g] = next]
  /\ step[g] # "idle"
  /\ \/ next \in {"failed", "crashed"}
     \/ next = "fill evidence" /\ step[g] = "evidence"
     \/ next = "fill grades" /\ step[g] = "save"
     \/ next = "commit" /\ step[g] = "look up"
     \/ next = "completed" /\ step[g] = "commit"
  /\ evidence' \in {evidence, Torn} /\ grades' \in {grades, Torn}
  /\ copy' \in {copy, [copy EXCEPT ![g] = {}]}
  /\ UNCHANGED <<saved, target, reasoned>>

LEMMA MovingStep ==
  ASSUME ReportInv, NEW g \in Grader, NEW next \in Step, MovesOn(g, next),
         mirror' \subseteq GradeRow, link' \in [Grader -> Athlete \cup {NoAthlete}],
         faults' \in 0 .. MaxFaults
  PROVE  ReportInv'
<1>1. /\ Run \subseteq Grader /\ step[g] # "idle"
      /\ UNCHANGED <<saved, target, reasoned>>
  BY DEF MovesOn, Grader
<1>2. /\ step' \in [Grader -> Step] /\ step'[g] = next
      /\ \A o \in Grader : o # g => step'[o] = step[o]
  BY DEF MovesOn, ReportInv, ReportTypeOK
<1>3. /\ copy' \in [Grader -> (SUBSET (Run \X Play)) \cup SUBSET Grader]
      /\ \A o \in Grader : copy'[o] \in {copy[o], {}}
  <2>1. CASE copy' = copy
    BY <2>1 DEF ReportInv, ReportTypeOK
  <2>2. CASE copy' = [copy EXCEPT ![g] = {}]
    <3>1. {} \in (SUBSET (Run \X Play)) \cup SUBSET Grader
      OBVIOUS
    <3> QED
      BY <2>2, <3>1 DEF ReportInv, ReportTypeOK
  <2> QED
    BY <2>1, <2>2 DEF MovesOn
<1>4. ReportTypeOK'
  <2>1. evidence' \in {Torn} \cup SUBSET (Run \X Play) /\ grades' \in {Torn} \cup SUBSET Grader
    BY DEF MovesOn, ReportInv, ReportTypeOK
  <2> QED
    BY <1>1, <1>2, <1>3, <2>1 DEF ReportInv, ReportTypeOK
<1>5. \/ next \in {"failed", "crashed"}
      \/ next = "fill evidence" /\ step[g] = "evidence"
      \/ next = "fill grades" /\ step[g] = "save"
      \/ next = "commit" /\ step[g] = "look up"
      \/ next = "completed" /\ step[g] = "commit"
  BY DEF MovesOn
<1>6. ReadsAgree'
  BY <1>1, <1>2, <1>3, <1>5 DEF ReportInv, ReadsAgree
<1>7. GradesAgree'
  BY <1>1, <1>2, <1>5 DEF ReportInv, GradesAgree
<1>8. TargetsAgree'
  <2>1. \A r \in Run : r # g => step'[r] = step[r]
    BY <1>1, <1>2
  <2>2. next # "idle"
    BY <1>5
  <2> QED
    BY <1>1, <1>2, <2>1, <2>2 DEF ReportInv, TargetsAgree
<1> QED
  BY <1>4, <1>6, <1>7, <1>8 DEF ReportInv

LEMMA FaultIsCounted ==
  ASSUME ReportInv, Fault
  PROVE  faults' \in 0 .. MaxFaults
<1>1. faults \in 0 .. MaxFaults /\ faults < MaxFaults /\ faults' = faults + 1
  BY DEF ReportInv, ReportTypeOK, Fault
<1> QED
  BY <1>1, ReportAssumption

LEMMA ReportStep ==
  ASSUME AssignmentTypeOK, ReportInv, ReportNext
  PROVE  ReportInv'
<1> USE DEF Goto, fileVars
<1>0. /\ faults \in 0 .. MaxFaults /\ mirror \subseteq GradeRow
      /\ link \in [Grader -> Athlete \cup {NoAthlete}] /\ Run \subseteq Grader
      /\ {"fill evidence", "fill grades", "commit", "completed", "failed", "crashed"}
           \subseteq Step
  BY DEF ReportInv, ReportTypeOK, Grader, Step
<1>1. ASSUME NEW r \in Run, StartReport(r) PROVE ReportInv'
  BY <1>1, StartReportStep
<1>2. ASSUME NEW r \in Run, Reason(r) PROVE ReportInv'
  BY <1>2, ReasonStep
<1>3. ASSUME NEW r \in Run, TruncateEvidence(r) PROVE ReportInv'
  <2>1. MovesOn(r, "fill evidence")
    BY <1>3 DEF TruncateEvidence, MovesOn
  <2> QED
    BY <1>0, <1>3, <2>1, MovingStep DEF TruncateEvidence
<1>4. ASSUME NEW r \in Run, FillEvidence(r) PROVE ReportInv'
  BY <1>4, FillEvidenceStep
<1>5. ASSUME NEW r \in Run, ReportRaises(r) PROVE ReportInv'
  <2>1. MovesOn(r, "failed") /\ Fault /\ UNCHANGED <<mirror, link>>
    BY <1>5 DEF ReportRaises, MovesOn
  <2> QED
    BY <1>0, <2>1, FaultIsCounted, MovingStep
<1>6. ASSUME NEW g \in Grader, LoadGrades(g) PROVE ReportInv'
  BY <1>6, LoadGradesStep
<1>7. ASSUME NEW g \in Grader, TruncateGrades(g) PROVE ReportInv'
  <2>1. MovesOn(g, "fill grades")
    BY <1>7 DEF TruncateGrades, MovesOn
  <2> QED
    BY <1>0, <1>7, <2>1, MovingStep DEF TruncateGrades
<1>8. ASSUME NEW g \in Grader, FillGrades(g) PROVE ReportInv'
  BY <1>8, FillGradesStep
<1>9. ASSUME NEW g \in Grader, LookUpAthlete(g) PROVE ReportInv'
  <2>1. Resolved(g) \in Athlete \cup {NoAthlete}
    <3>1. CASE g \in WebGrade
      BY <3>1, <1>0 DEF Resolved
    <3>2. CASE g \in Run /\ g \notin WebGrade
      <4>1. target[g] \in Track
        BY <1>9, <3>2 DEF LookUpAthlete, ReportInv, TargetsAgree
      <4>2. rows[target[g]] \in Assignment \cup {NoRow}
        BY <4>1 DEF AssignmentTypeOK
      <4> QED
        BY <3>2, <4>2 DEF Resolved, AthleteOf, Assignment
    <3> QED
      BY <3>1, <3>2 DEF Grader
  <2>2. link' \in [Grader -> Athlete \cup {NoAthlete}]
    BY <1>9, <1>0, <2>1 DEF LookUpAthlete
  <2>3. MovesOn(g, "commit")
    BY <1>9 DEF LookUpAthlete, MovesOn
  <2> QED
    BY <1>0, <1>9, <2>2, <2>3, MovingStep DEF LookUpAthlete
<1>10. ASSUME NEW g \in Grader, CommitGrade(g) PROVE ReportInv'
  <2>1. mirror' \subseteq GradeRow
    <3>1. link[g] \in Athlete \cup {NoAthlete}
      BY <1>0
    <3>2. [by |-> g, athlete |-> link[g]] \in GradeRow
      BY <3>1 DEF GradeRow
    <3> QED
      BY <1>10, <1>0, <3>2 DEF CommitGrade, CommitGradeFrom
  <2>2. MovesOn(g, "completed") /\ UNCHANGED <<link, faults>>
    BY <1>10 DEF CommitGrade, CommitGradeFrom, MovesOn
  <2> QED
    BY <1>0, <2>1, <2>2, MovingStep
<1>11. ASSUME NEW g \in Grader, GradeHiccup(g) PROVE ReportInv'
  <2>1. MovesOn(g, "failed") /\ Fault /\ UNCHANGED <<mirror, link>>
    BY <1>11 DEF GradeHiccup, MovesOn
  <2> QED
    BY <1>0, <2>1, FaultIsCounted, MovingStep
<1>12. ASSUME NEW g \in Grader, ReportCrash(g) PROVE ReportInv'
  <2>1. MovesOn(g, "crashed") /\ Fault /\ UNCHANGED <<mirror, link>>
    BY <1>12 DEF ReportCrash, Over, MovesOn
  <2> QED
    BY <1>0, <2>1, FaultIsCounted, MovingStep
<1> QED
  BY <1>1, <1>2, <1>3, <1>4, <1>5, <1>6, <1>7, <1>8, <1>9, <1>10, <1>11, <1>12 DEF ReportNext
-----------------------------------------------------------------------------
(* The links of the mirrored reports.                                      *)

ByCoach(t, athlete) ==
  \E c \in Coach : Wrote(c, t) /\ request[c].athlete = athlete

LinkInv ==
  /\ \A row \in mirror : row.by \in Grader /\ step[row.by] = "completed"
  /\ \A r \in Run : step[r] = "idle" => link[r] = NoAthlete
  /\ \A r \in Run : link[r] # NoAthlete => ByCoach(target[r], link[r])
  /\ \A row \in mirror : row.by \in Run /\ row.athlete # NoAthlete =>
       ByCoach(target[row.by], row.athlete)

LEMMA LinkInvInit == ReportInit => LinkInv
  BY DEF ReportInit, LinkInv, Grader

LEMMA WriterStays ==
  ASSUME AssignmentTypeOK, [AssignmentNext]_assignmentVars, NEW w \in Writer,
         stage[w] = "done"
  PROVE  stage'[w] = "done" /\ request'[w] = request[w]
  BY DEF AssignmentTypeOK, AssignmentNext, assignmentVars, ReadRow, CommitRow,
         DatabaseFails, AssignTrack, PersistAutomaticAssignment

LEMMA LinkInvAssignmentStep ==
  ASSUME AssignmentTypeOK, LinkInv, [AssignmentNext]_assignmentVars, UNCHANGED reportVars
  PROVE  LinkInv'
<1>1. ASSUME NEW t, NEW athlete, ByCoach(t, athlete) PROVE ByCoach(t, athlete)'
  <2>1. PICK c \in Coach : Wrote(c, t) /\ request[c].athlete = athlete
    BY <1>1 DEF ByCoach
  <2>2. c \in Writer /\ stage[c] = "done" /\ request[c].track = t
    BY <2>1 DEF Wrote, Writer
  <2>3. stage'[c] = "done" /\ request'[c] = request[c]
    BY <2>2, WriterStays
  <2> QED
    BY <2>1, <2>2, <2>3 DEF ByCoach, Wrote
<1>2. /\ mirror' = mirror /\ step' = step /\ link' = link /\ target' = target
  BY DEF reportVars
<1>3. ASSUME NEW r \in Run, link'[r] # NoAthlete PROVE ByCoach(target[r], link[r])'
  <2>1. ByCoach(target[r], link[r]) /\ target'[r] = target[r] /\ link'[r] = link[r]
    BY <1>2, <1>3 DEF LinkInv
  <2> QED
    BY <1>1, <2>1 DEF ByCoach
<1>4. ASSUME NEW row \in mirror', row.by \in Run, row.athlete # NoAthlete
      PROVE  ByCoach(target[row.by], row.athlete)'
  <2>1. ByCoach(target[row.by], row.athlete) /\ target'[row.by] = target[row.by]
    BY <1>2, <1>4 DEF LinkInv
  <2> QED
    BY <1>1, <2>1 DEF ByCoach
<1> QED
  BY <1>2, <1>3, <1>4 DEF LinkInv

\* A step of g that leaves the links and targets of the runs alone.
LEMMA LinkInvQuietStep ==
  ASSUME ReportTypeOK, LinkInv, NEW g \in Grader, NEW next \in Step \ {"idle"},
         step[g] # "completed", step' = [step EXCEPT ![g] = next],
         \A r \in Run : link'[r] = link[r],
         UNCHANGED <<target, mirror, stage, request>>
  PROVE  LinkInv'
<1>1. /\ Run \subseteq Grader /\ step'[g] = next
      /\ \A o \in Grader : o # g => step'[o] = step[o]
  BY DEF ReportTypeOK, Grader
<1>2. \A t, athlete : ByCoach(t, athlete)' <=> ByCoach(t, athlete)
  BY DEF ByCoach, Wrote
<1>3. \A row \in mirror' : row.by \in Grader /\ step'[row.by] = "completed"
  BY <1>1 DEF LinkInv
<1>4. \A r \in Run : step'[r] = "idle" => link'[r] = NoAthlete
  BY <1>1 DEF LinkInv
<1>5. \A r \in Run : link'[r] # NoAthlete => ByCoach(target[r], link[r])'
  BY DEF LinkInv, ByCoach, Wrote
<1>6. \A row \in mirror' : row.by \in Run /\ row.athlete # NoAthlete =>
        ByCoach(target[row.by], row.athlete)'
  BY DEF LinkInv, ByCoach, Wrote
<1> QED
  BY <1>3, <1>4, <1>5, <1>6 DEF LinkInv

LEMMA LinkInvReportStep ==
  ASSUME AssignmentInv, ReportInv, LinkInv, ReportNext, UNCHANGED assignmentVars
  PROVE  LinkInv'
<1> USE DEF Goto, fileVars
<1>0. /\ stage' = stage /\ request' = request /\ ReportTypeOK /\ Run \subseteq Grader
      /\ Step \ {"idle"} = {"reason", "evidence", "fill evidence", "grade", "save",
           "fill grades", "look up", "commit", "completed", "failed", "crashed"}
      /\ link \in [Grader -> Athlete \cup {NoAthlete}]
  BY DEF assignmentVars, Step, ReportInv, ReportTypeOK, Grader
<1>1. ASSUME NEW r \in Run, StartReport(r) PROVE LinkInv'
  <2>1. /\ step[r] = "idle" /\ link[r] = NoAthlete
        /\ step' = [step EXCEPT ![r] = "reason"] /\ link' = link /\ mirror' = mirror
        /\ \E t \in Track : target' = [target EXCEPT ![r] = t]
    BY <1>1 DEF StartReport, LinkInv
  <2>2. \A row \in mirror : row.by # r
    BY <2>1 DEF LinkInv
  <2>3. \A o \in Run : o # r => target'[o] = target[o] /\ step'[o] = step[o]
    BY <2>1, <1>0 DEF ReportTypeOK
  <2>4. \A row \in mirror' : row.by \in Grader /\ step'[row.by] = "completed"
    BY <2>1, <2>2, <1>0 DEF ReportTypeOK, LinkInv
  <2>5. \A o \in Run : step'[o] = "idle" => link'[o] = NoAthlete
    BY <2>1, <2>3 DEF LinkInv
  <2>6. ASSUME NEW o \in Run, link'[o] # NoAthlete PROVE ByCoach(target[o], link[o])'
    <3>1. target'[o] = target[o] /\ link'[o] = link[o] /\ ByCoach(target[o], link[o])
      BY <2>1, <2>3, <2>6 DEF LinkInv
    <3> QED
      BY <3>1, <1>0 DEF ByCoach, Wrote
  <2>7. ASSUME NEW row \in mirror', row.by \in Run, row.athlete # NoAthlete
        PROVE  ByCoach(target[row.by], row.athlete)'
    <3>1. target'[row.by] = target[row.by] /\ ByCoach(target[row.by], row.athlete)
      BY <2>1, <2>2, <2>3, <2>7 DEF LinkInv
    <3> QED
      BY <3>1, <1>0 DEF ByCoach, Wrote
  <2> QED
    BY <2>4, <2>5, <2>6, <2>7 DEF LinkInv
<1>2. ASSUME NEW r \in Run, Reason(r) PROVE LinkInv'
  <2>1. step[r] = "reason" /\ UNCHANGED <<target, mirror, link>>
    BY <1>2 DEF Reason
  <2>2. \E next \in {"failed", "evidence"} : step' = [step EXCEPT ![r] = next]
    BY <1>2 DEF Reason, Load
  <2> QED
    BY <1>0, <2>1, <2>2, LinkInvQuietStep
<1>3. ASSUME NEW r \in Run, TruncateEvidence(r) PROVE LinkInv'
  BY <1>0, <1>3, LinkInvQuietStep DEF TruncateEvidence
<1>4. ASSUME NEW r \in Run, FillEvidence(r) PROVE LinkInv'
  BY <1>0, <1>4, LinkInvQuietStep DEF FillEvidence, FillEvidenceWith
<1>5. ASSUME NEW r \in Run, ReportRaises(r) PROVE LinkInv'
  BY <1>0, <1>5, LinkInvQuietStep DEF ReportRaises
<1>6. ASSUME NEW g \in Grader, LoadGrades(g) PROVE LinkInv'
  <2>1. step[g] # "completed" /\ UNCHANGED <<target, mirror>>
    BY <1>6 DEF LoadGrades, ReadyToGrade
  <2>2. \A r \in Run : link'[r] = link[r]
    BY <1>6, <1>0 DEF LoadGrades
  <2>3. \E next \in {"failed", "save"} : step' = [step EXCEPT ![g] = next]
    BY <1>6 DEF LoadGrades, Load
  <2> QED
    BY <1>0, <2>1, <2>2, <2>3, LinkInvQuietStep
<1>7. ASSUME NEW g \in Grader, TruncateGrades(g) PROVE LinkInv'
  BY <1>0, <1>7, LinkInvQuietStep DEF TruncateGrades
<1>8. ASSUME NEW g \in Grader, FillGrades(g) PROVE LinkInv'
  BY <1>0, <1>8, LinkInvQuietStep DEF FillGrades
<1>9. ASSUME NEW g \in Grader, LookUpAthlete(g) PROVE LinkInv'
  <2>1. /\ step[g] = "look up" /\ step' = [step EXCEPT ![g] = "commit"]
        /\ link' = [link EXCEPT ![g] = Resolved(g)] /\ UNCHANGED <<mirror, target>>
    BY <1>9 DEF LookUpAthlete
  <2>2. CASE g \notin Run
    <3>1. \A r \in Run : link'[r] = link[r]
      BY <2>1, <2>2, <1>0
    <3> QED
      BY <1>0, <2>1, <3>1, LinkInvQuietStep
  <2>3. CASE g \in Run
    <3>1. target[g] \in Track /\ Resolved(g) = AthleteOf(rows[target[g]])
      BY <2>1, <2>3, ReportAssumption DEF ReportInv, TargetsAgree, Resolved
    <3>2. AthleteOf(rows[target[g]]) # NoAthlete =>
            ByCoach(target[g], AthleteOf(rows[target[g]]))
      BY <3>1 DEF AssignmentInv, Accounted, AthleteOf, ByCoach
    <3>3. /\ link'[g] = Resolved(g) /\ step'[g] = "commit"
          /\ \A r \in Grader : r # g => link'[r] = link[r] /\ step'[r] = step[r]
      BY <2>1, <1>0 DEF ReportTypeOK
    <3>4. \A row \in mirror' : row.by \in Grader /\ step'[row.by] = "completed"
      BY <2>1, <3>3 DEF LinkInv
    <3>5. \A o \in Run : step'[o] = "idle" => link'[o] = NoAthlete
      BY <1>0, <3>3 DEF LinkInv
    <3>6. ASSUME NEW o \in Run, link'[o] # NoAthlete PROVE ByCoach(target[o], link[o])'
      <4>1. target'[o] = target[o] /\ ByCoach(target[o], link'[o])
        BY <1>0, <2>1, <3>1, <3>2, <3>3, <3>6 DEF LinkInv
      <4> QED
        BY <4>1, <1>0 DEF ByCoach, Wrote
    <3>7. \A row \in mirror' : row.by \in Run /\ row.athlete # NoAthlete =>
            ByCoach(target[row.by], row.athlete)'
      BY <1>0, <2>1 DEF LinkInv, ByCoach, Wrote
    <3> QED
      BY <3>4, <3>5, <3>6, <3>7 DEF LinkInv
  <2> QED
    BY <2>2, <2>3
<1>10. ASSUME NEW g \in Grader, CommitGrade(g) PROVE LinkInv'
  <2>1. /\ step[g] = "commit" /\ step' = [step EXCEPT ![g] = "completed"]
        /\ mirror' = mirror \cup {[by |-> g, athlete |-> link[g]]}
        /\ UNCHANGED <<target, link>>
    BY <1>10 DEF CommitGrade, CommitGradeFrom
  <2>2. /\ step'[g] = "completed"
        /\ \A r \in Grader : r # g => step'[r] = step[r]
    BY <2>1, <1>0 DEF ReportTypeOK
  <2>3. \A row \in mirror' : row.by \in Grader /\ step'[row.by] = "completed"
    BY <2>1, <2>2 DEF LinkInv
  <2>4. \A o \in Run : step'[o] = "idle" => link'[o] = NoAthlete
    BY <1>0, <2>1, <2>2 DEF LinkInv
  <2>5. ASSUME NEW o \in Run, link'[o] # NoAthlete PROVE ByCoach(target[o], link[o])'
    <3>1. target'[o] = target[o] /\ link'[o] = link[o] /\ ByCoach(target[o], link[o])
      BY <2>1, <2>5 DEF LinkInv
    <3> QED
      BY <3>1, <1>0 DEF ByCoach, Wrote
  <2>6. \A row \in mirror' : row.by \in Run /\ row.athlete # NoAthlete =>
          ByCoach(target[row.by], row.athlete)
    BY <2>1 DEF LinkInv
  <2>7. \A row \in mirror' : row.by \in Run /\ row.athlete # NoAthlete =>
          ByCoach(target[row.by], row.athlete)'
    BY <1>0, <2>1, <2>6 DEF ByCoach, Wrote
  <2> QED
    BY <2>3, <2>4, <2>5, <2>7 DEF LinkInv
<1>11. ASSUME NEW g \in Grader, GradeHiccup(g) PROVE LinkInv'
  BY <1>0, <1>11, LinkInvQuietStep DEF GradeHiccup
<1>12. ASSUME NEW g \in Grader, ReportCrash(g) PROVE LinkInv'
  BY <1>0, <1>12, LinkInvQuietStep DEF ReportCrash, Over
<1> QED
  BY <1>1, <1>2, <1>3, <1>4, <1>5, <1>6, <1>7, <1>8, <1>9, <1>10, <1>11, <1>12 DEF ReportNext

-----------------------------------------------------------------------------
(* The evidence behind a saved report, one run executed at a time.         *)

AllPlays(r) == {r} \X Play

Done(r) == {r} \X (1 .. reasoned[r])

\* What is kept of the runs: all plays of the saved ones, the plays done by
\* the one that is running.
Keeps(file) ==
  /\ \A s \in saved \cap Run : AllPlays(s) \subseteq file
  /\ \A r \in Running : Done(r) \subseteq file

EvidenceInv ==
  Workers = 1 =>
    /\ IsFiniteSet(Running)
    /\ \A r, s \in Running : r = s
    /\ evidence = Torn \/ Keeps(evidence)
    /\ \A r \in Run : step[r] \in {"evidence", "fill evidence"} => Keeps(copy[r])

LEMMA EvidenceInvInit == ReportInit => EvidenceInv
<1> SUFFICES ASSUME ReportInit PROVE EvidenceInv
  OBVIOUS
<1>1. Running = {} /\ evidence = {} /\ saved = {}
  BY DEF ReportInit, Running, Over, Grader
<1>2. \A r \in Run : step[r] = "idle"
  BY DEF ReportInit, Grader
<1> QED
  BY <1>1, <1>2, FS_EmptySet DEF EvidenceInv, Keeps

LEMMA EvidenceInvAssignmentStep ==
  ASSUME EvidenceInv, UNCHANGED reportVars
  PROVE  EvidenceInv'
  BY DEF EvidenceInv, Keeps, AllPlays, Done, Running, Over, reportVars

\* A step of g after which nobody runs who did not before, nothing more is
\* saved, and no file is read or filled.
LEMMA EvidenceInvQuietStep ==
  ASSUME ReportTypeOK, EvidenceInv, NEW g \in Grader, NEW next \in Step \ {"idle", "evidence"},
         step' = [step EXCEPT ![g] = next],
         g \in Run => step[g] \notin Over,
         next = "fill evidence" => step[g] = "evidence",
         saved' \cap Run = saved \cap Run, reasoned' = reasoned, evidence' \in {evidence, Torn},
         \A r \in Run : step'[r] \in {"evidence", "fill evidence"} => copy'[r] = copy[r]
  PROVE  EvidenceInv'
<1> SUFFICES ASSUME Workers = 1 PROVE EvidenceInv'
  BY DEF EvidenceInv
<1>1. Running' \subseteq Running
  BY DEF ReportTypeOK, Running, Over, Grader
<1>2. \A file : Keeps(file) => Keeps(file)'
  <2> TAKE file
  <2> QED
    BY <1>1 DEF Keeps, AllPlays, Done
<1>3. IsFiniteSet(Running') /\ \A r, s \in Running' : r = s
  BY <1>1, FS_Subset DEF EvidenceInv
<1>4. \A r \in Run : step'[r] \in {"evidence", "fill evidence"} =>
        copy'[r] = copy[r] /\ step[r] \in {"evidence", "fill evidence"}
  BY DEF ReportTypeOK, Grader
<1>5. evidence' = Torn \/ Keeps(evidence)'
  BY <1>1 DEF EvidenceInv, Keeps, AllPlays, Done
<1>6. \A r \in Run : step'[r] \in {"evidence", "fill evidence"} => Keeps(copy[r])'
  BY <1>1, <1>4 DEF EvidenceInv, Keeps, AllPlays, Done
<1> QED
  BY <1>3, <1>5, <1>6 DEF EvidenceInv


LEMMA EvidenceInvStart ==
  ASSUME ReportInv, EvidenceInv, NEW r \in Run, StartReport(r)
  PROVE  EvidenceInv'
<1> SUFFICES ASSUME Workers = 1 PROVE EvidenceInv'
  BY DEF EvidenceInv
<1>1. /\ step[r] = "idle" /\ Cardinality(Running) < Workers
      /\ step' = [step EXCEPT ![r] = "reason"]
      /\ UNCHANGED <<evidence, saved, reasoned, copy>>
  BY DEF StartReport, Goto, fileVars
<1>2. Running = {}
  <2>1. IsFiniteSet(Running) /\ Cardinality(Running) \in Nat
    BY FS_CardinalityType DEF EvidenceInv
  <2>2. Cardinality(Running) = 0
    BY <1>1, <2>1
  <2> QED
    BY <2>1, <2>2, FS_EmptySet
<1>3. Running' = {r}
  BY <1>1, <1>2 DEF ReportInv, ReportTypeOK, Running, Over, Grader
<1>4. IsFiniteSet(Running')
  BY <1>3, FS_Singleton
<1>5. reasoned[r] = 0
  BY <1>1 DEF ReportInv, TargetsAgree
<1>6. ASSUME Keeps(evidence) PROVE Keeps(evidence)'
  <2>1. Done(r)' = {}
    BY <1>1, <1>5 DEF Done
  <2>2. \A s \in (saved \cap Run)' : AllPlays(s)' \subseteq evidence'
    BY <1>1, <1>6 DEF Keeps, AllPlays
  <2> QED
    BY <1>3, <2>1, <2>2 DEF Keeps
<1>7. \A o \in Run : step'[o] \notin {"evidence", "fill evidence"}
  BY <1>1, <1>2 DEF ReportInv, ReportTypeOK, Running, Over, Grader
<1> QED
  BY <1>1, <1>3, <1>4, <1>6, <1>7 DEF EvidenceInv

LEMMA EvidenceInvReason ==
  ASSUME ReportInv, EvidenceInv, NEW r \in Run, Reason(r)
  PROVE  EvidenceInv'
<1> SUFFICES ASSUME Workers = 1 PROVE EvidenceInv'
  BY DEF EvidenceInv
<1>1. step[r] = "reason" /\ UNCHANGED <<evidence, saved, reasoned>>
  BY DEF Reason, fileVars
<1>2. CASE step' = [step EXCEPT ![r] = "failed"] /\ copy' = copy
  BY <1>1, <1>2, EvidenceInvQuietStep DEF ReportInv, Over, Step, Grader
<1>3. CASE /\ step' = [step EXCEPT ![r] = "evidence"] /\ evidence # Torn
           /\ copy' = [copy EXCEPT ![r] = evidence]
  <2>1. Running' = Running /\ r \in Running
    BY <1>1, <1>3 DEF ReportInv, ReportTypeOK, Running, Over, Grader
  <2>2. Keeps(evidence)
    BY <1>3 DEF EvidenceInv
  <2>3. \A o \in Run : step'[o] \in {"evidence", "fill evidence"} => o \in Running'
    BY DEF Running, Over
  <2>4. copy'[r] = evidence
    BY <1>3 DEF ReportInv, ReportTypeOK, Grader
  <2>5. \A o \in Run : step'[o] \in {"evidence", "fill evidence"} => copy'[o] = evidence
    BY <2>1, <2>3, <2>4 DEF EvidenceInv
  <2>6. Keeps(evidence)'
    BY <1>1, <2>1, <2>2 DEF Keeps, AllPlays, Done
  <2>7. \A o \in Run : step'[o] \in {"evidence", "fill evidence"} => Keeps(copy[o])'
    BY <1>1, <2>5, <2>6 DEF Keeps
  <2> QED
    BY <2>1, <2>6, <2>7 DEF EvidenceInv
<1> QED
  BY <1>2, <1>3 DEF Reason, Load, Goto

LEMMA EvidenceInvFill ==
  ASSUME ReportInv, EvidenceInv, NEW r \in Run, FillEvidence(r)
  PROVE  EvidenceInv'
<1> SUFFICES ASSUME Workers = 1 PROVE EvidenceInv'
  BY DEF EvidenceInv
<1> DEFINE records == copy[r] \cup {<<r, reasoned[r] + 1>>}
<1>1. /\ step[r] = "fill evidence" /\ step' = [step EXCEPT ![r] = "reason"]
      /\ reasoned' = [reasoned EXCEPT ![r] = @ + 1] /\ saved' = saved
      /\ evidence' \in Filled(evidence, records)
  BY DEF FillEvidence, FillEvidenceWith, Goto
<1>2. reasoned[r] \in 0 .. Plays /\ reasoned'[r] = reasoned[r] + 1
  BY <1>1 DEF ReportInv, ReportTypeOK
<1>3. Running' = Running /\ r \in Running
  BY <1>1 DEF ReportInv, ReportTypeOK, Running, Over, Grader
<1>4. \A o \in Running : o = r
  BY <1>3 DEF EvidenceInv
<1>5. Keeps(copy[r])
  BY <1>1 DEF EvidenceInv
<1>6. Done(r)' \subseteq records
  <2>1. 1 .. (reasoned[r] + 1) = (1 .. reasoned[r]) \cup {reasoned[r] + 1}
    BY <1>2, ReportAssumption
  <2>2. Done(r) \subseteq copy[r]
    BY <1>3, <1>5 DEF Keeps
  <2> QED
    BY <1>2, <2>1, <2>2 DEF Done
<1>7. \A s \in saved \cap Run : AllPlays(s) \subseteq records
  BY <1>5 DEF Keeps
<1>8. evidence' = Torn \/ Keeps(evidence)'
  <2>1. evidence' = Torn \/ evidence' = records
    BY <1>1, FilledFile
  <2> HIDE DEF records
  <2>2. ASSUME evidence' = records PROVE Keeps(evidence)'
    <3>1. \A s \in (saved \cap Run)' : AllPlays(s)' \subseteq evidence'
      BY <1>1, <1>7, <2>2 DEF AllPlays
    <3>2. \A o \in Running' : Done(o)' \subseteq evidence'
      BY <1>3, <1>4, <1>6, <2>2
    <3> QED
      BY <3>1, <3>2 DEF Keeps
  <2> QED
    BY <2>1, <2>2
<1>9. \A o \in Run : step'[o] \notin {"evidence", "fill evidence"}
  BY <1>1, <1>3, <1>4 DEF ReportInv, ReportTypeOK, Running, Over, Grader
<1> QED
  BY <1>3, <1>8, <1>9 DEF EvidenceInv

LEMMA EvidenceInvFillGrades ==
  ASSUME ReportInv, EvidenceInv, NEW g \in Grader, FillGrades(g)
  PROVE  EvidenceInv'
<1> SUFFICES ASSUME Workers = 1 PROVE EvidenceInv'
  BY DEF EvidenceInv
<1>1. /\ step[g] = "fill grades" /\ step' = [step EXCEPT ![g] = "look up"]
      /\ saved' = saved \cup {g} /\ copy' = [copy EXCEPT ![g] = {}]
      /\ UNCHANGED <<evidence, reasoned>>
  BY DEF FillGrades, Goto
<1>2. /\ \A o \in Run : o # g => step'[o] = step[o] /\ copy'[o] = copy[o]
      /\ step'[g] = "look up" /\ Run \subseteq Grader
  BY <1>1 DEF ReportInv, ReportTypeOK, Grader
<1>3. Running' = Running
  BY <1>1, <1>2 DEF Running, Over
<1>4. CASE g \notin Run
  BY <1>1, <1>4, EvidenceInvQuietStep, <1>2 DEF ReportInv, Step
<1>5. CASE g \in Run
  <2>1. g \in Running /\ reasoned[g] = Plays
    BY <1>1, <1>5 DEF Running, Over, ReportInv, GradesAgree
  <2>2. \A o \in Running : o = g
    BY <2>1 DEF EvidenceInv
  <2>3. AllPlays(g) = Done(g)
    BY <2>1 DEF AllPlays, Done, Play
  <2>4. ASSUME Keeps(evidence) PROVE Keeps(evidence)'
    <3>1. AllPlays(g) \subseteq evidence
      BY <2>1, <2>3, <2>4 DEF Keeps
    <3>2. \A s \in (saved \cap Run)' : AllPlays(s)' \subseteq evidence'
      BY <1>1, <2>4, <3>1 DEF Keeps, AllPlays
    <3>3. \A o \in Running' : Done(o)' \subseteq evidence'
      BY <1>1, <1>3, <2>4 DEF Keeps, Done
    <3> QED
      BY <3>2, <3>3 DEF Keeps
  <2>5. \A o \in Run : step'[o] \notin {"evidence", "fill evidence"}
    BY <1>2, <2>2 DEF Running, Over
  <2> QED
    BY <1>1, <1>3, <2>4, <2>5 DEF EvidenceInv
<1> QED
  BY <1>4, <1>5

LEMMA EvidenceInvReportStep ==
  ASSUME ReportInv, EvidenceInv, ReportNext
  PROVE  EvidenceInv'
<1> USE DEF Goto, fileVars
<1>0. /\ Step \ {"idle", "evidence"} = {"reason", "fill evidence", "grade", "save",
           "fill grades", "look up", "commit", "completed", "failed", "crashed"}
      /\ ReportTypeOK /\ Run \subseteq Grader
  BY DEF Step, ReportInv, Grader
<1>1. ASSUME NEW r \in Run, StartReport(r) PROVE EvidenceInv'
  BY <1>1, EvidenceInvStart
<1>2. ASSUME NEW r \in Run, Reason(r) PROVE EvidenceInv'
  BY <1>2, EvidenceInvReason
<1>3. ASSUME NEW r \in Run, TruncateEvidence(r) PROVE EvidenceInv'
  BY <1>0, <1>3, EvidenceInvQuietStep DEF TruncateEvidence, Over
<1>4. ASSUME NEW r \in Run, FillEvidence(r) PROVE EvidenceInv'
  BY <1>4, EvidenceInvFill
<1>5. ASSUME NEW r \in Run, ReportRaises(r) PROVE EvidenceInv'
  BY <1>0, <1>5, EvidenceInvQuietStep DEF ReportRaises, Over
<1>6. ASSUME NEW g \in Grader, LoadGrades(g) PROVE EvidenceInv'
  <2>1. g \in Run => step[g] \notin Over
    BY <1>6 DEF LoadGrades, ReadyToGrade, Over
  <2>2. /\ \E next \in {"failed", "save"} : step' = [step EXCEPT ![g] = next]
        /\ \A o \in Grader : o # g => copy'[o] = copy[o]
    BY <1>0, <1>6 DEF LoadGrades, Load, ReportTypeOK
  <2>3. \A r \in Run : step'[r] \in {"evidence", "fill evidence"} => copy'[r] = copy[r]
    BY <1>0, <2>2 DEF ReportTypeOK
  <2>4. UNCHANGED <<saved, reasoned, evidence>>
    BY <1>6 DEF LoadGrades
  <2> QED
    BY <1>0, <2>1, <2>2, <2>3, <2>4, EvidenceInvQuietStep
<1>7. ASSUME NEW g \in Grader, TruncateGrades(g) PROVE EvidenceInv'
  BY <1>0, <1>7, EvidenceInvQuietStep DEF TruncateGrades, Over
<1>8. ASSUME NEW g \in Grader, FillGrades(g) PROVE EvidenceInv'
  BY <1>8, EvidenceInvFillGrades
<1>9. ASSUME NEW g \in Grader, LookUpAthlete(g) PROVE EvidenceInv'
  BY <1>0, <1>9, EvidenceInvQuietStep DEF LookUpAthlete, Over
<1>10. ASSUME NEW g \in Grader, CommitGrade(g) PROVE EvidenceInv'
  BY <1>0, <1>10, EvidenceInvQuietStep DEF CommitGrade, CommitGradeFrom, Over
<1>11. ASSUME NEW g \in Grader, GradeHiccup(g) PROVE EvidenceInv'
  BY <1>0, <1>11, EvidenceInvQuietStep DEF GradeHiccup, Over
<1>12. ASSUME NEW g \in Grader, ReportCrash(g) PROVE EvidenceInv'
  <2>1. /\ step[g] \notin Over /\ step' = [step EXCEPT ![g] = "crashed"]
        /\ UNCHANGED <<saved, reasoned, evidence>> /\ copy' = [copy EXCEPT ![g] = {}]
    BY <1>12 DEF ReportCrash
  <2>2. \A r \in Run : step'[r] \in {"evidence", "fill evidence"} => copy'[r] = copy[r]
    BY <1>0, <2>1 DEF ReportTypeOK
  <2> QED
    BY <1>0, <2>1, <2>2, EvidenceInvQuietStep
<1> QED
  BY <1>1, <1>2, <1>3, <1>4, <1>5, <1>6, <1>7, <1>8, <1>9, <1>10, <1>11, <1>12 DEF ReportNext


-----------------------------------------------------------------------------
(* The theorems.                                                           *)

DeskInv == AssignmentInv /\ ReportInv /\ LinkInv /\ EvidenceInv

LEMMA DeskInvInductive ==
  /\ DeskInit => DeskInv
  /\ DeskInv /\ [DeskNext]_deskVars => DeskInv'
<1>1. DeskInit => DeskInv
  BY AssignmentInvInit, ReportInvInit, LinkInvInit, EvidenceInvInit DEF DeskInit, DeskInv
<1>2. ASSUME DeskInv, AssignmentNext, UNCHANGED reportVars PROVE DeskInv'
  <2>1. AssignmentInv' /\ LinkInv' /\ EvidenceInv'
    BY <1>2, AssignmentStep, LinkInvAssignmentStep, EvidenceInvAssignmentStep
       DEF DeskInv, AssignmentInv
  <2>2. ReportInv'
    BY <1>2 DEF DeskInv, ReportInv, ReportTypeOK, ReadsAgree, GradesAgree, TargetsAgree,
       reportVars
  <2> QED
    BY <2>1, <2>2 DEF DeskInv
<1>3. ASSUME DeskInv, ReportNext, UNCHANGED assignmentVars PROVE DeskInv'
  <2>1. AssignmentInv'
    BY <1>3, AssignmentStep DEF DeskInv
  <2>2. ReportInv' /\ LinkInv' /\ EvidenceInv'
    BY <1>3, ReportStep, LinkInvReportStep, EvidenceInvReportStep DEF DeskInv, AssignmentInv
  <2> QED
    BY <2>1, <2>2 DEF DeskInv
<1>4. ASSUME DeskInv, UNCHANGED deskVars PROVE DeskInv'
  <2>1. AssignmentInv' /\ LinkInv' /\ EvidenceInv'
    BY <1>4, AssignmentStep, LinkInvAssignmentStep, EvidenceInvAssignmentStep
       DEF DeskInv, AssignmentInv, deskVars
  <2>2. ReportInv'
    BY <1>4 DEF DeskInv, ReportInv, ReportTypeOK, ReadsAgree, GradesAgree, TargetsAgree,
       reportVars, deskVars
  <2> QED
    BY <2>1, <2>2 DEF DeskInv
<1> QED
  BY <1>1, <1>2, <1>3, <1>4 DEF DeskNext

LEMMA DeskInvariant == DeskSpec => []DeskInv
  BY DeskInvInductive, PTL DEF DeskSpec

\* Every variable of the desk keeps its type, whoever commits, crashes or
\* overwrites whose row or file (backend/api/players.py, backend/api/reports.py).
THEOREM DeskTypes == DeskSpec => [](AssignmentTypeOK /\ ReportTypeOK)
<1>1. DeskInv => AssignmentTypeOK /\ ReportTypeOK
  BY DEF DeskInv, AssignmentInv, ReportInv
<1> QED
  BY <1>1, DeskInvariant, PTL

\* A row's athlete is one that a coach has committed for its track, and a
\* confirmed row has been confirmed by one: no mix of columns that any number
\* of overlapping commits can leave links an athlete nobody chose
\* (assign_track and the automatic assignment, players.py and worker.py).
THEOREM LinksAreCoachs == DeskSpec => []LinkedByCoach
<1>1. DeskInv => LinkedByCoach
  BY DEF DeskInv, AssignmentInv, Accounted, LinkedByCoach
<1> QED
  BY <1>1, DeskInvariant, PTL

LEMMA IdentityInvariant == DeskSpec => []IdentityInv
<1>1. DeskInit => IdentityInv
  BY IdentityInvInit DEF DeskInit
<1>2. DeskInv /\ IdentityInv /\ [DeskNext]_deskVars => IdentityInv'
  <2> SUFFICES ASSUME DeskInv, IdentityInv, [DeskNext]_deskVars PROVE IdentityInv'
    OBVIOUS
  <2>1. [AssignmentNext]_assignmentVars
    BY DEF DeskNext, deskVars
  <2> QED
    BY <2>1, IdentityStep DEF DeskInv
<1> QED
  BY <1>1, <1>2, DeskInvariant, PTL DEF DeskSpec

\* Each identity column of a row, however columns of several writers have
\* mixed, is what somebody has committed for that track; all of them are one
\* writer's who is in the history, with the confirmation that writer gives,
\* unless two writers of the row did not see each other (assign_track and the
\* automatic assignment, players.py).
THEOREM IdentitiesAreAudited == DeskSpec => []IdentityIsAudited
<1>1. DeskInv /\ IdentityInv => IdentityIsAudited
  <2> SUFFICES ASSUME DeskInv, IdentityInv, NEW t \in Track, rows[t] # NoRow
               PROVE  /\ \A col \in IdentityColumn : \E w \in Writer :
                           Wrote(w, t) /\ request[w].identity[col] = rows[t].identity[col]
                      /\ OneWriters(t) \/ Overlapped(t)
    BY DEF IdentityIsAudited, OneWriters
  <2>1. Accounted(rows[t], t)
    BY DEF DeskInv, AssignmentInv
  <2> QED
    BY <2>1 DEF Accounted, IdentityInv
<1> QED
  BY <1>1, DeskInvariant, IdentityInvariant, PTL

\* The athlete a mirrored report is linked to is one that a coach committed
\* for the track it is about (_persist_grade, reports.py): the link is looked
\* up once, late, and no later commit makes it a guess.
THEOREM ReportsAreLinkedByCoach == DeskSpec => []GradeLinkedByCoach
<1>1. DeskInv => GradeLinkedByCoach
  BY DEF DeskInv, LinkInv, ByCoach, GradeLinkedByCoach
<1> QED
  BY <1>1, DeskInvariant, PTL

\* The table never runs ahead of the grade file, and a report is never said
\* to be completed before its grade has been written (reports.py).
THEOREM MirrorsFollow == DeskSpec => []MirrorFollowsFile
<1>1. DeskInv => MirrorFollowsFile
  BY DEF DeskInv, ReportInv, GradesAgree, LinkInv, MirrorFollowsFile
<1> QED
  BY <1>1, DeskInvariant, PTL

\* With one run at a time a saved report has the evidence of all its plays,
\* for any number of plays, retries and crashes, unless the file is torn
\* (EvidenceStore.save, football/evidence.py).
THEOREM GradesHaveEvidence == DeskSpec => []GradeHasEvidence
<1>1. DeskInv => GradeHasEvidence
  BY DEF DeskInv, EvidenceInv, Keeps, AllPlays, GradeHasEvidence
<1> QED
  BY <1>1, DeskInvariant, PTL

\* An entry of the history disappears only when a writer commits that had
\* read the row before the entry was made (assignment_history, players.py):
\* writers that do not overlap never lose one.
THEOREM AuditsAreLostToOverlap == DeskSpec => AuditLostOnlyToOverlap
<1> DEFINE Kept ==
      \A t \in Track : \A w \in HistoryOf(rows[t]) \ HistoryOf(rows'[t]) :
        \E o \in Writer : /\ stage[o] = "read" /\ stage'[o] = "done"
                          /\ w \notin HistoryOf(found[o])
<1>1. ASSUME DeskInv, [DeskNext]_deskVars PROVE [Kept]_assignmentVars
  <2>1. SUFFICES ASSUME AssignmentNext PROVE Kept
    BY <1>1 DEF DeskNext, deskVars
  <2>2. SUFFICES ASSUME NEW t \in Track,
                        NEW w \in HistoryOf(rows[t]) \ HistoryOf(rows'[t])
                 PROVE  \E o \in Writer : /\ stage[o] = "read" /\ stage'[o] = "done"
                                          /\ w \notin HistoryOf(found[o])
    OBVIOUS
  <2>3. AssignmentTypeOK /\ ReadersKnow
    BY <1>1 DEF DeskInv, AssignmentInv
  <2>4. rows'[t] # rows[t]
    BY <2>2
  <2>5. PICK o \in Writer : CommitRow(o, Mine(o))
    BY <2>1, <2>4 DEF AssignmentNext, ReadRow, DatabaseFails, AssignTrack,
       PersistAutomaticAssignment, Mine, Writer
  <2>6. /\ stage[o] = "read" /\ request[o] \in Request /\ request[o].track \in Track
        /\ found[o] # NoRow => rows[request[o].track] # NoRow
    BY <2>3, <2>5 DEF CommitRow, ReadersKnow, Request
  <2>7. t = request[o].track /\ stage' = [stage EXCEPT ![o] = "done"]
    BY <2>3, <2>4, <2>5, <2>6 DEF CommitRow, AssignmentTypeOK
  <2>8. found[o] # NoRow
    BY <2>2, <2>3, <2>5, <2>6, <2>7 DEF CommitRow, AssignmentTypeOK, HistoryOf
  <2>9. /\ found[o] \in Assignment /\ rows[t] \in Assignment /\ Mine(o) \in Assignment
        /\ rows'[t] = MergedRow(found[o], Mine(o), rows[t])
    BY <2>3, <2>5, <2>6, <2>7, <2>8, MineIsRow DEF CommitRow, AssignmentTypeOK
  <2>10. /\ rows'[t] \in Assignment
         /\ rows'[t].history = IF Mine(o).history # found[o].history
                               THEN Mine(o).history ELSE rows[t].history
    BY <2>9, MergedColumn
  <2>11. rows'[t] # NoRow
    BY <2>10
  <2>12. w \notin Mine(o).history
    BY <2>2, <2>9, <2>10, <2>11 DEF HistoryOf
  <2>13. Mine(o).history = HistoryOf(found[o]) \cup {o}
    BY DEF Mine, Confirmed, ConfirmedAfter, Proposed, ProposedFor
  <2> QED
    BY <2>3, <2>6, <2>7, <2>12, <2>13 DEF AssignmentTypeOK
<1> QED
  BY <1>1, DeskInvariant, PTL DEF DeskSpec, AuditLostOnlyToOverlap

=============================================================================
