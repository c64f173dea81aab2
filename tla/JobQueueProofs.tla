--------------------------- MODULE JobQueueProofs ---------------------------
(***************************************************************************)
(* Proofs about JobQueue for every number of workers, requests and jobs,   *)
(* and every value of the limits; workers need not be timely.              *)
(***************************************************************************)
EXTENDS JobQueue, TLAPS

USE BoundsAssumption, ValuesAssumption, NoneAssumption

-----------------------------------------------------------------------------
(* Types.                                                                  *)

\* What a row's columns may hold.
RowTypeOK ==
  /\ status \in [Job -> Status]
  /\ claimedBy \in [Job -> Worker \cup {None}]
  /\ beatAge \in [Job -> Age(StaleAfter) \cup {None}]
  /\ updatedAge \in [Job -> Age(Retention)]
  /\ attempts \in [Job -> Nat]
  /\ resumes \in [Job -> Nat]

\* UPDATE ... SET keeps a column's type when the new value has it.
LEMMA SqlSetType ==
  ASSUME NEW rows, NEW T, NEW col \in [Job -> T], NEW v \in T
  PROVE  SqlSet(rows, col, v) \in [Job -> T]
  BY DEF SqlSet

\* A heartbeat, or an update, made just now.
LEMMA AgeZero == 0 \in Age(StaleAfter) /\ 0 \in Age(Retention)
  BY DEF Age

\* update() writes values of the right type.
LEMMA UpdateType ==
  ASSUME RowTypeOK, NEW j, NEW s \in Status, Update(j, s)
  PROVE  RowTypeOK'
<1>1. status' \in [Job -> Status]
  BY SqlSetType DEF RowTypeOK, Update
<1>2. beatAge' \in [Job -> Age(StaleAfter) \cup {None}]
  BY SqlSetType, AgeZero DEF RowTypeOK, Update
<1>3. updatedAge' \in [Job -> Age(Retention)]
  BY SqlSetType, AgeZero DEF RowTypeOK, Update
<1> QED
  BY <1>1, <1>2, <1>3 DEF RowTypeOK, Update

\* So does finish().
LEMMA FinishType ==
  ASSUME RowTypeOK, NEW j, NEW s \in Status, Finish(j, s)
  PROVE  RowTypeOK'
<1>1. status' \in [Job -> Status]
  BY SqlSetType DEF RowTypeOK, Finish
<1>2. claimedBy' \in [Job -> Worker \cup {None}]
  BY SqlSetType DEF RowTypeOK, Finish
<1>3. beatAge' \in [Job -> Age(StaleAfter) \cup {None}]
  BY SqlSetType, AgeZero DEF RowTypeOK, Finish
<1>4. updatedAge' \in [Job -> Age(Retention)]
  BY SqlSetType, AgeZero DEF RowTypeOK, Finish
<1> QED
  BY <1>1, <1>2, <1>3, <1>4 DEF RowTypeOK, Finish

\* Types need one more fact to be inductive: a worker past its SELECT holds
\* a job, or a progress write could be scheduled for none.
TypeInv == TypeOK /\ BusyHolds

\* Every step keeps every row, worker and request within its domain.
LEMMA TypeStep == TypeInv /\ [Next]_vars => TypeInv'
<1> SUFFICES ASSUME TypeInv, [Next]_vars PROVE TypeInv'
  OBVIOUS
<1> USE DEF TypeInv, TypeOK, BusyHolds, Status, InFlight, Terminal, PC
<1>1. CASE Enqueue
  <2>1. created' \in 0 .. MaxJobs
    BY <1>1 DEF Enqueue
  <2>2. status' \in [Job -> Status]
    BY <1>1 DEF Enqueue
  <2> QED
    BY <1>1, <2>1, <2>2 DEF Enqueue
<1>2. ASSUME NEW c \in Client, NEW j \in Job, ResumeCheck(c, j) PROVE TypeInv'
  BY <1>2 DEF ResumeCheck, CheckAmong, rowVars
<1>3. ASSUME NEW c \in Client, ResumeWrite(c) PROVE TypeInv'
  <2> DEFINE j == resuming[c]
  <2>1. j \in Job /\ resumes[j] + 1 \in Nat
    BY <1>3 DEF ResumeWrite
  <2>2. /\ status' = SqlSet(Row(j), status, "queued")
        /\ claimedBy' = SqlSet(Row(j), claimedBy, None)
        /\ beatAge' = SqlSet(Row(j), beatAge, None)
        /\ updatedAge' = SqlSet(Row(j), updatedAge, 0)
        /\ resumes' = SqlSet(Row(j), resumes, resumes[j] + 1)
    BY <1>3 DEF ResumeWrite
  <2> HIDE DEF j
  <2>3. status' \in [Job -> Status] /\ claimedBy' \in [Job -> Worker \cup {None}]
    BY <2>2, SqlSetType
  <2>4. beatAge' \in [Job -> Age(StaleAfter) \cup {None}]
    BY <2>2, SqlSetType
  <2>5. updatedAge' \in [Job -> Age(Retention)]
    BY <2>2, SqlSetType, AgeZero
  <2>6. resumes' \in [Job -> Nat]
    BY <2>1, <2>2, SqlSetType
  <2> QED
    BY <1>3, <2>3, <2>4, <2>5, <2>6 DEF ResumeWrite
<1>4. ASSUME NEW w \in Worker, Sweep(w) PROVE TypeInv'
  <2>1. PICK lost, back :
             /\ status' = SqlSet(back, SqlSet(lost, status, "failed"), "queued")
             /\ claimedBy' = SqlSet(lost \cup back, claimedBy, None)
             /\ beatAge' = SqlSet(back, beatAge, None)
             /\ updatedAge' = SqlSet(lost \cup back, updatedAge, 0)
             /\ UNCHANGED <<attempts, resumes>>
    BY <1>4 DEF Sweep, RequeueStale, GiveUpOrReturn
  <2>2. SqlSet(lost, status, "failed") \in [Job -> Status]
    BY SqlSetType
  <2>3. status' \in [Job -> Status]
    BY <2>1, <2>2, SqlSetType
  <2>4. claimedBy' \in [Job -> Worker \cup {None}]
    BY <2>1, SqlSetType
  <2>5. beatAge' \in [Job -> Age(StaleAfter) \cup {None}]
    BY <2>1, SqlSetType
  <2>6. updatedAge' \in [Job -> Age(Retention)]
    BY <2>1, SqlSetType, AgeZero
  <2> QED
    BY <1>4, <2>1, <2>3, <2>4, <2>5, <2>6 DEF Sweep, Goto
<1>5. ASSUME NEW w \in Worker, Purge(w) PROVE TypeInv'
  <2> DEFINE expired == {j \in Job : status[j] \in Terminal /\ updatedAge[j] > Retention}
  <2>1. /\ status' = SqlSet(expired, status, "none")
        /\ claimedBy' = SqlSet(expired, claimedBy, None)
        /\ beatAge' = SqlSet(expired, beatAge, None)
        /\ updatedAge' = SqlSet(expired, updatedAge, 0)
        /\ attempts' = SqlSet(expired, attempts, 0)
        /\ resumes' = SqlSet(expired, resumes, 0)
    BY <1>5 DEF Purge, PurgeFinishedJobs
  <2> HIDE DEF expired
  <2>2. status' \in [Job -> Status]
    BY <2>1, SqlSetType
  <2>3. claimedBy' \in [Job -> Worker \cup {None}]
    BY <2>1, SqlSetType
  <2>4. beatAge' \in [Job -> Age(StaleAfter) \cup {None}]
    BY <2>1, SqlSetType
  <2>5. updatedAge' \in [Job -> Age(Retention)]
    BY <2>1, SqlSetType, AgeZero
  <2>6. attempts' \in [Job -> Nat] /\ resumes' \in [Job -> Nat]
    BY <2>1, SqlSetType
  <2> QED
    BY <1>5, <2>2, <2>3, <2>4, <2>5, <2>6 DEF Purge, Goto
<1>6. ASSUME NEW w \in Worker, SelectOldest(w) PROVE TypeInv'
  BY <1>6 DEF SelectOldest, Claimable, Goto, rowVars
<1>7. ASSUME NEW w \in Worker, NothingQueued(w) PROVE TypeInv'
  BY <1>7 DEF NothingQueued, Goto, rowVars
<1>8. ASSUME NEW w \in Worker, CommitClaim(w) PROVE TypeInv'
  BY <1>8 DEF CommitClaim, ClaimAs, Goto, Age
<1>9. ASSUME NEW w \in Worker, StartJob(w) PROVE TypeInv'
  <2>1. RowTypeOK'
    BY <1>9, UpdateType DEF StartJob, RowTypeOK, rowVars
  <2> QED
    BY <1>9, <2>1 DEF StartJob, Goto, RowTypeOK
<1>10. ASSUME NEW w \in Worker, Report(w) PROVE TypeInv'
  <2>1. held[w] \in Job /\ status[held[w]] \in Status
    BY <1>10 DEF Report
  <2>2. RowTypeOK'
    BY <1>10, <2>1, UpdateType DEF Report, RowTypeOK
  <2> QED
    BY <1>10, <2>2 DEF Report, RowTypeOK
<1>11. ASSUME NEW w \in Worker, ScheduleProgress(w) PROVE TypeInv'
  BY <1>11 DEF ScheduleProgress, rowVars
<1>12. ASSUME NEW j \in Job, LateProgress(j) PROVE TypeInv'
  <2>1. RowTypeOK'
    BY <1>12, UpdateType DEF LateProgress, RowTypeOK, rowVars
  <2> QED
    BY <1>12, <2>1 DEF LateProgress, RowTypeOK
<1>13. ASSUME NEW w \in Worker,
              MissingFilm(w) \/ Complete(w) \/ ReportFailed(w) \/ RecordFailure(w)
       PROVE  TypeInv'
  <2>1. RowTypeOK'
    BY <1>13, FinishType
    DEF MissingFilm, Complete, ReportFailed, RecordFailure, RowTypeOK
  <2> QED
    BY <1>13, <2>1
    DEF MissingFilm, Complete, ReportFailed, RecordFailure, RowTypeOK,
        BackToPoll, Goto
<1>14. ASSUME NEW w \in Worker, FramesDiscarded(w) \/ HandlerRaises(w) PROVE TypeInv'
  BY <1>14 DEF FramesDiscarded, HandlerRaises, BackToPoll, Goto, rowVars
<1>15. ASSUME NEW w \in Worker,
              \/ KilledByJob(w) \/ Restart(w)
              \/ LoopError(w) \/ Strand(w) \/ Crash(w)
       PROVE  TypeInv'
  BY <1>15
  DEF KilledByJob, Restart, LoopError, Strand, Crash, Fault, BackToPoll, Goto, rowVars
<1>16. CASE Tick
  BY <1>16 DEF Tick, Older, Age
<1>17. CASE UNCHANGED vars
  BY <1>17 DEF vars, rowVars
<1> QED
  BY <1>1, <1>2, <1>3, <1>4, <1>5, <1>6, <1>7, <1>8, <1>9, <1>10, <1>11, <1>12,
     <1>13, <1>14, <1>15, <1>16, <1>17
  DEF Next, WorkerStep

\* The types and the held job, for the whole specification.
LEMMA TypeInvariant == Spec => []TypeInv
<1>1. Init => TypeInv
  BY DEF Init, TypeInv, TypeOK, BusyHolds, Status, PC, Age
<1> QED
  BY <1>1, TypeStep, PTL DEF Spec

\* Type correctness: every row, worker and request of the queue stays within
\* its domain, whatever the workers, the API and the faults do.
THEOREM TypeCorrect == Spec => []TypeOK
<1>1. TypeInv => TypeOK
  BY DEF TypeInv
<1> QED
  BY <1>1, TypeInvariant, PTL

-----------------------------------------------------------------------------
(* Locks: a row locked by a claim is queued, and locked once.              *)

LockInv == LockedIsQueued /\ OneLocker

\* A step by which no worker takes a lock, and which leaves the status of
\* every locked row alone, keeps the locks sound.
LEMMA LockFrame ==
  ASSUME LockInv,
         \A v \in Worker : pc'[v] = "take" => pc[v] = "take" /\ held'[v] = held[v],
         \A v \in Worker : pc'[v] = "take" => status'[held[v]] = status[held[v]]
  PROVE  LockInv'
  BY DEF LockInv, LockedIsQueued, OneLocker

-----------------------------------------------------------------------------
(* Rows: what holds of one row at a time.                                  *)

RowInv(j) ==
  /\ claimedBy[j] # None => status[j] \in InFlight
  /\ status[j] \in InFlight => beatAge[j] # None
  /\ attempts[j] <= MaxAttempts + resumes[j]
  /\ status[j] = "queued" => attempts[j] < MaxAttempts + resumes[j]
  /\ status[j] = "none" => attempts[j] = 0
  /\ j > created => status[j] = "none"

RowsInv == \A j \in Job : RowInv(j)

\* The named properties are what the rows' invariant says, row by row.
LEMMA RowsInvIs ==
  RowsInv <=> /\ ClaimMeansInFlight /\ InFlightIsRecoverable
              /\ AttemptBudget /\ AttemptLeft /\ AbsentIsFresh
  BY DEF RowsInv, RowInv, ClaimMeansInFlight, InFlightIsRecoverable,
         AttemptBudget, AttemptLeft, AbsentIsFresh

\* A row's columns are as they were.
RowKept(j) ==
  /\ status'[j] = status[j]
  /\ claimedBy'[j] = claimedBy[j]
  /\ beatAge'[j] = None <=> beatAge[j] = None
  /\ attempts'[j] = attempts[j]
  /\ resumes'[j] = resumes[j]

\* Rows that a step leaves alone stay sound, as long as it inserts nothing.
LEMMA RowFrame ==
  ASSUME NEW j \in Job, RowInv(j), RowKept(j), created' = created
  PROVE  RowInv(j)'
  BY DEF RowInv, RowKept

\* update() keeps rows sound and locked rows as they are, when the status it
\* writes is a stage or the one the row has.
LEMMA UpdateSound ==
  ASSUME TypeOK, RowsInv, created' = created,
         NEW j \in Job, NEW s \in {"working", status[j]}, Update(j, s)
  PROVE  RowsInv' /\ (\A k \in Job : Locked(k) => status'[k] = status[k])
<1>1. \A k \in Job : k # j => RowKept(k)
  BY DEF Update, Row, SqlSet, RowKept, TypeOK
<1>2. status[j] = "none" => RowKept(j)
  BY DEF Update, Row, SqlSet, RowKept, TypeOK
<1>3. ASSUME status[j] # "none" PROVE RowInv(j)'
  <2>1. status'[j] = s /\ beatAge'[j] = 0 /\ claimedBy'[j] = claimedBy[j]
    BY <1>3 DEF Update, Row, SqlSet, TypeOK
  <2>2. attempts'[j] = attempts[j] /\ resumes'[j] = resumes[j]
    BY DEF Update
  <2> QED
    BY <1>3, <2>1, <2>2 DEF RowsInv, RowInv, InFlight
<1>4. RowsInv'
  BY <1>1, <1>2, <1>3, RowFrame DEF RowsInv
<1>5. \A k \in Job : Locked(k) => status'[k] = status[k]
  BY <1>1 DEF Update, RowKept
<1> QED
  BY <1>4, <1>5

\* finish() likewise, with a terminal status.
LEMMA FinishSound ==
  ASSUME TypeOK, RowsInv, created' = created,
         NEW j \in Job, NEW s \in Terminal, Finish(j, s)
  PROVE  RowsInv' /\ (\A k \in Job : Locked(k) => status'[k] = status[k])
<1>1. \A k \in Job : k # j => RowKept(k)
  BY DEF Finish, Row, SqlSet, RowKept, TypeOK
<1>2. status[j] = "none" => RowKept(j)
  BY DEF Finish, Row, SqlSet, RowKept, TypeOK
<1>3. ASSUME status[j] # "none" PROVE RowInv(j)'
  <2>1. status'[j] = s /\ claimedBy'[j] = None
    BY <1>3 DEF Finish, Row, SqlSet, TypeOK
  <2>2. attempts'[j] = attempts[j] /\ resumes'[j] = resumes[j]
    BY DEF Finish
  <2> QED
    BY <1>3, <2>1, <2>2 DEF RowsInv, RowInv, InFlight, Terminal
<1>4. RowsInv'
  BY <1>1, <1>2, <1>3, RowFrame DEF RowsInv
<1>5. \A k \in Job : Locked(k) => status'[k] = status[k]
  BY <1>1 DEF Finish, RowKept
<1> QED
  BY <1>4, <1>5

-----------------------------------------------------------------------------
(* Every step keeps locks and rows sound.                                  *)

\* The locks and rows together.
SafeInv == LockInv /\ RowsInv

\* A step that leaves the rows and the inserts alone and takes no lock.
LEMMA QuietStep ==
  ASSUME SafeInv, UNCHANGED rowVars, created' = created,
         \A v \in Worker : pc'[v] = "take" => pc[v] = "take" /\ held'[v] = held[v]
  PROVE  SafeInv'
<1>1. LockInv'
  BY LockFrame DEF SafeInv, rowVars
<1>2. RowsInv'
  BY DEF SafeInv, RowsInv, RowInv, rowVars
<1> QED
  BY <1>1, <1>2 DEF SafeInv

\* A step that may write rows but only soundly, and takes no lock.
LEMMA WriteStep ==
  ASSUME TypeInv, SafeInv, RowsInv',
         \A v \in Worker : pc'[v] = "take" => pc[v] = "take" /\ held'[v] = held[v],
         \A k \in Job : Locked(k) => status'[k] = status[k]
  PROVE  SafeInv'
<1>1. \A v \in Worker : pc'[v] = "take" => Locked(held[v]) /\ held[v] \in Job
  BY DEF Locked, TypeInv, BusyHolds
<1> QED
  BY <1>1, LockFrame DEF SafeInv

\* What a locked row looks like.
LEMMA LockedRow ==
  ASSUME SafeInv, NEW j \in Job, Locked(j)
  PROVE  status[j] = "queued"
  BY DEF SafeInv, LockInv, LockedIsQueued, Locked

\* The insert: a fresh row, its attempts and its claim empty.
LEMMA EnqueueSound == TypeInv /\ SafeInv /\ Enqueue => SafeInv'
<1> SUFFICES ASSUME TypeInv, SafeInv, Enqueue PROVE SafeInv'
  OBVIOUS
<1> USE DEF TypeInv, TypeOK
<1>1. PICK n \in Job : n = created + 1 /\ created' = n
  BY DEF Enqueue, Job
<1>2. status[n] = "none" /\ RowInv(n)
  BY <1>1 DEF SafeInv, RowsInv, RowInv, Job
<1>3. ASSUME NEW k \in Job, k # n PROVE RowInv(k)'
  <2>1. RowKept(k)
    BY <1>1, <1>3 DEF Enqueue, RowKept
  <2>2. k > n => k > created
    BY <1>1 DEF Job
  <2> QED
    BY <1>1, <2>1, <2>2 DEF SafeInv, RowsInv, RowInv, RowKept
<1>4. RowInv(n)'
  <2>1. status'[n] = "queued"
    BY <1>1 DEF Enqueue
  <2>2. claimedBy[n] = None /\ attempts[n] = 0 /\ resumes[n] \in Nat
    BY <1>2 DEF RowInv, InFlight
  <2>3. 0 < MaxAttempts + resumes[n]
    BY <2>2
  <2> QED
    BY <1>1, <2>1, <2>2, <2>3 DEF Enqueue, RowInv, InFlight, Job
<1>5. \A k \in Job : Locked(k) => status'[k] = status[k]
  BY <1>1, <1>2, LockedRow DEF Enqueue
<1> QED
  BY <1>3, <1>4, <1>5, WriteStep DEF Enqueue, RowsInv

\* The resume's write: queued, unclaimed, with one more attempt allowed.
LEMMA ResumeSound ==
  ASSUME TypeInv, SafeInv, NEW c \in Client, ResumeWrite(c)
  PROVE  SafeInv'
<1> USE DEF TypeInv, TypeOK
<1>1. PICK j \in Job : j = resuming[c] /\ ~Locked(j)
  BY DEF ResumeWrite
<1>2. \A k \in Job : k # j => RowKept(k)
  BY <1>1 DEF ResumeWrite, Row, SqlSet, RowKept
<1>3. status[j] = "none" => RowKept(j)
  BY <1>1 DEF ResumeWrite, Row, SqlSet, RowKept
<1>4. ASSUME status[j] # "none" PROVE RowInv(j)'
  <2>1. status'[j] = "queued" /\ claimedBy'[j] = None
    BY <1>1, <1>4 DEF ResumeWrite, Row, SqlSet
  <2>2. attempts'[j] = attempts[j] /\ resumes'[j] = resumes[j] + 1
    BY <1>1, <1>4 DEF ResumeWrite, Row, SqlSet
  <2>3. attempts[j] <= MaxAttempts + resumes[j]
    BY <1>1 DEF SafeInv, RowsInv, RowInv
  <2>4. j <= created
    BY <1>1, <1>4 DEF SafeInv, RowsInv, RowInv, Job
  <2>5. created' = created
    BY DEF ResumeWrite
  <2> QED
    BY <1>1, <1>4, <2>1, <2>2, <2>3, <2>4, <2>5 DEF RowInv, InFlight, Job
<1>5. RowsInv'
  BY <1>2, <1>3, <1>4, RowFrame DEF RowsInv, SafeInv, ResumeWrite
<1>6. \A k \in Job : Locked(k) => status'[k] = status[k]
  BY <1>1, <1>2 DEF RowKept
<1> QED
  BY <1>5, <1>6, WriteStep DEF ResumeWrite

\* The sweep: a stalled job goes back with an attempt left, or fails.
LEMMA SweepSound ==
  ASSUME TypeInv, SafeInv, NEW w \in Worker, Sweep(w)
  PROVE  SafeInv'
<1> USE DEF TypeInv, TypeOK
<1> DEFINE lost == {j \in Stalled : attempts[j] >= MaxAttempts}
           back == {j \in Stalled : attempts[j] < MaxAttempts}
<1>1. /\ status' = SqlSet(back, SqlSet(lost, status, "failed"), "queued")
      /\ claimedBy' = SqlSet(lost \cup back, claimedBy, None)
      /\ beatAge' = SqlSet(back, beatAge, None)
      /\ UNCHANGED <<attempts, resumes, created>>
  BY DEF Sweep, RequeueStale, GiveUpOrReturn
<1>2. \A k \in Job : k \notin Stalled => RowKept(k)
  BY <1>1 DEF SqlSet, RowKept
<1>3. ASSUME NEW k \in Job, k \in Stalled PROVE RowInv(k)'
  <2>1. status[k] \in InFlight /\ k \in lost \cup back
    BY <1>3 DEF Stalled, SilentBeyond
  <2>2. claimedBy'[k] = None
    BY <1>1, <2>1 DEF SqlSet
  <2>3. \/ status'[k] = "failed"
        \/ status'[k] = "queued" /\ attempts[k] < MaxAttempts
    BY <1>1, <2>1 DEF SqlSet
  <2>4. RowInv(k)
    BY DEF SafeInv, RowsInv
  <2> QED
    BY <1>1, <2>1, <2>2, <2>3, <2>4 DEF RowInv, InFlight
<1>4. RowsInv'
  BY <1>1, <1>2, <1>3, RowFrame DEF RowsInv, SafeInv
<1>5. \A k \in Job : Locked(k) => k \notin Stalled
  BY LockedRow DEF Stalled, SilentBeyond, InFlight
<1>6. \A k \in Job : Locked(k) => status'[k] = status[k]
  BY <1>2, <1>5 DEF RowKept
<1> QED
  BY <1>4, <1>6, WriteStep DEF Sweep, Goto

\* The purge: a deleted row is as if it had never been.
LEMMA PurgeSound ==
  ASSUME TypeInv, SafeInv, NEW w \in Worker, Purge(w)
  PROVE  SafeInv'
<1> USE DEF TypeInv, TypeOK
<1> DEFINE expired == {j \in Job : status[j] \in Terminal /\ updatedAge[j] > Retention}
<1>1. /\ status' = SqlSet(expired, status, "none")
      /\ claimedBy' = SqlSet(expired, claimedBy, None)
      /\ beatAge' = SqlSet(expired, beatAge, None)
      /\ attempts' = SqlSet(expired, attempts, 0)
      /\ resumes' = SqlSet(expired, resumes, 0)
      /\ created' = created
  BY DEF Purge, PurgeFinishedJobs
<1>2. \A k \in Job : k \in expired => status[k] \in Terminal
  OBVIOUS
<1> HIDE DEF expired
<1>3. \A k \in Job : k \notin expired => RowKept(k)
  BY <1>1 DEF SqlSet, RowKept
<1>4. ASSUME NEW k \in Job, k \in expired PROVE RowInv(k)'
  BY <1>1, <1>4 DEF SqlSet, RowInv, InFlight
<1>5. RowsInv'
  BY <1>1, <1>3, <1>4, RowFrame DEF RowsInv, SafeInv
<1>6. \A k \in Job : Locked(k) => status'[k] = status[k]
  BY <1>2, <1>3, LockedRow DEF RowKept, Terminal
<1> QED
  BY <1>5, <1>6, WriteStep DEF Purge, Goto

\* The SELECT: it locks a queued row that nobody has locked.
LEMMA SelectSound ==
  ASSUME TypeInv, SafeInv, NEW w \in Worker, SelectOldest(w)
  PROVE  SafeInv'
<1> USE DEF TypeInv, TypeOK
<1>1. PICK j \in Job : /\ status[j] = "queued" /\ ~Locked(j)
                       /\ held' = [held EXCEPT ![w] = j]
  BY DEF SelectOldest, Claimable
<1>2. pc' = [pc EXCEPT ![w] = "take"] /\ UNCHANGED <<rowVars, created>>
  BY DEF SelectOldest, Goto
<1>3. \A v \in Worker : v # w /\ pc'[v] = "take"
                          => pc[v] = "take" /\ held'[v] = held[v] /\ held[v] # j
  BY <1>1, <1>2 DEF Locked
<1>4. LockInv'
  BY <1>1, <1>2, <1>3 DEF SafeInv, LockInv, LockedIsQueued, OneLocker, rowVars
<1>5. RowsInv'
  BY <1>2 DEF SafeInv, RowsInv, RowInv, rowVars
<1> QED
  BY <1>4, <1>5 DEF SafeInv

\* The claim's commit: the row had an attempt left and gets a heartbeat.
LEMMA ClaimSound ==
  ASSUME TypeInv, SafeInv, NEW w \in Worker, CommitClaim(w)
  PROVE  SafeInv'
<1> USE DEF TypeInv, TypeOK
<1>1. PICK j \in Job : j = held[w] /\ pc[w] = "take"
  BY DEF CommitClaim, ClaimAs, BusyHolds
<1>2. status[j] = "queued" /\ RowInv(j)
  BY <1>1, LockedRow DEF Locked, SafeInv, RowsInv
<1>3. \A k \in Job : k # j => RowKept(k)
  BY <1>1 DEF CommitClaim, ClaimAs, RowKept
<1>4. RowInv(j)'
  <2>1. /\ status'[j] = "claimed" /\ beatAge'[j] = 0
        /\ attempts'[j] = attempts[j] + 1 /\ resumes'[j] = resumes[j]
        /\ created' = created
    BY <1>1 DEF CommitClaim, ClaimAs
  <2>2. attempts[j] < MaxAttempts + resumes[j] /\ ~(j > created)
    BY <1>2 DEF RowInv
  <2>3. attempts'[j] <= MaxAttempts + resumes'[j]
    BY <2>1, <2>2
  <2> QED
    BY <2>1, <2>2, <2>3 DEF RowInv, InFlight
<1>5. \A v \in Worker : pc'[v] = "take" =>
        pc[v] = "take" /\ held'[v] = held[v] /\ held[v] # j /\ held[v] \in Job
  BY <1>1 DEF CommitClaim, ClaimAs, Goto, SafeInv, LockInv, OneLocker, BusyHolds
<1>6. LockInv'
  BY <1>3, <1>5, LockFrame DEF SafeInv, RowKept
<1>7. RowsInv'
  BY <1>3, <1>4, RowFrame DEF SafeInv, RowsInv, CommitClaim, ClaimAs
<1> QED
  BY <1>6, <1>7 DEF SafeInv

\* The clock: a heartbeat grows older, it does not go away.
LEMMA TickSound == TypeInv /\ SafeInv /\ Tick => SafeInv'
<1> SUFFICES ASSUME TypeInv, SafeInv, Tick PROVE SafeInv'
  OBVIOUS
<1>1. ASSUME NEW j \in Job PROVE RowKept(j)
  <2>1. beatAge[j] # None => Older(beatAge[j], StaleAfter) \in Nat
    BY DEF TypeInv, TypeOK, Age, Older
  <2> QED
    BY <2>1 DEF Tick, RowKept
<1>2. RowsInv'
  BY <1>1, RowFrame DEF SafeInv, RowsInv, Tick
<1> QED
  BY <1>2, WriteStep DEF Tick

\* A worker's progress reports, awaited or late.
LEMMA ReportSound ==
  ASSUME TypeInv, SafeInv, pc' = pc \/ \E w \in Worker : Goto(w, "run"),
         held' = held, created' = created,
         NEW j \in Job, NEW s \in {"working", status[j]}, Update(j, s)
  PROVE  SafeInv'
<1>1. RowsInv' /\ (\A k \in Job : Locked(k) => status'[k] = status[k])
  BY UpdateSound DEF TypeInv, SafeInv
<1>2. \A v \in Worker : pc'[v] = "take" => pc[v] = "take" /\ held'[v] = held[v]
  BY DEF Goto, TypeInv, TypeOK
<1> QED
  BY <1>1, <1>2, WriteStep

\* A worker's last write to a job.
LEMMA FinishStep ==
  ASSUME TypeInv, SafeInv, NEW w \in Worker, held[w] \in Job,
         NEW s \in Terminal, Finish(held[w], s), created' = created,
         BackToPoll(w) \/ (Goto(w, "post") /\ UNCHANGED held)
  PROVE  SafeInv'
<1>1. RowsInv' /\ (\A k \in Job : Locked(k) => status'[k] = status[k])
  BY FinishSound DEF TypeInv, SafeInv
<1>2. \A v \in Worker : pc'[v] = "take" => pc[v] = "take" /\ held'[v] = held[v]
  BY DEF BackToPoll, Goto, TypeInv, TypeOK
<1> QED
  BY <1>1, <1>2, WriteStep

\* Every step keeps locks and rows sound.
LEMMA SafeStep == TypeInv /\ SafeInv /\ [Next]_vars => SafeInv'
<1> SUFFICES ASSUME TypeInv, SafeInv, [Next]_vars PROVE SafeInv'
  OBVIOUS
<1>1. ASSUME NEW c \in Client, NEW j \in Job, ResumeCheck(c, j) PROVE SafeInv'
  BY <1>1, QuietStep DEF ResumeCheck, CheckAmong
<1>2. ASSUME NEW w \in Worker, NothingQueued(w) PROVE SafeInv'
  <2>1. \A v \in Worker : pc'[v] = "take" => pc[v] = "take" /\ held'[v] = held[v]
    BY <1>2 DEF NothingQueued, Goto, TypeInv, TypeOK
  <2> QED
    BY <1>2, <2>1, QuietStep DEF NothingQueued
<1>3. ASSUME NEW w \in Worker, StartJob(w) PROVE SafeInv'
  <2>1. held[w] \in Job
    BY <1>3 DEF StartJob, TypeInv, BusyHolds
  <2>2. CASE KindOf[held[w]] = "truth_report"
    <3>1. \A v \in Worker : pc'[v] = "take" => pc[v] = "take" /\ held'[v] = held[v]
      BY <1>3 DEF StartJob, Goto, TypeInv, TypeOK
    <3> QED
      BY <1>3, <2>2, <3>1, QuietStep DEF StartJob
  <2>3. CASE KindOf[held[w]] # "truth_report"
    BY <1>3, <2>1, <2>3, ReportSound DEF StartJob
  <2> QED
    BY <2>2, <2>3
<1>4. ASSUME NEW w \in Worker, Report(w) PROVE SafeInv'
  <2>1. held[w] \in Job
    BY <1>4 DEF Report, TypeInv, BusyHolds
  <2>2. \E s \in {"working", status[held[w]]} : Update(held[w], s)
    BY <1>4 DEF Report
  <2> QED
    BY <1>4, <2>1, <2>2, ReportSound DEF Report
<1>5. ASSUME NEW w \in Worker, ScheduleProgress(w) PROVE SafeInv'
  BY <1>5, QuietStep DEF ScheduleProgress
<1>6. ASSUME NEW j \in Job, LateProgress(j) PROVE SafeInv'
  <2>1. CASE Update(j, status[j])
    BY <1>6, <2>1, ReportSound DEF LateProgress
  <2>2. CASE UNCHANGED rowVars
    BY <1>6, <2>2, QuietStep DEF LateProgress
  <2> QED
    BY <1>6, <2>1, <2>2 DEF LateProgress
<1>7. ASSUME NEW w \in Worker,
             MissingFilm(w) \/ Complete(w) \/ ReportFailed(w) \/ RecordFailure(w)
      PROVE  SafeInv'
  <2>1. held[w] \in Job
    BY <1>7
    DEF MissingFilm, Complete, ReportFailed, RecordFailure, TypeInv, BusyHolds
  <2>2. \E s \in Terminal : Finish(held[w], s)
    BY <1>7
    DEF MissingFilm, Complete, ReportFailed, RecordFailure, Terminal
  <2>3. /\ created' = created
        /\ BackToPoll(w) \/ (Goto(w, "post") /\ UNCHANGED held)
    BY <1>7 DEF MissingFilm, Complete, ReportFailed, RecordFailure
  <2> QED
    BY <2>1, <2>2, <2>3, FinishStep
<1>8. ASSUME NEW w \in Worker,
             \/ FramesDiscarded(w) \/ HandlerRaises(w) \/ KilledByJob(w)
             \/ Restart(w) \/ LoopError(w) \/ Strand(w) \/ Crash(w)
      PROVE  SafeInv'
  <2>1. \A v \in Worker : pc'[v] = "take" => pc[v] = "take" /\ held'[v] = held[v]
    BY <1>8
    DEF FramesDiscarded, HandlerRaises, KilledByJob, Restart, LoopError, Strand,
        Crash, BackToPoll, Goto, TypeInv, TypeOK
  <2>2. UNCHANGED <<rowVars, created>>
    BY <1>8
    DEF FramesDiscarded, HandlerRaises, KilledByJob, Restart, LoopError, Strand, Crash
  <2> QED
    BY <2>1, <2>2, QuietStep
<1>9. CASE UNCHANGED vars
  BY <1>9, QuietStep DEF vars
<1> QED
  BY <1>1, <1>2, <1>3, <1>4, <1>5, <1>6, <1>7, <1>8, <1>9,
     EnqueueSound, ResumeSound, SweepSound, PurgeSound, SelectSound, ClaimSound,
     TickSound
  DEF Next, WorkerStep

-----------------------------------------------------------------------------
(* The theorems.                                                           *)

\* The inductive invariant, named part by part.
LEMMA IInvIs == IInv <=> TypeInv /\ SafeInv
  BY RowsInvIs DEF IInv, TypeInv, SafeInv, LockInv

\* Everything the queue relies on from one transaction to the next holds in
\* every reachable state, slow workers, lost claims and late writes included.
THEOREM QueueInvariant == Spec => []IInv
<1>1. Init => SafeInv
  BY DEF Init, SafeInv, LockInv, LockedIsQueued, OneLocker, RowsInv, RowInv,
         InFlight, Job
<1>2. Init => TypeInv
  BY DEF Init, TypeInv, TypeOK, BusyHolds, Status, PC, Age
<1>3. TypeInv /\ SafeInv /\ [Next]_vars => (TypeInv /\ SafeInv)'
  BY TypeStep, SafeStep
<1> QED
  BY <1>1, <1>2, <1>3, IInvIs, PTL DEF Spec

\* A job that waits or is settled is claimed by nobody.
THEOREM NoClaimOnSettled == Spec => []ClaimMeansInFlight
<1>1. IInv => ClaimMeansInFlight
  BY DEF IInv
<1> QED
  BY <1>1, QueueInvariant, PTL

\* Every job in flight carries the heartbeat requeue_stale() looks for.
THEOREM NothingIsLost == Spec => []InFlightIsRecoverable
<1>1. IInv => InFlightIsRecoverable
  BY DEF IInv
<1> QED
  BY <1>1, QueueInvariant, PTL

\* No job is handed out more often than MAX_ATTEMPTS and its resumes allow.
THEOREM AttemptsBounded == Spec => []AttemptBudget
<1>1. IInv => AttemptBudget
  BY DEF IInv
<1> QED
  BY <1>1, QueueInvariant, PTL

\* A step that puts a name on a row finds the row queued and unclaimed.
LEMMA ClaimStep ==
  ASSUME IInv, [Next]_vars, NEW j \in Job, claimedBy'[j] \notin {None, claimedBy[j]}
  PROVE  status[j] = "queued" /\ claimedBy[j] = None
<1> USE DEF IInv, TypeOK
<1>1. ASSUME NEW w \in Worker, CommitClaim(w)
      PROVE  status[j] = "queued" /\ claimedBy[j] = None
  <2>1. held[w] = j
    BY <1>1 DEF CommitClaim, ClaimAs, BusyHolds
  <2> QED
    BY <1>1, <2>1
    DEF CommitClaim, ClaimAs, LockedIsQueued, ClaimMeansInFlight, InFlight
<1>2. ASSUME \A w \in Worker : ~CommitClaim(w) PROVE FALSE
  <2>1. claimedBy' = claimedBy \/ \E rows : claimedBy' = SqlSet(rows, claimedBy, None)
    BY <1>2
    DEF Next, WorkerStep, vars, rowVars, Enqueue, ResumeCheck, CheckAmong, ResumeWrite,
        Sweep, RequeueStale, GiveUpOrReturn, Purge, PurgeFinishedJobs,
        SelectOldest, NothingQueued, StartJob, MissingFilm, Report,
        ScheduleProgress, LateProgress, Update, Finish, Complete, ReportFailed,
        FramesDiscarded, HandlerRaises, RecordFailure, LoopError,
        Strand, Crash, KilledByJob, Restart, Tick
  <2> QED
    BY <2>1 DEF SqlSet
<1> QED
  BY <1>1, <1>2

\* A claim is never overwritten by another claim.
THEOREM ClaimsAreExclusive == Spec => ClaimNeverStolen
<1>1. IInv /\ [Next]_vars =>
        [\A j \in Job : claimedBy'[j] \notin {None, claimedBy[j]}
           => status[j] = "queued" /\ claimedBy[j] = None]_vars
  BY ClaimStep
<1> QED
  BY <1>1, QueueInvariant, PTL DEF Spec, ClaimNeverStolen
=============================================================================
