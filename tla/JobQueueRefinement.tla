------------------------- MODULE JobQueueRefinement -------------------------
(***************************************************************************)
(* JobQueue implements WorkQueue, for any number of workers and jobs and   *)
(* any limits, where no live worker stays silent past StaleAfter and one   *)
(* request to resume is in flight at a time: without either it does not.   *)
(***************************************************************************)
EXTENDS JobQueueProofs

USE BoundsAssumption, ValuesAssumption, NoneAssumption

\* The setting: docs/WORKER_SETUP_BRIEF.md expects of it that StaleAfter is
\* far longer than a worker goes without a heartbeat.
Undisturbed == Timely /\ \A c, d \in Client : c = d

-----------------------------------------------------------------------------
(* The invariant: whoever is at a job has its claim, or it is done.        *)

OnJob(w) == pc[w] \in {"start", "run", "post", "fail"}

\* A job a worker is done with, or that has been purged since.
Done(j) == status[j] \in {"completed", "none"}

HasClaim(w) == claimedBy[held[w]] = w /\ status[held[w]] \in InFlight

Leased(w) ==
  /\ pc[w] \in {"start", "run"} => HasClaim(w)
  /\ pc[w] = "fail" => HasClaim(w) \/ Done(held[w])
  /\ pc[w] = "post" => Done(held[w])

HeartIsFresh(w) ==
  OnJob(w) /\ status[held[w]] \in InFlight =>
    beatAge[held[w]] # None /\ beatAge[held[w]] <= StaleAfter

OneHolder ==
  \A v, w \in Worker : OnJob(v) /\ OnJob(w) /\ held[v] = held[w] => v = w

\* What a resume request has found failed is still so, or has been purged.
ResumesFailed ==
  \A c \in Client : resuming[c] # None => status[resuming[c]] \in {"failed", "none"}

KnownJobs ==
  /\ \A w \in Worker : held[w] # None => held[w] <= created
  /\ \A c \in Client : resuming[c] # None => resuming[c] <= created

LeaseInv ==
  /\ \A w \in Worker : Leased(w) /\ HeartIsFresh(w)
  /\ OneHolder /\ ResumesFailed /\ KnownJobs

-----------------------------------------------------------------------------
(* Steps that change no row but for a stage, a heartbeat, an update time.  *)

CalmRows ==
  \A j \in Job :
    /\ claimedBy'[j] = claimedBy[j]
    /\ status'[j] = status[j] \/ (status[j] \in InFlight /\ status'[j] \in InFlight)
    /\ beatAge'[j] = beatAge[j] \/ beatAge'[j] = 0

\* A worker goes on with its job, to the failure handler or to no job.
GoesOn(v) ==
  /\ OnJob(v)' =>
       /\ OnJob(v) /\ held'[v] = held[v]
       /\ \/ pc'[v] = pc[v] \/ pc'[v] = "fail"
          \/ pc'[v] = "run" /\ pc[v] = "start"
  /\ held'[v] \in {None, held[v]} \/ held'[v] <= created

LEMMA CalmLease ==
  ASSUME IInv, LeaseInv, CalmRows, \A v \in Worker : GoesOn(v), created' = created,
         ResumesFailed', \A c \in Client : resuming'[c] # None => resuming'[c] <= created
  PROVE  LeaseInv'
<1>1. \A v \in Worker : OnJob(v) => held[v] \in Job
  BY DEF IInv, BusyHolds, OnJob
<1>2. ASSUME NEW v \in Worker PROVE Leased(v)'
  <2>1. OnJob(v)' => OnJob(v) /\ held'[v] = held[v] /\ held[v] \in Job
    BY <1>1 DEF GoesOn
  <2>2. OnJob(v)' /\ HasClaim(v) => HasClaim(v)'
    BY <2>1 DEF CalmRows, HasClaim
  <2>3. OnJob(v)' /\ Done(held[v]) => Done(held[v])'
    BY <2>1 DEF CalmRows, Done, InFlight
  <2> QED
    BY <2>1, <2>2, <2>3 DEF GoesOn, LeaseInv, Leased, OnJob
<1>3. ASSUME NEW v \in Worker PROVE HeartIsFresh(v)'
  BY <1>1 DEF CalmRows, GoesOn, LeaseInv, HeartIsFresh
<1>4. OneHolder'
  BY DEF LeaseInv, OneHolder, GoesOn
<1>5. KnownJobs'
  BY DEF LeaseInv, KnownJobs, GoesOn
<1> QED
  BY <1>2, <1>3, <1>4, <1>5 DEF LeaseInv

LEMMA RowsAreKnown ==
  ASSUME IInv, NEW j \in Job, status[j] # "none"
  PROVE  j <= created
<1>1. ~(j > created)
  BY DEF IInv, AbsentIsFresh
<1>2. j \in Nat /\ created \in Nat
  BY DEF IInv, TypeOK, Job
<1> QED
  BY <1>1, <1>2

\* update() by a worker that has the claim, or with the status there is.
LEMMA UpdateIsCalm ==
  ASSUME TypeOK, NEW j \in Job, NEW s,
         s = status[j] \/ (s = "working" /\ status[j] \in InFlight), Update(j, s)
  PROVE  CalmRows
  BY DEF TypeOK, Update, Row, SqlSet, CalmRows, InFlight

\* Nothing written at all.
LEMMA UnwrittenIsCalm ==
  ASSUME UNCHANGED rowVars
  PROVE  CalmRows
  BY DEF rowVars, CalmRows

\* The steps that leave the rows' phases alone.
CalmStep(w) ==
  \/ SelectOldest(w) \/ NothingQueued(w) \/ StartJob(w) \/ Report(w)
  \/ ScheduleProgress(w) \/ FramesDiscarded(w) \/ HandlerRaises(w)
  \/ LoopError(w) \/ Strand(w) \/ Crash(w) \/ KilledByJob(w) \/ Restart(w)

LEMMA CalmStepRows ==
  ASSUME IInv, LeaseInv, NEW w \in Worker, CalmStep(w)
  PROVE  CalmRows
<1>1. TypeOK /\ BusyHolds
  BY DEF IInv
<1>2. CASE StartJob(w) \/ Report(w)
  <2>1. held[w] \in Job /\ status[held[w]] \in InFlight
    BY <1>1, <1>2 DEF StartJob, Report, BusyHolds, LeaseInv, Leased, HasClaim
  <2>2. \/ UNCHANGED rowVars \/ Update(held[w], "working")
        \/ Update(held[w], status[held[w]])
    BY <1>2 DEF StartJob, Report
  <2> QED
    BY <1>1, <2>1, <2>2, UpdateIsCalm, UnwrittenIsCalm
<1>3. CASE ~(StartJob(w) \/ Report(w))
  <2>1. UNCHANGED rowVars
    BY <1>3 DEF CalmStep, SelectOldest, NothingQueued, ScheduleProgress,
       FramesDiscarded, HandlerRaises, LoopError, Strand, Crash, KilledByJob, Restart
  <2> QED
    BY <2>1, UnwrittenIsCalm
<1> QED
  BY <1>2, <1>3

LEMMA CalmStepWorkers ==
  ASSUME IInv, LeaseInv, NEW w \in Worker, CalmStep(w), NEW v \in Worker
  PROVE  GoesOn(v)
<1>1. TypeOK
  BY DEF IInv
<1>2. \A j \in Job : status[j] = "queued" => j <= created
  BY RowsAreKnown
<1>3. CASE SelectOldest(w)
  <2>1. PICK j \in Job : /\ status[j] = "queued" /\ held' = [held EXCEPT ![w] = j]
                         /\ pc' = [pc EXCEPT ![w] = "take"]
    BY <1>3 DEF SelectOldest, Claimable, Goto
  <2> QED
    BY <1>1, <1>2, <2>1 DEF GoesOn, OnJob, TypeOK
<1>4. CASE ~SelectOldest(w)
  BY <1>1, <1>4 DEF CalmStep, NothingQueued, StartJob, Report, ScheduleProgress,
     FramesDiscarded, HandlerRaises, LoopError, Strand, Crash, KilledByJob, Restart,
     BackToPoll, Goto, GoesOn, OnJob, TypeOK
<1> QED
  BY <1>3, <1>4

LEMMA CalmStepLease ==
  ASSUME IInv, LeaseInv, NEW w \in Worker, CalmStep(w)
  PROVE  LeaseInv'
<1>1. CalmRows /\ \A v \in Worker : GoesOn(v)
  BY CalmStepRows, CalmStepWorkers
<1>2. created' = created /\ resuming' = resuming
  BY DEF CalmStep, SelectOldest, NothingQueued, StartJob, Report, ScheduleProgress,
     FramesDiscarded, HandlerRaises, LoopError, Strand, Crash, KilledByJob, Restart,
     BackToPoll, Goto
<1>3. \A c \in Client : resuming[c] # None => resuming[c] \in Job
  BY DEF IInv, TypeOK
<1>4. ResumesFailed'
  BY <1>1, <1>2, <1>3 DEF LeaseInv, ResumesFailed, CalmRows, InFlight
<1> QED
  BY <1>1, <1>2, <1>4, CalmLease DEF LeaseInv, KnownJobs

LEMMA LateProgressLease ==
  ASSUME IInv, LeaseInv, NEW j \in Job, LateProgress(j)
  PROVE  CalmRows /\ LeaseInv'
<1>1. UNCHANGED <<created, pc, held, resuming>>
  BY DEF LateProgress
<1>2. CalmRows
  BY UpdateIsCalm, UnwrittenIsCalm DEF LateProgress, IInv
<1>3. \A c \in Client : resuming[c] # None => resuming[c] \in Job
  BY DEF IInv, TypeOK
<1>4. ResumesFailed'
  BY <1>1, <1>2, <1>3 DEF LeaseInv, ResumesFailed, CalmRows, InFlight
<1>5. \A v \in Worker : GoesOn(v)
  BY <1>1 DEF GoesOn, OnJob
<1> QED
  BY <1>1, <1>2, <1>4, <1>5, CalmLease DEF LeaseInv, KnownJobs

LEMMA ResumeCheckLease ==
  ASSUME IInv, LeaseInv, NEW c \in Client, NEW j \in Job, ResumeCheck(c, j)
  PROVE  CalmRows /\ LeaseInv'
<1>1. /\ status[j] = "failed" /\ resuming' = [resuming EXCEPT ![c] = j]
      /\ UNCHANGED <<rowVars, created, pc, held>>
  BY DEF ResumeCheck, CheckAmong
<1>2. CalmRows /\ \A v \in Worker : GoesOn(v)
  BY <1>1, UnwrittenIsCalm DEF GoesOn, OnJob
<1>3. j <= created /\ TypeOK
  BY <1>1, RowsAreKnown DEF IInv
<1>4. ResumesFailed'
  BY <1>1, <1>3 DEF LeaseInv, ResumesFailed, TypeOK, rowVars
<1>5. \A d \in Client : resuming'[d] # None => resuming'[d] <= created
  BY <1>1, <1>3 DEF LeaseInv, KnownJobs, TypeOK
<1> QED
  BY <1>1, <1>2, <1>4, <1>5, CalmLease

-----------------------------------------------------------------------------
(* Steps that move a job to another phase.                                 *)

\* A worker ends its job: all of MissingFilm, Complete, ReportFailed and
\* RecordFailure.
Ends(w) ==
  /\ OnJob(w) /\ pc[w] # "post"
  /\ \E s \in Terminal :
       /\ Finish(held[w], s)
       /\ \/ pc' = [pc EXCEPT ![w] = "poll"] /\ held' = [held EXCEPT ![w] = None]
          \/ s = "completed" /\ pc' = [pc EXCEPT ![w] = "post"] /\ held' = held
                             /\ HasClaim(w)
  /\ UNCHANGED <<created, resuming>>

LEMMA EndsIs ==
  ASSUME LeaseInv, NEW w \in Worker,
         MissingFilm(w) \/ Complete(w) \/ ReportFailed(w) \/ RecordFailure(w)
  PROVE  Ends(w)
<1>1. CASE Complete(w)
  <2>1. pc[w] = "run" /\ HasClaim(w) /\ Finish(held[w], "completed")
    BY <1>1 DEF Complete, LeaseInv, Leased
  <2> QED
    BY <1>1, <2>1 DEF Complete, Ends, OnJob, BackToPoll, Goto, Terminal
<1>2. CASE MissingFilm(w) \/ ReportFailed(w) \/ RecordFailure(w)
  BY <1>2 DEF MissingFilm, ReportFailed, RecordFailure, Ends, OnJob, BackToPoll, Goto,
     Terminal
<1> QED
  BY <1>1, <1>2

\* The row a worker ends is its own: no other row changes, a purged one
\* neither.
LEMMA EndsRows ==
  ASSUME IInv, NEW w \in Worker, Ends(w)
  PROVE  /\ held[w] \in Job
         /\ \A j \in Job \ {held[w]} :
              /\ status'[j] = status[j] /\ claimedBy'[j] = claimedBy[j]
              /\ beatAge'[j] = beatAge[j]
         /\ IF status[held[w]] = "none" THEN status'[held[w]] = "none"
            ELSE status'[held[w]] \in Terminal
         /\ pc'[w] = "post" => status'[held[w]] \in {"completed", "none"}
<1>1. TypeOK /\ held[w] \in Job
  BY DEF IInv, BusyHolds, Ends, OnJob
<1>2. PICK s \in Terminal :
        /\ Finish(held[w], s)
        /\ \/ pc' = [pc EXCEPT ![w] = "poll"]
           \/ s = "completed" /\ pc' = [pc EXCEPT ![w] = "post"]
  BY DEF Ends
<1>3. pc'[w] = "post" => s = "completed"
  BY <1>1, <1>2 DEF TypeOK
<1> QED
  BY <1>1, <1>2, <1>3 DEF Finish, Row, SqlSet, TypeOK

LEMMA EndsLease ==
  ASSUME IInv, LeaseInv, NEW w \in Worker, Ends(w)
  PROVE  LeaseInv'
<1>1. /\ TypeOK /\ \A v \in Worker : OnJob(v) => held[v] \in Job
      /\ OnJob(w) /\ UNCHANGED <<created, resuming>>
  BY DEF IInv, BusyHolds, OnJob, Ends
<1>2. /\ \A v \in Worker \ {w} : pc'[v] = pc[v] /\ held'[v] = held[v]
      /\ \/ pc'[w] = "poll" /\ held'[w] = None
         \/ pc'[w] = "post" /\ held'[w] = held[w]
  BY <1>1 DEF Ends, TypeOK
<1>3. \A v \in Worker \ {w} : OnJob(v) => held[v] # held[w]
  BY <1>1 DEF LeaseInv, OneHolder
<1>4. ASSUME NEW v \in Worker PROVE Leased(v)' /\ HeartIsFresh(v)'
  <2>1. CASE v = w
    BY <1>1, <1>2, <2>1, EndsRows
    DEF Leased, HeartIsFresh, OnJob, Done, Terminal, InFlight
  <2>2. CASE v # w /\ OnJob(v)
    BY <1>1, <1>2, <1>3, <2>2, EndsRows
    DEF LeaseInv, Leased, HeartIsFresh, OnJob, Done, HasClaim
  <2>3. CASE v # w /\ ~OnJob(v)
    BY <1>2, <2>3 DEF Leased, HeartIsFresh, OnJob
  <2> QED
    BY <2>1, <2>2, <2>3
<1>5. OneHolder'
  BY <1>1, <1>2 DEF LeaseInv, OneHolder, OnJob
<1>6. ResumesFailed'
  <2>1. status[held[w]] # "failed"
    BY DEF Ends, OnJob, LeaseInv, Leased, HasClaim, Done, InFlight
  <2> QED
    BY <1>1, <2>1, EndsRows DEF LeaseInv, ResumesFailed, TypeOK
<1>7. KnownJobs'
  BY <1>1, <1>2 DEF LeaseInv, KnownJobs
<1> QED
  BY <1>4, <1>5, <1>6, <1>7 DEF LeaseInv

\* What a claim changes; nobody is at a job that waits.
LEMMA ClaimRows ==
  ASSUME IInv, LeaseInv, NEW w \in Worker, CommitClaim(w)
  PROVE  /\ held[w] \in Job /\ status[held[w]] = "queued"
         /\ \A v \in Worker : OnJob(v) => held[v] # held[w]
         /\ status' = [status EXCEPT ![held[w]] = "claimed"]
         /\ claimedBy' = [claimedBy EXCEPT ![held[w]] = w]
         /\ beatAge' = [beatAge EXCEPT ![held[w]] = 0]
         /\ pc[w] = "take" /\ pc' = [pc EXCEPT ![w] = "start"]
         /\ UNCHANGED <<created, held, resuming>>
<1>1. pc[w] = "take"
  BY DEF CommitClaim, ClaimAs
<1>2. held[w] \in Job /\ status[held[w]] = "queued"
  BY <1>1 DEF IInv, BusyHolds, LockedIsQueued
<1>3. \A v \in Worker : OnJob(v) => held[v] # held[w]
  BY <1>2 DEF LeaseInv, Leased, OnJob, HasClaim, Done, InFlight
<1> QED
  BY <1>1, <1>2, <1>3 DEF CommitClaim, ClaimAs, Goto

LEMMA ClaimLease ==
  ASSUME IInv, LeaseInv, NEW w \in Worker, CommitClaim(w)
  PROVE  LeaseInv'
<1>1. TypeOK /\ \A v \in Worker : OnJob(v) => held[v] \in Job
  BY DEF IInv, BusyHolds, OnJob
<1>2. ASSUME NEW v \in Worker PROVE Leased(v)' /\ HeartIsFresh(v)'
  <2>1. CASE v = w
    BY <1>1, <2>1, ClaimRows
    DEF TypeOK, Leased, HeartIsFresh, OnJob, HasClaim, InFlight
  <2>2. CASE v # w /\ OnJob(v)
    BY <1>1, <2>2, ClaimRows
    DEF TypeOK, LeaseInv, Leased, HeartIsFresh, OnJob, Done, HasClaim
  <2>3. CASE v # w /\ ~OnJob(v)
    BY <1>1, <2>3, ClaimRows DEF TypeOK, Leased, HeartIsFresh, OnJob
  <2> QED
    BY <2>1, <2>2, <2>3
<1>3. OneHolder'
  BY <1>1, ClaimRows DEF TypeOK, LeaseInv, OneHolder, OnJob
<1>4. ResumesFailed'
  BY <1>1, ClaimRows DEF TypeOK, LeaseInv, ResumesFailed
<1>5. KnownJobs'
  BY ClaimRows DEF LeaseInv, KnownJobs
<1> QED
  BY <1>2, <1>3, <1>4, <1>5 DEF LeaseInv

\* A resume finds its job failed, and nobody at it, or purged.
LEMMA ResumeRows ==
  ASSUME IInv, LeaseInv, NEW c \in Client, ResumeWrite(c)
  PROVE  /\ resuming[c] \in Job /\ status[resuming[c]] \in {"failed", "none"}
         /\ \A j \in Job \ {resuming[c]} :
              /\ status'[j] = status[j] /\ claimedBy'[j] = claimedBy[j]
              /\ beatAge'[j] = beatAge[j]
         /\ status'[resuming[c]] =
              IF status[resuming[c]] = "none" THEN "none" ELSE "queued"
         /\ \A v \in Worker : OnJob(v) /\ held[v] = resuming[c] =>
              status[resuming[c]] = "none"
         /\ resuming' = [resuming EXCEPT ![c] = None]
         /\ UNCHANGED <<created, pc, held>>
<1>1. TypeOK /\ resuming[c] \in Job
  BY DEF IInv, TypeOK, ResumeWrite
<1>2. status[resuming[c]] \in {"failed", "none"}
  BY <1>1 DEF LeaseInv, ResumesFailed, ResumeWrite
<1>3. \A v \in Worker : OnJob(v) /\ held[v] = resuming[c] => status[resuming[c]] = "none"
  BY <1>2 DEF LeaseInv, Leased, OnJob, HasClaim, Done, InFlight
<1>4. /\ status' = SqlSet(Row(resuming[c]), status, "queued")
      /\ claimedBy' = SqlSet(Row(resuming[c]), claimedBy, None)
      /\ beatAge' = SqlSet(Row(resuming[c]), beatAge, None)
  BY DEF ResumeWrite
<1>5. Row(resuming[c]) = {j \in Job : j = resuming[c] /\ status[j] # "none"}
  BY DEF Row
<1>6. /\ resuming' = [resuming EXCEPT ![c] = None]
      /\ UNCHANGED <<created, pc, held>>
  BY DEF ResumeWrite
<1>7. \A j \in Job \ {resuming[c]} :
        /\ status'[j] = status[j] /\ claimedBy'[j] = claimedBy[j]
        /\ beatAge'[j] = beatAge[j]
  BY <1>1, <1>4, <1>5 DEF SqlSet, TypeOK
<1>8. status'[resuming[c]] = IF status[resuming[c]] = "none" THEN "none" ELSE "queued"
  BY <1>1, <1>4, <1>5 DEF SqlSet, TypeOK
<1> QED
  BY <1>1, <1>2, <1>3, <1>6, <1>7, <1>8

LEMMA ResumeLease ==
  ASSUME IInv, LeaseInv, Undisturbed, NEW c \in Client, ResumeWrite(c)
  PROVE  LeaseInv'
<1>1. TypeOK /\ \A v \in Worker : OnJob(v) => held[v] \in Job
  BY DEF IInv, BusyHolds, OnJob
<1>2. ASSUME NEW v \in Worker PROVE Leased(v)' /\ HeartIsFresh(v)'
  <2>1. CASE OnJob(v) /\ held[v] # resuming[c]
    BY <1>1, <2>1, ResumeRows
    DEF LeaseInv, Leased, HeartIsFresh, OnJob, Done, HasClaim
  <2>2. CASE OnJob(v) /\ held[v] = resuming[c]
    BY <1>1, <2>2, ResumeRows
    DEF LeaseInv, Leased, HeartIsFresh, OnJob, Done, HasClaim, InFlight
  <2>3. CASE ~OnJob(v)
    BY <2>3, ResumeRows DEF Leased, HeartIsFresh, OnJob
  <2> QED
    BY <2>1, <2>2, <2>3
<1>3. OneHolder'
  BY ResumeRows DEF LeaseInv, OneHolder, OnJob
<1>4. ResumesFailed'
  <2>1. \A d \in Client : resuming'[d] = None
    BY <1>1, ResumeRows DEF Undisturbed, TypeOK
  <2> QED
    BY <2>1 DEF ResumesFailed
<1>5. KnownJobs'
  BY <1>1, ResumeRows DEF TypeOK, LeaseInv, KnownJobs
<1> QED
  BY <1>2, <1>3, <1>4, <1>5 DEF LeaseInv

\* The workers' places in a step that moves none onto a job.
LEMMA SameWorkers ==
  ASSUME LeaseInv, UNCHANGED <<held, resuming>>, created <= created',
         created \in Nat, created' \in Nat, TypeOK,
         \A v \in Worker : OnJob(v)' => pc'[v] = pc[v]
  PROVE  OneHolder' /\ KnownJobs'
<1>1. OneHolder'
  BY DEF LeaseInv, OneHolder, OnJob
<1>2. \A k \in Job : k <= created => k <= created'
  BY DEF Job
<1>3. KnownJobs'
  BY <1>2 DEF LeaseInv, KnownJobs, TypeOK
<1> QED
  BY <1>1, <1>3

\* Nobody is at a stalled job; the rest of the rows stay as they are.
LEMMA SweepRows ==
  ASSUME IInv, LeaseInv, NEW w \in Worker, Sweep(w)
  PROVE  /\ \A v \in Worker : OnJob(v) => held[v] \notin Stalled
         /\ \A j \in Job \ Stalled : /\ status'[j] = status[j] /\ claimedBy'[j] = claimedBy[j]
                                      /\ beatAge'[j] = beatAge[j]
         /\ \A j \in Stalled : status'[j] \in {"queued", "failed"}
         /\ Stalled \subseteq {j \in Job : status[j] \in InFlight}
         /\ pc' = [pc EXCEPT ![w] = "purge"]
         /\ UNCHANGED <<created, held, resuming>>
<1>1. TypeOK
  BY DEF IInv
<1>2. \A v \in Worker : OnJob(v) => held[v] \notin Stalled
  <2> SUFFICES ASSUME NEW v \in Worker, OnJob(v), held[v] \in Stalled PROVE FALSE
    OBVIOUS
  <2>1. /\ held[v] \in Job /\ status[held[v]] \in InFlight
        /\ beatAge[held[v]] # None /\ beatAge[held[v]] > StaleAfter
    BY DEF Stalled, SilentBeyond
  <2>2. beatAge[held[v]] <= StaleAfter
    BY <2>1 DEF LeaseInv, HeartIsFresh
  <2>3. beatAge[held[v]] \in Nat /\ StaleAfter \in Nat
    BY <1>1, <2>1 DEF TypeOK, Age
  <2> QED
    BY <2>1, <2>2, <2>3
<1>3. PICK lost, back :
        /\ lost = {j \in Stalled : attempts[j] >= MaxAttempts}
        /\ back = {j \in Stalled : attempts[j] < MaxAttempts}
        /\ status' = SqlSet(back, SqlSet(lost, status, "failed"), "queued")
        /\ claimedBy' = SqlSet(lost \cup back, claimedBy, None)
        /\ beatAge' = SqlSet(back, beatAge, None)
  BY DEF Sweep, RequeueStale, GiveUpOrReturn
<1>4. Stalled \subseteq {j \in Job : status[j] \in InFlight}
  BY DEF Stalled, SilentBeyond
<1>5. lost \cup back = Stalled
  <2>1. \A j \in Stalled : attempts[j] \in Nat
    BY <1>1, <1>4 DEF TypeOK
  <2> QED
    BY <1>3, <2>1
<1>6. \A j \in Job \ Stalled : /\ status'[j] = status[j] /\ claimedBy'[j] = claimedBy[j]
                               /\ beatAge'[j] = beatAge[j]
  BY <1>1, <1>3, <1>5 DEF SqlSet, TypeOK
<1>7. \A j \in Stalled : status'[j] \in {"queued", "failed"}
  BY <1>1, <1>3, <1>4, <1>5 DEF SqlSet, TypeOK
<1> QED
  BY <1>2, <1>4, <1>6, <1>7 DEF Sweep, Goto

LEMMA SweepLease ==
  ASSUME IInv, LeaseInv, NEW w \in Worker, Sweep(w)
  PROVE  LeaseInv'
<1>1. TypeOK /\ created \in Nat /\ \A v \in Worker : OnJob(v) => held[v] \in Job
  BY DEF IInv, TypeOK, BusyHolds, OnJob
<1>2. \A v \in Worker : OnJob(v)' => pc'[v] = pc[v]
  BY <1>1, SweepRows DEF TypeOK, OnJob
<1>3. ASSUME NEW v \in Worker PROVE Leased(v)' /\ HeartIsFresh(v)'
  <2>1. CASE OnJob(v)'
    BY <1>1, <1>2, <2>1, SweepRows
    DEF LeaseInv, Leased, HeartIsFresh, OnJob, Done, HasClaim
  <2>2. CASE ~OnJob(v)'
    BY <2>2 DEF Leased, HeartIsFresh, OnJob
  <2> QED
    BY <2>1, <2>2
<1>4. OneHolder' /\ KnownJobs'
  BY <1>1, <1>2, SweepRows, SameWorkers
<1>5. ResumesFailed'
  BY <1>1, SweepRows DEF TypeOK, LeaseInv, ResumesFailed, InFlight
<1> QED
  BY <1>3, <1>4, <1>5 DEF LeaseInv

\* A purge leaves what is not settled.
LEMMA PurgeRows ==
  ASSUME IInv, NEW w \in Worker, Purge(w)
  PROVE  /\ \A j \in Job :
              \/ /\ status'[j] = status[j] /\ claimedBy'[j] = claimedBy[j]
                 /\ beatAge'[j] = beatAge[j]
              \/ status[j] \in Terminal /\ status'[j] = "none"
         /\ pc' = [pc EXCEPT ![w] = "claim"]
         /\ UNCHANGED <<created, held, resuming>>
<1>1. TypeOK
  BY DEF IInv
<1> DEFINE expired == {j \in Job : status[j] \in Terminal /\ updatedAge[j] > Retention}
<1>2. /\ status' = SqlSet(expired, status, "none")
      /\ claimedBy' = SqlSet(expired, claimedBy, None)
      /\ beatAge' = SqlSet(expired, beatAge, None)
  BY DEF Purge, PurgeFinishedJobs
<1>3. \A j \in expired : status[j] \in Terminal
  OBVIOUS
<1> HIDE DEF expired
<1> QED
  BY <1>1, <1>2, <1>3 DEF SqlSet, TypeOK, Purge, Goto

LEMMA PurgeLease ==
  ASSUME IInv, LeaseInv, NEW w \in Worker, Purge(w)
  PROVE  LeaseInv'
<1>1. TypeOK /\ created \in Nat /\ \A v \in Worker : OnJob(v) => held[v] \in Job
  BY DEF IInv, TypeOK, BusyHolds, OnJob
<1>2. \A v \in Worker : OnJob(v)' => pc'[v] = pc[v]
  BY <1>1, PurgeRows DEF TypeOK, OnJob
<1>3. ASSUME NEW v \in Worker PROVE Leased(v)' /\ HeartIsFresh(v)'
  <2>1. CASE OnJob(v)'
    BY <1>1, <1>2, <2>1, PurgeRows
    DEF LeaseInv, Leased, HeartIsFresh, OnJob, Done, HasClaim, InFlight, Terminal
  <2>2. CASE ~OnJob(v)'
    BY <2>2 DEF Leased, HeartIsFresh, OnJob
  <2> QED
    BY <2>1, <2>2
<1>4. OneHolder' /\ KnownJobs'
  BY <1>1, <1>2, PurgeRows, SameWorkers
<1>5. ResumesFailed'
  BY <1>1, PurgeRows DEF TypeOK, LeaseInv, ResumesFailed
<1> QED
  BY <1>3, <1>4, <1>5 DEF LeaseInv

LEMMA EnqueueRows ==
  ASSUME IInv, Enqueue
  PROVE  /\ created + 1 \in Job /\ status[created + 1] = "none"
         /\ status' = [status EXCEPT ![created + 1] = "queued"]
         /\ created' = created + 1 /\ created \in Nat
         /\ UNCHANGED <<claimedBy, beatAge, pc, held, resuming>>
<1>1. created \in Nat /\ created + 1 \in Job
  BY DEF IInv, TypeOK, Enqueue, Job
<1>2. status[created + 1] = "none"
  BY <1>1 DEF IInv, AbsentIsFresh
<1> QED
  BY <1>1, <1>2 DEF Enqueue

LEMMA EnqueueLease ==
  ASSUME IInv, LeaseInv, Enqueue
  PROVE  LeaseInv'
<1>1. TypeOK /\ \A v \in Worker : OnJob(v) => held[v] \in Job
  BY DEF IInv, TypeOK, BusyHolds, OnJob
<1>2. created \in Nat /\ \A k \in Job : k <= created => k # created + 1 /\ k \in Nat
  BY EnqueueRows DEF Job
<1>3. \A v \in Worker : OnJob(v) => held[v] # created + 1
  BY <1>1, <1>2 DEF LeaseInv, KnownJobs
<1>4. ASSUME NEW v \in Worker PROVE Leased(v)' /\ HeartIsFresh(v)'
  <2>1. CASE OnJob(v)
    <3>1. status'[held[v]] = status[held[v]]
      BY <1>1, <1>3, <2>1, EnqueueRows DEF TypeOK
    <3> QED
      BY <2>1, <3>1, EnqueueRows DEF LeaseInv, Leased, HeartIsFresh, OnJob, Done, HasClaim
  <2>2. CASE ~OnJob(v)
    BY <2>2, EnqueueRows DEF Leased, HeartIsFresh, OnJob
  <2> QED
    BY <2>1, <2>2
<1>5. OneHolder' /\ KnownJobs'
  <2>1. created <= created' /\ created' \in Nat
    BY EnqueueRows
  <2> QED
    BY <1>1, <1>2, <2>1, EnqueueRows, SameWorkers
<1>6. ResumesFailed'
  <2>1. \A c \in Client : resuming[c] # None => /\ resuming[c] \in Job
                                                /\ resuming[c] # created + 1
    BY <1>1, <1>2 DEF TypeOK, LeaseInv, KnownJobs
  <2> QED
    BY <1>1, <2>1, EnqueueRows DEF TypeOK, LeaseInv, ResumesFailed
<1> QED
  BY <1>4, <1>5, <1>6 DEF LeaseInv

\* Time goes no further than the deadline of a worker at its job.
LEMMA TickLease ==
  ASSUME IInv, LeaseInv, Undisturbed, Tick
  PROVE  LeaseInv'
<1>1. TypeOK /\ \A v \in Worker : OnJob(v) => held[v] \in Job
  BY DEF IInv, TypeOK, BusyHolds, OnJob
<1>2. UNCHANGED <<status, claimedBy, created, pc, held, resuming>>
  BY DEF Tick
<1>3. ASSUME NEW v \in Worker PROVE HeartIsFresh(v)'
  <2> SUFFICES ASSUME OnJob(v), status[held[v]] \in InFlight
               PROVE  beatAge'[held[v]] # None /\ beatAge'[held[v]] <= StaleAfter
    BY <1>2 DEF HeartIsFresh, OnJob
  <2>1. Executing(v)
    <3>1. held[v] # None
      BY <1>1 DEF Job
    <3>2. pc[v] # "post"
      BY DEF LeaseInv, Leased, Done, InFlight
    <3> QED
      BY <3>1, <3>2 DEF OnJob, Executing
  <2>2. beatAge[held[v]] # None /\ beatAge[held[v]] < StaleAfter
    BY <2>1 DEF Undisturbed, Tick
  <2>3. beatAge[held[v]] \in Nat /\ StaleAfter \in Nat /\ held[v] \in Job
    BY <1>1, <2>2 DEF TypeOK, Age
  <2>4. beatAge'[held[v]] = beatAge[held[v]] + 1
    BY <2>2, <2>3 DEF Tick, Older
  <2> QED
    BY <2>2, <2>3, <2>4
<1>4. \A v \in Worker : Leased(v)'
  BY <1>2 DEF LeaseInv, Leased, HasClaim, Done
<1>5. OneHolder' /\ ResumesFailed' /\ KnownJobs'
  BY <1>2 DEF LeaseInv, OneHolder, OnJob, ResumesFailed, KnownJobs
<1> QED
  BY <1>3, <1>4, <1>5 DEF LeaseInv

-----------------------------------------------------------------------------
LEMMA LeaseStep ==
  ASSUME IInv, LeaseInv, Undisturbed, [Next]_vars
  PROVE  LeaseInv'
<1>1. CASE Enqueue
  BY <1>1, EnqueueLease
<1>2. CASE \E c \in Client : (\E j \in Job : ResumeCheck(c, j)) \/ ResumeWrite(c)
  BY <1>2, ResumeCheckLease, ResumeLease
<1>3. CASE \E w \in Worker : CalmStep(w)
  BY <1>3, CalmStepLease
<1>4. CASE \E w \in Worker : \/ MissingFilm(w) \/ Complete(w)
                            \/ ReportFailed(w) \/ RecordFailure(w)
  BY <1>4, EndsIs, EndsLease
<1>5. CASE \E w \in Worker : CommitClaim(w) \/ Sweep(w) \/ Purge(w)
  BY <1>5, ClaimLease, SweepLease, PurgeLease
<1>6. CASE \E j \in Job : LateProgress(j)
  BY <1>6, LateProgressLease
<1>7. CASE Tick
  BY <1>7, TickLease
<1>8. CASE UNCHANGED vars
  BY <1>8 DEF vars, rowVars, LeaseInv, Leased, HeartIsFresh, OneHolder, OnJob, HasClaim,
     Done, ResumesFailed, KnownJobs
<1> QED
  BY <1>1, <1>2, <1>3, <1>4, <1>5, <1>6, <1>7, <1>8 DEF Next, WorkerStep, CalmStep

LEMMA LeaseInvariant ==
  ASSUME Undisturbed
  PROVE  Spec => []LeaseInv
<1>1. Init => LeaseInv
  BY DEF Init, LeaseInv, Leased, HeartIsFresh, OneHolder, OnJob, ResumesFailed, KnownJobs
<1>2. IInv /\ LeaseInv /\ [Next]_vars => LeaseInv'
  BY LeaseStep
<1> QED
  BY <1>1, <1>2, QueueInvariant, PTL DEF Spec

\* The claim in a row tells the truth about who works on the job
\* (claimed_by, store.claim_next): nobody runs a job that has been swept,
\* settled, resumed or claimed again underneath it.
THEOREM ClaimsTellTheTruth ==
  ASSUME Undisturbed
  PROVE  Spec => []LeaseAgreement
<1>1. LeaseInv => LeaseAgreement
  BY DEF LeaseInv, Leased, HasClaim, LeaseAgreement
<1> QED
  BY <1>1, LeaseInvariant, PTL

-----------------------------------------------------------------------------
(* Every step is one of the abstract queue, or invisible there.            *)

\* A row's phase depends on its own status alone.
LEMMA Phases ==
  ASSUME TypeOK
  PROVE  /\ phaseOf \in [Job -> {"none", "waiting", "held", "settled"}]
         /\ \A j \in Job : /\ phaseOf[j] = "none" <=> status[j] = "none"
                           /\ phaseOf[j] = "waiting" <=> status[j] = "queued"
                           /\ phaseOf[j] = "held" <=> status[j] \in InFlight
                           /\ phaseOf[j] = "settled" <=> status[j] \in Terminal
  BY DEF TypeOK, Status, InFlight, Terminal, phaseOf

LEMMA PhaseKept ==
  ASSUME TypeOK, TypeOK', NEW j \in Job,
         status'[j] = status[j] \/ (status[j] \in InFlight /\ status'[j] \in InFlight)
  PROVE  phaseOf'[j] = phaseOf[j]
  BY DEF TypeOK, Status, InFlight, Terminal, phaseOf

\* So does a worker's work on its place, its job and that job's status.
LEMMA WorkKept ==
  ASSUME NEW v \in Worker, pc'[v] = pc[v], held'[v] = held[v],
         OnJob(v) => (status'[held[v]] \in InFlight <=> status[held[v]] \in InFlight)
  PROVE  workingOf'[v] = workingOf[v]
  BY DEF workingOf, Executing, OnJob

LEMMA WorkIs ==
  ASSUME IInv, LeaseInv, NEW v \in Worker
  PROVE  /\ workingOf[v] # None <=> Executing(v)
         /\ Executing(v) => workingOf[v] = held[v] /\ held[v] \in Job /\ OnJob(v)
                             /\ HasClaim(v) /\ phaseOf[held[v]] = "held"
<1>1. Executing(v) => held[v] \in Job /\ OnJob(v)
  BY DEF Executing, OnJob, IInv, BusyHolds
<1>2. Executing(v) => HasClaim(v)
  BY DEF Executing, LeaseInv, Leased, HasClaim, Done, InFlight
<1>3. TypeOK
  BY DEF IInv
<1>4. Executing(v) => phaseOf[held[v]] = "held"
  BY <1>1, <1>3, Phases DEF Executing
<1> QED
  BY <1>1, <1>2, <1>4 DEF workingOf, Executing, Job

\* The job of a worker that does nothing with its status is idle where no
\* worker is on it.
LEMMA IdleIs ==
  ASSUME IInv, LeaseInv, NEW j \in Job, \A v \in Worker : OnJob(v) => held[v] # j
  PROVE  WQ!Idle(j)
  BY WorkIs DEF WQ!Idle, Job

-----------------------------------------------------------------------------
LEMMA CalmPhases ==
  ASSUME TypeOK, TypeOK', CalmRows
  PROVE  phaseOf' = phaseOf
<1>1. \A j \in Job : phaseOf'[j] = phaseOf[j]
  BY PhaseKept DEF CalmRows
<1> QED
  BY <1>1 DEF phaseOf

\* A worker goes on, or abandons its job.
LEMMA CalmRefines ==
  ASSUME IInv, LeaseInv, LeaseInv', IInv', NEW w \in Worker, CalmStep(w)
  PROVE  [WQ!Next]_(WQ!vars)
<1>1. TypeOK /\ TypeOK' /\ CalmRows /\ GoesOn(w)
  BY CalmStepRows, CalmStepWorkers DEF IInv
<1>2. phaseOf' = phaseOf
  BY <1>1, CalmPhases
<1>3. \A v \in Worker \ {w} : pc'[v] = pc[v] /\ held'[v] = held[v]
  BY <1>1 DEF CalmStep, SelectOldest, NothingQueued, StartJob, Report, ScheduleProgress,
     FramesDiscarded, HandlerRaises, LoopError, Strand, Crash, KilledByJob, Restart,
     BackToPoll, Goto, TypeOK
<1>4. \A v \in Worker : OnJob(v) => held[v] \in Job
  BY DEF IInv, BusyHolds, OnJob
<1>5. \A v \in Worker \ {w} : workingOf'[v] = workingOf[v]
  BY <1>1, <1>3, <1>4, WorkKept DEF CalmRows
<1>6. Executing(w)' => Executing(w) /\ held'[w] = held[w]
  <2> SUFFICES ASSUME Executing(w)' PROVE Executing(w) /\ held'[w] = held[w]
    OBVIOUS
  <2>1. OnJob(w) /\ held'[w] = held[w] /\ held[w] \in Job
    BY <1>1, <1>4 DEF GoesOn, Executing, OnJob
  <2>2. status[held[w]] \in InFlight
    BY <1>1, <2>1 DEF Executing, CalmRows
  <2>3. pc[w] # "post"
    BY <2>2 DEF LeaseInv, Leased, Done, InFlight
  <2> QED
    BY <2>1, <2>2, <2>3 DEF Executing, OnJob, Job
<1>7. CASE workingOf'[w] = workingOf[w]
  <2>1. workingOf' = workingOf
    BY <1>5, <1>7 DEF workingOf
  <2> QED
    BY <1>2, <2>1 DEF WQ!vars
<1>8. CASE workingOf'[w] # workingOf[w]
  <2>1. workingOf[w] # None /\ workingOf'[w] = None
    BY <1>6, <1>8 DEF workingOf
  <2>2. workingOf' = [workingOf EXCEPT ![w] = None]
    BY <1>5, <2>1 DEF workingOf
  <2>3. WQ!Abandon(w)
    BY <1>2, <2>1, <2>2 DEF WQ!Abandon
  <2> QED
    BY <2>3 DEF WQ!Next
<1> QED
  BY <1>7, <1>8

\* Nothing to see of requests that check, late progress and time.
LEMMA HiddenRefines ==
  ASSUME IInv, IInv', CalmRows, UNCHANGED <<pc, held>>
  PROVE  UNCHANGED WQ!vars
<1>1. TypeOK /\ TypeOK' /\ \A v \in Worker : OnJob(v) => held[v] \in Job
  BY DEF IInv, BusyHolds, OnJob
<1>2. \A v \in Worker : workingOf'[v] = workingOf[v]
  BY <1>1, WorkKept DEF CalmRows
<1>3. workingOf' = workingOf
  BY <1>2 DEF workingOf
<1> QED
  BY <1>1, <1>3, CalmPhases DEF WQ!vars

LEMMA TickRefines ==
  ASSUME Tick
  PROVE  UNCHANGED WQ!vars
  BY DEF Tick, WQ!vars, phaseOf, workingOf, Executing

\* A step after which the same workers work on the same jobs.
LEMMA SameWork ==
  ASSUME \A v \in Worker : workingOf'[v] = workingOf[v]
  PROVE  workingOf' = workingOf
  BY DEF workingOf

LEMMA EnqueueRefines ==
  ASSUME IInv, IInv', LeaseInv, Enqueue
  PROVE  WQ!Next
<1>1. /\ TypeOK /\ TypeOK' /\ created + 1 \in Job /\ created \in Nat
      /\ \A v \in Worker : OnJob(v) => held[v] \in Job
  BY EnqueueRows DEF IInv, BusyHolds, OnJob
<1>2. \A v \in Worker : OnJob(v) => held[v] # created + 1
  <2>1. \A v \in Worker : OnJob(v) => held[v] <= created /\ held[v] \in Nat
    BY <1>1 DEF LeaseInv, KnownJobs, Job
  <2> QED
    BY <1>1, <2>1
<1>3. \A v \in Worker : OnJob(v) => status'[held[v]] = status[held[v]]
  BY <1>1, <1>2, EnqueueRows DEF TypeOK
<1>4. workingOf' = workingOf
  BY <1>3, EnqueueRows, WorkKept, SameWork
<1>5. phaseOf[created + 1] = "none" /\ phaseOf' = [phaseOf EXCEPT ![created + 1] = "waiting"]
  <2>1. status'[created + 1] = "queued"
    BY <1>1, EnqueueRows DEF TypeOK
  <2>2. \A j \in Job \ {created + 1} : phaseOf'[j] = phaseOf[j]
    BY <1>1, EnqueueRows, PhaseKept DEF TypeOK
  <2>3. phaseOf[created + 1] = "none"
    BY <1>1, EnqueueRows, Phases
  <2>4. phaseOf'[created + 1] = "waiting"
    BY <1>1, <2>1 DEF phaseOf, InFlight
  <2>5. phaseOf' = [phaseOf EXCEPT ![created + 1] = "waiting"]
    BY <1>1, <2>2, <2>4 DEF phaseOf
  <2> QED
    BY <2>3, <2>5
<1>6. WQ!Submit(created + 1)
  BY <1>4, <1>5 DEF WQ!Submit
<1> QED
  BY <1>1, <1>6 DEF WQ!Next

LEMMA ResumeRefines ==
  ASSUME IInv, IInv', LeaseInv, NEW c \in Client, ResumeWrite(c)
  PROVE  [WQ!Next]_(WQ!vars)
<1> DEFINE j == resuming[c]
<1>1. /\ TypeOK /\ TypeOK' /\ j \in Job
      /\ \A v \in Worker : OnJob(v) => held[v] \in Job
  BY ResumeRows DEF IInv, BusyHolds, OnJob
<1>2. \A v \in Worker : OnJob(v) => status'[held[v]] = status[held[v]]
  BY <1>1, ResumeRows
<1>3. workingOf' = workingOf
  BY <1>2, ResumeRows, WorkKept, SameWork
<1>4. \A k \in Job \ {j} : phaseOf'[k] = phaseOf[k]
  BY <1>1, ResumeRows, PhaseKept
<1>5. CASE status[j] = "none"
  <2>1. phaseOf' = phaseOf
    BY <1>1, <1>4, <1>5, ResumeRows, PhaseKept DEF phaseOf
  <2> QED
    BY <1>3, <2>1 DEF WQ!vars
<1>6. CASE status[j] = "failed"
  <2>1. phaseOf[j] = "settled" /\ phaseOf'[j] = "waiting"
    BY <1>1, <1>6, ResumeRows DEF phaseOf, InFlight
  <2>2. phaseOf' = [phaseOf EXCEPT ![j] = "waiting"]
    BY <1>1, <1>4, <2>1 DEF phaseOf
  <2>3. WQ!Retry(j)
    BY <1>3, <2>1, <2>2 DEF WQ!Retry
  <2> QED
    BY <1>1, <2>3 DEF WQ!Next
<1> QED
  BY <1>5, <1>6, ResumeRows

LEMMA ClaimRefines ==
  ASSUME IInv, IInv', LeaseInv, LeaseInv', NEW w \in Worker, CommitClaim(w)
  PROVE  WQ!Next
<1> DEFINE j == held[w]
<1>1. /\ TypeOK /\ TypeOK' /\ j \in Job /\ status[j] = "queued" /\ status'[j] = "claimed"
      /\ pc'[w] = "start" /\ pc[w] = "take" /\ held' = held
      /\ \A v \in Worker \ {w} : pc'[v] = pc[v]
  BY ClaimRows DEF IInv, TypeOK
<1>2. \A k \in Job \ {j} : status'[k] = status[k]
  BY <1>1, ClaimRows DEF TypeOK
<1>3. \A v \in Worker : OnJob(v) => held[v] \in Job /\ held[v] # j
  BY ClaimRows DEF IInv, BusyHolds, OnJob
<1>4. \A v \in Worker \ {w} : workingOf'[v] = workingOf[v]
  BY <1>1, <1>2, <1>3, WorkKept
<1>5. workingOf[w] = None /\ workingOf'[w] = j
  <2>1. ~Executing(w) /\ Executing(w)'
    BY <1>1 DEF Executing, InFlight, Job
  <2> QED
    BY <1>1, <2>1 DEF workingOf
<1>6. workingOf' = [workingOf EXCEPT ![w] = j]
  BY <1>4, <1>5 DEF workingOf
<1>7. phaseOf[j] = "waiting" /\ phaseOf'[j] = "held"
  BY <1>1 DEF phaseOf, InFlight
<1>8. phaseOf' = [phaseOf EXCEPT ![j] = "held"]
  <2>1. \A k \in Job \ {j} : phaseOf'[k] = phaseOf[k]
    BY <1>1, <1>2, PhaseKept
  <2> QED
    BY <1>7, <2>1 DEF phaseOf
<1>9. WQ!Idle(j)
  BY <1>1, <1>3, IdleIs
<1>10. WQ!Take(w, j)
  BY <1>5, <1>6, <1>7, <1>8, <1>9 DEF WQ!Take
<1> QED
  BY <1>1, <1>10 DEF WQ!Next

LEMMA EndsRefines ==
  ASSUME IInv, IInv', LeaseInv, NEW w \in Worker, Ends(w)
  PROVE  [WQ!Next]_(WQ!vars)
<1> DEFINE j == held[w]
<1>1. /\ TypeOK /\ TypeOK' /\ j \in Job /\ OnJob(w) /\ pc[w] # "post"
      /\ \A v \in Worker : OnJob(v) => held[v] \in Job
  BY EndsRows DEF IInv, BusyHolds, OnJob, Ends
<1>2. /\ \A v \in Worker \ {w} : pc'[v] = pc[v] /\ held'[v] = held[v]
      /\ pc'[w] \in {"poll", "post"}
  BY <1>1 DEF Ends, TypeOK
<1>3. \A v \in Worker \ {w} : OnJob(v) => held[v] # j
  BY <1>1 DEF LeaseInv, OneHolder
<1>4. \A v \in Worker \ {w} : workingOf'[v] = workingOf[v]
  BY <1>1, <1>2, <1>3, EndsRows, WorkKept
<1>5. workingOf'[w] = None
  BY <1>2 DEF workingOf, Executing
<1>6. \A k \in Job \ {j} : phaseOf'[k] = phaseOf[k]
  BY <1>1, EndsRows, PhaseKept
<1>7. CASE status[j] \in InFlight
  <2>1. Executing(w)
    BY <1>1, <1>7 DEF Executing, OnJob, Job
  <2>2. workingOf[w] = j /\ j # None
    BY <2>1, WorkIs
  <2>3. status'[j] \in Terminal
    BY <1>7, EndsRows DEF InFlight
  <2>4. phaseOf[j] = "held" /\ phaseOf'[j] = "settled"
    BY <1>1, <1>7, <2>3 DEF phaseOf, InFlight, Terminal
  <2>5. phaseOf' = [phaseOf EXCEPT ![j] = "settled"]
    BY <1>6, <2>4 DEF phaseOf
  <2>6. workingOf' = [workingOf EXCEPT ![w] = None]
    BY <1>4, <1>5 DEF workingOf
  <2>7. WQ!Settle(w)
    BY <2>2, <2>4, <2>5, <2>6 DEF WQ!Settle
  <2> QED
    BY <2>7 DEF WQ!Next
<1>8. CASE Done(j)
  <2>1. ~Executing(w)
    BY <1>8 DEF Done, Executing, InFlight
  <2>2. workingOf' = workingOf
    BY <1>4, <1>5, <2>1, SameWork DEF workingOf
  <2>3. phaseOf'[j] = phaseOf[j]
    BY <1>1, <1>8, EndsRows DEF Done, phaseOf, InFlight, Terminal
  <2>4. phaseOf' = phaseOf
    BY <1>6, <2>3 DEF phaseOf
  <2> QED
    BY <2>2, <2>4 DEF WQ!vars
<1>9. status[j] \in InFlight \/ Done(j)
  BY <1>1 DEF LeaseInv, Leased, OnJob, HasClaim
<1> QED
  BY <1>7, <1>8, <1>9

LEMMA SweepRefines ==
  ASSUME IInv, IInv', LeaseInv, NEW w \in Worker, Sweep(w)
  PROVE  [WQ!Next]_(WQ!vars)
<1>1. /\ TypeOK /\ TypeOK' /\ Stalled \subseteq Job
      /\ \A v \in Worker : OnJob(v) => held[v] \in Job \ Stalled
  BY SweepRows DEF IInv, BusyHolds, OnJob
<1>2. \A j \in Stalled : WQ!Idle(j)
  BY <1>1, IdleIs
<1>3. workingOf' = workingOf
  <2> SUFFICES ASSUME NEW v \in Worker PROVE workingOf'[v] = workingOf[v]
    BY SameWork
  <2>1. CASE v = w
    BY <2>1, <1>1, SweepRows DEF TypeOK, Sweep, workingOf, Executing
  <2>2. CASE v # w
    BY <2>2, <1>1, SweepRows, WorkKept DEF TypeOK
  <2> QED
    BY <2>1, <2>2
<1>4. \A j \in Job \ Stalled : phaseOf'[j] = phaseOf[j]
  BY <1>1, SweepRows, PhaseKept
<1>5. \A j \in Stalled : phaseOf[j] = "held" /\ phaseOf'[j] \in {"waiting", "settled"}
  BY <1>1, SweepRows DEF phaseOf, InFlight
<1>6. CASE Stalled = {}
  <2>1. phaseOf' = phaseOf
    BY <1>4, <1>6 DEF phaseOf
  <2> QED
    BY <1>3, <2>1 DEF WQ!vars
<1>7. CASE Stalled # {}
  <2> DEFINE outcome == [j \in Stalled |-> phaseOf'[j]]
  <2>1. outcome \in [Stalled -> {"waiting", "settled"}]
    BY <1>5
  <2>2. phaseOf' = [j \in Job |-> IF j \in Stalled THEN outcome[j] ELSE phaseOf[j]]
    BY <1>1, <1>4 DEF phaseOf
  <2>3. Stalled \in SUBSET {j \in Job : phaseOf[j] = "held" /\ WQ!Idle(j)}
    BY <1>1, <1>2, <1>5
  <2> HIDE DEF outcome
  <2>4. WQ!Recover
    BY <1>3, <1>7, <2>1, <2>2, <2>3 DEF WQ!Recover
  <2> QED
    BY <2>4 DEF WQ!Next
<1> QED
  BY <1>6, <1>7

LEMMA PurgeRefines ==
  ASSUME IInv, IInv', NEW w \in Worker, Purge(w)
  PROVE  [WQ!Next]_(WQ!vars)
<1>1. TypeOK /\ TypeOK' /\ \A v \in Worker : OnJob(v) => held[v] \in Job
  BY DEF IInv, BusyHolds, OnJob
<1>2. workingOf' = workingOf
  <2> SUFFICES ASSUME NEW v \in Worker PROVE workingOf'[v] = workingOf[v]
    BY SameWork
  <2>1. CASE v = w
    BY <2>1, <1>1, PurgeRows DEF TypeOK, Purge, workingOf, Executing
  <2>2. CASE v # w
    <3>1. pc'[v] = pc[v] /\ held'[v] = held[v]
      BY <1>1, <2>2, PurgeRows DEF TypeOK
    <3>2. \A j \in Job : status'[j] \in InFlight <=> status[j] \in InFlight
      BY PurgeRows DEF InFlight, Terminal
    <3> QED
      BY <1>1, <3>1, <3>2, WorkKept
  <2> QED
    BY <2>1, <2>2
<1> DEFINE purged == {j \in Job : phaseOf[j] = "settled" /\ phaseOf'[j] = "none"}
<1>3. \A j \in Job \ purged : phaseOf'[j] = phaseOf[j]
  <2> SUFFICES ASSUME NEW j \in Job, phaseOf'[j] # phaseOf[j]
               PROVE  phaseOf[j] = "settled" /\ phaseOf'[j] = "none"
    OBVIOUS
  <2>1. status[j] \in Terminal /\ status'[j] = "none"
    BY <1>1, PhaseKept, PurgeRows
  <2>2. phaseOf[j] = "settled"
    BY <1>1, <2>1, Phases
  <2>3. phaseOf'[j] = "none"
    BY <2>1 DEF phaseOf, InFlight
  <2> QED
    BY <2>2, <2>3
<1>4. purged \in SUBSET {j \in Job : phaseOf[j] = "settled"}
  OBVIOUS
<1>5. \A j \in purged : phaseOf'[j] = "none"
  OBVIOUS
<1> HIDE DEF purged
<1>6. CASE purged = {}
  <2>1. phaseOf' = phaseOf
    BY <1>3, <1>6 DEF phaseOf
  <2> QED
    BY <1>2, <2>1 DEF WQ!vars
<1>7. CASE purged # {}
  <2>1. phaseOf' = [j \in Job |-> IF j \in purged THEN "none" ELSE phaseOf[j]]
    BY <1>3, <1>5 DEF phaseOf
  <2>2. WQ!Forget
    BY <1>2, <1>4, <1>7, <2>1 DEF WQ!Forget
  <2> QED
    BY <2>2 DEF WQ!Next
<1> QED
  BY <1>6, <1>7

-----------------------------------------------------------------------------
LEMMA StepRefines ==
  ASSUME IInv, IInv', LeaseInv, LeaseInv', [Next]_vars
  PROVE  [WQ!Next]_(WQ!vars)
<1>1. CASE Enqueue
  BY <1>1, EnqueueRefines
<1>2. CASE \E c \in Client : \E j \in Job : ResumeCheck(c, j)
  <2>1. CalmRows /\ UNCHANGED <<pc, held>>
    BY <1>2, ResumeCheckLease DEF ResumeCheck, CheckAmong
  <2> QED
    BY <2>1, HiddenRefines
<1>3. CASE \E c \in Client : ResumeWrite(c)
  BY <1>3, ResumeRefines
<1>4. CASE \E w \in Worker : CalmStep(w)
  BY <1>4, CalmRefines
<1>5. CASE \E w \in Worker : \/ MissingFilm(w) \/ Complete(w)
                            \/ ReportFailed(w) \/ RecordFailure(w)
  BY <1>5, EndsIs, EndsRefines
<1>6. CASE \E w \in Worker : CommitClaim(w) \/ Sweep(w) \/ Purge(w)
  BY <1>6, ClaimRefines, SweepRefines, PurgeRefines
<1>7. CASE \E j \in Job : LateProgress(j)
  <2>1. CalmRows /\ UNCHANGED <<pc, held>>
    BY <1>7, LateProgressLease DEF LateProgress
  <2> QED
    BY <2>1, HiddenRefines
<1>8. CASE Tick
  BY <1>8, TickRefines
<1>9. CASE UNCHANGED vars
  BY <1>9 DEF vars, rowVars, WQ!vars, phaseOf, workingOf, Executing
<1> QED
  BY <1>1, <1>2, <1>3, <1>4, <1>5, <1>6, <1>7, <1>8, <1>9 DEF Next, WorkerStep, CalmStep

\* The queue does what WorkQueue promises: a job is handed to one worker at
\* a time and is taken back only once nobody works on it (claim_next,
\* requeue_stale, store.py), as long as workers report in time and resumes
\* of one job do not overlap.
THEOREM QueueImplementsWorkQueue ==
  ASSUME Undisturbed
  PROVE  Spec => ImplementsWorkQueue
<1>1. Init => WQ!Init
  <2> SUFFICES ASSUME Init PROVE WQ!Init
    OBVIOUS
  <2>1. \A j \in Job : phaseOf[j] = "none"
    BY DEF Init, phaseOf, InFlight
  <2>2. phaseOf = [j \in Job |-> "none"]
    BY <2>1 DEF phaseOf
  <2>3. \A w \in Worker : ~Executing(w)
    BY DEF Init, Executing
  <2>4. workingOf = [w \in Worker |-> None]
    BY <2>3 DEF workingOf
  <2> QED
    BY <2>2, <2>4 DEF WQ!Init
<1>2. IInv /\ IInv' /\ LeaseInv /\ LeaseInv' /\ [Next]_vars => [WQ!Next]_(WQ!vars)
  BY StepRefines
<1> QED
  BY <1>1, <1>2, QueueInvariant, LeaseInvariant, PTL
  DEF Spec, ImplementsWorkQueue, WQ!Spec

\* A settled job is queued again only because a member resumed it
\* (resume_analysis, analysis.py): no late report, sweep or second worker
\* brings it back.
THEOREM OnlyMembersReopen ==
  ASSUME Undisturbed
  PROVE  Spec => OnlyResumeReopens
<1> DEFINE Reopened ==
      \A j \in Job : (status[j] \in Terminal /\ status'[j] \notin Terminal \cup {"none"})
        => \E c \in Client : resuming[c] = j /\ resuming'[c] = None
<1>1. ASSUME IInv, LeaseInv, [Next]_vars PROVE [Reopened]_vars
  <2> SUFFICES ASSUME Next, NEW j \in Job, status[j] \in Terminal,
                      status'[j] \notin Terminal \cup {"none"}
               PROVE  \E c \in Client : resuming[c] = j /\ resuming'[c] = None
    BY <1>1
  <2> DEFINE Kept == status'[j] = status[j]
                     \/ (status[j] \in InFlight /\ status'[j] \in InFlight)
  <2>1. ~Kept /\ TypeOK
    BY <1>1 DEF IInv, InFlight, Terminal
  <2>2. CASE Enqueue
    BY <1>1, <2>1, <2>2, EnqueueRows DEF TypeOK, Terminal
  <2>3. CASE \E c \in Client : \E k \in Job : ResumeCheck(c, k)
    BY <1>1, <2>1, <2>3, ResumeCheckLease DEF CalmRows
  <2>4. CASE \E c \in Client : ResumeWrite(c)
    <3>1. PICK c \in Client : ResumeWrite(c)
      BY <2>4
    <3>2. j = resuming[c] /\ resuming'[c] = None
      BY <1>1, <2>1, <3>1, ResumeRows DEF TypeOK
    <3> QED
      BY <3>2
  <2>5. CASE \E w \in Worker : CalmStep(w)
    BY <1>1, <2>1, <2>5, CalmStepRows DEF CalmRows
  <2>6. CASE \E w \in Worker : \/ MissingFilm(w) \/ Complete(w)
                              \/ ReportFailed(w) \/ RecordFailure(w)
    BY <1>1, <2>1, <2>6, EndsIs, EndsRows
  <2>7. CASE \E w \in Worker : CommitClaim(w)
    BY <1>1, <2>1, <2>7, ClaimRows DEF TypeOK, Terminal
  <2>8. CASE \E w \in Worker : Sweep(w)
    BY <1>1, <2>1, <2>8, SweepRows DEF InFlight, Terminal
  <2>9. CASE \E w \in Worker : Purge(w)
    BY <1>1, <2>1, <2>9, PurgeRows
  <2>10. CASE \E k \in Job : LateProgress(k)
    BY <1>1, <2>1, <2>10, LateProgressLease DEF CalmRows
  <2>11. CASE Tick
    BY <2>1, <2>11 DEF Tick
  <2> QED
    BY <2>2, <2>3, <2>4, <2>5, <2>6, <2>7, <2>8, <2>9, <2>10, <2>11
    DEF Next, WorkerStep, CalmStep
<1> QED
  BY <1>1, QueueInvariant, LeaseInvariant, PTL DEF Spec, OnlyResumeReopens
=============================================================================
