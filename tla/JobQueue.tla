------------------------------ MODULE JobQueue ------------------------------
(***************************************************************************)
(* The Postgres-backed job queue (backend/jobs/store.py), the worker       *)
(* processes that drain it (backend/jobs/worker.py) and the two API        *)
(* handlers that write to it (backend/api/analysis.py; reports.py and      *)
(* players.py enqueue in the same way).                                    *)
(*                                                                         *)
(* One action is one database transaction, or one step of a worker between *)
(* two transactions.  Every write to a row is by job_id alone: nothing in  *)
(* the code compares claimed_by with the writer, so a worker that lost its *)
(* job keeps writing to it, and so does this model.                        *)
(*                                                                         *)
(* Abstractions.  The stage names a worker writes into `status` while it   *)
(* runs a job are one value, "working": the queue only asks whether a      *)
(* status is queued, terminal or neither.  Instants are kept as ages in    *)
(* ticks, one tick being one sweep interval, and an age stops growing once *)
(* it is past the only bound the code compares it with.  progress,         *)
(* message, error, result and the counters are not kept.                   *)
(***************************************************************************)
EXTENDS Integers, FiniteSets

CONSTANTS
  Worker,       \* worker processes
  Client,       \* in-flight requests to POST /api/analysis/resume
  None,         \* SQL NULL / "no job"
  MaxJobs,      \* bound: how many jobs are ever enqueued
  KindOf,       \* job_type of the i-th job enqueued
  Poison,       \* jobs that kill every worker process that runs them
  MaxAttempts,  \* store.MAX_ATTEMPTS
  StaleAfter,   \* store.STALE_AFTER, in ticks
  Retention,    \* store.COMPLETED_JOB_RETENTION, in ticks
  MaxResumes,   \* bound: resumes a member asks for per job
  MaxFaults,    \* bound: crashes and database errors
  Timely        \* TRUE: no live worker stays silent past StaleAfter

\* A job's id is its rank in created_at order.
Job == 1 .. MaxJobs

Kind == {"analysis", "identity", "truth_report"}

ASSUME BoundsAssumption ==
  /\ MaxJobs \in Nat /\ MaxResumes \in Nat /\ MaxFaults \in Nat
  /\ MaxAttempts \in Nat \ {0}
  /\ StaleAfter \in Nat /\ Retention \in Nat

ASSUME ValuesAssumption ==
  /\ KindOf \in [Job -> Kind]
  /\ Poison \subseteq Job
  /\ Timely \in BOOLEAN

ASSUME NoneAssumption == None \notin Worker /\ None \notin Nat

VARIABLES
  status,      \* per row: its status; "none" before the insert and after a purge
  claimedBy,   \* per row: claimed_by
  beatAge,     \* per row: ticks since heartbeat_at, None when it is NULL
  updatedAge,  \* per row: ticks since updated_at
  attempts,    \* per row: attempts
  resumes,     \* history: how often a row was put back by a resume request
  created,     \* rows inserted so far
  pc,          \* per worker: where its loop is
  held,        \* per worker: the job run_once is handling
  late,        \* jobs with a progress write scheduled but not yet committed
  resuming,    \* per request: the job whose status check it has passed
  faults       \* crashes and errors so far

rowVars == <<status, claimedBy, beatAge, updatedAge, attempts, resumes>>
vars == <<rowVars, created, pc, held, late, resuming, faults>>

Terminal == {"completed", "failed"}
InFlight == {"claimed", "working"}
Status   == {"none", "queued"} \cup InFlight \cup Terminal

PC == {"down", "poll", "purge", "claim", "take", "start", "run", "post", "fail"}

Age(limit) == 0 .. (limit + 1)

TypeOK ==
  /\ status \in [Job -> Status]
  /\ claimedBy \in [Job -> Worker \cup {None}]
  /\ beatAge \in [Job -> Age(StaleAfter) \cup {None}]
  /\ updatedAge \in [Job -> Age(Retention)]
  /\ attempts \in [Job -> Nat]
  /\ resumes \in [Job -> Nat]
  /\ created \in 0 .. MaxJobs
  /\ pc \in [Worker -> PC]
  /\ held \in [Worker -> Job \cup {None}]
  /\ late \subseteq Job
  /\ resuming \in [Client -> Job \cup {None}]
  /\ faults \in 0 .. MaxFaults

Init ==
  /\ status = [j \in Job |-> "none"]
  /\ claimedBy = [j \in Job |-> None]
  /\ beatAge = [j \in Job |-> None]
  /\ updatedAge = [j \in Job |-> 0]
  /\ attempts = [j \in Job |-> 0]
  /\ resumes = [j \in Job |-> 0]
  /\ created = 0
  /\ pc = [w \in Worker |-> "poll"]
  /\ held = [w \in Worker |-> None]
  /\ late = {}
  /\ resuming = [c \in Client |-> None]
  /\ faults = 0

-----------------------------------------------------------------------------
(* Rows and the statements that write them.                                *)

\* A row exists from its insert to its purge; an UPDATE of any other id
\* matches nothing and changes nothing.
Row(j) == {k \in Job : k = j /\ status[k] # "none"}

\* UPDATE ... SET col = value for the given rows.
SqlSet(rows, col, value) == [k \in Job |-> IF k \in rows THEN value ELSE col[k]]

\* Between its SELECT ... FOR UPDATE and its commit a claiming worker has
\* the row locked: other writers wait, other claimers skip it.
Locked(j) == \E w \in Worker : pc[w] = "take" /\ held[w] = j

\* update(): sets the given status and refreshes heartbeat_at; the claim
\* stays as it is and is not looked at.
Update(j, newStatus) ==
  /\ ~Locked(j)
  /\ status' = SqlSet(Row(j), status, newStatus)
  /\ beatAge' = SqlSet(Row(j), beatAge, 0)
  /\ updatedAge' = SqlSet(Row(j), updatedAge, 0)
  /\ UNCHANGED <<claimedBy, attempts, resumes>>

\* Faulty variant: finish() without claimed_by=None.
FinishKeepingClaim(j, newStatus) == Update(j, newStatus)

\* finish(): the same write with the claim cleared.
Finish(j, newStatus) ==
  /\ ~Locked(j)
  /\ status' = SqlSet(Row(j), status, newStatus)
  /\ claimedBy' = SqlSet(Row(j), claimedBy, None)
  /\ beatAge' = SqlSet(Row(j), beatAge, 0)
  /\ updatedAge' = SqlSet(Row(j), updatedAge, 0)
  /\ UNCHANGED <<attempts, resumes>>

Goto(w, label) == pc' = [pc EXCEPT ![w] = label]

\* The worker leaves run_once (or its loop body) for the top of the loop.
BackToPoll(w) ==
  /\ Goto(w, "poll")
  /\ held' = [held EXCEPT ![w] = None]

-----------------------------------------------------------------------------
(* The API.                                                                *)

\* start_analysis, start_automatic_identity and start_truth_report all end
\* in enqueue(): one insert, whatever is already queued for the video.
Enqueue ==
  /\ created < MaxJobs
  /\ created' = created + 1
  /\ status' = [status EXCEPT ![created + 1] = "queued"]
  /\ UNCHANGED <<claimedBy, beatAge, updatedAge, attempts, resumes,
                 pc, held, late, resuming, faults>>

\* resume_analysis, first half: the row was read and its status accepted.
CheckAmong(c, j, accepted) ==
  /\ resuming[c] = None
  /\ status[j] \in accepted
  /\ resumes[j] < MaxResumes
  /\ resuming' = [resuming EXCEPT ![c] = j]
  /\ UNCHANGED <<rowVars, created, pc, held, late, faults>>

\* Faulty variant: the _RESUMABLE check is missing.
ResumeUnchecked(c, j) == CheckAmong(c, j, Status \ {"none"})

\* "interrupted" is in _RESUMABLE too, but no row can have that status.
ResumeCheck(c, j) == CheckAmong(c, j, {"failed"})

\* resume_analysis, second half: the update is made whatever the row's
\* status has become since.
ResumeWrite(c) ==
  LET j == resuming[c] IN
  /\ j # None
  /\ ~Locked(j)
  /\ status' = SqlSet(Row(j), status, "queued")
  /\ claimedBy' = SqlSet(Row(j), claimedBy, None)
  /\ beatAge' = SqlSet(Row(j), beatAge, None)
  /\ updatedAge' = SqlSet(Row(j), updatedAge, 0)
  /\ resumes' = SqlSet(Row(j), resumes, resumes[j] + 1)
  /\ resuming' = [resuming EXCEPT ![c] = None]
  /\ UNCHANGED <<attempts, created, pc, held, late, faults>>

-----------------------------------------------------------------------------
(* The worker's loop: sweep, purge, claim.                                 *)

SilentBeyond(limit, statuses) ==
  {j \in Job : status[j] \in statuses /\ beatAge[j] # None /\ beatAge[j] > limit}

\* Faulty variants: <= cutoff for < cutoff; terminal rows not excluded.
StalledAtDeadline == SilentBeyond(StaleAfter - 1, InFlight)
StalledAnyStatus == SilentBeyond(StaleAfter, InFlight \cup Terminal)

\* requeue_stale(), the rows both its UPDATEs look at.
Stalled == SilentBeyond(StaleAfter, InFlight)

GiveUpOrReturn(exhausted, returned) ==
  /\ status' = SqlSet(returned, SqlSet(exhausted, status, "failed"), "queued")
  /\ claimedBy' = SqlSet(exhausted \cup returned, claimedBy, None)
  /\ beatAge' = SqlSet(returned, beatAge, None)
  /\ updatedAge' = SqlSet(exhausted \cup returned, updatedAge, 0)
  /\ UNCHANGED <<attempts, resumes>>

\* Faulty variant: no limit on attempts.
RequeueForever == GiveUpOrReturn({}, Stalled)

\* requeue_stale(): its two UPDATEs commit together.
RequeueStale ==
  GiveUpOrReturn({j \in Stalled : attempts[j] >= MaxAttempts},
                 {j \in Stalled : attempts[j] < MaxAttempts})

\* The sweep is on a timer of its own; here it may run in any cycle.
Sweep(w) ==
  /\ pc[w] = "poll"
  /\ RequeueStale
  /\ Goto(w, "purge")
  /\ UNCHANGED <<created, held, late, resuming, faults>>

\* purge_finished_jobs(): the DELETE that follows every sweep.
PurgeFinishedJobs ==
  LET expired == {j \in Job : status[j] \in Terminal /\ updatedAge[j] > Retention}
  IN  /\ status' = SqlSet(expired, status, "none")
      /\ claimedBy' = SqlSet(expired, claimedBy, None)
      /\ beatAge' = SqlSet(expired, beatAge, None)
      /\ updatedAge' = SqlSet(expired, updatedAge, 0)
      /\ attempts' = SqlSet(expired, attempts, 0)
      /\ resumes' = SqlSet(expired, resumes, 0)

Purge(w) ==
  /\ pc[w] = "purge"
  /\ PurgeFinishedJobs
  /\ Goto(w, "claim")
  /\ UNCHANGED <<created, held, late, resuming, faults>>

\* Faulty variant: FOR UPDATE without SKIP LOCKED, the row not re-read.
ClaimableLockedToo == {j \in Job : status[j] = "queued"}

\* claim_next(), SELECT ... FOR UPDATE SKIP LOCKED: the queued rows it can see.
Claimable == {j \in Job : status[j] = "queued" /\ ~Locked(j)}

\* It locks the oldest of them.
SelectOldest(w) ==
  /\ pc[w] \in {"poll", "claim"}
  /\ \E j \in Claimable :
       /\ \A k \in Claimable : j <= k
       /\ held' = [held EXCEPT ![w] = j]
  /\ Goto(w, "take")
  /\ UNCHANGED <<rowVars, created, late, resuming, faults>>

NothingQueued(w) ==
  /\ pc[w] = "claim"
  /\ Claimable = {}
  /\ Goto(w, "poll")
  /\ UNCHANGED <<rowVars, created, held, late, resuming, faults>>

ClaimAs(w, beat, tries) ==
  LET j == held[w] IN
  /\ pc[w] = "take"
  /\ status' = [status EXCEPT ![j] = "claimed"]
  /\ claimedBy' = [claimedBy EXCEPT ![j] = w]
  /\ beatAge' = [beatAge EXCEPT ![j] = beat]
  /\ updatedAge' = [updatedAge EXCEPT ![j] = 0]
  /\ attempts' = [attempts EXCEPT ![j] = @ + tries]
  /\ Goto(w, "start")
  /\ UNCHANGED <<resumes, created, held, late, resuming, faults>>

\* Faulty variants of the claim: heartbeat_at not set; the attempt not
\* counted.
ClaimWithoutHeartbeat(w) == ClaimAs(w, beatAge[held[w]], 1)
ClaimUncounted(w) == ClaimAs(w, 0, 0)

\* claim_next(), the commit: the job is this worker's, one attempt more.
CommitClaim(w) == ClaimAs(w, 0, 1)

-----------------------------------------------------------------------------
(* run_once: the job itself.                                               *)

\* The film's file is on this machine, and the first report of _run_job or
\* _run_identity_job is written; a truth report needs no film and reports
\* nothing before its first play.
StartJob(w) ==
  LET j == held[w] IN
  /\ pc[w] = "start"
  /\ IF KindOf[j] = "truth_report" THEN UNCHANGED rowVars
                                   ELSE Update(j, "working")
  /\ Goto(w, "run")
  /\ UNCHANGED <<created, held, late, resuming, faults>>

MissingFilm(w) ==
  /\ pc[w] = "start"
  /\ KindOf[held[w]] # "truth_report"
  /\ Finish(held[w], "failed")
  /\ BackToPoll(w)
  /\ UNCHANGED <<created, late, resuming, faults>>

\* An awaited progress report: a stage change, or counters and a message
\* only.  An identity job makes none after its first.
Report(w) ==
  LET j == held[w] IN
  /\ pc[w] = "run"
  /\ KindOf[j] # "identity"
  /\ Update(j, "working") \/ (KindOf[j] = "analysis" /\ Update(j, status[j]))
  /\ UNCHANGED <<created, pc, held, late, resuming, faults>>

\* progress_cb: the pipeline's thread hands a progress write to the event
\* loop and does not wait for it.
ScheduleProgress(w) ==
  /\ pc[w] = "run"
  /\ KindOf[held[w]] = "analysis"
  /\ late' = late \cup {held[w]}
  /\ UNCHANGED <<rowVars, created, pc, held, resuming, faults>>

\* Such a write commits whenever it does, or is lost with its process.
LateProgress(j) ==
  /\ j \in late
  /\ late' = late \ {j}
  /\ Update(j, status[j]) \/ UNCHANGED rowVars
  /\ UNCHANGED <<created, pc, held, resuming, faults>>

\* The handler's last transaction: the job is completed.  An identity job
\* still has its extracted frames to discard.
Complete(w) ==
  /\ pc[w] = "run"
  /\ held[w] \notin Poison
  /\ Finish(held[w], "completed")
  /\ IF KindOf[held[w]] = "identity" THEN Goto(w, "post") /\ UNCHANGED held
                                     ELSE BackToPoll(w)
  /\ UNCHANGED <<created, late, resuming, faults>>

\* build_truth_report catches its own errors and returns them as a result.
ReportFailed(w) ==
  /\ pc[w] = "run"
  /\ KindOf[held[w]] = "truth_report"
  /\ held[w] \notin Poison
  /\ Finish(held[w], "failed")
  /\ BackToPoll(w)
  /\ UNCHANGED <<created, late, resuming, faults>>

FramesDiscarded(w) ==
  /\ pc[w] = "post"
  /\ BackToPoll(w)
  /\ UNCHANGED <<rowVars, created, late, resuming, faults>>

\* Anything raised inside run_once's try blocks, also after the completion
\* was committed, leads to the handler that marks the job failed.
HandlerRaises(w) ==
  /\ pc[w] \in {"start", "run", "post"}
  /\ pc[w] = "run" => held[w] \notin Poison
  /\ Goto(w, "fail")
  /\ UNCHANGED <<rowVars, created, held, late, resuming, faults>>

RecordFailure(w) ==
  /\ pc[w] = "fail"
  /\ Finish(held[w], "failed")
  /\ BackToPoll(w)
  /\ UNCHANGED <<created, late, resuming, faults>>

-----------------------------------------------------------------------------
(* Faults and time.                                                        *)

Fault == faults < MaxFaults /\ faults' = faults + 1

\* A statement of the loop fails before its commit: the loop logs it and
\* starts over, and a claim's row lock is gone with the transaction.
LoopError(w) ==
  /\ Fault
  /\ pc[w] \in {"purge", "claim", "take"}
  /\ BackToPoll(w)
  /\ UNCHANGED <<rowVars, created, late, resuming>>

\* An error no handler of run_once catches - the refresh after the claim's
\* commit, the film lookup, or writing the failure itself - leaves the job
\* claimed with nobody running it.
Strand(w) ==
  /\ Fault
  /\ pc[w] \in {"start", "fail"}
  /\ BackToPoll(w)
  /\ UNCHANGED <<rowVars, created, late, resuming>>

\* The process dies: an OOM kill, a reboot.  The row keeps its claim.
Crash(w) ==
  /\ Fault
  /\ pc[w] # "down"
  /\ Goto(w, "down")
  /\ held' = [held EXCEPT ![w] = None]
  /\ UNCHANGED <<rowVars, created, late, resuming>>

\* store.py:38: the job itself takes its worker down, every time.
KilledByJob(w) ==
  /\ pc[w] = "run"
  /\ held[w] \in Poison
  /\ Goto(w, "down")
  /\ held' = [held EXCEPT ![w] = None]
  /\ UNCHANGED <<rowVars, created, late, resuming, faults>>

Restart(w) ==
  /\ pc[w] = "down"
  /\ Goto(w, "poll")
  /\ UNCHANGED <<rowVars, created, held, late, resuming, faults>>

\* w is handling a job that its row still shows in flight.
Executing(w) ==
  /\ pc[w] \in {"start", "run", "fail"}
  /\ held[w] # None
  /\ status[held[w]] \in InFlight

Older(age, limit) == IF age > limit THEN age ELSE age + 1

\* With Timely, time does not pass a live worker's deadline for it.
Tick ==
  /\ Timely => \A w \in Worker : Executing(w) =>
                 (beatAge[held[w]] # None /\ beatAge[held[w]] < StaleAfter)
  /\ beatAge' = [j \in Job |-> IF beatAge[j] = None THEN None
                               ELSE Older(beatAge[j], StaleAfter)]
  /\ updatedAge' = [j \in Job |-> IF status[j] = "none" THEN updatedAge[j]
                                  ELSE Older(updatedAge[j], Retention)]
  /\ UNCHANGED <<status, claimedBy, attempts, resumes,
                 created, pc, held, late, resuming, faults>>

-----------------------------------------------------------------------------

\* What a live worker does of its own accord, apart from progress reports.
WorkerStep(w) ==
  \/ Sweep(w) \/ Purge(w) \/ SelectOldest(w) \/ NothingQueued(w) \/ CommitClaim(w)
  \/ StartJob(w) \/ MissingFilm(w) \/ Complete(w) \/ ReportFailed(w)
  \/ FramesDiscarded(w) \/ HandlerRaises(w) \/ RecordFailure(w)
  \/ KilledByJob(w)

Next ==
  \/ Enqueue
  \/ \E c \in Client : (\E j \in Job : ResumeCheck(c, j)) \/ ResumeWrite(c)
  \/ \E w \in Worker : \/ WorkerStep(w) \/ Report(w) \/ ScheduleProgress(w)
                       \/ LoopError(w) \/ Strand(w) \/ Crash(w) \/ Restart(w)
  \/ \E j \in Job : LateProgress(j)
  \/ Tick

Spec == Init /\ [][Next]_vars

\* A live worker's loop goes on (main() never exits it), a dead worker is
\* started again, a request that passed its check makes its write, and time
\* passes.  Members need not enqueue or resume, and nothing has to fail.
Fairness ==
  /\ \A w \in Worker : WF_vars(WorkerStep(w)) /\ WF_vars(Restart(w))
  /\ \A c \in Client : WF_vars(ResumeWrite(c))
  /\ WF_vars(Tick)

FairSpec == Spec /\ Fairness

-----------------------------------------------------------------------------
(* Properties.                                                             *)

\* A job that waits or is settled is claimed by nobody: store.py:168, "so a
\* completed/failed job is never mistaken for one held by a live worker",
\* across every writer, the ones that lost the job included.
ClaimMeansInFlight == \A j \in Job : claimedBy[j] # None => status[j] \in InFlight

\* Every job in flight has a heartbeat, so requeue_stale(), which skips NULL
\* heartbeats, can see it: no order of claims, resumes, sweeps and late
\* writes leaves a job that is never recovered.
InFlightIsRecoverable == \A j \in Job : status[j] \in InFlight => beatAge[j] # None

\* store.py:35: a job is handed to a worker at most MAX_ATTEMPTS times, plus
\* once for every time a member asked for it to be resumed.
AttemptBudget == \A j \in Job : attempts[j] <= MaxAttempts + resumes[j]

\* The core guarantee of SKIP LOCKED: a row's claim is never overwritten by
\* another claim; between two claims it went through the queue.
ClaimNeverStolen ==
  [][\A j \in Job : claimedBy'[j] \notin {None, claimedBy[j]}
                      => status[j] = "queued" /\ claimedBy[j] = None]_vars

\* What makes these inductive.  A worker past its SELECT has a job; a locked
\* row is queued, and locked once; a queued row has an attempt left; a row
\* that does not exist has none behind it.
BusyHolds ==
  \A w \in Worker :
    pc[w] \in {"take", "start", "run", "post", "fail"} => held[w] \in Job

LockedIsQueued ==
  \A w \in Worker : pc[w] = "take" => status[held[w]] = "queued"

OneLocker ==
  \A v, w \in Worker :
    (pc[v] = "take" /\ pc[w] = "take" /\ held[v] = held[w]) => v = w

AttemptLeft ==
  \A j \in Job : status[j] = "queued" => attempts[j] < MaxAttempts + resumes[j]

AbsentIsFresh ==
  \A j \in Job : /\ status[j] = "none" => attempts[j] = 0
                 /\ j > created => status[j] = "none"

\* The inductive invariant of the queue, slow workers and races included:
\* the facts above and what carries them from step to step.
IInv ==
  /\ TypeOK /\ BusyHolds
  /\ LockedIsQueued /\ OneLocker
  /\ ClaimMeansInFlight /\ InFlightIsRecoverable
  /\ AttemptBudget /\ AttemptLeft /\ AbsentIsFresh

\* A worker that runs a job is the one its row names: the claim a sweep or
\* an operator reads is the truth about who is working.
LeaseAgreement ==
  \A w \in Worker : pc[w] \in {"start", "run"} =>
    /\ claimedBy[held[w]] = w
    /\ status[held[w]] \in InFlight

\* store.py:32, "Terminal states - nothing reclaims or retries these": a
\* settled job goes back to unsettled only by a member's resume.
OnlyResumeReopens ==
  [][\A j \in Job : (status[j] \in Terminal /\ status'[j] \notin Terminal \cup {"none"})
        => \E c \in Client : resuming[c] = j /\ resuming'[c] = None]_vars

\* A claimed job is not stuck for ever, nor is a queued one: whatever crashes
\* and however slow the workers are, a job that was asked for is settled.
EveryJobSettles ==
  \A j \in Job : (status[j] \in InFlight \cup {"queued"})
                   ~> (status[j] \in Terminal \cup {"none"})

\* The abstract queue this implements when workers are timely.
phaseOf ==
  [j \in Job |-> CASE status[j] = "none" -> "none"
                   [] status[j] = "queued" -> "waiting"
                   [] status[j] \in InFlight -> "held"
                   [] OTHER -> "settled"]

workingOf == [w \in Worker |-> IF Executing(w) THEN held[w] ELSE None]

WQ == INSTANCE WorkQueue WITH phase <- phaseOf, working <- workingOf

\* Every step of the queue is a step of the abstract one, or invisible there.
\* So "a job that's genuinely mid-flight on a live worker" is not "re-queued
\* underneath it" (analysis.py:26): only what nobody works on is recovered.
ImplementsWorkQueue == WQ!Spec
=============================================================================
