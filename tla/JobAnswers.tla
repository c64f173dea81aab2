----------------------------- MODULE JobAnswers -----------------------------
(***************************************************************************)
(* What a member is told about a job: the status endpoints of              *)
(* backend/api/analysis.py, reports.py and players.py over the queue's     *)
(* rows and the workers' liveness rows (backend/jobs/store.py), as a       *)
(* worker's loop (backend/jobs/worker.py) writes them.                     *)
(*                                                                         *)
(* Abstractions.  All jobs are about one film.  Claims and locks are       *)
(* JobQueue's business: here a claim and a resume are one step each.  Ages *)
(* are in ticks and stop growing past their bound; an idle worker goes     *)
(* round its loop once a tick.  A stage name a worker writes into status   *)
(* is "working".                                                           *)
(***************************************************************************)
EXTENDS Naturals, Sequences

CONSTANTS
  Machine,      \* worker processes
  Player,       \* players a report or an identity is asked for
  MaxAsked,     \* bound: jobs enqueued
  GiveUpAfter,  \* store.MAX_ATTEMPTS
  Stale,        \* store.STALE_AFTER, in ticks
  AliveWithin,  \* store.WORKER_ALIVE_WITHIN, in ticks
  MaxDeaths,    \* bound: workers that die
  Never         \* no liveness row; no result

\* A result says whose it is, and what came of it.
Result == [of : Player, status : {"completed", "failed"}]

ASSUME AnswerAssumption ==
  /\ MaxAsked \in Nat /\ GiveUpAfter \in Nat \ {0} /\ Stale \in Nat
  /\ AliveWithin \in Nat /\ MaxDeaths \in Nat /\ Never \notin Nat \cup Result

VARIABLES
  jobRows,   \* analysis_jobs, in created_at order
  seen,    \* per worker: age of last_seen_at, or Never
  does,    \* per worker: down, top, ready or busy
  runs,    \* per worker: the job it is busy with, or 0
  spent,   \* per worker: ticks on that job
  deaths   \* workers that have died

answerVars == <<jobRows, seen, does, runs, spent, deaths>>

JobKind == {"analysis", "identity", "truth_report"}

JobRow ==
  [kind : JobKind, player : Player,
   status : {"queued", "claimed", "working", "completed", "failed"},
   result : Result \cup {Never}, attempts : 0 .. GiveUpAfter, beat : 0 .. Stale + 1]

Enqueued == DOMAIN jobRows

AnswerTypeOK ==
  /\ jobRows \in Seq(JobRow) /\ Len(jobRows) <= MaxAsked
  /\ seen \in [Machine -> 0 .. AliveWithin + 1 \cup {Never}]
  /\ does \in [Machine -> {"down", "top", "ready", "busy"}]
  /\ runs \in [Machine -> {0} \cup Enqueued]
  /\ spent \in [Machine -> 0 .. AliveWithin + 1]
  /\ deaths \in 0 .. MaxDeaths

AnswerInit ==
  /\ jobRows = <<>>
  /\ seen = [w \in Machine |-> Never]
  /\ does = [w \in Machine |-> "down"]
  /\ runs = [w \in Machine |-> 0]
  /\ spent = [w \in Machine |-> 0]
  /\ deaths = 0

-----------------------------------------------------------------------------
Busy(w) == does[w] = "busy"
TurnTo(w, next) ==
  /\ does' = [does EXCEPT ![w] = next]
  /\ runs' = [runs EXCEPT ![w] = 0]

\* Counts stop at the first value past their bound.
Older(age, limit) == IF age = Never \/ age > limit THEN age ELSE age + 1

\* enqueue(), by one of the three POST handlers.
Enqueue(kind, p) ==
  /\ Len(jobRows) < MaxAsked
  /\ jobRows' = Append(jobRows, [kind |-> kind, player |-> p, status |-> "queued",
                             result |-> Never, attempts |-> 0, beat |-> 0])
  /\ UNCHANGED <<seen, does, runs, spent, deaths>>

\* resume_analysis(): only an analysis job's id is ever answered.
ResumeAnalysis(i) ==
  /\ jobRows[i].kind = "analysis" /\ jobRows[i].status = "failed"
  /\ jobRows' = [jobRows EXCEPT ![i].status = "queued", ![i].beat = 0]
  /\ UNCHANGED <<seen, does, runs, spent, deaths>>

\* The top of the loop: record_worker_heartbeat().
ReportLiveness(w) ==
  /\ does[w] = "top"
  /\ seen' = [seen EXCEPT ![w] = 0]
  /\ TurnTo(w, "ready")
  /\ UNCHANGED <<jobRows, spent, deaths>>

\* requeue_stale(): a stalled job is queued again, or given up.
Swept(row) ==
  IF row.status \notin {"claimed", "working"} \/ row.beat <= Stale THEN row
  ELSE IF row.attempts >= GiveUpAfter THEN [row EXCEPT !.status = "failed"]
  ELSE [row EXCEPT !.status = "queued", !.beat = 0]

Sweep(w) ==
  /\ does[w] = "ready"
  /\ jobRows' = [i \in Enqueued |-> Swept(jobRows[i])]
  /\ UNCHANGED <<seen, does, runs, spent, deaths>>

\* claim_next(): the oldest queued job, or a rest before the next round.
ClaimNext(w) ==
  /\ does[w] = "ready"
  /\ spent' = [spent EXCEPT ![w] = 0]
  /\ LET waiting == {i \in Enqueued : jobRows[i].status = "queued"} IN
       \/ waiting = {} /\ TurnTo(w, "top") /\ UNCHANGED jobRows
       \/ \E i \in waiting :
            /\ \A k \in waiting : i <= k
            /\ jobRows' = [jobRows EXCEPT ![i].status = "claimed", ![i].beat = 0,
                                      ![i].attempts = Older(@, GiveUpAfter - 1)]
            /\ does' = [does EXCEPT ![w] = "busy"]
            /\ runs' = [runs EXCEPT ![w] = i]
  /\ UNCHANGED <<seen, deaths>>

\* update(): a stage or progress; an identity job reports only once.
Report(w) ==
  /\ Busy(w)
  /\ LET i == runs[w] IN
       /\ jobRows[i].kind = "identity" => jobRows[i].status = "claimed"
       /\ jobRows' = [jobRows EXCEPT ![i].status = "working", ![i].beat = 0]
  /\ UNCHANGED <<seen, does, runs, spent, deaths>>

EndedAs(row, S) == {[row EXCEPT !.status = s, !.beat = 0] : s \in S}
ToldAs(row) ==
  {[r EXCEPT !.result = [of |-> row.player, status |-> r.status]] :
     r \in EndedAs(row, {"completed", "failed"})}

\* What run_once() ends a job with.  A report's outcome, an exception in it
\* included, and an identity or an exception while it is looked for become
\* the result; a film that is missing on the machine, and analysis, do not.
Outcomes(row) ==
  CASE row.kind = "truth_report" -> ToldAs(row)
    [] row.kind = "identity" -> ToldAs(row) \cup EndedAs(row, {"failed"})
    [] row.kind = "analysis" -> EndedAs(row, {"completed", "failed"})

EndJobThen(w, next) ==
  /\ Busy(w)
  /\ \E row \in Outcomes(jobRows[runs[w]]) :
       jobRows' = [jobRows EXCEPT ![runs[w]] = row]
  /\ spent' = [spent EXCEPT ![w] = 0]
  /\ TurnTo(w, next)
  /\ UNCHANGED <<seen, deaths>>

\* Faulty variant: while there are jobs, the next is claimed at once.
EndJobAndClaim(w) == EndJobThen(w, "ready")

EndJob(w) == EndJobThen(w, "top")

StartWorker(w) ==
  /\ does[w] = "down"
  /\ TurnTo(w, "top")
  /\ UNCHANGED <<jobRows, seen, spent, deaths>>

WorkerDies(w) ==
  /\ does[w] # "down" /\ deaths < MaxDeaths
  /\ deaths' = deaths + 1
  /\ spent' = [spent EXCEPT ![w] = 0]
  /\ TurnTo(w, "down")
  /\ UNCHANGED <<jobRows, seen>>

Tick ==
  /\ \A w \in Machine : does[w] \notin {"down", "busy"} => does[w] = "top" /\ seen[w] = 0
  /\ seen' = [w \in Machine |-> Older(seen[w], AliveWithin)]
  /\ spent' = [w \in Machine |-> IF Busy(w) THEN Older(spent[w], AliveWithin) ELSE 0]
  /\ jobRows' = [i \in Enqueued |->
                 IF jobRows[i].status \in {"claimed", "working"}
                 THEN [jobRows[i] EXCEPT !.beat = Older(@, Stale)] ELSE jobRows[i]]
  /\ UNCHANGED <<does, runs, deaths>>

AnswerNext ==
  \/ \E kind \in JobKind : \E p \in Player : Enqueue(kind, p)
  \/ \E i \in Enqueued : ResumeAnalysis(i)
  \/ \E w \in Machine : \/ ReportLiveness(w) \/ Sweep(w) \/ ClaimNext(w)
                        \/ Report(w) \/ EndJob(w) \/ StartWorker(w) \/ WorkerDies(w)
  \/ Tick

\* Time passes; nothing is assumed of workers or members.
AnswerFairness == WF_answerVars(Tick)

AnswerSpec == AnswerInit /\ [][AnswerNext]_answerVars /\ AnswerFairness

-----------------------------------------------------------------------------
(* What the endpoints answer.                                              *)

\* any_worker_alive() and live_workers(), for rows up to the given age.
AliveUpTo(ages) == \E w \in Machine : seen[w] \in ages

\* Faulty variant: any liveness row counts.
AnyWorkerEver == AliveUpTo(0 .. AliveWithin + 1)

AnyWorkerAlive == AliveUpTo(0 .. AliveWithin)

Newest(S) == CHOOSE i \in S : \A k \in S : k <= i

\* Faulty variant: the newest report of the film.
ReportsOfFilm(p) == {i \in Enqueued : jobRows[i].kind = "truth_report"}

\* _latest_report_job() and latest_for_video().
Reports(p) == {i \in Enqueued : jobRows[i].kind = "truth_report" /\ jobRows[i].player = p}
Identities == {i \in Enqueued : jobRows[i].kind = "identity"}

\* truth_report_status(): the result, or how far the job is.
ReportAnswer(p) ==
  LET row == jobRows[Newest(Reports(p))] IN
  IF row.result # Never THEN row.result
  ELSE [of |-> p, status |-> IF row.status = "working" THEN "reasoning" ELSE "queued"]

\* automatic_identity_status().
IdentityAnswer ==
  LET row == jobRows[Newest(Identities)] IN
  IF row.result # Never THEN row.result
  ELSE [of |-> row.player, status |-> "processing"]

\* analysis_status(): worker_available.
ToldUnavailable == ~AnyWorkerAlive

-----------------------------------------------------------------------------
(* Properties.                                                             *)

\* "Returning another player's report would be a serious mix-up"
\* (reports.py:177): a player's answer is that player's, and, once a report
\* has been asked for again, not the earlier one's.
AnswersAreTheirOwn ==
  \A p \in Player : Reports(p) # {} =>
    /\ ReportAnswer(p).of = p
    /\ jobRows[Newest(Reports(p))].attempts = 0 => ReportAnswer(p).status = "queued"

\* Whoever asks is told when a report or an identity is done: what the newest
\* job ended with is what is answered, whoever ran it before and died.
CompletionIsTold ==
  /\ \A p \in Player : Reports(p) # {} =>
       (jobRows[Newest(Reports(p))].status = "completed" => ReportAnswer(p).status = "completed")
  /\ Identities # {} =>
       (jobRows[Newest(Identities)].status = "completed" => IdentityAnswer.status = "completed")

\* What a member is answered is true of the job asked about.
AnswersAreTrue == AnswersAreTheirOwn /\ CompletionIsTold

\* The member "is told" of a failure (store.py:192), so that nobody watches
\* a progress bar that will never move.
FailureIsTold ==
  \A p \in Player : Reports(p) # {} =>
    (jobRows[Newest(Reports(p))].status = "failed" => ReportAnswer(p).status = "failed")

\* "No worker is currently running" is said only when every worker is down
\* or has been at one job for longer than WORKER_ALIVE_WITHIN: nobody is told
\* so while a worker goes from job to job, unless it has just been started.
UnavailableMeansBusyOrGone ==
  ToldUnavailable =>
    \A w \in Machine : does[w] \in {"down", "top"} \/ spent[w] > AliveWithin

\* When the workers are gone for good, that is what is said from some time on.
DeadWorkersAreNoticed ==
  (<>[](\A w \in Machine : does[w] = "down")) => <>[]ToldUnavailable
=============================================================================
