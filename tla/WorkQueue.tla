----------------------------- MODULE WorkQueue ------------------------------
(***************************************************************************)
(* What the job queue promises, without rows, locks, clocks or requests    *)
(* (db/init_schema.sql, "Claiming uses ... so two workers can never take   *)
(* the same job"; docs/WORKER_SETUP_BRIEF.md): a job is handed to one      *)
(* worker at a time, it is taken back only once nobody works on it, and a  *)
(* settled job comes back only because a member asked for it.              *)
(***************************************************************************)
EXTENDS Naturals

CONSTANTS Worker, Job, None

VARIABLES
  phase,    \* per job: "none", "waiting", "held", "settled"
  working   \* per worker: the job it works on, or None

vars == <<phase, working>>

Init ==
  /\ phase = [j \in Job |-> "none"]
  /\ working = [w \in Worker |-> None]

Idle(j) == \A w \in Worker : working[w] # j

\* A member submits a job.
Submit(j) ==
  /\ phase[j] = "none"
  /\ phase' = [phase EXCEPT ![j] = "waiting"]
  /\ UNCHANGED working

\* A worker is handed a waiting job nobody else works on.
Take(w, j) ==
  /\ phase[j] = "waiting"
  /\ Idle(j)
  /\ working[w] = None
  /\ phase' = [phase EXCEPT ![j] = "held"]
  /\ working' = [working EXCEPT ![w] = j]

\* The worker settles the job it was handed.
Settle(w) ==
  /\ working[w] # None
  /\ phase[working[w]] = "held"
  /\ phase' = [phase EXCEPT ![working[w]] = "settled"]
  /\ working' = [working EXCEPT ![w] = None]

\* The worker dies or loses the job; the job stays assigned.
Abandon(w) ==
  /\ working[w] # None
  /\ working' = [working EXCEPT ![w] = None]
  /\ UNCHANGED phase

\* Abandoned jobs are recovered: handed out again, or given up on.
Recover ==
  \E J \in SUBSET {j \in Job : phase[j] = "held" /\ Idle(j)} :
    \E outcome \in [J -> {"waiting", "settled"}] :
      /\ J # {}
      /\ phase' = [j \in Job |-> IF j \in J THEN outcome[j] ELSE phase[j]]
      /\ UNCHANGED working

\* A member asks for a settled job to be done again.
Retry(j) ==
  /\ phase[j] = "settled"
  /\ phase' = [phase EXCEPT ![j] = "waiting"]
  /\ UNCHANGED working

\* Settled jobs are forgotten in time.
Forget ==
  \E J \in SUBSET {j \in Job : phase[j] = "settled"} :
    /\ J # {}
    /\ phase' = [j \in Job |-> IF j \in J THEN "none" ELSE phase[j]]
    /\ UNCHANGED working

Next ==
  \/ \E j \in Job : Submit(j) \/ Retry(j)
  \/ \E w \in Worker : (\E j \in Job : Take(w, j)) \/ Settle(w) \/ Abandon(w)
  \/ Recover
  \/ Forget

Spec == Init /\ [][Next]_vars
=============================================================================
