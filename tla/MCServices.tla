----------------------------- MODULE MCServices -----------------------------
(***************************************************************************)
(* Small instances of the services beside the film pipeline.  They share   *)
(* no state, so nothing is gained by interleaving them: a behaviour is of  *)
(* one service, the others rest in an initial state.                       *)
(***************************************************************************)
EXTENDS Accounts, RosterRows, VideoUploads, FilmJobs, JobAnswers

VARIABLE service  \* the one this behaviour is of

mcVars == <<service, accountVars, rosterVars, uploadVars, filmJobVars, answerVars>>

Service == {"accounts", "roster", "uploads", "film jobs", "answers"}

\* The services with more than one initial state rest in the same one.
MCInit ==
  /\ service \in Service
  /\ AccountInit /\ RosterInit /\ UploadInit /\ FilmJobInit /\ AnswerInit
  /\ service # "roster" => table = "need" /\ record = NoRecord
  /\ service # "uploads" => \A u \in Upload : filmLength[u] = 0
  /\ service # "film jobs" => \A q \in FilmRequest : ~isReport[q]

MCNext ==
  /\ UNCHANGED service
  /\ \/ /\ service = "accounts" /\ AccountNext
        /\ UNCHANGED <<rosterVars, uploadVars, filmJobVars, answerVars>>
     \/ /\ service = "roster" /\ RosterNext
        /\ UNCHANGED <<accountVars, uploadVars, filmJobVars, answerVars>>
     \/ /\ service = "uploads" /\ UploadNext
        /\ UNCHANGED <<accountVars, rosterVars, filmJobVars, answerVars>>
     \/ /\ service = "film jobs" /\ FilmJobNext
        /\ UNCHANGED <<accountVars, rosterVars, uploadVars, answerVars>>
     \/ /\ service = "answers" /\ AnswerNext
        /\ UNCHANGED <<accountVars, rosterVars, uploadVars, filmJobVars>>

\* Each service's fairness, where it is the one that runs.
MCFairness ==
  /\ \A q \in FilmRequest :
       /\ WF_filmJobVars(service = "film jobs" /\ FilmJobStep(q))
       /\ WF_filmJobVars(service = "film jobs" /\ TimeIsUp(q))
  /\ WF_answerVars(service = "answers" /\ Tick)

MCSpec == MCInit /\ [][MCNext]_mcVars /\ MCFairness

\* The types of all services, of the resting ones in their initial states.
ServicesTypeOK ==
  AccountTypeOK /\ RosterTypeOK /\ UploadTypeOK /\ FilmJobTypeOK /\ AnswerTypeOK
=============================================================================
