------------------------------ MODULE FilmJobs ------------------------------
(***************************************************************************)
(* Film grading in the web process (app/main.py): requests that wait for   *)
(* the grade, alone or as part of a truth report, and film jobs, which are *)
(* answered at once, go on in a background task and are known to           *)
(* FILM_JOBS, a dictionary of the process.                                 *)
(*                                                                         *)
(* Abstractions.  A film is the request that brought it.  All waiting      *)
(* requests upload under one file name, jobs have names of their own.      *)
(* Gemini is external: a file it has been sent becomes ACTIVE or FAILED    *)
(* some time or never, and a call of it returns.  Sending reads the file   *)
(* at one instant.                                                         *)
(***************************************************************************)
EXTENDS Naturals

CONSTANTS
  Waiting,      \* requests to analyze-film and truth-report
  Job,          \* requests to analyze-film/jobs
  NoFile,       \* no such file, no film
  MaxRestarts   \* bound: restarts of the web process

FilmRequest == Waiting \cup Job

SharedName == "the file name of waiting requests"
TempPath == Job \cup {SharedName}

ASSUME FilmJobAssumption ==
  /\ Waiting \cap Job = {} /\ NoFile \notin FilmRequest
  /\ SharedName \notin Job /\ MaxRestarts \in Nat

VARIABLES
  temp,      \* UPLOAD_TMP_DIR: whose film a file holds, or NoFile
  at,        \* per request: where it is
  isReport,  \* per request: a truth report is to be saved
  film,      \* per request: the film Gemini was given
  gemini,    \* per request: the state of the file at Gemini
  overdue,   \* per request: GEMINI_FILE_PROCESSING_TIMEOUT_S has passed
  filmJobs,  \* FILM_JOBS
  restarts   \* restarts so far

filmJobVars ==
  <<temp, at, isReport, film, gemini, overdue, filmJobs, restarts>>

Place == {"new", "receiving", "queued", "send", "wait", "grade", "save",
          "answered", "failed", "lost"}

Ended == {"answered", "failed", "lost"}

FilmJobTypeOK ==
  /\ temp \in [TempPath -> FilmRequest \cup {NoFile}]
  /\ at \in [FilmRequest -> Place]
  /\ isReport \in [FilmRequest -> BOOLEAN]
  /\ film \in [FilmRequest -> FilmRequest \cup {NoFile}]
  /\ gemini \in [FilmRequest -> {"none", "PROCESSING", "ACTIVE", "FAILED"}]
  /\ overdue \in [FilmRequest -> BOOLEAN]
  /\ filmJobs \in [Job -> {"unknown", "queued", "processing", "complete", "failed"}]
  /\ restarts \in 0 .. MaxRestarts

FilmJobInit ==
  /\ temp = [p \in TempPath |-> NoFile]
  /\ at = [q \in FilmRequest |-> "new"]
  /\ isReport \in [FilmRequest -> BOOLEAN] /\ \A j \in Job : ~isReport[j]
  /\ film = [q \in FilmRequest |-> NoFile]
  /\ gemini = [q \in FilmRequest |-> "none"]
  /\ overdue = [q \in FilmRequest |-> FALSE]
  /\ filmJobs = [j \in Job |-> "unknown"]
  /\ restarts = 0

-----------------------------------------------------------------------------
\* Faulty variant: jobs keep the name of the uploaded file, too.
PathByName(q) == SharedName

PathOf(q) == IF q \in Job THEN q ELSE SharedName

Move(q, place) == at' = [at EXCEPT ![q] = place]

Store(q, content) == temp' = [temp EXCEPT ![PathOf(q)] = content]

Note(q, status) ==
  filmJobs' = IF q \in Job THEN [filmJobs EXCEPT ![q] = status] ELSE filmJobs

\* The finally clause: whatever has the request's path is removed; there is
\* none around a link to a film, which has no path.
CleanUp(q) == IF film[q] = q /\ gemini[q] = "none" THEN UNCHANGED temp ELSE Store(q, NoFile)

Conclude(q, place, status) == Move(q, place) /\ Note(q, status) /\ CleanUp(q)

\* A link needs no file: Gemini fetches it.
GiveLink(q) ==
  /\ at[q] = "new"
  /\ film' = [film EXCEPT ![q] = q]
  /\ Move(q, IF q \in Job THEN "queued" ELSE "grade")
  /\ Note(q, "queued")
  /\ UNCHANGED <<temp, isReport, gemini, overdue, restarts>>

\* A job's file is written chunk by chunk, others once it has been read.
Receive(q) ==
  /\ at[q] = "new"
  /\ Move(q, "receiving")
  /\ IF q \in Job THEN Store(q, q) ELSE UNCHANGED temp
  /\ UNCHANGED <<isReport, film, gemini, overdue, filmJobs, restarts>>

\* 413, or the upload breaks off: the path is cleared, the job never known.
RefuseFilm(q) ==
  /\ at[q] = "receiving"
  /\ Store(q, NoFile)
  /\ Move(q, "failed")
  /\ UNCHANGED <<isReport, film, gemini, overdue, filmJobs, restarts>>

AcceptFilm(q) ==
  /\ at[q] = "receiving"
  /\ Store(q, q)
  /\ Move(q, IF q \in Job THEN "queued" ELSE "send")
  /\ Note(q, "queued")
  /\ UNCHANGED <<isReport, film, gemini, overdue, restarts>>

\* _process_film_job() begins, after the answer has gone out.
BeginJob(q) ==
  /\ at[q] = "queued"
  /\ Move(q, IF film[q] = q THEN "grade" ELSE "send")
  /\ Note(q, "processing")
  /\ UNCHANGED <<temp, isReport, film, gemini, overdue, restarts>>

\* files.upload(); without a file, or without Gemini, it raises.
Send(q) ==
  /\ at[q] = "send"
  /\ \/ /\ temp[PathOf(q)] # NoFile
        /\ film' = [film EXCEPT ![q] = temp[PathOf(q)]]
        /\ gemini' = [gemini EXCEPT ![q] = "PROCESSING"]
        /\ Move(q, "wait")
        /\ UNCHANGED <<temp, filmJobs>>
     \/ /\ Conclude(q, "failed", "failed")
        /\ UNCHANGED <<film, gemini>>
  /\ UNCHANGED <<isReport, overdue, restarts>>

\* _wait_for_gemini_file(): the state is looked at before the deadline, which
\* is this wait's.
AwaitGemini(q, due) ==
  /\ at[q] = "wait"
  /\ \/ gemini[q] = "ACTIVE" /\ Move(q, "grade") /\ UNCHANGED <<temp, filmJobs>>
     \/ gemini[q] = "FAILED" /\ Conclude(q, "failed", "failed")
     \/ gemini[q] = "PROCESSING" /\ due /\ Conclude(q, "failed", "failed")
  /\ overdue' = [overdue EXCEPT ![q] = FALSE]
  /\ UNCHANGED <<isReport, film, gemini, restarts>>

\* Faulty variant: no deadline.
WaitWithoutDeadline(q) == AwaitGemini(q, FALSE)

WaitForGeminiFile(q) == AwaitGemini(q, overdue[q])

\* _run_film_analysis(): a grade, or a failed call.
RunFilmAnalysis(q) ==
  /\ at[q] = "grade"
  /\ \/ ~isReport[q] /\ Conclude(q, "answered", "complete")
     \/ isReport[q] /\ Move(q, "save") /\ CleanUp(q) /\ UNCHANGED filmJobs
     \/ Conclude(q, "failed", "failed")
  /\ UNCHANGED <<isReport, film, gemini, overdue, restarts>>

\* _persist_evaluation() saves, or rolls back and says so: no matter.
PersistEvaluation(q) ==
  /\ at[q] = "save"
  /\ Move(q, "answered")
  /\ UNCHANGED <<temp, isReport, film, gemini, overdue, filmJobs, restarts>>

\* Of interest for as long as the request waits for it.
GeminiDecides(q) ==
  /\ at[q] = "wait" /\ gemini[q] = "PROCESSING"
  /\ \E state \in {"ACTIVE", "FAILED"} : gemini' = [gemini EXCEPT ![q] = state]
  /\ UNCHANGED <<temp, at, isReport, film, overdue, filmJobs, restarts>>

TimeIsUp(q) ==
  /\ at[q] = "wait" /\ gemini[q] = "PROCESSING" /\ ~overdue[q]
  /\ overdue' = [overdue EXCEPT ![q] = TRUE]
  /\ UNCHANGED <<temp, at, isReport, film, gemini, filmJobs, restarts>>

\* The web process is replaced: FILM_JOBS is empty, no finally clause runs.
RestartWeb ==
  /\ restarts < MaxRestarts
  /\ restarts' = restarts + 1
  /\ filmJobs' = [j \in Job |-> "unknown"]
  /\ at' = [q \in FilmRequest |->
              IF at[q] \in Ended \cup {"new"} THEN at[q] ELSE "lost"]
  /\ UNCHANGED <<temp, isReport, film, gemini, overdue>>

FilmJobStep(q) ==
  \/ RefuseFilm(q) \/ AcceptFilm(q) \/ BeginJob(q) \/ Send(q)
  \/ WaitForGeminiFile(q) \/ RunFilmAnalysis(q) \/ PersistEvaluation(q)

FilmJobNext ==
  \/ \E q \in FilmRequest : \/ GiveLink(q) \/ Receive(q) \/ FilmJobStep(q)
                            \/ GeminiDecides(q) \/ TimeIsUp(q)
  \/ RestartWeb

\* Tasks go on and time passes; Gemini need not decide.
FilmJobFairness ==
  \A q \in FilmRequest :
    WF_filmJobVars(FilmJobStep(q)) /\ WF_filmJobVars(TimeIsUp(q))

FilmJobSpec == FilmJobInit /\ [][FilmJobNext]_filmJobVars /\ FilmJobFairness

-----------------------------------------------------------------------------
(* Properties.                                                             *)

\* A job is graded on the film it was given, whatever is uploaded beside it.
\* (Waiting requests are not: two that upload one file name share a path.)
JobsGradeTheirOwnFilm ==
  \A j \in Job : at[j] = "answered" => film[j] = j

\* A request that has ended by itself leaves no film of its own behind, and
\* a job that is over has none under its name; only a restart leaves some.
NothingLeftBehind ==
  \A q \in FilmRequest :
    /\ at[q] \in {"answered", "failed"} /\ q \in Job => temp[q] = NoFile
    /\ (\A o \in Waiting : at[o] \in {"new", "answered", "failed"}) =>
         temp[SharedName] = NoFile

\* The temporary directory: no job meets another's film, nor leaves its own.
FilmsAreKeptApart == JobsGradeTheirOwnFilm /\ NothingLeftBehind

\* A film job that was accepted is settled, or forgotten with its process,
\* even where Gemini never decides about the file.
FilmJobsSettle ==
  \A j \in Job : at[j] = "queued" ~>
    \/ at[j] = "lost" /\ filmJobs[j] = "unknown"
    \/ at[j] \in Ended /\ filmJobs[j] \in {"complete", "failed", "unknown"}
=============================================================================
