---------------------------- MODULE TruthReports ----------------------------
(***************************************************************************)
(* From a tracked player to a grade: runs of truth_report jobs             *)
(* (build_truth_report, backend/api/reports.py) and the grades calculated  *)
(* in the web process, over one player's evidence and grade files          *)
(* (football/evidence.py, grading/service.py) and the film_grades table    *)
(* that mirrors the grades, linked through the track's assignment.         *)
(*                                                                         *)
(* A store reads its JSON file, truncates it and writes it back: other     *)
(* processes read and write in between, and a process that dies in between *)
(* leaves it Torn.  The web process runs a store without yielding.         *)
(*                                                                         *)
(* Abstractions.  One player, whose track is seen in every play; a record  *)
(* is the run it comes from, for evidence with its play.  A run is one     *)
(* execution of a report job: a retry after a crash is another run.  What  *)
(* the grade is, is FilmGrading's business.                                *)
(***************************************************************************)
EXTENDS TrackAssignments, Naturals

CONSTANTS
  Run,        \* executions of report jobs
  WebGrade,   \* POST /grades requests
  Plays,      \* how many plays are not excluded
  Workers,    \* bound: how many runs are executed at once
  MaxFaults,  \* bound: crashes, exceptions and database failures
  Torn,       \* a file truncated but not filled
  DatabaseUp  \* whether the database answers every grade

Grader == Run \cup WebGrade
Play == 1 .. Plays

ASSUME ReportAssumption ==
  /\ Run \cap WebGrade = {} /\ Workers \in Nat /\ Plays \in Nat /\ MaxFaults \in Nat
  /\ DatabaseUp \in BOOLEAN
  /\ \A S \in (SUBSET (Run \X Play)) \cup SUBSET Grader : S # Torn

VARIABLES
  evidence,  \* the evidence file: pairs of run and play, or Torn
  grades,    \* the grade file: who saved a record, or Torn
  saved,     \* whoever has ever filled the grade file
  mirror,    \* film_grades: [by, athlete]
  step,      \* per grader: what it is doing
  target,    \* per run: the track it is about
  link,      \* per grader: the athlete to be linked
  reasoned,  \* per run: plays done
  copy,      \* per grader: the records of the file it has read
  faults     \* crashes, exceptions and database failures so far

fileVars == <<evidence, grades, saved>>
reportVars == <<evidence, grades, saved, mirror, step, target, link,
                reasoned, copy, faults>>

Step == {"idle", "reason", "evidence", "fill evidence", "grade", "save",
         "fill grades", "look up", "commit", "completed", "failed", "crashed"}

GradeRow == [by : Grader, athlete : Athlete \cup {NoAthlete}]

ReportTypeOK ==
  /\ evidence \in {Torn} \cup SUBSET (Run \X Play)
  /\ grades \in {Torn} \cup SUBSET Grader
  /\ saved \subseteq Grader
  /\ mirror \subseteq GradeRow
  /\ step \in [Grader -> Step]
  /\ target \in [Run -> Track \cup {Unasked}]
  /\ link \in [Grader -> Athlete \cup {NoAthlete}]
  /\ reasoned \in [Run -> 0 .. Plays]
  /\ copy \in [Grader -> (SUBSET (Run \X Play)) \cup SUBSET Grader]
  /\ faults \in 0 .. MaxFaults

ReportInit ==
  /\ evidence = {} /\ grades = {} /\ saved = {} /\ mirror = {}
  /\ step = [g \in Grader |-> "idle"]
  /\ target = [r \in Run |-> Unasked]
  /\ link = [g \in Grader |-> NoAthlete]
  /\ reasoned = [r \in Run |-> 0]
  /\ copy = [g \in Grader |-> {}]
  /\ faults = 0

-----------------------------------------------------------------------------
Goto(g, s) == step' = [step EXCEPT ![g] = s]

Over == {"idle", "completed", "failed", "crashed"}
Running == {r \in Run : step[r] \notin Over}

Fault == faults < MaxFaults /\ faults' = faults + 1

\* A file is read; json.loads raises on a torn one, which fails the report.
Load(g, file, next) ==
  \/ file = Torn /\ Goto(g, "failed") /\ UNCHANGED copy
  \/ file # Torn /\ Goto(g, next) /\ copy' = [copy EXCEPT ![g] = file]

\* What a file holds when it has been filled.  Where somebody else has filled
\* it since it was truncated, the longer text may show behind the shorter.
Filled(file, records) == {records} \cup (IF file = Torn THEN {} ELSE {Torn})

\* _run_truth_report_job(): tracks and plays are read.
StartReport(r) ==
  /\ step[r] = "idle" /\ Cardinality(Running) < Workers
  /\ \E t \in Track : target' = [target EXCEPT ![r] = t]
  /\ Goto(r, "reason")
  /\ UNCHANGED <<fileVars, mirror, link, reasoned, copy, faults>>

\* The next play is reasoned over; EvidenceStore.save() reads its file.
Reason(r) ==
  /\ step[r] = "reason" /\ reasoned[r] < Plays
  /\ Load(r, evidence, "evidence")
  /\ UNCHANGED <<fileVars, mirror, target, link, reasoned, faults>>

TruncateEvidence(r) ==
  /\ step[r] = "evidence"
  /\ evidence' = Torn
  /\ Goto(r, "fill evidence")
  /\ UNCHANGED <<grades, saved, mirror, target, link, reasoned, copy, faults>>

FillEvidenceWith(r, old) ==
  /\ step[r] = "fill evidence"
  /\ reasoned' = [reasoned EXCEPT ![r] = @ + 1]
  /\ evidence' \in Filled(evidence, old \cup {<<r, reasoned[r] + 1>>})
  /\ copy' = [copy EXCEPT ![r] = {}]
  /\ Goto(r, "reason")
  /\ UNCHANGED <<grades, saved, mirror, target, link, faults>>

\* Faulty variant: the records are not read again for the second play.
FillEvidenceFresh(r) == FillEvidenceWith(r, {e \in copy[r] : e[1] # r})

FillEvidence(r) == FillEvidenceWith(r, copy[r])

\* calculate_official_grade() over all plays; a request starts here.
ReadyToGrade(g) ==
  IF g \in Run THEN step[g] = "reason" /\ reasoned[g] = Plays ELSE step[g] = "idle"

\* GradeStore.save() reads; in the web process nothing else comes between.
LoadGrades(g) ==
  /\ ReadyToGrade(g)
  /\ g \in WebGrade => \A o \in WebGrade : step[o] \notin {"save", "fill grades"}
  /\ Load(g, grades, "save")
  /\ IF g \in Run THEN UNCHANGED link
     ELSE \E a \in Athlete \cup {NoAthlete} : link' = [link EXCEPT ![g] = a]
  /\ UNCHANGED <<fileVars, mirror, target, reasoned, faults>>

TruncateGrades(g) ==
  /\ step[g] = "save"
  /\ grades' = Torn
  /\ Goto(g, "fill grades")
  /\ UNCHANGED <<evidence, saved, mirror, target, link, reasoned, copy, faults>>

FillGrades(g) ==
  /\ step[g] = "fill grades"
  /\ grades' \in Filled(grades, copy[g] \cup {g})
  /\ saved' = saved \cup {g}
  /\ copy' = [copy EXCEPT ![g] = {}]
  /\ Goto(g, "look up")
  /\ UNCHANGED <<evidence, mirror, target, link, reasoned, faults>>

-----------------------------------------------------------------------------
(* _persist_grade().                                                       *)

\* Faulty variant: any assignment of the film will do.
ResolvedByFilm(g) ==
  IF g \in WebGrade THEN link[g]
  ELSE AthleteOf(rows[CHOOSE t \in Track : rows[t] # NoRow \/ rows = [u \in Track |-> NoRow]])

\* The athlete comes with the request, or from the track's assignment.
Resolved(g) ==
  IF g \in WebGrade THEN link[g] ELSE AthleteOf(rows[target[g]])

LookUpAthlete(g) ==
  /\ step[g] = "look up"
  /\ link' = [link EXCEPT ![g] = Resolved(g)]
  /\ Goto(g, "commit")
  /\ UNCHANGED <<fileVars, mirror, target, reasoned, copy, faults>>

\* The row is committed and the report done, finish() included.
CommitGradeFrom(g, before) ==
  /\ step[g] \in before
  /\ mirror' = mirror \cup {[by |-> g, athlete |-> link[g]]}
  /\ Goto(g, "completed")
  /\ UNCHANGED <<fileVars, target, link, reasoned, copy, faults>>

\* Faulty variant: the row may go in before the file is written.
CommitGradeEarly(g) == CommitGradeFrom(g, {"commit", "save"})

CommitGrade(g) == CommitGradeFrom(g, {"commit"})

\* A statement in the body of best_effort_session() raises; the context
\* manager yields once more, and that is a RuntimeError in the caller.
GradeHiccup(g) ==
  /\ ~DatabaseUp /\ step[g] \in {"look up", "commit"}
  /\ Fault
  /\ Goto(g, "failed")
  /\ UNCHANGED <<fileVars, mirror, target, link, reasoned, copy>>

\* What raises before that - a missing file, a refused answer of the model,
\* a progress report that does not reach the database - fails the report.
ReportRaises(r) ==
  /\ step[r] = "reason"
  /\ Fault
  /\ Goto(r, "failed")
  /\ UNCHANGED <<fileVars, mirror, target, link, reasoned, copy>>

\* The worker dies, or the web process is restarted.
ReportCrash(g) ==
  /\ step[g] \notin Over
  /\ Fault
  /\ Goto(g, "crashed")
  /\ copy' = [copy EXCEPT ![g] = {}]
  /\ UNCHANGED <<fileVars, mirror, target, link, reasoned>>

ReportNext ==
  \/ \E r \in Run : \/ StartReport(r) \/ Reason(r) \/ TruncateEvidence(r)
                    \/ FillEvidence(r) \/ ReportRaises(r)
  \/ \E g \in Grader : \/ LoadGrades(g) \/ TruncateGrades(g) \/ FillGrades(g)
                       \/ LookUpAthlete(g) \/ CommitGrade(g) \/ GradeHiccup(g)
                       \/ ReportCrash(g)

deskVars == <<assignmentVars, reportVars>>
DeskInit == AssignmentInit /\ ReportInit
DeskNext ==
  \/ AssignmentNext /\ UNCHANGED reportVars
  \/ ReportNext /\ UNCHANGED assignmentVars

DeskSpec == DeskInit /\ [][DeskNext]_deskVars

-----------------------------------------------------------------------------
(* Properties.                                                             *)

\* The roster link of a mirrored report is never guessed (reports.py:8): it
\* is one that a coach has committed for the track the report is about,
\* whatever was proposed, merged or reassigned meanwhile.
GradeLinkedByCoach ==
  \A row \in mirror : row.by \in Run /\ row.athlete # NoAthlete =>
    \E c \in Coach : /\ Wrote(c, target[row.by])
                     /\ request[c].athlete = row.athlete

\* The file is the record and the table its mirror: nothing is mirrored, and
\* no report completed, whose grade has not been in the file first.
MirrorFollowsFile ==
  /\ \A row \in mirror : row.by \in saved
  /\ \A g \in Grader : step[g] = "completed" => g \in saved

\* Where one run is executed at a time, a saved report has its evidence: the
\* film behind every play it graded can be shown, whatever crashed before or
\* was retried after, unless a crash tore the file.
GradeHasEvidence ==
  Workers = 1 =>
    \A r \in saved \cap Run : evidence = Torn \/ {r} \X Play \subseteq evidence

\* reports.py:77: "the local-file save has already succeeded, and a DB
\* hiccup here must not lose that result".
SavedGradeIsReported == \A r \in saved : step[r] # "failed"
=============================================================================
