# TruGrade: a verification development

TruGrade is a film-scouting application: members upload game film, worker
machines extract frames, track players, read jersey numbers and grade plays,
and coaches read the grades next to a roster, a recruiting board and share
links.  This directory holds TLA+ modules that model its core logic, the TLC
configurations that check them on small instances, and TLAPS proofs of what
matters most for every instance.

## 1. Inventory

### 1.1 Parts, their state, their operations

| Part | Source | State it keeps | Operations that change state |
|---|---|---|---|
| Job queue | `backend/jobs/store.py`, `db/init_schema.sql:305-361` | `analysis_jobs` rows: status, claim, heartbeat, attempts, progress, message, result; `worker_heartbeats` rows | enqueue, claim_next, update, finish, requeue_stale, purge_finished_jobs, record_worker_heartbeat |
| Analysis worker | `backend/jobs/worker.py` | the job it holds, its place in the loop, progress writes not yet committed | main's loop (liveness, sweep, purge), run_once, three job handlers |
| Analysis API | `backend/api/analysis.py` | none of its own; writes queue rows | start, resume (check, then write), status, workers |
| Truth report and grades API | `backend/api/reports.py` | grade and evidence files, `film_grades` rows | start_truth_report, build_truth_report, calculate_grade, `_persist_grade` |
| Players and tracks API | `backend/api/players.py` | `film_track_assignments` rows, calibration files, `tracks.json` | identify, assign_track, `_persist_automatic_assignment`, calibration |
| Best-effort session | `app/core/db.py:49-58` | none | the context manager around opportunistic writes |
| Frames and vision artifacts | `backend/video/frame_extractor.py`, `backend/vision/pipeline.py`, `biomechanics.py` | per film: frames, `frames.json`, `frames.complete`, keyframe, `detections.json`, `tracks.json`, `biomechanics.json`, `plays.json` | extract, preserve_keyframe, discard_frames, analyze_frames |
| Video store | `backend/api/videos.py`, `backend/video/ingestion.py` | video files and their metadata | save, save_from_path, write_metadata |
| Evidence, grades, corrections | `football/evidence.py`, `grading/service.py`, `api/football.py` | JSON files per player, `plays.json`, override files | save (read, append, rewrite), correct, override |
| Grading engine | `grading/engine.py`, `confidence.py`, `event_mapper.py`, `rules_loader.py`, `football/play_segmenter.py`, `football/truth_report.py` | none | pure functions |
| Vision algorithms | `vision/automatic_identity.py`, `ball_filter.py`, `tracker.py`, `frame_source.py`, `football/movement.py` | an LRU of decoded frames, tracker state | identify_player, filter, update/export |
| Metric sieve, makeup grade | `app/services/` | none | pure functions |
| Accounts | `app/routers/auth.py`, `app/core/session.py` | users, sessions, reset tokens, athletes linked to users | signup, login, logout, forgot, reset |
| Roster, share links, board, needs | `app/routers/athletes.py`, `public.py`, `board.py` | athletes, notes, fit scores, share links, board entries | upserts, revoke, public lookup |
| Film jobs of the scouting API | `app/main.py` | `FILM_JOBS` (in memory), temporary files, evaluations | create, process, get, synchronous analyze |
| YouTube download | `backend/video/youtube.py` | a temporary directory per download | download, client by client |
| Film workspace in the browser | `frontend/src/features/film/useFilmAnalysis.ts`, `features/profile/useFilmJob.ts` | what a member sees of a film's job | upload, poll, cancel, resume |

### 1.2 How they interact

* The web service and the worker machines share one Postgres database and
  nothing else; each machine has its own disk (`store.py:3-7`).  The API
  enqueues and resumes jobs and reads their rows; workers claim jobs, write
  progress and results into the same rows, and leave artifacts on their disk.
* A worker is one asyncio loop that handles one job at a time.  CPU-bound
  stages run in threads; their progress callbacks hand a database write back
  to the loop and do not wait for it (`worker.py:87-93`).
* Every write to a job row is `UPDATE ... WHERE job_id = ...` in a transaction
  of its own.  Only the claim takes a row lock (`FOR UPDATE SKIP LOCKED`).
* A truth report job calls an LLM once per play, then writes evidence and
  grades to files and mirrors the grade into Postgres, best effort.
* The browser polls job status every few seconds and starts identification and
  calibration when analysis completes.

### 1.3 What is hard

* Worker processes die between any two transactions; nothing tells the queue.
  Death is inferred from a heartbeat column that only progress refreshes.
* A worker that was only slow comes back and keeps writing: there is no fencing.
* Resume requests check and write in two statements; sweeps run in every worker.
* Progress writes commit late, in any order relative to the handler's own.
* Artifacts on disk are written in place; a crash leaves them stale or torn,
  and two jobs of one film may use them at once.
* Read-modify-write of shared JSON files and of rows without version columns.
* Late answers of polls and requests in the browser.

The full list, with lines, is `hazards` in `PROJECT.json`.

### 1.4 What makes each part correct

* **Job queue and worker.**  One claim per row at a time, never overwritten; no
  claim on a waiting or settled job; every job in flight can be found by the
  sweep; attempts bounded; a settled job reopened only on request; a job not
  requeued underneath its live worker; every job eventually settled.
* **Worker liveness and answers.**  A worker counted dead is dead or busy; dead
  workers are noticed; a member is answered with the own, newest job's outcome.
* **Artifacts.**  A resume never trusts a partial extraction or a torn file;
  frames are not discarded under a reader; detections and tracks are of one run.
* **Assignments.**  Only a coach links a track to an athlete; every identity shown
  was stated for the track, and is one writer's in the history unless writers
  overlapped; entries are lost to overlapping writes only.
* **Grades and evidence.**  The file is ahead of its mirror in the database; a saved
  report has the evidence of all its plays; a report's athlete is a coach's choice;
  a best-effort write never fails its caller.
* **Plays.**  Segments partition what was observed; a corrected play's history is
  unbroken; corrections are lost to another analysis only.
* **Grading, tracking, projection.**  Bounds, monotonicity, independence of order;
  one track per player and frame; no tier that measurements do not earn.
* **Video store.**  What is listed is a whole film within the limit; what was
  refused is not stored.
* **Accounts.**  One account per roster row; a fresh reset token ends the earlier
  ones; no session from before a reset survives it.
* **Share links, board, fit, needs.**  A removed row stays removed; an answered link
  opens; one writer's columns survive another's.
* **Film jobs.**  A job ends complete or failed and grades the film it was given;
  no temporary file is left.
* **Film workspace.**  What is shown belongs to the film and job on screen.

## 2. Plan

What the modules are, in the order they were built, and what is left.

| # | Module | Models | Composes with | Proof |
|---|---|---|---|---|
| 1 | `JobQueue` | store, worker loop and handlers, start and resume | refines `WorkQueue` | types, inductive invariant, exclusive claims, refinement of `WorkQueue` |
| 2 | `FilmArtifacts` | extractor, pipeline, identity's use and discard of frames, calibration's rewrite of tracks, a crash at each write | two job handlers and the web process on one disk | types, inductive invariants, markers, whole analyses, calibration |
| 3 | `TrackAssignments` | assign_track, automatic proposals, mixed rows | `OrmRows` | links, audits |
| 4 | `TruthReports` | report building, evidence and grade files, mirror, best-effort session | extends `TrackAssignments`: a report's link is a track's | types, links, mirror, evidence |
| 5 | `JobAnswers` | liveness rows, result column, status endpoints | the queue and loop of 1, coarser | true answers |
| 6 | `Accounts` | signup and linking, sessions, reset tokens | - | rosters, credentials |
| 7 | `RosterRows` | share links, board, fit scores, needs | `OrmRows` | removals, columns, links |
| 8 | `VideoUploads` | both uploads, store, download | - | whole films, refusals |
| 9 | `FilmJobs` | FILM_JOBS, temporary files, Gemini polling with deadline | - | films kept apart |
| 10 | `FilmGrading`, `MetricSieve`, `PlayFile`, `PlayerTracking` | the algorithms that make numbers | `PlayFile` also the file's two writers | every property |

Left: biomechanics and identity selection.  Runs are kept to distinct questions:
components that share no state share an instance.

## 3. Modules

### `JobQueue`

One action per database transaction or per step of a worker between two.

| State | Code |
|---|---|
| `status`, `claimedBy`, `attempts` | the columns; "none" is a row not inserted yet or purged |
| `beatAge`, `updatedAge` | `heartbeat_at`, `updated_at` as ages in ticks; `None` is NULL |
| `created` | rows inserted, in `created_at` order |
| `pc[w]`, `held[w]` | where worker `w` is in `main`/`run_once`, and `job` in `run_once` |
| `late` | jobs with a progress write scheduled but not committed |
| `resuming[c]` | a resume request between its check and its write |
| `resumes`, `faults` | history of resumes (needed to state the attempt budget); fault count |

| Actions | Code |
|---|---|
| `Enqueue` | `enqueue`, as called by three API handlers |
| `ResumeCheck`, `ResumeWrite` | `resume_analysis`, lines 91-97 and 101-104 |
| `Sweep`, `Purge` | `requeue_stale`, `purge_finished_jobs` from `main` |
| `SelectOldest`, `NothingQueued`, `CommitClaim` | `claim_next`: the locking SELECT, the empty result, the commit |
| `StartJob`, `MissingFilm`, `Report`, `ScheduleProgress`, `LateProgress`, `Complete`, `ReportFailed`, `FramesDiscarded`, `HandlerRaises`, `RecordFailure` | `run_once` and the three handlers |
| `LoopError`, `Strand`, `Crash`, `KilledByJob`, `Restart` | errors and deaths: what `main`'s `except` catches, what `run_once` lets through, processes that die, and store.py:37's job that kills its worker |
| `Tick` | time, in sweep intervals |

Only the claim holds its row lock across two steps, so it is the only lock in
the model (`Locked`): other writers of the row wait for it, other claimers skip
it.  Stage names are one status, `"working"`, because the queue only
distinguishes queued, terminal and the rest.  `Timely` is the one environment
assumption: when TRUE, time does not pass a live worker's deadline.  The code
does not guarantee it; the runs say which results need it.

### `WorkQueue`

The promise without rows, locks, clocks and requests: a waiting job is taken by
one worker nobody else competes with, a job is recovered only when nobody works
on it, a settled job comes back only on request.  `JobQueue!ImplementsWorkQueue`
is the refinement: phases from statuses, `working[w]` from `Executing(w)`.

### `FilmArtifacts`

The files one film leaves on a machine, and everybody who reads, writes or
deletes them there: the analysis and identity handlers of any number of workers
and the web process, when it shares the disk (`docs/RUN_ON_V2.md`).

| State | Code |
|---|---|
| `disk` | one entry per file: frame JPEGs, `frames.json`, `frames.complete`, keyframe, `detections.json`, `tracks.json`, `plays.json`; `Absent`, `Torn`, or the set of film frames the content was made from |
| `dir` | the film's frames directory exists |
| `open` | per process, the file it has truncated and not yet filled (`Gone` once somebody unlinked it) |
| `pc`, `listed`, `done`, `seen`, `trash` | a handler's stage; its manifest; the frames tried; those written or read with success; what `rmtree` has still to unlink |
| `web`, `snapshot` | a calibration between its read and its write |
| `covered`, `faults` | history: frames behind the last completed analysis; interruptions |

| Actions | Code |
|---|---|
| `StartAnalysis`, `StartIdentity` | a worker begins a job; which job is `JobQueue`'s business |
| `ResumeExtraction`, `LoadVision` | what `_run_job` finds on disk and skips |
| `OpenFilm`, `WriteFrame`, `Checkpoint`, `FinishManifest`, `MarkComplete`, `DirectoryGone` | `FrameExtractor.extract` |
| `PreserveKeyframe` | `preserve_keyframe` |
| `ReadFrame`, `SaveDetections`, `SaveTracks` | `analyze_frames`; `ReadFrame` also stands for the jersey reader's frames |
| `SavePlays`, `Complete` | the end of `_run_job` |
| `LoadForIdentity`, `FinishIdentity`, `Unlink`, `RemoveDirectory` | `_identify_sync`, the end of `_run_identity_job`, `discard_frames` |
| `Calibrate`, `WriteBack` | `create_automatic_calibration` |
| `InterruptJob`, `InterruptRequest` | a crash, or an error that is not a file's fault |

Every write is two steps, because `write_text`, `imwrite` and `copy2` truncate
and then fill.  Reads are one step.  A JPEG that was cut off is taken not to
decode.  Ignored: detection batches (order and skips are the same), calibration
files (nobody else writes them), a coach's play corrections (`PlayFile`), biomechanics.

### `TrackAssignments`, `OrmRows`

Who a tracked player is: one row per track, written by `/assign` and by identity
jobs.  Each reads a row (`ReadRow`), works on the object and commits it
(`AssignTrack`, `PersistAutomaticAssignment`); in between others commit.
`OrmRows!Merge` is what the unit of work then sends: the columns that differ from
what was read, over what is there now; `MergedRow` does so for each of the identity
columns, so that two writers' columns may mix.  An INSERT that meets another's row
fails.

| State | Code |
|---|---|
| `rows` | `film_track_assignments`: `identity`, a value per `IdentityColumn` (`player_id`, `jersey_number`, `team`, `position`), `athlete`, `confirmed`, `history` |
| `stage`, `request`, `found` | per writer: where it is, what it was asked, the row it read |

### `TruthReports`

Extends `TrackAssignments` with runs of report jobs and web requests that grade,
over one player's evidence and grade files and the `film_grades` mirror.

| State | Code |
|---|---|
| `evidence`, `grades` | the two JSON files: sets of records, or `Torn` |
| `saved` | history: who has filled the grade file |
| `mirror` | `film_grades` |
| `step`, `target`, `reasoned` | a run's place, its track, the plays reasoned over |
| `copy`, `link` | what a store has read; the athlete looked up |

| Actions | Code |
|---|---|
| `StartReport`, `Reason`, `TruncateEvidence`, `FillEvidence` | `build_truth_report`'s loop and `EvidenceStore.save` |
| `LoadGrades`, `TruncateGrades`, `FillGrades` | `GradeStore.save` |
| `LookUpAthlete`, `CommitGrade`, `GradeHiccup` | `_persist_grade` within `best_effort_session` |
| `ReportRaises`, `ReportCrash` | exceptions, deaths; a retry is another run |

### `JobAnswers`

What a member is told: the three status endpoints (`ReportAnswer`,
`IdentityAnswer`, `ToldUnavailable`) as operators over the queue's rows and the
workers' `last_seen_at`.  The queue is coarser than `JobQueue`: a claim is one
step and a resume is one step too.  New are the `result` column, which only some
ends of a job set (`Outcomes`), and the loop's liveness write, which only happens
between jobs (`ReportLiveness`).

### `Accounts`, `RosterRows`

Requests as sequences of statements, READ COMMITTED.  `Accounts`: `Signup`,
`LinkOrCreateAthlete`, `CreateAccount`, `Login`, `Logout`, `ForgotPassword` and
`CommitToken` (its DELETE and its commit), `FindToken` and `ResetPassword`,
`StartSession`, `DropExpired`, `Lapse`.  `RosterRows`: one row of one of four
tables; `PUT` reads, inserts or updates the columns its body sets, commits and
reads again for its answer; `DELETE` reads, then deletes.

### `VideoUploads`, `FilmJobs`

`VideoUploads`: a film becomes a file, then metadata, then a row; direct uploads
arrive in chunks, linked ones come through clients that are tried in turn.
`scratch` is a download's temporary directory, a set of files: what `Fetched` and
`BrokenOff` let yt-dlp leave there, of which `SaveFromPath` takes one, moves or
unlinks it, and leaves the rest.  Requests die anywhere.  `FilmJobs`: temporary files and whose film
they hold, `FILM_JOBS`, the polling of Gemini with its deadline, the best-effort
save of an evaluation, and a restart that forgets it all.

### `MetricSieve`, `FilmGrading`, `PlayFile`, `PlayerTracking`

The algorithms, as operators on small integers, driven by a machine that varies
their inputs one at a time so that a step relates two inputs: one more
measurement, one more event, one more correction, one more frame.
`MetricSieve` holds the code's whole position matrix; `FilmGrading` follows an
answer of the model from validation to the report's display traits; `PlayFile` is
`plays.json`, estimated by workers and corrected by coaches at the same time;
`PlayerTracking` takes one turn of the association loop per step.

### Instances and proofs

`MCJobQueue` defines values and symmetry.  `MCTruthReports` chooses a scene: the
assignments alone, with every writer and every identity, or the whole desk, where
only the coaches in `DeskCoach` write and all state one identity, since reports look
at the athlete only (`Narrowed`).  `MCServices` and
`MCNumbers` put modules that share no state into one instance: an initial state
chooses which of them runs and the others rest, so nothing is interleaved that
does not interact.  `FilmArtifacts`, and the runs that find a violation, need no
instance.  Definitions marked "Faulty variant" are bugs of the kind the code could
have; no specification uses them.  `JobQueueProofs`, `JobQueueRefinement`,
`FilmArtifactsProofs`, `TruthReportsProofs`, `AccountsProofs`, `JobAnswersProofs`,
`ServicesProofs` (uploads, film jobs, roster rows, and the types of all services) and
`NumbersProofs` hold the proofs.

## 4. Runs

| Run | Instance | Result |
|---|---|---|
| `queue_race` | 2 workers, 2 resume requests, 1 identity job, 2 faults, workers may be slow | claims are exclusive and on jobs in flight, jobs in flight recoverable, attempts within budget (types and the inductive invariant: proved) |
| `queue_timely` | 2 workers, 1 request, an analysis and an identity job, 1 fault, timely workers | the row's claim is the truth; settled jobs stay settled; refines `WorkQueue`, so nothing is requeued underneath its worker |
| `queue_live` | 2 workers, 1 fault, slow workers, a poisonous job before a sound one | both are settled |
| `artifacts_crash` | 1 worker and the web, 2 interruptions, torn writes, 2 frames | a marker stands only beside a whole manifest |
| `artifacts_resume` | 1 worker, 2 interruptions between writes, 3 frames | a resumed analysis completes; it, and the tracks, are of the whole film (with torn writes too: proved); calibration keeps a frame |
| `artifacts_shared` | 2 workers, 1 frame | every job ends, whatever the other deletes |
| `desk` | 2 tracks, 2 athletes; either 2 coaches and an identity job with 2 identity columns of 2 values, or 1 coach and the job beside 2 report runs one at a time, 1 web grade, 2 plays, 1 fault | links are a coach's, identities audited and mixed by overlapping writers only, mirror behind file, evidence whole |
| `services` | 2 e-mails and 3 requests; 2 puts and a removal; 1 direct and 1 linked upload; 2 waiting requests and a job; 1 worker, 2 players, 2 jobs | types; rosters, credentials, rows, stored films and temporary files are sound; answers are true; jobs settle, dead workers are noticed |
| `numbers` | 3 positions; 2 plays, 3 events; 6 seconds, 2 analyses, 2 corrections; 3 places, 4 tracks | projections are earned, grades independent of order, segments a partition, histories unbroken, tracks one player each |
| `torn_write` | 1 worker, 1 interruption, torn writes | **violated**: a torn artifact fails every resume |
| `grade_hiccup` | 1 report, a database that fails once | **violated**: a report whose grade is saved fails |
| `failure_untold` | 1 worker that dies twice | **violated**: a report that was given up on is answered as queued |

**Bounds.**  `MaxJobs`, `MaxResumes`, `MaxFaults` cap counters.  Two workers are
enough for every race in the code because each statement involves one writer
and one row; two requests race with each other and with a worker.  `StaleAfter`
is one tick, the least at which an age can be below, at and beyond the limit;
`MaxAttempts` 2 distinguishes first, last and exhausted attempts; `Retention` 2
is beyond `StaleAfter` so a row is swept before it is purged, as in the code (10
minutes, 30 days).  One job is enough where a property is about one row; the
timely and live runs have two because the claim's order and the lock of
another row matter there.  Workers (and requests, where no liveness is checked)
are symmetric: nothing in the code orders them.

For the artifacts, three frames with a checkpoint after the second give a
partial manifest, a first, middle and last frame, and a frame after the
checkpoint; two frames with a checkpoint after each do where the web process
multiplies the states.  Two interruptions let a run be cut off, resumed, and
cut off again at another write.  With two workers one frame is enough: each can
still lose the file it is writing, the directory it writes to, the frame it
reads and the manifest it loads to the other.

For the desk, two tracks tell a link of one from a link of another, two plays a
partial report from a whole one, two runs a report from its retry, and one fault
is enough to cut one of them off anywhere.  Of the assignments' three writers one
inserts a row and two then overlap on it; two columns of two values are the least
that can mix.  Beside the reports one coach is enough: they read a link, which a
second coach changes as the first does (`DeskCoach`).  The theorems are for every
number of each, in one scene.  Two accounts and three requests
let a login or reset run beside another while a third intervenes; two puts and a
removal meet between any two of each other's statements; a limit of one chunk and
films of up to two have films below, at and beyond it, with a download cut between;
two clients let one leave pieces to the other; two waiting requests share a file
name.  A worker of `JobAnswers` dies twice, once
more than a job needs to be given up on.  The numbers' bounds are in `MCNumbers`,
which says what each instance is chosen to contain.

**Deadlock** is checked in the runs of the queue and the artifacts: the clock can always tick in the slow
runs, and with timely workers some worker can always step.  In
`FilmArtifacts` a free worker can always start an analysis.  In the other runs
requests, reports and inputs come to an end and the system may stop.

**Fairness** (`Fairness`).  A live worker's loop goes on, because `main` catches
every exception and never leaves it; handlers end, because films are finite
and the LLM calls carry a timeout (`backend/ai/http_provider.py:11`); a dead
worker is started again (the deployment's supervisor); a resume that passed its
check makes its write; time passes.  Nobody has to enqueue or resume, nothing
has to fail, progress reports need not be made.  In `FilmArtifacts` (`FairSpec`)
a handler's steps go on for the same reasons, and an analysis is asked for again
whenever a worker is free often enough: that is the premise of "can be resumed",
not something the code does by itself.
A film job's and a clock's steps (`FilmJobFairness`, `AnswerFairness`) go on
because a task does unless its process is replaced, which the model allows;
Gemini need never answer well.  `JobAnswers` assumes nothing but that time passes.

## 5. Proofs

`JobQueueProofs` proves, for any sets of workers and requests, any number of
jobs and any limits satisfying the module's three assumptions (limits are
naturals, `MaxAttempts` positive, `None` is no worker and no number):

* `TypeCorrect`: `Spec => []TypeOK`.  Types alone are not inductive: a worker
  that schedules a progress write must hold a job, so `TypeInv` adds `BusyHolds`.
* `QueueInvariant`: `Spec => []IInv`.  The properties one wants
  (`ClaimMeansInFlight`, `InFlightIsRecoverable`, `AttemptBudget`) do not carry
  themselves: a claim is committed in a step after its SELECT, so one needs that
  the row is still queued then (`LockedIsQueued`), that nobody else is about to
  claim it (`OneLocker`), that a queued row has an attempt left (`AttemptLeft`),
  and that an absent row has no past (`AbsentIsFresh`).  The proof splits the
  invariant into locks and rows; `LockFrame`, `RowFrame`, `QuietStep` and
  `WriteStep` say what leaves each part alone, `UpdateSound` and `FinishSound`
  treat the two statements every handler ends in, and `SafeStep` has one step
  per action.
* `NoClaimOnSettled`, `NothingIsLost`, `AttemptsBounded`: its consequences.
* `ClaimsAreExclusive`: `Spec => ClaimNeverStolen`, an action property.

`JobQueueRefinement` goes on from there and proves, for any number of workers and
jobs, what needs the workers to be `Timely` and resumes not to overlap
(`Undisturbed`: at most one request at a time resumes a job):

* `ClaimsTellTheTruth` (`LeaseAgreement`), `OnlyMembersReopen`
  (`OnlyResumeReopens`) and `QueueImplementsWorkQueue` (`ImplementsWorkQueue`, the
  refinement of `WorkQueue`).  Both assumptions are needed: a silent worker's job is
  swept and given to another, and of two resumes that have both checked, the
  second takes the job back from the worker that claimed it after the first.
  The strengthening is `LeaseInv`: a worker on a job has its row, in flight and in
  its name, until it has settled it (`Leased`), with a heartbeat within the limit
  (`HeartIsFresh`), so no sweep takes it; no two have one job (`OneHolder`); what a
  resume has found failed still is, or was purged (`ResumesFailed`).
  For each kind of step one lemma says which rows it changes (`CalmStepRows`,
  `EndsRows`, `SweepRows`, ...), one that `LeaseInv` is kept (`...Lease`) and one
  which step of `WorkQueue` it is (`...Refines`): most are stutters; a claim is
  `Take`, a crash is `Abandon`, which leaves the job held with nobody at work, and
  that is what allows the sweep's `Recover` later.

`FilmArtifactsProofs` proves, for any length of film, checkpoint interval,
configuration and number of interruptions, torn writes included:

* `ArtifactTypes`: `Spec => []TypeOK`, for any number of workers and the web.
* `MarkerIsHonest`, for `OneWorker`: one worker has the film, whatever calibrations
  the web process makes beside it.  `MarkInv` says that the web process has at most
  the tracks open, and that the marker is gone while the manifest is being written
  and the manifest whole when the marker is (`Marking`).  With a second worker
  extracting, a checkpoint lands beside the other's marker.
* `ResumedAnalysesAreWhole`, `TracksAreWhole`, for `Alone`: in addition the web
  process leaves the film alone.  The assumption is needed: with a calibration under
  way an empty `tracks.json` passes for a finished one.  Both follow from `IInv`
  (`ArtifactInvariant`), whose point is the last conjunct of `DiskOK`: images may be
  missing from beside a trusted manifest, since a cleanup can be cut short, but only
  when readable tracks are there, so that no run has to look at the images again;
  and readable tracks never become unreadable, since a run that finds them skips the
  stage that would rewrite them. `JobOK` is what a handler knows at each stage,
  `OpenOK` that nobody unlinks a file it is writing; `Wrote` says what a file write
  does then, and three lemmas take the actions in groups.
* `CalibrationIsKept`, for `Alone`.  `KeptInv` adds to `IInv`, for as long as nothing
  was interrupted, that the keyframe is there from each stage on that relies on it,
  and that the images it is copied from are whole when it is copied (`Kept`).

`TruthReportsProofs` proves, over `DeskSpec`, for any tracks, athletes, coaches,
identity jobs, runs, web requests, plays and faults:

* `DeskTypes`, `LinksAreCoachs`, `IdentitiesAreAudited`, `ReportsAreLinkedByCoach`,
  `MirrorsFollow`, `GradesHaveEvidence`, `AuditsAreLostToOverlap`.  The inductive
  invariant `DeskInv` has four parts.  `AssignmentInv`: every column of a row is
  accounted for by a writer that is done, and so is whatever a writer has read;
  without the second, a merge could bring an unaccounted column back.  That a row is
  one writer's as a whole holds only while no two have overlapped, and needs
  `IdentityInv`: what a writer has read has a history of writers that are done
  (`HistoryIsPast`), and one that has read the entries of all who wrote the track has
  read the row as it still is (`ReadersAreCurrent`).  `ReportInv`: who has
  passed the save is in `saved`, a link that has been looked up is a coach's.
  `LinkInv` carries links into the mirror; it needs that writers that are done
  stay done (`WriterStays`).  `EvidenceInv`, for one run at a time, says that an
  earlier run's records are kept by whoever has read the file since and that the
  present run has all plays up to the one it is at.  `MergedColumn` and
  `MergedIdentity` say what a merge does column by column, `MergedRowAlone` that
  without another's commit in between it is the writer's own row; each action has
  its lemma.

`AccountsProofs` proves, over `AccountSpec`, for any addresses and requests:

* `AthletesAreClaimedOnce` and `ResetsAreFinal`.  `AccountInv` adds to the two
  properties what a request relies on between two statements: that the account it
  has found is still there (`AccountsStay`), that it holds an athlete to claim or
  none (`AthleteInHand`), that the tokens it saw are of requests that have ended
  (`TokensOfEnded`).

`ServicesProofs` proves, for any uploads, lengths and limit (`UploadSpec`), any
requests and restarts (`FilmJobSpec`, `RosterSpec`):

* `ListedFilmsAreWhole` and `RefusalsStoreNothing`.  Uploads share no file, so
  `UploadInv` is two formulas per upload: what each stage of a request has put into
  the store, and that an answer agrees with it (`Sound`), and what it has in its
  directory (`FilesOfClients`): a first client leaves at most one file when it
  fetched the film, so that taking that one leaves none.
* `JobsKeepToTheirFilms`.  A job's own file is one formula per job (`OwnFile`); the
  path waiting requests share needs one about all of them: whatever is there, some
  request is still to clear it or was lost before it could (`SharedIsKept`).
* `WorkOfOthersStands` and `LinksWorkWhenAnswered`, action properties that need no
  more than types: `RowsComeAnew` and `OtherColumns` say of each step what it may do
  to a row, `RosterNextSplits` which requests can have made it.
* `ServiceTypes`, over the instance's `MCSpec`: a behaviour of all five services is
  one of each (`ServicesByThemselves`), so the types of each are theirs together.

`JobAnswersProofs` proves, over `AnswerSpec`, for any workers, players and limits:

* `MembersAreToldTheTruth` and `UnavailableIsSo`.  `RowIsTrue` says of each row, for
  every step that changes one, what the endpoints rely on: no result before a first
  run, a result of its own, and a completed one once completed.  `WorkerIsKnown`
  ties the liveness row to the loop: a busy worker has been silent for as long as it
  has been at its job.  That the newest job exists (`NewestIs`) is well-foundedness.
  The instance has one worker; the proof has any number, so that a late one may
  write over the row of a job that was swept and given to another: rows stay true.

`NumbersProofs` proves the properties of the algorithms, for inputs of any size:

* `TracksArePlayers`, over `TrackingSpec`.  The three parts of `TracksAreSound` do
  not carry themselves: that a low score took no track of a high one needs that every
  high one was looked at first (`SureFirst`) and that nothing left was a match for
  those that began tracks (`NothingMissed`); that no track is given twice needs that
  the tracks of a frame's output are the ones it has touched (`OutputIsTracked`,
  `OthersAreOlder`).
* `EstimatesPartitionFilms`, `CorrectionsAreTraceable`, `CorrectionsStay`, over
  `PlaySpec`.  Stamps that begin plays are numbered in order (`NthIs`), every stamp is
  in the play of the last one that began before it (`SomePlayBegan`), and two plays
  are more than a gap apart (`EstimateIsApart`).  `PlayAssumption` asks for a gap of
  two seconds, since plays are padded by one at either end; the code's is four.
  `PlayInv` says of the file and of what is about to be written that each is the
  estimate with corrections that follow on one another (`Unbroken`), and that the
  second has every correction of the first.
* `MoreCostsNoTier`, `ProjectionsAreEarned`, over `SieveSpec`, for the code's whole
  ladder.  Every tier of it is `Plain`: no lower bound on a time, no upper one on a
  lift, both scores or none (`LaddersAreSteady`, tier by tier).  `WalkEnds` unfolds the
  walk down the tiers once; `Outranks` compares two walks by what they find at each
  tier, and what is left is that a better sheet fails no check the worse one passes.
* `GradesAreSound`, `MoreCountsTheSameWay`, over `GradingSpec`, for any rule file,
  weights, plays and answers.  The film read backwards has the same samples under a
  renumbering (`SumMoved`), so the same scores and grade; a mean is between the
  highest and the lowest of what it is of because its total is between theirs
  (`TotalIsAtMost`, `TotalIsAtLeast`); one event more moves one score, to its side
  (`OneEventMore`), and the grade with it (`HigherScoresHigherGrade`).

Grades are sums over finite sets, which the community modules define by a fold.  The
library's induction theorems take an operator and cannot be used here, so
`NumbersProofs` first proves an induction over the members of a set of sets
(`SetsByOne`, from the least number with a property), and with it what a sum is: that
it exists (`AddersExist`), that any term may be added last (`SumOfAny`), that it is
monotone, scales, and does not depend on how terms are numbered.

The theorems of `JobQueueProofs` do not assume timely workers.  **Only
model-checked:** liveness (`EveryJobSettles`, `ResumedAnalysisCompletes`, `JobsEnd`,
`FilmJobsSettle`, `DeadWorkersAreNoticed`), which is out of the prover's reach.  Every
other property of a run that passes is a theorem, under the assumptions named above.

## 6. Where code and words differ

Shown by a run:

* `torn_write`: a failed analysis "can be resumed" (`worker.py:326`), not with a
  half-written artifact in the way.
* `grade_hiccup`: "a DB hiccup here must not lose that result" (`reports.py:76-77`),
  but `best_effort_session` yields twice when its body raises, which is a
  `RuntimeError` in the report job, or a 500 for `POST /grades`.  The same happens
  to an identity job (`worker.py:205`).  `_persist_evaluation` catches inside the
  session and is safe (`FilmJobs!PersistEvaluation`).
* `failure_untold`: "the member is told" (`store.py:191-192`), but a job that is
  given up on has no result, and two status endpoints look at nothing else.

Seen while modelling, about the queue and the artifacts.  The runs that hold name
the assumption that rules each of them out:

* The sweep "must not steal work from a worker that is healthy"
  (`test_job_queue.py:262`), but an identity job writes nothing between its first
  update and its end, and `heartbeat()`, meant for this, has no caller (`Timely`).
* "A job that's genuinely mid-flight on a live worker must not be re-queued
  underneath it" (`analysis.py:26`), but the check of `resume_analysis` and its
  write are two statements, and the second of two resumes may requeue a job
  claimed in between (one request in `queue_timely`).
* "Nothing reclaims or retries" a terminal job (`store.py:32`), but writes are not
  fenced by `claimed_by` or status: a slow worker's next stage reopens it.
* The keyframe that keeps calibration working (`worker.py:220`) is saved after the
  marker that lets a resume skip saving it (`faults = 0` in
  `CalibrationKeepsWorking`).
* `analyzed` should tell no players from not analysed (`players.py:125`), but
  calibration before the analysis is done writes an empty `tracks.json` (`WebActs`).
* Identification is "the last stage that reads raw frames" (`worker.py:219`), but
  it is asked for once per athlete, and the first to finish deletes the manifest
  and the images; the next raises in `_identify_sync` (`LoadForIdentity`).
* The marker goes with the images so that it never vouches for missing ones
  (`frame_extractor.py:124`), but `rmtree` unlinks in no particular order and may
  be cut short.  `TracksAreWhole` shows why no analysis suffers from it: by then
  there are tracks.  An identification does: it skips missing images silently.
* A busy worker counts as dead after `WORKER_ALIVE_WITHIN`, although its comment
  (`store.py:235-238`) is about workers that are gone.

About assignments, reports and plays:

* A grade's link is that of a track's assignment whether or not it is confirmed:
  an identity job sets `confirmed` back to False and leaves `athlete_id`.  The
  link was still some coach's (`GradeLinkedByCoach`).
* A coach and an identity job that overlap can leave a row that is confirmed and
  shows the machine's player, and any two writers a row with the player of one and
  the jersey of the other, which nobody stated, with an entry of only one of them in
  its history.
* "A coach confirming the track through /assign is the action that must not
  silently degrade" (`players.py:91-92`), but a coach who read a confirmed row does
  not send `confirmed` again, so an identity job that commits in between leaves that
  coach's assignment unconfirmed.  `IdentityIsAudited` allows both to writers that
  overlap, and to no others.
* Boundary corrections "retain their original values and audit history" (the
  repository's `README.md:46`); a second analysis writes `plays.json` anew, and a
  correction read before that and written after it puts the old plays back
  (`LostOnlyToAnalysis` says that nothing else loses one).
* Two processes that fill one JSON file at once can leave text no parser reads.

About the services and algorithms:

* "Every uploaded video gets a real film_uploads row" (`videos.py:4`), unless the
  commit fails after the metadata is written; and metadata torn by a crash makes
  the list of all films fail.
* A download that needed a second client may be a piece the first one left
  (`youtube.py:199-207`).  If that piece is refused, only the piece is unlinked
  (`videos.py:65-67`, `ingestion.py:57-59`): whatever else is in the directory stays
  there, the second client's whole film included, and nothing removes it later.
  When the film is stored, the directory and the other files stay, too.
  `RefusedStoresNothing` says nothing of the directory of a request that asked a
  second client.
* Waiting requests keep their upload under its own base name (`main.py:332`), so of
  two with the same name one can be graded on the other's film, or find that it was
  deleted.  `FilmsAreKeptApart` is about film jobs, and about what requests leave.
* A reset token is "never usable twice" (`auth.py`), but two requests that both
  found it before either committed both succeed; two forgot-password requests that
  do not see each other's token leave two.
* Upserts of roster rows promise a row, but an insert or update that another
  request's insert or removal has overtaken is an error.
* "Clearing a tier implies clearing every easier tier below it"
  (`metric_sieve.py:99`) does not hold where height and weight have upper bounds.
* The tracker "recovers" with low scores (`tracker.py:24`); those that match
  nothing also begin tracks.

## 7. Not modelled, and why

Within the queue: `progress`, `message`, `error` and the counters (no queue
decision reads them); a commit whose acknowledgement is lost; clock skew between
machines (heartbeats and cutoffs both come from worker clocks); the sweep's own
cadence (it may run in any cycle, which covers every cadence for safety).  A
progress write that a failed database statement loses is the second outcome of
`LateProgress`.

Within the artifacts: a read that overlaps a write is one step, so it sees the
file before, torn, or after, never a mixture; `_run_job` checks the marker and
reads the manifest in one step; two copies of one film on two machines never
meet.  Saved calibrations have one writer.

Algorithms: the makeup grade (a weighted mean of five answers), confidences,
identity selection and OCR, the ball filter, movement and biomechanics (floating
point geometry over detector output), the frame cache (a cache of immutable
files).  Observation overrides and coach notes are single inserts or the same
read-append-write as `GradeStore`.

Beyond it: the frontend keeps nothing the server depends on.  Detectors, OCR and
LLMs are external.  Configuration, CORS, logging, e-mail and health checks keep no
state worth a machine.
