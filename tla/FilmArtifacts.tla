---------------------------- MODULE FilmArtifacts ----------------------------
(***************************************************************************)
(* What the jobs of one film leave on disk: the extracted frames with      *)
(* their manifest and completion marker (backend/video/frame_extractor.py),*)
(* detections and tracks (backend/vision/pipeline.py), plays, and who      *)
(* reads, writes and deletes them: the analysis and identity handlers of   *)
(* backend/jobs/worker.py and automatic calibration in the web process,    *)
(* which shares the disk (docs/RUN_ON_V2.md).                              *)
(*                                                                         *)
(* Abstractions.  A file's content is the set of film frames it was made   *)
(* from.  A file is written by truncating and filling it, so it is Torn in *)
(* between, and stays so if the writer is interrupted: json.loads raises   *)
(* on it, cv2.imread returns nothing.  A file unlinked while it is written *)
(* stays gone.  Which jobs run when is the queue's business: here any idle *)
(* worker may start either kind at any time, which covers first runs,      *)
(* resumes, requeued jobs and duplicates.  Biomechanics, off by default,   *)
(* is left out.                                                            *)
(***************************************************************************)
EXTENDS Integers, FiniteSets

CONSTANTS
  Worker,           \* worker processes on this machine
  Web,              \* the web process
  WebActs,          \* whether anyone calibrates through it
  Frames,           \* how many frames the film has
  CheckpointEvery,  \* FrameExtractor.checkpoint_every
  DiscardFrames,    \* DISCARD_FRAMES_AFTER_IDENTITY
  Absent,           \* no such file
  Torn,             \* a file its writer has truncated but not filled
  MaxFaults,        \* bound: crashes and errors
  TornWrites        \* whether these may hit a write half way

Frame == 1 .. Frames

ASSUME FilmAssumption ==
  /\ Frames \in Nat \ {0} /\ CheckpointEvery \in Nat \ {0} /\ MaxFaults \in Nat
  /\ WebActs \in BOOLEAN /\ DiscardFrames \in BOOLEAN /\ TornWrites \in BOOLEAN

ASSUME DistinctAssumption ==
  /\ Web \notin Worker
  /\ Absent # Torn
  /\ \A S \in SUBSET Frame : S # Absent /\ S # Torn

VARIABLES
  disk,      \* the film's files: Absent, Torn or their content
  dir,       \* its frames directory exists
  pc,        \* per worker: the stage of its job
  listed,    \* per worker: the frames of the manifest it works from
  done,      \* per worker: those it has tried to read
  seen,      \* per worker: frames written, or read with success
  trash,     \* per worker: what rmtree found and has still to delete
  web,       \* what the web process is doing
  snapshot,  \* the file content it read for that
  open,      \* per process: the file it has truncated and not yet filled
  covered,   \* frames behind the last completed analysis, or Absent
  faults     \* crashes and errors so far

diskVars == <<disk, dir>>
jobVars == <<listed, done, seen, trash>>
webVars == <<web, snapshot>>
vars == <<diskVars, pc, jobVars, webVars, open, covered, faults>>

Jpg(n) == <<"jpg", n>>
Manifest == <<"frames.json", 0>>
Marker == <<"frames.complete", 0>>
Keyframe == <<"keyframe", 0>>
Detections == <<"detections.json", 0>>
Tracks == <<"tracks.json", 0>>
Plays == <<"plays.json", 0>>

\* Faulty variant: the keyframe is kept beside the frames.
FramesDirAndKeyframe == {Jpg(n) : n \in Frame} \cup {Manifest, Marker, Keyframe}

FramesDir == {Jpg(n) : n \in Frame} \cup {Manifest, Marker}
Path == FramesDir \cup {Keyframe, Detections, Tracks, Plays}

None == <<"none", 0>>  \* nothing open
Gone == <<"gone", 0>>  \* the open file was unlinked

Process == Worker \cup {Web}

Stage == {"idle",
          "resume", "open", "extract", "checkpoint", "mark", "keyframe",
          "vision", "detect", "track", "segment", "finish",
          "identify", "ocr", "discard"}

TypeOK ==
  /\ disk \in [Path -> {Absent, Torn} \cup SUBSET Frame]
  /\ dir \in BOOLEAN
  /\ pc \in [Worker -> Stage]
  /\ listed \in [Worker -> SUBSET Frame]
  /\ done \in [Worker -> SUBSET Frame]
  /\ seen \in [Worker -> SUBSET Frame]
  /\ trash \in [Worker -> SUBSET FramesDir]
  /\ web \in {"idle", "calibrate"} /\ snapshot \in SUBSET Frame
  /\ open \in [Process -> Path \cup {None, Gone}]
  /\ covered \in {Absent} \cup SUBSET Frame
  /\ faults \in 0 .. MaxFaults

Init ==
  /\ disk = [p \in Path |-> Absent]
  /\ dir = FALSE
  /\ pc = [w \in Worker |-> "idle"]
  /\ listed = [w \in Worker |-> {}]
  /\ done = [w \in Worker |-> {}]
  /\ seen = [w \in Worker |-> {}]
  /\ trash = [w \in Worker |-> {}]
  /\ web = "idle" /\ snapshot = {}
  /\ open = [a \in Process |-> None]
  /\ covered = Absent
  /\ faults = 0

-----------------------------------------------------------------------------
(* Reading and writing files.                                              *)

Exists(p) == disk[p] # Absent

Readable(p) == disk[p] \notin {Absent, Torn}

\* The least frame of a set, and the entry manifest[len(manifest) // 2] of a
\* manifest listing it; each as a set of one.
First(S) == {n \in S : \A m \in S : n <= m}
Middle(S) == {n \in S : Cardinality({m \in S : m < n}) = Cardinality(S) \div 2}

Goto(w, stage) == pc' = [pc EXCEPT ![w] = stage]

\* write_text(): the file is truncated, then filled.
Truncate(a, p) ==
  /\ open[a] = None
  /\ open' = [open EXCEPT ![a] = p]
  /\ disk' = [disk EXCEPT ![p] = Torn]

Fill(a, p, content) ==
  /\ open[a] # None
  /\ open' = [open EXCEPT ![a] = None]
  /\ disk' = IF open[a] = Gone THEN disk ELSE [disk EXCEPT ![p] = content]

\* A worker's stage that writes one file and leads to the next stage.
WriteFile(w, stage, p, content, next) ==
  /\ pc[w] = stage
  /\ \/ /\ p \in FramesDir => dir
        /\ Truncate(w, p)
        /\ UNCHANGED pc
     \/ Fill(w, p, content) /\ Goto(w, next)
  /\ UNCHANGED <<dir, webVars, covered, faults>>

\* An exception inside the handler: the job fails and the worker is free.
Raise(w) == Goto(w, "idle") /\ UNCHANGED <<diskVars, jobVars, open>>

-----------------------------------------------------------------------------
(* The analysis job: extraction.                                           *)

StartAnalysis(w) ==
  /\ pc[w] = "idle"
  /\ Goto(w, "resume")
  /\ UNCHANGED <<diskVars, jobVars, webVars, open, covered, faults>>

\* The manifest, where it is trusted to be complete, replaces extraction.
ResumeFrom(w, trusted) ==
  /\ pc[w] = "resume"
  /\ LET frames == IF trusted THEN disk[Manifest] ELSE Absent IN
       \/ frames = Torn /\ Raise(w)
       \/ /\ frames \in {Absent, {}}
          /\ Goto(w, "open")
          /\ UNCHANGED <<diskVars, jobVars, open>>
       \/ /\ frames \notin {Torn, Absent, {}}
          /\ listed' = [listed EXCEPT ![w] = frames]
          /\ Goto(w, "vision")
          /\ UNCHANGED <<diskVars, done, seen, trash, open>>
  /\ UNCHANGED <<webVars, covered, faults>>

\* Faulty variant: any manifest will do.
ResumeFromAnyManifest(w) == ResumeFrom(w, TRUE)

\* _run_job() wants frames.complete beside it.
ResumeExtraction(w) == ResumeFrom(w, Exists(Marker))

\* extract(): the directory is made, the film opened, the old marker removed.
OpenFilmWith(w, oldMarker) ==
  /\ pc[w] = "open"
  /\ dir' = TRUE
  /\ disk' = [disk EXCEPT ![Marker] = oldMarker]
  /\ seen' = [seen EXCEPT ![w] = {}]
  /\ open' = [a \in Process |->
                IF open[a] = Marker /\ oldMarker = Absent THEN Gone ELSE open[a]]
  /\ Goto(w, "extract")
  /\ UNCHANGED <<listed, done, trash, webVars, covered, faults>>

\* Faulty variant: the marker of an earlier extraction stays.
OpenFilmKeepingMarker(w) == OpenFilmWith(w, disk[Marker])

\* Faulty variant: mkdir() does not accept a directory that is there.
OpenFilmInNewDirectory(w) ==
  IF dir THEN pc[w] = "open" /\ Raise(w) /\ UNCHANGED <<webVars, covered, faults>>
         ELSE OpenFilmWith(w, Absent)

OpenFilm(w) == OpenFilmWith(w, Absent)

\* The next frame of the film becomes a JPEG.
WriteFrame(w) ==
  \E n \in First(Frame \ seen[w]) :
    /\ WriteFile(w, "extract", Jpg(n), {n},
                 IF n % CheckpointEvery = 0 THEN "checkpoint" ELSE "extract")
    /\ seen' = IF open[w] = None THEN seen ELSE [seen EXCEPT ![w] = @ \cup {n}]
    /\ UNCHANGED <<listed, done, trash>>

Checkpoint(w) ==
  /\ WriteFile(w, "checkpoint", Manifest, seen[w], "extract")
  /\ UNCHANGED jobVars

FinishManifest(w) ==
  /\ Frame \subseteq seen[w]
  /\ WriteFile(w, "extract", Manifest, seen[w], "mark")
  /\ UNCHANGED jobVars

MarkComplete(w) ==
  /\ WriteFile(w, "mark", Marker, seen[w], "keyframe")
  /\ listed' = [listed EXCEPT ![w] = seen[w]]
  /\ UNCHANGED <<done, seen, trash>>

\* The directory was deleted meanwhile: opening a file in it raises.
DirectoryGone(w) ==
  /\ pc[w] \in {"extract", "checkpoint", "mark"} /\ ~dir /\ open[w] = None
  /\ Raise(w)
  /\ UNCHANGED <<webVars, covered, faults>>

\* preserve_keyframe() copies the middle frame, if it is there.
PreserveKeyframe(w) ==
  \E n \in Middle(listed[w]) :
    /\ \/ /\ Exists(Jpg(n)) \/ open[w] # None
          /\ WriteFile(w, "keyframe", Keyframe,
                       IF disk[Jpg(n)] = Torn THEN Torn ELSE {n}, "vision")
       \/ /\ pc[w] = "keyframe" /\ ~Exists(Jpg(n)) /\ open[w] = None
          /\ Goto(w, "vision")
          /\ UNCHANGED <<disk, dir, webVars, open, covered, faults>>
    /\ UNCHANGED jobVars

-----------------------------------------------------------------------------
(* The analysis job: detection, tracking, plays.                           *)

\* Both files there: they are used.  Either missing: both are made again.
\* Either torn: json.loads raises.
LoadVision(w) ==
  /\ pc[w] = "vision"
  /\ \/ Torn \in {disk[Detections], disk[Tracks]} /\ Raise(w)
     \/ /\ Torn \notin {disk[Detections], disk[Tracks]}
        /\ ~Exists(Detections) \/ ~Exists(Tracks)
        /\ done' = [done EXCEPT ![w] = {}]
        /\ seen' = [seen EXCEPT ![w] = {}]
        /\ Goto(w, "detect")
        /\ UNCHANGED <<diskVars, listed, trash, open>>
     \/ /\ Readable(Detections) /\ Readable(Tracks)
        /\ seen' = [seen EXCEPT ![w] = disk[Tracks]]
        /\ Goto(w, "segment")
        /\ UNCHANGED <<diskVars, listed, done, trash, open>>
  /\ UNCHANGED <<webVars, covered, faults>>

\* cv2.imread of the next listed frame, for the detector or the jersey
\* reader; one that cannot be read is skipped without a word.
ReadFrameWith(w, insist) ==
  /\ pc[w] \in {"detect", "ocr"} /\ open[w] = None
  /\ \E n \in First(listed[w] \ done[w]) :
       /\ Readable(Jpg(n)) \/ ~insist
       /\ done' = [done EXCEPT ![w] = @ \cup {n}]
       /\ seen' = [seen EXCEPT ![w] = IF Readable(Jpg(n)) THEN @ \cup {n} ELSE @]
  /\ UNCHANGED <<diskVars, pc, listed, trash, webVars, open, covered, faults>>

\* Faulty variant: a frame that cannot be read is waited for.
ReadFrameWaiting(w) == ReadFrameWith(w, TRUE)

ReadFrame(w) == ReadFrameWith(w, FALSE)

\* Faulty variant: tracks.json is written first.
SaveTracksFirst(w) ==
  /\ listed[w] \subseteq done[w]
  /\ WriteFile(w, "detect", Tracks, seen[w], "track")
  /\ UNCHANGED jobVars

SaveDetections(w) ==
  /\ listed[w] \subseteq done[w]
  /\ WriteFile(w, "detect", Detections, seen[w], "track")
  /\ UNCHANGED jobVars

SaveTracks(w) ==
  /\ WriteFile(w, "track", Tracks, seen[w], "segment")
  /\ UNCHANGED jobVars

\* plays.json is written anew, over whatever it held.
SavePlays(w) ==
  /\ WriteFile(w, "segment", Plays, seen[w], "finish")
  /\ UNCHANGED jobVars

Complete(w) ==
  /\ pc[w] = "finish"
  /\ covered' = seen[w]
  /\ Goto(w, "idle")
  /\ UNCHANGED <<diskVars, jobVars, webVars, open, faults>>

-----------------------------------------------------------------------------
(* The identity job.                                                       *)

\* The API accepts it once tracks.json is a file.
StartIdentity(w) ==
  /\ pc[w] = "idle"
  /\ Exists(Tracks)
  /\ Goto(w, "identify")
  /\ UNCHANGED <<diskVars, jobVars, webVars, open, covered, faults>>

\* _identify_sync(): tracks and manifest, or an exception.
LoadForIdentity(w) ==
  /\ pc[w] = "identify"
  /\ \/ ~(Readable(Tracks) /\ Readable(Manifest)) /\ Raise(w)
     \/ /\ Readable(Tracks) /\ Readable(Manifest)
        /\ listed' = [listed EXCEPT ![w] = disk[Manifest]]
        /\ done' = [done EXCEPT ![w] = {}]
        /\ seen' = [seen EXCEPT ![w] = {}]
        /\ Goto(w, "ocr")
        /\ UNCHANGED <<diskVars, trash, open>>
  /\ UNCHANGED <<webVars, covered, faults>>

\* The job is completed; then the frames are discarded, if so configured.
FinishIdentity(w) ==
  /\ pc[w] = "ocr" /\ listed[w] \subseteq done[w]
  /\ \/ /\ DiscardFrames /\ dir
        /\ trash' = [trash EXCEPT ![w] = {p \in FramesDir : Exists(p)}]
        /\ Goto(w, "discard")
     \/ /\ ~(DiscardFrames /\ dir)
        /\ Goto(w, "idle")
        /\ UNCHANGED trash
  /\ UNCHANGED <<diskVars, listed, done, seen, webVars, open, covered, faults>>

\* shutil.rmtree unlinks what it listed one by one, in no set order.
Unlink(w) ==
  /\ pc[w] = "discard"
  /\ \E p \in trash[w] :
       /\ trash' = [trash EXCEPT ![w] = @ \ {p}]
       /\ disk' = [disk EXCEPT ![p] = Absent]
       /\ open' = [a \in Process |-> IF open[a] = p THEN Gone ELSE open[a]]
  /\ UNCHANGED <<dir, pc, listed, done, seen, webVars, covered, faults>>

\* The directory goes last, unless something new is in it.
RemoveDirectory(w) ==
  /\ pc[w] = "discard" /\ trash[w] = {}
  /\ dir' = \E p \in FramesDir : Exists(p)
  /\ Goto(w, "idle")
  /\ UNCHANGED <<disk, jobVars, webVars, open, covered, faults>>

-----------------------------------------------------------------------------
(* The web process.                                                        *)

\* create_automatic_calibration finds a frame to look at.
CanCalibrate ==
  \/ Readable(Keyframe)
  \/ Readable(Manifest) /\ \E n \in Middle(disk[Manifest]) : Readable(Jpg(n))

\* Its second half reads tracks.json, taking a missing file for no tracks,
\* to write the tracks back with their movement in yards.
Calibrate ==
  /\ WebActs /\ web = "idle"
  /\ CanCalibrate /\ disk[Tracks] # Torn
  /\ web' = "calibrate"
  /\ snapshot' = IF Exists(Tracks) THEN disk[Tracks] ELSE {}
  /\ UNCHANGED <<diskVars, pc, jobVars, open, covered, faults>>

WriteBack ==
  /\ web = "calibrate"
  /\ \/ Truncate(Web, Tracks) /\ UNCHANGED web
     \/ Fill(Web, Tracks, snapshot) /\ web' = "idle"
  /\ UNCHANGED <<dir, pc, jobVars, snapshot, covered, faults>>

-----------------------------------------------------------------------------
(* Interruptions: a process dies, or an exception ends its job or request. *)

Interrupt(a) ==
  /\ faults < MaxFaults
  /\ faults' = faults + 1
  /\ open[a] # None => TornWrites
  /\ open' = [open EXCEPT ![a] = None]
  /\ UNCHANGED <<diskVars, jobVars, snapshot, covered>>

InterruptJob(w) ==
  pc[w] # "idle" /\ Interrupt(w) /\ Goto(w, "idle") /\ UNCHANGED web

InterruptRequest ==
  web # "idle" /\ Interrupt(Web) /\ web' = "idle" /\ UNCHANGED pc

-----------------------------------------------------------------------------

\* A worker goes on with the job it has.
JobStep(w) ==
  \/ ResumeExtraction(w) \/ OpenFilm(w) \/ WriteFrame(w) \/ Checkpoint(w)
  \/ FinishManifest(w) \/ MarkComplete(w) \/ DirectoryGone(w) \/ PreserveKeyframe(w)
  \/ LoadVision(w) \/ ReadFrame(w) \/ SaveDetections(w) \/ SaveTracks(w)
  \/ SavePlays(w) \/ Complete(w)
  \/ LoadForIdentity(w) \/ FinishIdentity(w) \/ Unlink(w) \/ RemoveDirectory(w)

Next ==
  \/ \E w \in Worker :
       JobStep(w) \/ StartAnalysis(w) \/ StartIdentity(w) \/ InterruptJob(w)
  \/ Calibrate \/ WriteBack \/ InterruptRequest

Spec == Init /\ [][Next]_vars

\* A worker goes on with its job, and an analysis is asked for again and
\* again until one is completed.
FairSpec ==
  /\ Spec
  /\ \A w \in Worker : WF_vars(JobStep(w)) /\ SF_vars(StartAnalysis(w))

-----------------------------------------------------------------------------
(* Properties.                                                             *)

\* The completion marker does not lie: a manifest beside it lists the whole
\* film, so that a resume never continues from a partial extraction,
\* wherever the one before was cut off.
MarkerMeansComplete == Exists(Marker) => disk[Manifest] \in {Absent, Frame}

\* An analysis that completes has looked at every frame of the film, however
\* often it was interrupted, resumed or run again, and whatever was
\* discarded in between.
CompletedCoversFilm == covered \in {Absent, Frame}

\* Tracks on disk are of the whole film and have their detections beside
\* them: what is there is skipped by the next run, so it has to be whole.
VisionIsWhole ==
  Readable(Tracks) => disk[Tracks] = Frame /\ disk[Detections] = Frame

\* A job ends: a worker is free again and again, even where another worker
\* deletes the files it is working on.
JobsEnd == \A w \in Worker : []<>(pc[w] = "idle")

\* worker.py:220, "Calibration keeps working because extraction preserved a
\* keyframe": once an analysis has gone through uninterrupted, neither
\* discarding the frames nor extracting them again takes anything from
\* calibration.  (Cut off between the marker and the keyframe, it does.)
CalibrationKeepsWorking == faults = 0 /\ covered # Absent => CanCalibrate

\* worker.py:326, "Analysis failed and can be resumed": an analysis that is
\* asked for again whenever it stopped is completed.
ResumedAnalysisCompletes == <>(covered # Absent)
=============================================================================
