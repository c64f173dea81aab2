------------------------ MODULE FilmArtifactsProofs ------------------------
(***************************************************************************)
(* Proofs about FilmArtifacts for every length of film, checkpoint         *)
(* interval and number of faults.  Types hold for any number of workers;   *)
(* the completion marker is honest when one worker has the film, whatever  *)
(* the web process does; the rest of what is on disk can be relied upon    *)
(* when that leaves the film alone, too.                                   *)
(***************************************************************************)
EXTENDS FilmArtifacts, FiniteSetTheorems, TLAPS

USE FilmAssumption, DistinctAssumption

-----------------------------------------------------------------------------
(* Paths.                                                                  *)

Named == {Manifest, Marker, Keyframe, Detections, Tracks, Plays}

\* Files are told apart by their names, and from "nothing open".
LEMMA PathsDiffer ==
  /\ Marker # Manifest /\ Keyframe # Manifest /\ Detections # Manifest
  /\ Tracks # Manifest /\ Plays # Manifest /\ Keyframe # Marker
  /\ Detections # Marker /\ Tracks # Marker /\ Plays # Marker
  /\ Detections # Keyframe /\ Tracks # Keyframe /\ Plays # Keyframe
  /\ Tracks # Detections /\ Plays # Detections /\ Plays # Tracks
  /\ \A n \in Frame : Jpg(n) \notin Named
  /\ \A m, n \in Frame : Jpg(m) = Jpg(n) => m = n
  /\ None \notin Path /\ Gone \notin Path /\ None # Gone
  BY DEF Named, Jpg, Manifest, Marker, Keyframe, Detections, Tracks, Plays,
         Path, FramesDir, None, Gone

LEMMA PathsOfTheFilm ==
  /\ Named \subseteq Path
  /\ FramesDir \subseteq Path
  /\ {Manifest, Marker} \subseteq FramesDir
  /\ \A n \in Frame : Jpg(n) \in FramesDir /\ Jpg(n) \in Path
  BY DEF Named, Path, FramesDir

\* An unreadable file has no set of frames for content, a readable one has.
LEMMA ContentIsFrames ==
  ASSUME TypeOK, NEW p \in Path
  PROVE  Readable(p) <=> disk[p] \in SUBSET Frame
  BY DEF TypeOK, Readable

-----------------------------------------------------------------------------
(* Types.                                                                  *)

LEMMA WriteFileType ==
  ASSUME TypeOK, NEW w \in Worker, NEW stage, NEW p \in Path,
         NEW content \in {Torn} \cup SUBSET Frame, NEW next \in Stage,
         WriteFile(w, stage, p, content, next)
  PROVE  /\ disk' \in [Path -> {Absent, Torn} \cup SUBSET Frame]
         /\ pc' \in [Worker -> Stage]
         /\ open' \in [Process -> Path \cup {None, Gone}]
         /\ dir' \in BOOLEAN
         /\ web' \in {"idle", "calibrate"} /\ snapshot' \in SUBSET Frame
         /\ covered' \in {Absent} \cup SUBSET Frame
         /\ faults' \in 0 .. MaxFaults
  BY DEF TypeOK, WriteFile, Truncate, Fill, Goto, Process, webVars

LEMMA StagesAre ==
  /\ {"idle", "resume", "open", "extract", "checkpoint", "mark", "keyframe"} \subseteq Stage
  /\ {"vision", "detect", "track", "segment", "finish"} \subseteq Stage
  /\ {"identify", "ocr", "discard"} \subseteq Stage
  BY DEF Stage

LEMMA TypeInit == Init => TypeOK
<1> SUFFICES ASSUME Init PROVE TypeOK
  OBVIOUS
<1>1. disk \in [Path -> {Absent, Torn} \cup SUBSET Frame]
  BY DEF Init
<1>2. open \in [Process -> Path \cup {None, Gone}]
  BY DEF Init
<1>3. faults \in 0 .. MaxFaults
  BY FilmAssumption DEF Init
<1>4. /\ pc \in [Worker -> Stage]
      /\ listed \in [Worker -> SUBSET Frame]
      /\ done \in [Worker -> SUBSET Frame]
      /\ seen \in [Worker -> SUBSET Frame]
      /\ trash \in [Worker -> SUBSET FramesDir]
  BY DEF Init, Stage
<1> QED
  BY <1>1, <1>2, <1>3, <1>4 DEF Init, TypeOK

\* Every step keeps the types.
LEMMA TypeStep ==
  ASSUME TypeOK, [Next]_vars
  PROVE  TypeOK'
<1> USE DEF diskVars, jobVars, webVars
<1>1. ASSUME NEW w \in Worker, StartAnalysis(w) \/ StartIdentity(w)
      PROVE  TypeOK'
  BY <1>1 DEF TypeOK, StartAnalysis, StartIdentity, Goto, Stage
<1>2. ASSUME NEW w \in Worker, ResumeExtraction(w)
      PROVE  TypeOK'
  BY <1>2, PathsOfTheFilm
     DEF TypeOK, ResumeExtraction, ResumeFrom, Raise, Goto, Stage, Named
<1>3. ASSUME NEW w \in Worker, OpenFilm(w)
      PROVE  TypeOK'
  BY <1>3 DEF TypeOK, OpenFilm, OpenFilmWith, Goto, Stage
<1>4. ASSUME NEW w \in Worker, WriteFrame(w)
      PROVE  TypeOK'
  <2>1. PICK n \in First(Frame \ seen[w]) :
           /\ WriteFile(w, "extract", Jpg(n), {n},
                        IF n % CheckpointEvery = 0 THEN "checkpoint" ELSE "extract")
           /\ seen' = IF open[w] = None THEN seen ELSE [seen EXCEPT ![w] = @ \cup {n}]
           /\ UNCHANGED <<listed, done, trash>>
    BY <1>4 DEF WriteFrame
  <2>2. n \in Frame
    BY <2>1 DEF First
  <2>3. (IF n % CheckpointEvery = 0 THEN "checkpoint" ELSE "extract") \in Stage
    BY DEF Stage
  <2>4. seen' \in [Worker -> SUBSET Frame]
    BY <2>1, <2>2 DEF TypeOK
  <2> QED
    BY <2>1, <2>2, <2>3, <2>4, WriteFileType, PathsOfTheFilm DEF TypeOK
<1>5. ASSUME NEW w \in Worker,
             Checkpoint(w) \/ FinishManifest(w) \/ MarkComplete(w)
               \/ SaveDetections(w) \/ SaveTracks(w) \/ SavePlays(w)
      PROVE  TypeOK'
  <2>1. seen[w] \in SUBSET Frame
    BY DEF TypeOK
  <2>2. \E p \in Path, stage, next \in Stage : WriteFile(w, stage, p, seen[w], next)
    BY <1>5, PathsOfTheFilm
       DEF Checkpoint, FinishManifest, MarkComplete, SaveDetections, SaveTracks,
           SavePlays, Named, Stage
  <2>3. /\ listed' \in [Worker -> SUBSET Frame]
        /\ done' \in [Worker -> SUBSET Frame]
        /\ seen' \in [Worker -> SUBSET Frame]
        /\ trash' \in [Worker -> SUBSET FramesDir]
    BY <1>5, <2>1
       DEF TypeOK, Checkpoint, FinishManifest, MarkComplete, SaveDetections,
           SaveTracks, SavePlays
  <2> QED
    BY <2>1, <2>2, <2>3, WriteFileType DEF TypeOK
<1>6. ASSUME NEW w \in Worker, DirectoryGone(w)
      PROVE  TypeOK'
  BY <1>6 DEF TypeOK, DirectoryGone, Raise, Goto, Stage
<1>7. ASSUME NEW w \in Worker, PreserveKeyframe(w)
      PROVE  TypeOK'
  <2>1. CASE pc' = [pc EXCEPT ![w] = "vision"] /\ UNCHANGED <<disk, dir, webVars, open, covered, faults>>
    BY <1>7, <2>1 DEF TypeOK, PreserveKeyframe, Stage
  <2>2. CASE \E n \in Middle(listed[w]) :
                WriteFile(w, "keyframe", Keyframe,
                          IF disk[Jpg(n)] = Torn THEN Torn ELSE {n}, "vision")
    <3>1. PICK n \in Middle(listed[w]) :
                WriteFile(w, "keyframe", Keyframe,
                          IF disk[Jpg(n)] = Torn THEN Torn ELSE {n}, "vision")
      BY <2>2
    <3>2. n \in Frame
      BY DEF Middle, TypeOK
    <3>3. (IF disk[Jpg(n)] = Torn THEN Torn ELSE {n}) \in {Torn} \cup SUBSET Frame
      BY <3>2
    <3>4. UNCHANGED jobVars
      BY <1>7 DEF PreserveKeyframe
    <3> QED
      BY <3>1, <3>3, <3>4, WriteFileType, PathsOfTheFilm DEF TypeOK, Named, Stage
  <2> QED
    BY <1>7, <2>1, <2>2 DEF PreserveKeyframe, Goto
<1>8. ASSUME NEW w \in Worker, LoadVision(w)
      PROVE  TypeOK'
  BY <1>8, PathsOfTheFilm DEF TypeOK, LoadVision, Raise, Goto, Stage, Readable, Named
<1>9. ASSUME NEW w \in Worker, ReadFrame(w)
      PROVE  TypeOK'
  BY <1>9 DEF TypeOK, ReadFrame, ReadFrameWith, First
<1>10. ASSUME NEW w \in Worker, Complete(w)
       PROVE  TypeOK'
  BY <1>10 DEF TypeOK, Complete, Goto, Stage
<1>11. ASSUME NEW w \in Worker, LoadForIdentity(w)
       PROVE  TypeOK'
  BY <1>11, PathsOfTheFilm
     DEF TypeOK, LoadForIdentity, Raise, Goto, Stage, Readable, Named
<1>12. ASSUME NEW w \in Worker, FinishIdentity(w)
       PROVE  TypeOK'
  BY <1>12 DEF TypeOK, FinishIdentity, Goto, Stage
<1>13. ASSUME NEW w \in Worker, Unlink(w)
       PROVE  TypeOK'
  <2>1. disk' \in [Path -> {Absent, Torn} \cup SUBSET Frame]
    BY <1>13 DEF TypeOK, Unlink
  <2>2. open' \in [Process -> Path \cup {None, Gone}]
    BY <1>13 DEF TypeOK, Unlink
  <2>3. trash' \in [Worker -> SUBSET FramesDir]
    BY <1>13 DEF TypeOK, Unlink
  <2> QED
    BY <1>13, <2>1, <2>2, <2>3 DEF TypeOK, Unlink
<1>14. ASSUME NEW w \in Worker, RemoveDirectory(w)
       PROVE  TypeOK'
  BY <1>14 DEF TypeOK, RemoveDirectory, Goto, Stage
<1>15. ASSUME Calibrate
       PROVE  TypeOK'
  BY <1>15, PathsOfTheFilm DEF TypeOK, Calibrate, Exists, Readable, Named
<1>16. ASSUME WriteBack
       PROVE  TypeOK'
  <2>1. PICK p \in Path : Truncate(Web, p) \/ Fill(Web, p, snapshot)
    BY <1>16, PathsOfTheFilm DEF WriteBack, Named
  <2>2. disk' \in [Path -> {Absent, Torn} \cup SUBSET Frame]
    BY <2>1 DEF TypeOK, Truncate, Fill
  <2>3. open' \in [Process -> Path \cup {None, Gone}]
    BY <2>1 DEF TypeOK, Truncate, Fill, Process
  <2>4. web' \in {"idle", "calibrate"}
    BY <1>16 DEF TypeOK, WriteBack
  <2> QED
    BY <1>16, <2>2, <2>3, <2>4 DEF TypeOK, WriteBack
<1>17. ASSUME NEW a \in Process, Interrupt(a)
       PROVE  /\ faults' \in 0 .. MaxFaults
              /\ open' \in [Process -> Path \cup {None, Gone}]
              /\ UNCHANGED <<diskVars, jobVars, snapshot, covered>>
  <2>1. faults' \in 0 .. MaxFaults
    BY <1>17, FilmAssumption DEF TypeOK, Interrupt
  <2>2. open' \in [Process -> Path \cup {None, Gone}]
    BY <1>17 DEF TypeOK, Interrupt
  <2> QED
    BY <1>17, <2>1, <2>2 DEF Interrupt
<1>18. ASSUME InterruptRequest \/ \E w \in Worker : InterruptJob(w)
       PROVE  TypeOK'
  <2>1. PICK a \in Process : Interrupt(a)
    BY <1>18 DEF InterruptRequest, InterruptJob, Process
  <2>2. pc' \in [Worker -> Stage] /\ web' \in {"idle", "calibrate"}
    BY <1>18 DEF TypeOK, InterruptRequest, InterruptJob, Goto, Stage
  <2> QED
    BY <2>1, <2>2, <1>17 DEF TypeOK
<1>19. CASE UNCHANGED vars
  BY <1>19 DEF TypeOK, vars
<1> QED
  BY <1>1, <1>2, <1>3, <1>4, <1>5, <1>6, <1>7, <1>8, <1>9, <1>10, <1>11, <1>12,
     <1>13, <1>14, <1>15, <1>16, <1>18, <1>19 DEF Next, JobStep

\* The variables of the film's artifacts keep their types, for any number of
\* workers that share the film.
THEOREM ArtifactTypes == Spec => []TypeOK
<1> QED
  BY TypeInit, TypeStep, PTL DEF Spec

-----------------------------------------------------------------------------
(* One worker on the film: the completion marker.                          *)

OneWorker == \A v, w \in Worker : v = w

\* A worker has a file open only at a stage that writes one, and nobody
\* unlinks it then.
OpenOK(w) ==
  /\ open[w] # Gone
  /\ pc[w] \in {"idle", "resume", "open", "vision", "finish", "identify", "ocr",
                "discard"} => open[w] = None

\* What WriteFile does for a worker whose files nobody unlinks.
Wrote(w, stage, p, content, next) ==
  /\ pc[w] = stage /\ UNCHANGED <<web, covered, faults>>
  /\ open'[w] # Gone /\ open'[Web] = open[Web]
  /\ \A q \in Path : q # p => disk'[q] = disk[q]
  /\ \/ /\ open[w] = None /\ open'[w] # None
        /\ disk'[p] = Torn /\ pc'[w] = stage
     \/ /\ open[w] # None /\ open'[w] = None
        /\ disk'[p] = content /\ pc'[w] = next

LEMMA WriteFileAlone ==
  ASSUME TypeOK, NEW w \in Worker, NEW stage, NEW p \in Path, NEW content, NEW next,
         OpenOK(w), WriteFile(w, stage, p, content, next)
  PROVE  Wrote(w, stage, p, content, next)
<1>1. open[w] # Gone
  BY DEF OpenOK
<1>2. pc \in [Worker -> Stage] /\ open \in [Process -> Path \cup {None, Gone}]
      /\ w \in Process /\ Web \in Process /\ w # Web
  BY DistinctAssumption DEF TypeOK, Process
<1>3. disk \in [Path -> {Absent, Torn} \cup SUBSET Frame]
  BY DEF TypeOK
<1>4. CASE Truncate(w, p) /\ UNCHANGED pc
  BY <1>2, <1>3, <1>4, PathsDiffer DEF Truncate, WriteFile, webVars, Wrote
<1>5. CASE Fill(w, p, content) /\ Goto(w, next)
  BY <1>1, <1>2, <1>3, <1>5, PathsDiffer DEF Fill, Goto, WriteFile, webVars, Wrote
<1> QED
  BY <1>4, <1>5 DEF WriteFile

\* The marker goes before the first frame is written, and comes back once the
\* manifest is whole.
Marking(w) ==
  /\ pc[w] \in {"extract", "checkpoint"} => ~Exists(Marker)
  /\ pc[w] = "mark" => disk[Manifest] = Frame /\ seen[w] = Frame

\* The web process has only the tracks open.
MarkInv ==
  /\ TypeOK
  /\ MarkerMeansComplete
  /\ open[Web] \in {None, Tracks}
  /\ \A w \in Worker : OpenOK(w) /\ Marking(w)

LEMMA MarkInvInit == ASSUME Init PROVE MarkInv
<1>1. TypeOK
  BY TypeInit
<1>2. Exists(Marker) = FALSE /\ open[Web] = None
  BY PathsOfTheFilm DEF Init, Exists, Named, Process
<1>3. \A w \in Worker : OpenOK(w) /\ Marking(w)
  BY PathsDiffer DEF Init, OpenOK, Marking, Process
<1> QED
  BY <1>1, <1>2, <1>3 DEF MarkInv, MarkerMeansComplete

Vouched(w) ==
  /\ MarkerMeansComplete
  /\ open[Web] \in {None, Tracks}
  /\ OpenOK(w) /\ Marking(w)

LEMMA MarkQuietSteps ==
  ASSUME MarkInv, NEW w \in Worker,
         \/ StartAnalysis(w) \/ ResumeExtraction(w) \/ DirectoryGone(w) \/ LoadVision(w)
         \/ ReadFrame(w) \/ Complete(w) \/ StartIdentity(w) \/ LoadForIdentity(w)
         \/ FinishIdentity(w) \/ RemoveDirectory(w) \/ InterruptJob(w)
  PROVE  Vouched(w)'
<1>t. TypeOK /\ Vouched(w) /\ w \in Process /\ Web \in Process /\ w # Web
  BY DistinctAssumption DEF MarkInv, Vouched, Process
<1>1. /\ UNCHANGED disk /\ open'[w] = None /\ open'[Web] = open[Web]
      /\ pc'[w] \notin {"extract", "checkpoint", "mark"}
  <2>1. CASE \/ StartAnalysis(w) \/ Complete(w) \/ StartIdentity(w)
             \/ FinishIdentity(w) \/ RemoveDirectory(w)
    BY <2>1, <1>t
       DEF StartAnalysis, Complete, StartIdentity, FinishIdentity, RemoveDirectory,
           Vouched, OpenOK, TypeOK, Goto, diskVars
  <2>2. CASE ResumeExtraction(w) \/ DirectoryGone(w) \/ LoadVision(w) \/ LoadForIdentity(w)
    BY <2>2, <1>t
       DEF ResumeExtraction, ResumeFrom, DirectoryGone, LoadVision, LoadForIdentity,
           Raise, Vouched, OpenOK, TypeOK, Goto, diskVars
  <2>3. CASE ReadFrame(w)
    BY <2>3, <1>t DEF ReadFrame, ReadFrameWith, diskVars
  <2>4. CASE InterruptJob(w)
    BY <2>4, <1>t DEF InterruptJob, Interrupt, Goto, TypeOK, diskVars
  <2> QED
    BY <2>1, <2>2, <2>3, <2>4
<1> QED
  BY <1>1, <1>t, PathsDiffer DEF Vouched, MarkerMeansComplete, OpenOK, Marking, Exists

LEMMA MarkOtherFiles ==
  ASSUME MarkInv, NEW w \in Worker,
         PreserveKeyframe(w) \/ SaveDetections(w) \/ SaveTracks(w) \/ SavePlays(w)
  PROVE  Vouched(w)'
<1>t. TypeOK /\ Vouched(w) /\ OpenOK(w)
  BY DEF MarkInv, Vouched
<1>1. /\ disk'[Marker] = disk[Marker] /\ disk'[Manifest] = disk[Manifest]
      /\ open'[Web] = open[Web] /\ open'[w] # Gone
      /\ \/ pc'[w] \in {"keyframe", "detect", "track", "segment"}
         \/ pc'[w] \in {"vision", "finish"} /\ open'[w] = None
  <2> USE PathsDiffer, PathsOfTheFilm DEF Named
  <2>1. CASE SaveDetections(w)
    <3>1. Wrote(w, "detect", Detections, seen[w], "track")
      BY <2>1, <1>t, WriteFileAlone DEF SaveDetections
    <3> QED
      BY <3>1 DEF Wrote
  <2>2. CASE SaveTracks(w)
    <3>1. Wrote(w, "track", Tracks, seen[w], "segment")
      BY <2>2, <1>t, WriteFileAlone DEF SaveTracks
    <3> QED
      BY <3>1 DEF Wrote
  <2>3. CASE SavePlays(w)
    <3>1. Wrote(w, "segment", Plays, seen[w], "finish")
      BY <2>3, <1>t, WriteFileAlone DEF SavePlays
    <3> QED
      BY <3>1 DEF Wrote
  <2>4. CASE PreserveKeyframe(w)
    <3>1. PICK n \in Middle(listed[w]) :
             \/ WriteFile(w, "keyframe", Keyframe,
                          IF disk[Jpg(n)] = Torn THEN Torn ELSE {n}, "vision")
             \/ open[w] = None /\ Goto(w, "vision") /\ UNCHANGED <<disk, open>>
      BY <2>4 DEF PreserveKeyframe
    <3>2. CASE WriteFile(w, "keyframe", Keyframe,
                         IF disk[Jpg(n)] = Torn THEN Torn ELSE {n}, "vision")
      <4>1. Wrote(w, "keyframe", Keyframe,
                  IF disk[Jpg(n)] = Torn THEN Torn ELSE {n}, "vision")
        BY <3>2, <1>t, WriteFileAlone
      <4> QED
        BY <4>1 DEF Wrote
    <3> QED
      BY <3>1, <3>2, <1>t DEF Goto, TypeOK, OpenOK
  <2> QED
    BY <2>1, <2>2, <2>3, <2>4
<1> QED
  BY <1>1, <1>t DEF Vouched, MarkerMeansComplete, OpenOK, Marking, Exists

LEMMA MarkExtraction ==
  ASSUME MarkInv, NEW w \in Worker,
         \/ OpenFilm(w) \/ WriteFrame(w) \/ Checkpoint(w)
         \/ FinishManifest(w) \/ MarkComplete(w) \/ Unlink(w)
  PROVE  Vouched(w)'
<1> USE PathsDiffer, PathsOfTheFilm DEF Named, Exists
<1>t. /\ TypeOK /\ Vouched(w) /\ OpenOK(w) /\ Marking(w)
      /\ w \in Process /\ Web \in Process /\ w # Web
  BY DistinctAssumption DEF MarkInv, Vouched, Process
<1>1. CASE OpenFilm(w)
  <2>1. /\ pc'[w] = "extract" /\ disk'[Marker] = Absent
        /\ open'[w] = None /\ open'[Web] = open[Web]
    <3>1. open[w] = None /\ open[Web] # Marker
      BY <1>1, <1>t DEF Vouched, OpenOK, OpenFilm, OpenFilmWith
    <3> QED
      BY <1>1, <1>t, <3>1 DEF OpenFilm, OpenFilmWith, Goto, TypeOK
  <2> QED
    BY <2>1, <1>t DEF Vouched, MarkerMeansComplete, OpenOK, Marking
<1>2. CASE WriteFrame(w)
  <2>1. PICK n \in First(Frame \ seen[w]) :
           WriteFile(w, "extract", Jpg(n), {n},
                     IF n % CheckpointEvery = 0 THEN "checkpoint" ELSE "extract")
    BY <1>2 DEF WriteFrame
  <2>2. n \in Frame
    BY <2>1 DEF First
  <2>3. Wrote(w, "extract", Jpg(n), {n},
              IF n % CheckpointEvery = 0 THEN "checkpoint" ELSE "extract")
    BY <2>1, <2>2, <1>t, WriteFileAlone
  <2>4. /\ pc[w] = "extract" /\ pc'[w] \in {"extract", "checkpoint"}
        /\ disk'[Marker] = disk[Marker]
        /\ open'[w] # Gone /\ open'[Web] = open[Web]
    BY <2>2, <2>3 DEF Wrote
  <2> QED
    BY <2>4, <1>t DEF Vouched, MarkerMeansComplete, OpenOK, Marking
<1>3. CASE Checkpoint(w)
  <2>1. Wrote(w, "checkpoint", Manifest, seen[w], "extract")
    BY <1>3, <1>t, WriteFileAlone DEF Checkpoint
  <2>2. /\ pc[w] = "checkpoint" /\ pc'[w] \in {"extract", "checkpoint"}
        /\ disk'[Marker] = disk[Marker]
        /\ open'[w] # Gone /\ open'[Web] = open[Web]
    BY <2>1 DEF Wrote
  <2> QED
    BY <2>2, <1>t DEF Vouched, MarkerMeansComplete, OpenOK, Marking
<1>4. CASE FinishManifest(w)
  <2>1. Wrote(w, "extract", Manifest, seen[w], "mark")
    BY <1>4, <1>t, WriteFileAlone DEF FinishManifest
  <2>2. seen[w] = Frame /\ seen' = seen
    BY <1>4, <1>t DEF FinishManifest, TypeOK, jobVars
  <2>3. /\ pc[w] = "extract" /\ disk'[Marker] = disk[Marker]
        /\ pc'[w] = "extract" \/ (pc'[w] = "mark" /\ disk'[Manifest] = Frame)
        /\ open'[w] # Gone /\ open'[Web] = open[Web]
    BY <2>1, <2>2 DEF Wrote
  <2> QED
    BY <2>2, <2>3, <1>t DEF Vouched, MarkerMeansComplete, OpenOK, Marking
<1>5. CASE MarkComplete(w)
  <2>1. Wrote(w, "mark", Marker, seen[w], "keyframe") /\ seen' = seen
    BY <1>5, <1>t, WriteFileAlone DEF MarkComplete
  <2>2. /\ pc[w] = "mark" /\ pc'[w] \in {"mark", "keyframe"}
        /\ disk'[Manifest] = disk[Manifest]
        /\ open'[w] # Gone /\ open'[Web] = open[Web]
    BY <2>1 DEF Wrote
  <2> QED
    BY <2>1, <2>2, <1>t DEF Vouched, MarkerMeansComplete, OpenOK, Marking
<1>6. CASE Unlink(w)
  <2>1. PICK p \in FramesDir :
           /\ disk' = [disk EXCEPT ![p] = Absent]
           /\ open' = [a \in Process |-> IF open[a] = p THEN Gone ELSE open[a]]
    <3>1. trash[w] \subseteq FramesDir
      BY <1>t DEF TypeOK
    <3> QED
      BY <1>6, <3>1 DEF Unlink
  <2>2. p # Tracks /\ p # None
    BY DEF FramesDir, Path
  <2>3. pc[w] = "discard" /\ pc'[w] = "discard" /\ open[w] = None
    BY <1>6, <1>t DEF Unlink, OpenOK
  <2>4. open'[w] = None /\ open'[Web] \in {None, Tracks}
    BY <2>1, <2>2, <2>3, <1>t DEF Vouched
  <2>5. disk'[Marker] \in {disk[Marker], Absent} /\ disk'[Manifest] \in {disk[Manifest], Absent}
    BY <2>1, <1>t DEF TypeOK
  <2> QED
    BY <2>3, <2>4, <2>5, <1>t DEF Vouched, MarkerMeansComplete, OpenOK, Marking
<1> QED
  BY <1>1, <1>2, <1>3, <1>4, <1>5, <1>6

LEMMA MarkWebSteps ==
  ASSUME MarkInv, Calibrate \/ WriteBack \/ InterruptRequest, NEW w \in Worker
  PROVE  Vouched(w)'
<1> USE PathsDiffer, PathsOfTheFilm DEF Named
<1>t. /\ TypeOK /\ Vouched(w)
      /\ w \in Process /\ Web \in Process /\ w # Web
  BY DistinctAssumption DEF MarkInv, Vouched, Process
<1>1. /\ UNCHANGED <<pc, seen>>
      /\ disk'[Marker] = disk[Marker] /\ disk'[Manifest] = disk[Manifest]
      /\ open'[w] = open[w] /\ open'[Web] \in {None, Tracks}
  <2>1. CASE Calibrate
    BY <2>1, <1>t DEF Calibrate, Vouched, diskVars, jobVars
  <2>2. CASE WriteBack
    BY <2>2, <1>t DEF WriteBack, Truncate, Fill, TypeOK, jobVars
  <2>3. CASE InterruptRequest
    BY <2>3, <1>t DEF InterruptRequest, Interrupt, TypeOK, diskVars, jobVars
  <2> QED
    BY <2>1, <2>2, <2>3
<1> QED
  BY <1>1, <1>t DEF Vouched, MarkerMeansComplete, OpenOK, Marking, Exists

LEMMA MarkInvStep ==
  ASSUME OneWorker, MarkInv, [Next]_vars
  PROVE  MarkInv'
<1>1. TypeOK'
  BY TypeStep DEF MarkInv
<1>2. ASSUME NEW w \in Worker,
             JobStep(w) \/ StartAnalysis(w) \/ StartIdentity(w) \/ InterruptJob(w)
      PROVE  MarkInv'
  <2>1. Vouched(w)'
    BY <1>2, MarkQuietSteps, MarkOtherFiles, MarkExtraction DEF JobStep
  <2> QED
    BY <1>1, <2>1 DEF OneWorker, Vouched, MarkInv
<1>3. CASE Calibrate \/ WriteBack \/ InterruptRequest
  <2>1. \A w \in Worker : Vouched(w)'
    BY <1>3, MarkWebSteps
  <2>2. MarkerMeansComplete' /\ open'[Web] \in {None, Tracks}
    BY <1>3, PathsDiffer, PathsOfTheFilm
       DEF MarkInv, TypeOK, Calibrate, WriteBack, InterruptRequest, Interrupt, Truncate,
           Fill, MarkerMeansComplete, Exists, Process, Named, diskVars
  <2> QED
    BY <1>1, <2>1, <2>2 DEF Vouched, MarkInv
<1>4. CASE UNCHANGED vars
  BY <1>1, <1>4
     DEF vars, diskVars, jobVars, MarkInv, MarkerMeansComplete, OpenOK, Marking, Exists
<1> QED
  BY <1>2, <1>3, <1>4 DEF Next

THEOREM MarkerInvariant == ASSUME OneWorker PROVE Spec => []MarkInv
<1> QED
  BY MarkInvInit, MarkInvStep, PTL DEF Spec

\* Wherever extraction, an analysis, a cleanup or a calibration is cut off,
\* the marker vouches for a manifest of the whole film, so that a resume
\* never continues from part of one (_run_job(), worker.py).
THEOREM MarkerIsHonest == ASSUME OneWorker PROVE Spec => []MarkerMeansComplete
<1>1. MarkInv => MarkerMeansComplete
  BY DEF MarkInv
<1> QED
  BY <1>1, MarkerInvariant, PTL

-----------------------------------------------------------------------------
(* One worker on the film, and nobody at the web process.                  *)

Alone == OneWorker /\ ~WebActs

\* All the film's JPEGs are there and whole.
Intact == \A n \in Frame : Readable(Jpg(n))

\* What the files on disk say of each other.  The last conjunct is what a
\* resume relies on: frames may be gone from beside their manifest, but only
\* once nobody has to look at them again.
DiskOK ==
  /\ MarkerMeansComplete
  /\ VisionIsWhole
  /\ (Exists(Marker) /\ Exists(Manifest) /\ ~Readable(Tracks)) => Intact

\* What a worker knows at each stage of its job.
JobOK(w) ==
  /\ pc[w] \in {"extract", "checkpoint"} =>
       ~Exists(Marker) /\ \A n \in seen[w] : Readable(Jpg(n))
  /\ pc[w] = "mark" => disk[Manifest] = Frame /\ seen[w] = Frame /\ Intact
  /\ pc[w] \in {"keyframe", "vision"} =>
       listed[w] = Frame /\ (Intact \/ Readable(Tracks))
  /\ pc[w] = "detect" =>
       listed[w] = Frame /\ Intact /\ ~Readable(Tracks) /\ seen[w] = done[w]
  /\ pc[w] = "track" =>
       seen[w] = Frame /\ disk[Detections] = Frame /\ ~Readable(Tracks)
  /\ pc[w] \in {"segment", "finish"} => seen[w] = Frame
  /\ pc[w] \in {"ocr", "discard"} => Readable(Tracks)

IInv ==
  /\ TypeOK
  /\ DiskOK
  /\ CompletedCoversFilm
  /\ web = "idle"
  /\ \A w \in Worker : JobOK(w) /\ OpenOK(w)

\* A whole film is not an empty set of frames, nor Absent or Torn.
LEMMA FrameIsContent == Frame # {} /\ Frame # Absent /\ Frame # Torn
<1>1. 1 \in Frame
  BY FilmAssumption DEF Frame
<1> QED
  BY <1>1, DistinctAssumption

LEMMA IInvInit == ASSUME Init PROVE IInv
<1>1. TypeOK
  BY TypeInit
<1>2. DiskOK
  BY PathsOfTheFilm
     DEF Init, DiskOK, MarkerMeansComplete, VisionIsWhole, Exists, Readable, Named
<1>3. \A w \in Worker : JobOK(w) /\ OpenOK(w)
  BY PathsDiffer DEF Init, JobOK, OpenOK, Process
<1> QED
  BY <1>1, <1>2, <1>3 DEF IInv, CompletedCoversFilm, Init

\* Extraction.
LEMMA ExtractionSteps ==
  ASSUME IInv, NEW w \in Worker,
         ResumeExtraction(w) \/ OpenFilm(w) \/ WriteFrame(w) \/ Checkpoint(w)
           \/ FinishManifest(w) \/ MarkComplete(w) \/ DirectoryGone(w)
           \/ PreserveKeyframe(w)
  PROVE  DiskOK' /\ JobOK(w)' /\ OpenOK(w)' /\ UNCHANGED <<web, covered>>
<1> USE PathsDiffer, PathsOfTheFilm, FrameIsContent
<1> USE DEF Named, Exists, webVars
<1>t. /\ TypeOK /\ DiskOK /\ JobOK(w) /\ OpenOK(w)
      /\ \A n \in Frame : {n} \in SUBSET Frame /\ Jpg(n) \in Path
  BY DEF IInv
<1>1. ASSUME ResumeExtraction(w)
      PROVE  DiskOK' /\ JobOK(w)' /\ OpenOK(w)' /\ UNCHANGED <<web, covered>>
  <2>1. /\ pc[w] = "resume" /\ UNCHANGED <<disk, open, web, covered>>
        /\ \/ pc'[w] = "idle"
           \/ pc'[w] = "open"
           \/ /\ pc'[w] = "vision" /\ Exists(Marker)
              /\ disk[Manifest] \notin {Absent, Torn}
              /\ listed'[w] = disk[Manifest]
    BY <1>1, <1>t
       DEF ResumeExtraction, ResumeFrom, Raise, Goto, TypeOK, diskVars
  <2>2. DiskOK'
    BY <2>1, <1>t
       DEF DiskOK, MarkerMeansComplete, VisionIsWhole, Readable, Intact
  <2>3. pc'[w] = "vision" => listed'[w] = Frame /\ (Intact \/ Readable(Tracks))
    BY <2>1, <1>t DEF DiskOK, MarkerMeansComplete
  <2> QED
    BY <2>1, <2>2, <2>3, <1>t DEF JobOK, OpenOK, Readable, Intact
<1>2. ASSUME OpenFilm(w)
      PROVE  DiskOK' /\ JobOK(w)' /\ OpenOK(w)' /\ UNCHANGED <<web, covered>>
  <2>1. /\ pc[w] = "open" /\ pc'[w] = "extract" /\ UNCHANGED <<web, covered>>
        /\ disk'[Marker] = Absent /\ seen'[w] = {}
        /\ \A q \in Path : q # Marker => disk'[q] = disk[q]
        /\ open'[w] = open[w]
    <3>1. open[w] = None /\ w \in Process
      BY <1>2, <1>t DEF OpenOK, OpenFilm, OpenFilmWith, Process
    <3> QED
      BY <1>2, <1>t, <3>1 DEF OpenFilm, OpenFilmWith, Goto, TypeOK
  <2>2. DiskOK'
    BY <2>1, <1>t DEF DiskOK, MarkerMeansComplete, VisionIsWhole, Readable
  <2> QED
    BY <2>1, <2>2, <1>t DEF JobOK, OpenOK, Readable
<1>3. ASSUME WriteFrame(w)
      PROVE  DiskOK' /\ JobOK(w)' /\ OpenOK(w)' /\ UNCHANGED <<web, covered>>
  <2> DEFINE next(n) == IF n % CheckpointEvery = 0 THEN "checkpoint" ELSE "extract"
  <2>1. PICK n \in First(Frame \ seen[w]) :
           /\ WriteFile(w, "extract", Jpg(n), {n}, next(n))
           /\ seen' = IF open[w] = None THEN seen ELSE [seen EXCEPT ![w] = @ \cup {n}]
    BY <1>3 DEF WriteFrame
  <2>2. n \in Frame /\ n \notin seen[w]
    BY <2>1 DEF First
  <2>3. /\ pc[w] = "extract" /\ UNCHANGED <<web, covered>> /\ open'[w] # Gone
        /\ \A q \in Path : q # Jpg(n) => disk'[q] = disk[q]
        /\ \/ pc'[w] = "extract" /\ seen'[w] = seen[w]
           \/ /\ disk'[Jpg(n)] = {n} /\ pc'[w] \in {"extract", "checkpoint"}
              /\ seen'[w] = seen[w] \cup {n}
    <3>1. Wrote(w, "extract", Jpg(n), {n}, next(n))
      BY <2>1, <2>2, <1>t, WriteFileAlone
    <3>2. next(n) \in {"extract", "checkpoint"}
      OBVIOUS
    <3> QED
      BY <2>1, <3>1, <3>2, <1>t DEF TypeOK, Wrote
  <2>4. \A q \in Named : disk'[q] = disk[q]
    BY <2>2, <2>3
  <2>5. DiskOK'
    BY <2>3, <2>4, <1>t
       DEF DiskOK, JobOK, MarkerMeansComplete, VisionIsWhole, Readable
  <2>6. \A m \in seen'[w] : Readable(Jpg(m))'
    <3>1. seen[w] \subseteq Frame
      BY <1>t DEF TypeOK
    <3>2. \A m \in seen[w] : disk'[Jpg(m)] = disk[Jpg(m)] /\ Readable(Jpg(m))
      BY <2>2, <2>3, <3>1, <1>t DEF JobOK
    <3>3. {n} \notin {Absent, Torn}
      BY <2>2, DistinctAssumption
    <3> QED
      BY <2>3, <3>2, <3>3 DEF Readable
  <2> QED
    BY <2>3, <2>4, <2>5, <2>6, <1>t DEF JobOK, OpenOK
<1>4. ASSUME Checkpoint(w) \/ FinishManifest(w)
      PROVE  DiskOK' /\ JobOK(w)' /\ OpenOK(w)' /\ UNCHANGED <<web, covered>>
  <2>1. /\ pc[w] \in {"extract", "checkpoint"}
        /\ UNCHANGED <<web, covered, seen>> /\ open'[w] # Gone
        /\ \A q \in Path : q # Manifest => disk'[q] = disk[q]
        /\ \/ pc'[w] \in {"extract", "checkpoint"}
           \/ pc'[w] = "mark" /\ disk'[Manifest] = seen[w] /\ Frame \subseteq seen[w]
    <3>1. CASE Checkpoint(w)
      <4>1. Wrote(w, "checkpoint", Manifest, seen[w], "extract")
        BY <3>1, <1>t, WriteFileAlone DEF Checkpoint
      <4> QED
        BY <3>1, <4>1 DEF Checkpoint, jobVars, Wrote
    <3>2. CASE FinishManifest(w)
      <4>1. Wrote(w, "extract", Manifest, seen[w], "mark")
        BY <3>2, <1>t, WriteFileAlone DEF FinishManifest
      <4> QED
        BY <3>2, <4>1 DEF FinishManifest, jobVars, Wrote
    <3> QED
      BY <1>4, <3>1, <3>2
  <2>2. \A n \in seen[w] : Readable(Jpg(n))'
    <3>1. seen[w] \subseteq Frame
      BY <1>t DEF TypeOK
    <3> QED
      BY <2>1, <3>1, <1>t DEF JobOK, Readable
  <2>3. pc'[w] = "mark" => seen[w] = Frame
    BY <2>1, <1>t DEF TypeOK
  <2>4. DiskOK'
    BY <2>1, <1>t
       DEF DiskOK, JobOK, MarkerMeansComplete, VisionIsWhole, Readable
  <2> QED
    BY <2>1, <2>2, <2>3, <2>4, <1>t DEF JobOK, OpenOK, Intact
<1>5. ASSUME MarkComplete(w)
      PROVE  DiskOK' /\ JobOK(w)' /\ OpenOK(w)' /\ UNCHANGED <<web, covered>>
  <2>1. /\ pc[w] = "mark" /\ UNCHANGED <<web, covered, seen>> /\ open'[w] # Gone
        /\ \A q \in Path : q # Marker => disk'[q] = disk[q]
        /\ pc'[w] \in {"mark", "keyframe"} /\ listed'[w] = seen[w]
    <3>1. Wrote(w, "mark", Marker, seen[w], "keyframe")
      BY <1>5, <1>t, WriteFileAlone DEF MarkComplete
    <3> QED
      BY <1>5, <1>t, <3>1 DEF MarkComplete, TypeOK, Wrote
  <2>2. Intact /\ Intact' /\ disk'[Manifest] = Frame /\ seen'[w] = Frame
    BY <2>1, <1>t DEF JobOK, Intact, Readable
  <2>3. DiskOK'
    BY <2>1, <2>2, <1>t DEF DiskOK, MarkerMeansComplete, VisionIsWhole, Readable
  <2> QED
    BY <2>1, <2>2, <2>3, <1>t DEF JobOK, OpenOK
<1>6. ASSUME DirectoryGone(w)
      PROVE  DiskOK' /\ JobOK(w)' /\ OpenOK(w)' /\ UNCHANGED <<web, covered>>
  <2>1. pc'[w] = "idle" /\ open[w] = None /\ UNCHANGED <<disk, open, web, covered>>
    BY <1>6, <1>t DEF DirectoryGone, Raise, Goto, TypeOK, diskVars
  <2> QED
    BY <2>1, <1>t
       DEF DiskOK, JobOK, OpenOK, MarkerMeansComplete, VisionIsWhole, Readable, Intact
<1>7. ASSUME PreserveKeyframe(w)
      PROVE  DiskOK' /\ JobOK(w)' /\ OpenOK(w)' /\ UNCHANGED <<web, covered>>
  <2>1. /\ pc[w] = "keyframe" /\ UNCHANGED <<web, covered, listed>> /\ open'[w] # Gone
        /\ \A q \in Path : q # Keyframe => disk'[q] = disk[q]
        /\ \/ pc'[w] = "keyframe"
           \/ pc'[w] = "vision" /\ open'[w] = None
    <3>1. PICK n \in Middle(listed[w]) :
             \/ WriteFile(w, "keyframe", Keyframe,
                          IF disk[Jpg(n)] = Torn THEN Torn ELSE {n}, "vision")
             \/ /\ pc[w] = "keyframe" /\ open[w] = None /\ Goto(w, "vision")
                /\ UNCHANGED <<disk, open, web, covered>>
      BY <1>7 DEF PreserveKeyframe
    <3>2. CASE WriteFile(w, "keyframe", Keyframe,
                         IF disk[Jpg(n)] = Torn THEN Torn ELSE {n}, "vision")
      <4>1. Wrote(w, "keyframe", Keyframe,
                  IF disk[Jpg(n)] = Torn THEN Torn ELSE {n}, "vision")
        BY <3>2, <1>t, WriteFileAlone
      <4> QED
        BY <1>7, <4>1 DEF PreserveKeyframe, jobVars, Wrote
    <3> QED
      BY <1>7, <1>t, <3>1, <3>2 DEF PreserveKeyframe, jobVars, Goto, TypeOK
  <2>2. Intact' <=> Intact
    BY <2>1, <1>t DEF Intact, Readable
  <2>3. DiskOK'
    BY <2>1, <2>2, <1>t
       DEF DiskOK, MarkerMeansComplete, VisionIsWhole, Readable
  <2> QED
    BY <2>1, <2>2, <2>3, <1>t DEF JobOK, OpenOK, Readable
<1> QED
  BY <1>1, <1>2, <1>3, <1>4, <1>5, <1>6, <1>7

\* Detection, tracking, plays.
LEMMA VisionSteps ==
  ASSUME IInv, NEW w \in Worker,
         LoadVision(w) \/ ReadFrame(w) \/ SaveDetections(w) \/ SaveTracks(w)
           \/ SavePlays(w) \/ Complete(w)
  PROVE  DiskOK' /\ JobOK(w)' /\ OpenOK(w)' /\ UNCHANGED web /\ CompletedCoversFilm'
<1> USE PathsDiffer, PathsOfTheFilm, FrameIsContent
<1> USE DEF Named, Exists, webVars
<1>t. /\ TypeOK /\ DiskOK /\ JobOK(w) /\ OpenOK(w) /\ CompletedCoversFilm
      /\ \A n \in Frame : Jpg(n) \in Path
  BY DEF IInv
<1>1. ASSUME LoadVision(w)
      PROVE  DiskOK' /\ JobOK(w)' /\ OpenOK(w)' /\ UNCHANGED <<web, covered>>
  <2>1. /\ pc[w] = "vision" /\ UNCHANGED <<disk, open, listed, web, covered>>
        /\ \/ pc'[w] = "idle"
           \/ /\ pc'[w] = "detect" /\ done'[w] = {} /\ seen'[w] = {}
              /\ Torn \notin {disk[Detections], disk[Tracks]}
              /\ disk[Detections] = Absent \/ disk[Tracks] = Absent
           \/ /\ pc'[w] = "segment" /\ seen'[w] = disk[Tracks] /\ Readable(Tracks)
    BY <1>1, <1>t DEF LoadVision, Raise, Goto, TypeOK, diskVars, jobVars
  <2>2. pc'[w] = "detect" => ~Readable(Tracks)
    BY <2>1, <1>t DEF DiskOK, VisionIsWhole, Readable
  <2>3. pc'[w] = "segment" => seen'[w] = Frame
    BY <2>1, <1>t DEF DiskOK, VisionIsWhole
  <2>4. listed'[w] = Frame /\ (Intact \/ Readable(Tracks))
    BY <2>1, <1>t DEF JobOK
  <2> QED
    BY <2>1, <2>2, <2>3, <2>4, <1>t
       DEF DiskOK, JobOK, OpenOK, MarkerMeansComplete, VisionIsWhole, Readable, Intact
<1>2. ASSUME ReadFrame(w)
      PROVE  DiskOK' /\ JobOK(w)' /\ OpenOK(w)' /\ UNCHANGED <<web, covered>>
  <2>1. PICK n \in First(listed[w] \ done[w]) :
           /\ done' = [done EXCEPT ![w] = @ \cup {n}]
           /\ seen' = [seen EXCEPT ![w] = IF Readable(Jpg(n)) THEN @ \cup {n} ELSE @]
    BY <1>2 DEF ReadFrame, ReadFrameWith
  <2>2. pc[w] \in {"detect", "ocr"} /\ UNCHANGED <<disk, open, pc, listed, web, covered>>
    BY <1>2 DEF ReadFrame, ReadFrameWith, diskVars
  <2>3. pc[w] = "detect" => seen'[w] = done'[w]
    <3>1. n \in listed[w]
      BY <2>1 DEF First
    <3> QED
      BY <2>1, <3>1, <1>t DEF JobOK, Intact, TypeOK
  <2> QED
    BY <2>2, <2>3, <1>t
       DEF DiskOK, JobOK, OpenOK, MarkerMeansComplete, VisionIsWhole, Readable, Intact
<1>3. ASSUME SaveDetections(w)
      PROVE  DiskOK' /\ JobOK(w)' /\ OpenOK(w)' /\ UNCHANGED <<web, covered>>
  <2>1. Wrote(w, "detect", Detections, seen[w], "track")
    BY <1>3, <1>t, WriteFileAlone DEF SaveDetections
  <2>2. seen[w] = Frame
    <3>1. listed[w] \subseteq done[w] /\ pc[w] = "detect"
      BY <1>3, <2>1 DEF SaveDetections, Wrote
    <3>2. done[w] \subseteq Frame
      BY <1>t DEF TypeOK
    <3> QED
      BY <3>1, <3>2, <1>t DEF JobOK
  <2>3. UNCHANGED <<listed, done, seen>>
    BY <1>3 DEF SaveDetections, jobVars
  <2>4. Intact' <=> Intact
    BY <2>1, <1>t DEF Intact, Readable, Wrote
  <2>5. DiskOK'
    BY <2>1, <2>4, <1>t
       DEF DiskOK, JobOK, MarkerMeansComplete, VisionIsWhole, Readable, Wrote
  <2> QED
    BY <2>1, <2>2, <2>3, <2>4, <2>5, <1>t DEF JobOK, OpenOK, Readable, Wrote
<1>4. ASSUME SaveTracks(w)
      PROVE  DiskOK' /\ JobOK(w)' /\ OpenOK(w)' /\ UNCHANGED <<web, covered>>
  <2>1. Wrote(w, "track", Tracks, seen[w], "segment")
    BY <1>4, <1>t, WriteFileAlone DEF SaveTracks
  <2>2. seen[w] = Frame /\ disk[Detections] = Frame /\ UNCHANGED seen
    BY <1>4, <2>1, <1>t DEF SaveTracks, JobOK, jobVars, Wrote
  <2>3. Intact' <=> Intact
    BY <2>1, <1>t DEF Intact, Readable, Wrote
  <2>4. DiskOK'
    BY <2>1, <2>2, <2>3, <1>t
       DEF DiskOK, JobOK, MarkerMeansComplete, VisionIsWhole, Readable, Wrote
  <2> QED
    BY <2>1, <2>2, <2>4, <1>t DEF JobOK, OpenOK, Readable, Wrote
<1>5. ASSUME SavePlays(w)
      PROVE  DiskOK' /\ JobOK(w)' /\ OpenOK(w)' /\ UNCHANGED <<web, covered>>
  <2>1. Wrote(w, "segment", Plays, seen[w], "finish")
    BY <1>5, <1>t, WriteFileAlone DEF SavePlays
  <2>2. seen[w] = Frame /\ UNCHANGED seen
    BY <1>5, <2>1, <1>t DEF SavePlays, JobOK, jobVars, Wrote
  <2>3. Intact' <=> Intact
    BY <2>1, <1>t DEF Intact, Readable, Wrote
  <2>4. DiskOK'
    BY <2>1, <2>3, <1>t
       DEF DiskOK, MarkerMeansComplete, VisionIsWhole, Readable, Wrote
  <2> QED
    BY <2>1, <2>2, <2>4, <1>t DEF JobOK, OpenOK, Wrote
<1>6. ASSUME Complete(w)
      PROVE  DiskOK' /\ JobOK(w)' /\ OpenOK(w)' /\ UNCHANGED web /\ covered' = Frame
  <2>1. /\ pc[w] = "finish" /\ pc'[w] = "idle" /\ covered' = seen[w]
        /\ UNCHANGED <<disk, open, web>>
    BY <1>6, <1>t DEF Complete, Goto, TypeOK, diskVars
  <2> QED
    BY <2>1, <1>t
       DEF DiskOK, JobOK, OpenOK, MarkerMeansComplete, VisionIsWhole, Readable, Intact
<1> QED
  BY <1>1, <1>2, <1>3, <1>4, <1>5, <1>6, <1>t DEF CompletedCoversFilm

\* Starting jobs, identity jobs and interruptions.
LEMMA OtherSteps ==
  ASSUME IInv, NEW w \in Worker,
         StartAnalysis(w) \/ StartIdentity(w) \/ LoadForIdentity(w)
           \/ FinishIdentity(w) \/ Unlink(w) \/ RemoveDirectory(w) \/ InterruptJob(w)
  PROVE  DiskOK' /\ JobOK(w)' /\ OpenOK(w)' /\ UNCHANGED <<web, covered>>
<1> USE PathsDiffer, PathsOfTheFilm
<1> USE DEF Named, Exists, webVars, diskVars
<1>t. /\ TypeOK /\ DiskOK /\ JobOK(w) /\ OpenOK(w)
      /\ w \in Process
  BY DEF IInv, Process
<1>1. ASSUME UNCHANGED <<disk, web, covered>>, OpenOK(w)',
             \/ pc'[w] \in {"idle", "resume", "identify"}
             \/ pc'[w] \in {"ocr", "discard"} /\ Readable(Tracks)
      PROVE  DiskOK' /\ JobOK(w)' /\ OpenOK(w)' /\ UNCHANGED <<web, covered>>
  BY <1>1, <1>t
     DEF DiskOK, JobOK, MarkerMeansComplete, VisionIsWhole, Readable, Intact
<1>2. CASE StartAnalysis(w) \/ StartIdentity(w) \/ RemoveDirectory(w)
  <2>1. /\ UNCHANGED <<disk, open, web, covered>>
        /\ open[w] = None /\ pc'[w] \in {"idle", "resume", "identify"}
    BY <1>2, <1>t
       DEF StartAnalysis, StartIdentity, RemoveDirectory, Goto, TypeOK, OpenOK
  <2> QED
    BY <2>1, <1>1 DEF OpenOK
<1>3. CASE LoadForIdentity(w) \/ FinishIdentity(w)
  <2>1. /\ UNCHANGED <<disk, open, web, covered>>
        /\ open[w] = None
        /\ \/ pc'[w] = "idle"
           \/ pc'[w] \in {"ocr", "discard"} /\ Readable(Tracks)
    BY <1>3, <1>t
       DEF LoadForIdentity, FinishIdentity, Raise, Goto, TypeOK, OpenOK, JobOK
  <2> QED
    BY <2>1, <1>1 DEF OpenOK
<1>4. CASE InterruptJob(w)
  <2>1. /\ UNCHANGED <<disk, web, covered>>
        /\ open'[w] = None /\ pc'[w] = "idle"
    BY <1>4, <1>t DEF InterruptJob, Interrupt, Goto, TypeOK
  <2> QED
    BY <2>1, <1>1 DEF OpenOK
<1>5. CASE Unlink(w)
  <2>1. /\ pc[w] = "discard" /\ UNCHANGED <<pc, web, covered>>
        /\ Readable(Tracks) /\ open[w] = None
    BY <1>5, <1>t DEF Unlink, JobOK, OpenOK
  <2>2. PICK p \in FramesDir :
           /\ disk' = [disk EXCEPT ![p] = Absent]
           /\ open' = [a \in Process |-> IF open[a] = p THEN Gone ELSE open[a]]
    <3>1. trash[w] \subseteq FramesDir
      BY <1>t DEF TypeOK
    <3> QED
      BY <1>5, <3>1 DEF Unlink
  <2>3. open'[w] = None
    BY <2>1, <2>2, <1>t
  <2>4. Tracks \notin FramesDir /\ Detections \notin FramesDir
    BY DEF FramesDir
  <2>5. /\ \A q \in Path : q # p => disk'[q] = disk[q]
        /\ disk'[p] = Absent
    BY <2>2, <1>t DEF TypeOK
  <2>6. DiskOK'
    BY <2>1, <2>4, <2>5, <1>t DEF DiskOK, MarkerMeansComplete, VisionIsWhole, Readable
  <2> QED
    BY <2>1, <2>3, <2>4, <2>5, <2>6, <1>t DEF JobOK, OpenOK, Readable
<1> QED
  BY <1>2, <1>3, <1>4, <1>5

LEMMA IInvStep ==
  ASSUME Alone, IInv, [Next]_vars
  PROVE  IInv'
<1>1. TypeOK'
  BY TypeStep DEF IInv
<1>2. ASSUME NEW w \in Worker,
             JobStep(w) \/ StartAnalysis(w) \/ StartIdentity(w) \/ InterruptJob(w)
      PROVE  IInv'
  <2>1. DiskOK' /\ JobOK(w)' /\ OpenOK(w)' /\ UNCHANGED web /\ CompletedCoversFilm'
    BY <1>2, ExtractionSteps, VisionSteps, OtherSteps
       DEF JobStep, IInv, CompletedCoversFilm
  <2>2. \A v \in Worker : v = w
    BY DEF Alone, OneWorker
  <2> QED
    BY <1>1, <2>1, <2>2 DEF IInv
<1>3. ~(Calibrate \/ WriteBack \/ InterruptRequest)
  BY DEF Alone, IInv, Calibrate, WriteBack, InterruptRequest
<1>4. CASE UNCHANGED vars
  BY <1>1, <1>4
     DEF vars, diskVars, jobVars, webVars, IInv, DiskOK, JobOK, OpenOK, Exists,
         Readable, Intact, MarkerMeansComplete, VisionIsWhole, CompletedCoversFilm
<1> QED
  BY <1>2, <1>3, <1>4 DEF Next

\* What a resumed run relies on: the completion marker vouches for a whole
\* manifest, tracks on disk are of the whole film, and images are gone only
\* when there are such tracks.
THEOREM ArtifactInvariant == ASSUME Alone PROVE Spec => []IInv
<1>1. Init => IInv
  BY IInvInit
<1>2. IInv /\ [Next]_vars => IInv'
  BY IInvStep
<1> QED
  BY <1>1, <1>2, PTL DEF Spec

\* However often it is interrupted and resumed, an analysis that completes
\* is of every frame of the film.
THEOREM ResumedAnalysesAreWhole == ASSUME Alone PROVE Spec => []CompletedCoversFilm
<1>1. IInv => CompletedCoversFilm
  BY DEF IInv
<1> QED
  BY <1>1, ArtifactInvariant, PTL

\* So are the tracks that any later run, report or calibration reads.
THEOREM TracksAreWhole == ASSUME Alone PROVE Spec => []VisionIsWhole
<1>1. IInv => VisionIsWhole
  BY DEF IInv, DiskOK
<1> QED
  BY <1>1, ArtifactInvariant, PTL


-----------------------------------------------------------------------------
(* One worker, left alone and never interrupted: the keyframe.             *)

\* Past its own stage the keyframe is there; at that stage the frames are.
Kept(w) ==
  /\ pc[w] = "mark" /\ open[w] = None => ~Exists(Marker)
  /\ pc[w] \in {"vision", "detect", "track", "segment", "finish"} => Readable(Keyframe)
  /\ pc[w] = "keyframe" => disk[Manifest] = Frame /\ Intact
  /\ pc[w] \notin {"mark", "keyframe"} /\ Exists(Marker) => Readable(Keyframe)
  /\ pc[w] # "keyframe" /\ covered # Absent => Readable(Keyframe)

KeptInv ==
  /\ IInv
  /\ covered # Absent => Worker # {}
  /\ faults = 0 => \A w \in Worker : Kept(w)

LEMMA KeptInvInit == ASSUME Init PROVE KeptInv
<1>1. ~Exists(Marker)
  BY PathsOfTheFilm DEF Init, Exists, Named
<1> QED
  BY <1>1, IInvInit DEF Init, KeptInv, Kept

\* Steps that leave the marker, the keyframe and what is completed as it is.
LEMMA KeptByOthers ==
  ASSUME IInv, NEW w \in Worker, Kept(w), faults' = faults,
         \/ StartAnalysis(w) \/ ResumeExtraction(w) \/ DirectoryGone(w)
         \/ WriteFrame(w) \/ Checkpoint(w) \/ FinishManifest(w)
         \/ LoadVision(w) \/ ReadFrame(w) \/ SaveDetections(w) \/ SaveTracks(w)
         \/ SavePlays(w) \/ StartIdentity(w) \/ LoadForIdentity(w)
         \/ FinishIdentity(w) \/ RemoveDirectory(w)
  PROVE  Kept(w)'
<1> USE PathsDiffer, PathsOfTheFilm DEF Named, Exists
<1>t. /\ TypeOK /\ OpenOK(w) /\ JobOK(w)
  BY DEF IInv
<1>1. /\ disk'[Marker] = disk[Marker] /\ disk'[Keyframe] = disk[Keyframe]
      /\ covered' = covered
  <2>1. CASE \/ StartAnalysis(w) \/ ResumeExtraction(w) \/ DirectoryGone(w)
             \/ LoadVision(w) \/ ReadFrame(w) \/ StartIdentity(w) \/ LoadForIdentity(w)
             \/ FinishIdentity(w) \/ RemoveDirectory(w)
    BY <2>1 DEF StartAnalysis, ResumeExtraction, ResumeFrom, DirectoryGone, LoadVision,
         ReadFrame, ReadFrameWith, StartIdentity, LoadForIdentity, FinishIdentity,
         RemoveDirectory, Raise, diskVars
  <2>2. CASE \/ Checkpoint(w) \/ FinishManifest(w)
             \/ SaveDetections(w) \/ SaveTracks(w) \/ SavePlays(w)
    <3>1. \E p \in {Manifest, Detections, Tracks, Plays}, stage, next \in Stage :
             WriteFile(w, stage, p, seen[w], next)
      BY <2>2 DEF Checkpoint, FinishManifest, SaveDetections, SaveTracks, SavePlays, Stage
    <3>2. \E p \in {Manifest, Detections, Tracks, Plays}, stage, next \in Stage :
             Wrote(w, stage, p, seen[w], next)
      BY <3>1, <1>t, WriteFileAlone
    <3> QED
      BY <3>2 DEF Wrote
  <2>3. CASE WriteFrame(w)
    <3>1. PICK n \in First(Frame \ seen[w]) :
             WriteFile(w, "extract", Jpg(n), {n},
                       IF n % CheckpointEvery = 0 THEN "checkpoint" ELSE "extract")
      BY <2>3 DEF WriteFrame
    <3>2. n \in Frame
      BY <3>1 DEF First
    <3>3. Wrote(w, "extract", Jpg(n), {n},
                IF n % CheckpointEvery = 0 THEN "checkpoint" ELSE "extract")
      BY <3>1, <3>2, <1>t, WriteFileAlone
    <3> QED
      BY <3>2, <3>3 DEF Wrote
  <2> QED
    BY <2>1, <2>2, <2>3
<1>2. /\ pc'[w] # "keyframe"
      /\ pc'[w] = "mark" => ~Exists(Marker)
      /\ pc'[w] \in {"vision", "detect", "track", "segment", "finish"} => Readable(Keyframe)
  <2>1. CASE StartAnalysis(w) \/ StartIdentity(w) \/ FinishIdentity(w) \/ RemoveDirectory(w)
    BY <2>1, <1>t
       DEF StartAnalysis, StartIdentity, FinishIdentity, RemoveDirectory, Goto, TypeOK
  <2>2. CASE LoadForIdentity(w) \/ DirectoryGone(w) \/ LoadVision(w) \/ ResumeExtraction(w)
    BY <2>2, <1>t
       DEF ResumeExtraction, ResumeFrom, DirectoryGone, LoadVision, LoadForIdentity,
           Raise, Goto, TypeOK, Kept
  <2>3. CASE ReadFrame(w)
    BY <2>3 DEF ReadFrame, ReadFrameWith, Kept
  <2>4. CASE SaveDetections(w) \/ SaveTracks(w) \/ SavePlays(w)
    <3>1. /\ pc[w] \in {"detect", "track", "segment"}
          /\ pc'[w] \in {"detect", "track", "segment", "finish"}
      BY <2>4, <1>t DEF SaveDetections, SaveTracks, SavePlays, WriteFile, Goto, TypeOK
    <3> QED
      BY <3>1 DEF Kept
  <2>5. CASE WriteFrame(w) \/ Checkpoint(w) \/ FinishManifest(w)
    <3>1. /\ pc[w] \in {"extract", "checkpoint"}
          /\ pc'[w] \in {"extract", "checkpoint", "mark"}
      BY <2>5, <1>t DEF WriteFrame, Checkpoint, FinishManifest, WriteFile, Goto, TypeOK
    <3> QED
      BY <3>1, <1>t DEF JobOK
  <2> QED
    BY <2>1, <2>2, <2>3, <2>4, <2>5
<1>3. pc[w] # "keyframe" /\ (pc[w] = "mark" => ~Exists(Marker))
  BY DEF Kept, StartAnalysis, ResumeExtraction, ResumeFrom, DirectoryGone, WriteFrame,
       Checkpoint, FinishManifest, LoadVision, ReadFrame, ReadFrameWith, SaveDetections,
       SaveTracks, SavePlays, StartIdentity, LoadForIdentity, FinishIdentity,
       RemoveDirectory, WriteFile
<1> QED
  BY <1>1, <1>2, <1>3 DEF Kept, Readable

\* Steps that remove or write the marker or the keyframe, or complete.
LEMMA KeptByExtraction ==
  ASSUME IInv, NEW w \in Worker, Kept(w),
         \/ OpenFilm(w) \/ MarkComplete(w) \/ PreserveKeyframe(w)
         \/ Complete(w) \/ Unlink(w)
  PROVE  Kept(w)'
<1> USE PathsDiffer, PathsOfTheFilm, FrameIsContent DEF Named, Exists
<1>t. /\ TypeOK /\ OpenOK(w) /\ JobOK(w)
  BY DEF IInv
<1>1. CASE OpenFilm(w)
  <2>1. /\ pc[w] = "open" /\ pc'[w] = "extract" /\ covered' = covered
        /\ disk'[Marker] = Absent /\ disk'[Keyframe] = disk[Keyframe]
    BY <1>1, <1>t DEF OpenFilm, OpenFilmWith, Goto, TypeOK
  <2> QED
    BY <2>1 DEF Kept, Readable
<1>2. CASE MarkComplete(w)
  <2>1. Wrote(w, "mark", Marker, seen[w], "keyframe")
    BY <1>2, <1>t, WriteFileAlone DEF MarkComplete
  <2>2. /\ pc[w] = "mark" /\ covered' = covered
        /\ (pc'[w] = "mark" /\ open'[w] # None) \/ pc'[w] = "keyframe"
        /\ \A q \in Path \ {Marker} : disk'[q] = disk[q]
    BY <2>1 DEF Wrote
  <2>3. disk[Manifest] = Frame /\ Intact
    BY <2>2, <1>t DEF JobOK
  <2>4. disk'[Manifest] = Frame /\ Intact' /\ disk'[Keyframe] = disk[Keyframe]
    BY <2>2, <2>3 DEF Intact, Readable
  <2> QED
    BY <2>2, <2>4 DEF Kept, Readable
<1>3. CASE PreserveKeyframe(w)
  <2>1. PICK n \in Middle(listed[w]) :
           \/ WriteFile(w, "keyframe", Keyframe,
                        IF disk[Jpg(n)] = Torn THEN Torn ELSE {n}, "vision")
           \/ pc[w] = "keyframe" /\ ~Exists(Jpg(n))
    BY <1>3 DEF PreserveKeyframe
  <2>2. pc[w] = "keyframe"
    BY <2>1 DEF WriteFile
  <2>3. n \in Frame /\ Readable(Jpg(n)) /\ Intact /\ disk[Manifest] = Frame
    BY <2>2, <1>t DEF Middle, TypeOK, Kept, Intact
  <2>4. WriteFile(w, "keyframe", Keyframe, {n}, "vision")
    BY <2>1, <2>3 DEF Readable
  <2>5. Wrote(w, "keyframe", Keyframe, {n}, "vision")
    BY <2>3, <2>4, <1>t, WriteFileAlone
  <2>6. /\ \A q \in Path \ {Keyframe} : disk'[q] = disk[q]
        /\ pc'[w] = "keyframe" \/ (pc'[w] = "vision" /\ disk'[Keyframe] = {n})
    BY <2>5 DEF Wrote
  <2>7. disk'[Manifest] = Frame /\ Intact'
    BY <2>3, <2>6 DEF Intact, Readable
  <2>8. {n} # Absent /\ {n} # Torn
    BY <2>3, DistinctAssumption
  <2> QED
    BY <2>6, <2>7, <2>8 DEF Kept, Readable
<1>4. CASE Complete(w)
  <2>1. pc[w] = "finish" /\ pc'[w] = "idle" /\ disk' = disk
    BY <1>4, <1>t DEF Complete, Goto, TypeOK, diskVars
  <2> QED
    BY <2>1 DEF Kept, Readable
<1>5. CASE Unlink(w)
  <2>1. /\ pc[w] = "discard" /\ pc'[w] = "discard" /\ covered' = covered
        /\ \E p \in FramesDir : disk' = [disk EXCEPT ![p] = Absent]
    BY <1>5, <1>t DEF Unlink, TypeOK
  <2>2. disk'[Keyframe] = disk[Keyframe] /\ disk'[Marker] \in {disk[Marker], Absent}
    BY <2>1, <1>t DEF FramesDir, TypeOK
  <2> QED
    BY <2>1, <2>2 DEF Kept, Readable
<1> QED
  BY <1>1, <1>2, <1>3, <1>4, <1>5

LEMMA KeptInvStep ==
  ASSUME Alone, KeptInv, [Next]_vars
  PROVE  KeptInv'
<1>1. IInv'
  BY IInvStep DEF KeptInv
<1>2. ASSUME NEW w \in Worker,
             JobStep(w) \/ StartAnalysis(w) \/ StartIdentity(w) \/ InterruptJob(w)
      PROVE  KeptInv'
  <2>1. ASSUME faults' = 0 PROVE Kept(w)'
    <3>1. faults \in Nat
      BY DEF KeptInv, IInv, TypeOK
    <3>2. ~InterruptJob(w)
      BY <2>1, <3>1 DEF InterruptJob, Interrupt
    <3>3. faults' = faults
      BY <1>2, <3>2
         DEF JobStep, ResumeExtraction, ResumeFrom, OpenFilm, OpenFilmWith, WriteFrame,
             Checkpoint, FinishManifest, MarkComplete, DirectoryGone, PreserveKeyframe,
             LoadVision, ReadFrame, ReadFrameWith, SaveDetections, SaveTracks, SavePlays,
             Complete, LoadForIdentity, FinishIdentity, Unlink, RemoveDirectory,
             StartAnalysis, StartIdentity, WriteFile
    <3>4. Kept(w) /\ IInv
      BY <2>1, <3>3 DEF KeptInv
    <3> QED
      BY <1>2, <3>2, <3>3, <3>4, KeptByOthers, KeptByExtraction DEF JobStep
  <2>2. \A v \in Worker : v = w
    BY DEF Alone, OneWorker
  <2> QED
    BY <1>1, <2>1, <2>2 DEF KeptInv
<1>3. ~(Calibrate \/ WriteBack \/ InterruptRequest)
  BY DEF Alone, KeptInv, IInv, Calibrate, WriteBack, InterruptRequest
<1>4. CASE UNCHANGED vars
  BY <1>1, <1>4 DEF vars, diskVars, KeptInv, Kept, Exists, Readable, Intact
<1> QED
  BY <1>2, <1>3, <1>4 DEF Next

\* A film has a middle frame.
LEMMA MiddleExists == \E n \in Frame : n \in Middle(Frame)
<1> DEFINE half == Frames \div 2
<1>1. half \in Nat /\ half < Frames
  BY FilmAssumption
<1> HIDE DEF half
<1>2. {m \in Frame : m < half + 1} = 1 .. half
  BY <1>1, FilmAssumption DEF Frame
<1>3. Cardinality(1 .. half) = half /\ Cardinality(Frame) = Frames
  BY <1>1, FilmAssumption, FS_Interval DEF Frame
<1>4. half + 1 \in Frame
  BY <1>1, FilmAssumption DEF Frame
<1> QED
  BY <1>2, <1>3, <1>4 DEF Middle, half

\* Calibration finds a frame from the first completed analysis on, through
\* discarding the frames and extracting them again (worker.py:220), for a
\* film of any length, as long as nothing is interrupted.
THEOREM CalibrationIsKept == ASSUME Alone PROVE Spec => []CalibrationKeepsWorking
<1>1. KeptInv => CalibrationKeepsWorking
  <2> SUFFICES ASSUME KeptInv, faults = 0, covered # Absent PROVE CanCalibrate
    BY DEF CalibrationKeepsWorking
  <2>1. PICK w \in Worker : Kept(w)
    BY DEF KeptInv
  <2>2. CASE pc[w] # "keyframe"
    BY <2>1, <2>2 DEF Kept, CanCalibrate
  <2>3. CASE pc[w] = "keyframe"
    <3>1. disk[Manifest] = Frame /\ Intact
      BY <2>1, <2>3 DEF Kept
    <3>2. Readable(Manifest)
      BY <3>1, FrameIsContent DEF Readable
    <3> QED
      BY <3>1, <3>2, MiddleExists DEF Intact, CanCalibrate
  <2> QED
    BY <2>2, <2>3
<1>2. Spec => []KeptInv
  BY KeptInvInit, KeptInvStep, PTL DEF Spec
<1> QED
  BY <1>1, <1>2, PTL
=============================================================================
