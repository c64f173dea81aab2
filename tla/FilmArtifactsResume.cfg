\* One worker, interrupted between writes only.
SPECIFICATION FairSpec
CONSTANTS
  Worker = {w1}
  Web = web
  WebActs = FALSE
  Frames = 3
  CheckpointEvery = 2
  DiscardFrames = TRUE
  Absent = Absent
  Torn = Torn
  MaxFaults = 2
  TornWrites = FALSE
PROPERTY ResumedAnalysisCompletes
INVARIANTS CompletedCoversFilm VisionIsWhole CalibrationKeepsWorking
