\* One worker, interrupted once, half way through a write or not.
SPECIFICATION FairSpec
CONSTANTS
  Worker = {w1}
  Web = web
  WebActs = FALSE
  Frames = 2
  CheckpointEvery = 2
  DiscardFrames = TRUE
  Absent = Absent
  Torn = Torn
  MaxFaults = 1
  TornWrites = TRUE
PROPERTY ResumedAnalysisCompletes
