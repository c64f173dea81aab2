\* One worker and the web process, interrupted anywhere, half way through a write too.
SPECIFICATION Spec
CONSTANTS
  Worker = {w1}
  Web = web
  WebActs = TRUE
  Frames = 2
  CheckpointEvery = 1
  DiscardFrames = TRUE
  Absent = Absent
  Torn = Torn
  MaxFaults = 2
  TornWrites = TRUE
INVARIANT MarkerMeansComplete
