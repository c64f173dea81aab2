\* Two workers on the same film.
SPECIFICATION FairSpec
CONSTANTS
  Worker = {w1, w2}
  Web = web
  WebActs = FALSE
  Frames = 1
  CheckpointEvery = 1
  DiscardFrames = TRUE
  Absent = Absent
  Torn = Torn
  MaxFaults = 0
  TornWrites = FALSE
PROPERTY JobsEnd
