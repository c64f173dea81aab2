SPECIFICATION MCSpec
CONSTANTS
  Position = {"QB", "DB", "RB"}
  Measured <- MCMeasured
  NotGiven = NotGiven
  Official = {"speed", "vision", "toughness"}
  Enabled = {"speed", "vision"}
  WeightOf <- MCWeightOf
  Delta <- MCDelta
  Base = 10
  Top = 20
  Ranges <- MCRanges
  Shown <- MCShown
  MaxEvents = 3
  Unknown = Unknown
  Horizon = 5
  Gap = 2
  MaxRuns = 2
  MaxCorrections = 2
  Asked <- MCAsked
  Cut = Cut
  Idle = Idle
  Place = {0, 1, 2}
  Overlap <- MCOverlap
  MatchIoU = 3
  MaxLost = 1
  MaxDetected = 2
  MaxTracks = 4
INVARIANTS
  ProjectionIsEarned GradeIsSound
  EstimateIsPartition HistoryIsUnbroken TracksAreSound
PROPERTIES
  MoreIsNeverWorse MoreOfTheSameCounts LostOnlyToAnalysis
CHECK_DEADLOCK FALSE
