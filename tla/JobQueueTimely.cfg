\* Timely workers, one resume request at a time.
SPECIFICATION Spec
CONSTANTS
  Worker = {w1, w2}
  Client = {c1}
  None = None
  MaxJobs = 2
  KindOf <- AnalysisThenIdentity
  Poison = {}
  MaxAttempts = 2
  StaleAfter = 1
  Retention = 2
  MaxResumes = 1
  MaxFaults = 1
  Timely = TRUE
SYMMETRY WorkerSymmetry
INVARIANTS LeaseAgreement
PROPERTIES OnlyResumeReopens ImplementsWorkQueue
