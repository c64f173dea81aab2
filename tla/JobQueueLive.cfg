\* Two workers, slow ones included, a job that kills whoever runs it, and a sound one.
SPECIFICATION FairSpec
CONSTANTS
  Worker = {w1, w2}
  Client = {c1}
  None = None
  MaxJobs = 2
  KindOf <- IdentityThenReport
  Poison = {1}
  MaxAttempts = 2
  StaleAfter = 1
  Retention = 2
  MaxResumes = 0
  MaxFaults = 1
  Timely = FALSE
PROPERTIES EveryJobSettles
