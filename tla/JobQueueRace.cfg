\* One identity job; slow workers, racing resumes, two faults.
SPECIFICATION Spec
CONSTANTS
  Worker = {w1, w2}
  Client = {c1, c2}
  None = None
  MaxJobs = 1
  KindOf <- IdentityOnly
  Poison = {}
  MaxAttempts = 2
  StaleAfter = 1
  Retention = 2
  MaxResumes = 2
  MaxFaults = 2
  Timely = FALSE
SYMMETRY Symmetry
INVARIANTS ClaimMeansInFlight InFlightIsRecoverable AttemptBudget
PROPERTIES ClaimNeverStolen
