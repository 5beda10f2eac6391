\* A job that may continue twice over, completed by Graphile, with a false death.
SPECIFICATION Spec
CONSTANTS
  p1 = p1
  p2 = p2
  lane = lane
  None = None
  Pools = {p1, p2}
  Lanes = {lane}
  MaxJobs = 3
  JobLane <- Alone
  MaxAttempts = 2
  Results = {"error"}
  Faults = {"lost"}
  MaxCrashes = 0
  MaxStalls = 1
  BeatMayFail = FALSE
  JobOutcomes = FALSE
  Discard = FALSE
SYMMETRY SymmetricPools
INVARIANT OneContinuation
PROPERTY KeepsPromise
CHECK_DEADLOCK FALSE
