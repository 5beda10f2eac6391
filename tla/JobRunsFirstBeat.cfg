\* A pool whose first heartbeat fails.
SPECIFICATION Spec
CONSTANTS
  p1 = p1
  p2 = p2
  lane = lane
  None = None
  Pools = {p1, p2}
  Lanes = {lane}
  MaxJobs = 1
  JobLane <- OneJob
  MaxAttempts = 1
  Results = {"ok"}
  Faults = {}
  MaxCrashes = 1
  MaxStalls = 0
  BeatMayFail = TRUE
  JobOutcomes = FALSE
  Discard = FALSE
INVARIANT RunningIsRegistered
CHECK_DEADLOCK FALSE
