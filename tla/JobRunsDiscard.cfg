\* A pool presumed dead discards a job with jobOutcomes on.
SPECIFICATION Spec
CONSTANTS
  p1 = p1
  p2 = p2
  lane = lane
  None = None
  Pools = {p1, p2}
  Lanes = {lane}
  MaxJobs = 1
  JobLane <- OneJob
  MaxAttempts = 2
  Results = {"ok", "fatal"}
  Faults = {}
  MaxCrashes = 0
  MaxStalls = 1
  BeatMayFail = FALSE
  JobOutcomes = TRUE
  Discard = TRUE
PROPERTY OnlyOwnerDeletes
CHECK_DEADLOCK FALSE
