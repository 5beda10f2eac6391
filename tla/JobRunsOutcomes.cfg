\* One job in a lane, jobOutcomes on, retained failures, two pools.
SPECIFICATION Spec
CONSTANTS
  p1 = p1
  p2 = p2
  lane = lane
  None = None
  Pools = {p1, p2}
  Lanes = {lane}
  MaxJobs = 2
  JobLane <- OneJob
  MaxAttempts = 2
  Results = {"ok", "error", "fatal", "retryAt"}
  Faults = {"lost", "error"}
  MaxCrashes = 1
  MaxStalls = 1
  BeatMayFail = FALSE
  JobOutcomes = TRUE
  Discard = FALSE
SYMMETRY SymmetricPools
INVARIANTS
  TypeOK
  ActiveRunOwnsRow
  OutcomeMatchesRow
  LaneMatchesRows
  RunningIsRegistered
PROPERTIES
  NoRunAfterEnd
  OnlyOwnerDeletes
CHECK_DEADLOCK FALSE
