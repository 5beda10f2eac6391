\* Fair: two jobs of one lane, completed by Graphile, with a crash.
SPECIFICATION FairSpec
CONSTANTS
  p1 = p1
  p2 = p2
  lane = lane
  None = None
  Pools = {p1, p2}
  Lanes = {lane}
  MaxJobs = 2
  JobLane <- TwoJobs
  MaxAttempts = 2
  Results = {"ok", "fatal"}
  Faults = {"lost", "error"}
  MaxCrashes = 1
  MaxStalls = 0
  BeatMayFail = TRUE
  JobOutcomes = FALSE
  Discard = TRUE
INVARIANT LaneMatchesRows
PROPERTY CrashedPoolReleased
PROPERTY EveryJobEnds
CHECK_DEADLOCK FALSE
