\* A wait with a timeout, a child that may continue, ctx.continue(), rollbacks,
\* a crash and a false death.
SPECIFICATION Spec
CONSTANTS
  a = a
  b = b
  p = p
  q = q
  None = None
  Continue = Continue
  Pools = {p, q}
  Waits = {a}
  Count <- OneEach
  Timed = {a}
  MayContinue = TRUE
  MaxAttempts = 2
  Faults = {"error"}
  JobOutcomes = TRUE
  MaxLocks = 2
  MaxGen = 1
  MaxCrashes = 1
  MaxStalls = 1
SYMMETRY PoolSymmetry
INVARIANT TypeOK
INVARIANT RemainingCounts
INVARIANT SleepsOnlyWhileWaiting
INVARIANT OneEnding
PROPERTY ChildrenOnce
PROPERTY LostCannotRun
CHECK_DEADLOCK FALSE
