\* Two waits at once: the parent wakes, unheard children are found, orphans go.
SPECIFICATION FairSpec
CONSTANTS
  a = a
  b = b
  p = p
  q = q
  None = None
  Continue = Continue
  Pools = {p}
  Waits = {a, b}
  Count <- OneEach
  Timed = {}
  MayContinue = FALSE
  MaxAttempts = 2
  Faults = {"error"}
  JobOutcomes = TRUE
  MaxLocks = 2
  MaxGen = 0
  MaxCrashes = 0
  MaxStalls = 0
INVARIANT AttemptsConserved
PROPERTY ParentResumes
PROPERTY EveryChildHeard
PROPERTY OrphansDropped
CHECK_DEADLOCK FALSE
