\* One step, two values of progress, three runs of a job and its continuation.
SPECIFICATION Spec
CONSTANTS
  s = s
  Steps = {s}
  Uses <- Used
  MaxAttempts = 2
  MaxRuns = 3
  MaxResults = 2
  MaxSets = 2
  MaxFaults = 1
INVARIANT TypeOK
INVARIANT ResolvedStepsStay
INVARIANT NextRunReadsLast
PROPERTY AnswersAreFinal
CHECK_DEADLOCK FALSE
