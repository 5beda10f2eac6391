\* One worker that restarts, under any events; and a pool with a second worker
\* that does not, under three.
SPECIFICATION Spec
CONSTANTS
  primary = primary
  other = other
  Workers = {primary, other}
  Slots = {1, 2}
  Restarting = {primary}
  HandleSignals = TRUE
  Required = FALSE
  Asking = {primary}
  MaxEvents = 3
INVARIANT TypeOK
INVARIANT OneRunner
INVARIANT AllOrNone
PROPERTY NothingOutlivesStop
PROPERTY StopSettlesInTime
PROPERTY RunnerComesBack
CHECK_DEADLOCK FALSE
