\* A stalled attempt wakes up after its job was taken over.
CONSTANTS
  Workers = {w1}
  Maintenance = m
  MaxAttempts = 2
  FaultSets = {{"stall"}}
  Archiving = FALSE
SPECIFICATION Spec
INVARIANTS
  OriginalKept
\* The system stops when the job is over.
CHECK_DEADLOCK FALSE
