\* No fault but crashes and store failures, or every kind: executors that stall
\* past their lease and lost replies of commits; a user may archive.
CONSTANTS
  Workers = {w1}
  Maintenance = m
  MaxAttempts = 3
  FaultSets = {{}, {"stall", "lost_reply"}}
  Archiving = TRUE
SPECIFICATION FairSpec
INVARIANTS
  SourceKept
  PendingIsRecoverable
  OneParse
  OriginalKeptWhenPunctual
PROPERTIES
  FileSettles
\* The system stops when the job is over.
CHECK_DEADLOCK FALSE
