\* A cancellable job of two steps that may be tried again from either: two
\* workers and the maintenance process compete for it, the dispatcher and the
\* broker fail in every way, and messages are lost.
CONSTANTS
  Jobs = {j1}
  Workers = {w1, w2}
  Maintenance = m
  Dispatchers = {d1}
  NoJob = NoJob
  MaxAttempts = 2
  NumSteps = 2
  RetryStages = {1, 2}
  MaxDeliveries = 2
  Cancellable = {j1}
  Lossy = TRUE
  MaxVersion = 3
SPECIFICATION FairSpec
INVARIANTS
  OneResult
  TablesAgree
PROPERTIES
  ImplementsLifecycle
  EveryJobSettles
\* The system stops when every job is over and its messages are consumed.
CHECK_DEADLOCK FALSE
