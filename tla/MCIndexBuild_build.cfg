\* Two workers beside the maintenance process, two batches, three attempts, an
\* embedding whose answers differ.
CONSTANTS
  Workers = {w1, w2}
  Maintenance = maintenance
  MaxBatches = 2
  Vectors = {v1, v2}
  NoVector = none
  BuildAttempts = 3
SPECIFICATION BuildFairSpec
PROPERTIES
  RecordsAreFinal
  BuildSettles
  ImplementsIndexLifecycle
CHECK_DEADLOCK FALSE
