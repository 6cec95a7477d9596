\* One execution and its report: one worker slot and the maintenance process,
\* two attempts at the report, every combination of faults; the facts are
\* edited once.
CONSTANTS
  Workers = {w1}
  Maintenance = m
  Risks = {}
  HighRisks = {}
  Users = {u1}
  Nobody = nobody
  AuditAttempts = 2
  MaxFacts = 2
  ReportAttempts = 2
  Drafting = TRUE
SPECIFICATION FairSpec
INVARIANTS
  ReadyIsCurrent
  ReadyKeepsArtifacts
  CompensationIsExact
PROPERTIES
  GenerationSettles
\* The system stops when the jobs are over.
CHECK_DEADLOCK FALSE
