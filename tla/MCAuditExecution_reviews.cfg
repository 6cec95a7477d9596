\* A low and a high risk, two people who may review in either lane, two worker
\* slots and the maintenance process; the facts are edited once.
CONSTANTS
  Workers = {w1, w2}
  Maintenance = m
  Risks = {r1, r2}
  HighRisks = {r2}
  Users = {u1, u2}
  Nobody = nobody
  AuditAttempts = 3
  MaxFacts = 2
SPECIFICATION AuditFairSpec
INVARIANTS
  ReviewersSeparated
PROPERTIES
  EvaluationSettles
\* The system stops when the execution is closed and its job over.
CHECK_DEADLOCK FALSE
