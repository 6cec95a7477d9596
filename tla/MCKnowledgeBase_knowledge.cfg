\* Two policies, two persons, two index versions, one question.
CONSTANTS
  Policies = {p1, p2}
  Users = {u1, u2}
  Nobody = nobody
  Indexes = {i1, i2}
  Queries = {q1}
  NoIndex = noindex
  MaxMembers = 2
SYMMETRY Interchangeable
SPECIFICATION Spec
PROPERTIES
  AnswersAreBacked
  ImplementsPolicyLifecycle
CHECK_DEADLOCK FALSE
