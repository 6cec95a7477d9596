\* One founder, one account to create whose password is guessed, two sessions
\* and one break-glass request; time passes once.
CONSTANTS
  Accounts = {u1, u2}
  Founders = {u1}
  Guessed = {u2}
  Sessions = {s1, s2}
  Requests = {r1}
  Roles = {"system_admin", "finance_reviewer", "read_only"}
  RoleSets <- AskedRoles
  FailureLimit = 2
  LockTicks = 1
  SessionTicks = 1
  RememberedTicks = 2
  GrantTicks = 1
  MaxNow = 1
  MaxTurns = 1
  MaxManaged = 4
SYMMETRY SameSessions
SPECIFICATION Spec
INVARIANTS
  EndedSessionIsDead
  LockoutBounds
  LentRolesAreBacked
PROPERTIES
  ImplementsBreakGlass
  OnlyLockoutsDisarm
CHECK_DEADLOCK FALSE
