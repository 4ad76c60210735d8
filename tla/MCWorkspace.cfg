SPECIFICATION Spec
CONSTANTS
  Users = {u1, u2, u3}
  NoUser = NoUser
  Admins <- MCAdmins
  Level <- MCLevel
  Workers = {1, 2}
  WorkerOf <- MCWorkerOf
  Definitions <- MCDefinitions
  Requests = {r1, r2, r3}
  NoRequest = NoRequest
  Tokens = {t1}
  Savers = {s1, s2}
  NoDefinition = NoDefinition
  Clients = {c1, c2}
  GrantLevels = {"owner", "viewer"}
  MaxRetries = 3
  MaxVersions = 3
  MaxRows = 3
INVARIANTS OneFirstAdmin HistoryIsExact AccessHasSource
PROPERTY WritesEnd
CHECK_DEADLOCK FALSE
