SPECIFICATION Spec
CONSTANTS
  Clients = {c1, c2}
  Tasks = {t1, t2}
  MaxSnapshots = 3
  ProfileRetries = 2
  None = None
  Readers = {r1, r2}
  Writers = {w1, w2}
  Columns = {x}
  Kinds = {"redacted", "masked"}
  MaxChanges = 3
  Hooks = {h1}
  Deliveries = {d1, d2}
  Channels = {n1, n2}
  DeliverRetries = 1
  TaskRetries = 1
  MaxFaults = 2
  MaxWebhookFaults = 1
  Calls = {a1, a2}
  Describes <- MCDescribes
  Estimate <- MCEstimate
  MaxEstimate = 3
  MaxRetries <- MCMaxRetries
  Actual = {1, 4}
  Limit = 4
  MaxWindow = 1
INVARIANTS FileIsConsistent ToldOnce HistoryIsTruthful BudgetHolds
PROPERTY PoliciesSettle
CHECK_DEADLOCK FALSE
