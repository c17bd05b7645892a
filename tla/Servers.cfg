SPECIFICATION Spec
CONSTANTS
  User = {u1, u2}
  Server = {s1}
  Request = {q1}
  Ingester = ingester
  Nobody = nobody
  Fault = {"pds", "db", "save"}
  MaxCalls = 2
  MaxWrites = 1
  MaxCrashes = 1
  MaxMoves = 1
CHECK_DEADLOCK FALSE
INVARIANTS PoliciesFollowRows SavedWasCommitted OwnersWereNamed
