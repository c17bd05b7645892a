SPECIFICATION Spec
CONSTANTS
  a = a
  b = b
  User = {ann}
  Collaborator = {ann}
  Hash = {a, b}
  Deps <- OneDependsOnOther
  Channel = {main, dev}
  Current = main
  Request = {q1}
  MaxDiscussions = 1
  MaxCalls = 2
  MaxFaults = 0
CHECK_DEADLOCK FALSE
INVARIANTS MergedOnTarget
