SPECIFICATION Spec
CONSTANTS
  a = a
  b = b
  User = {ann, bob}
  Collaborator = {ann}
  Hash = {a, b}
  Deps <- OneDependsOnOther
  Channel = {main}
  Current = main
  Request = {q1, q2}
  MaxDiscussions = 2
  MaxCalls = 4
  MaxFaults = 1
SYMMETRY Symmetry
CHECK_DEADLOCK FALSE
INVARIANTS DependenciesKept MergedShowsApplied
