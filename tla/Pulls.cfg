SPECIFICATION Spec
CONSTANTS
  Req = {q1, q2}
  StackId = {s1, s2}
  Change = {x, y}
  Null = Null
  MaxPulls = 3
  MaxRounds = 2
  MaxRequests = 3
SYMMETRY Symmetry
CHECK_DEADLOCK FALSE
INVARIANTS RoundsContiguous MergedWasApplied 
 
