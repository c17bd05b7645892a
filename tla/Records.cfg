SPECIFICATION Spec
CONSTANTS
  Coll = {"star", "follow", "artifact", "key", "string", "issue", "comment",
          "reaction", "profile"}
  Body = {v1, v2}
  Subject = subject
  None = none
  Request = {q1, q2}
  MaxCalls = 3
  MaxOthers = 1
  MaxFaults = 2
SYMMETRY Symmetry
CONSTRAINT Bound
CHECK_DEADLOCK FALSE
INVARIANTS  NumbersGivenOnce
