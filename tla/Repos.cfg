SPECIFICATION Spec
CONSTANTS
  User = {alice, bob}
  Admin = alice
  Members = {bob}
  Knot = {k1}
  Name = {n1}
  Request = {q1, q2}
  Nobody = nobody
  MaxCalls = 3
  MaxOthers = 1
  MaxFaults = 1
CHECK_DEADLOCK FALSE
INVARIANTS  CollaboratorsAgree PushWasInvited 
SYMMETRY RequestSymmetry
