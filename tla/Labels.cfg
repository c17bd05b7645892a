SPECIFICATION LabelsSpec
CONSTANTS
  Label = {one, many}
  Multiple = {many}
  Value = {x, y}
  Request = {q1, q2}
  MaxClock = 2
  MaxRecords = 2
  MaxUpsets = 1
CHECK_DEADLOCK FALSE
INVARIANTS SaveIsShown LabelsConverge
