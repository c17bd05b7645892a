SPECIFICATION Spec
CONSTANTS
  d1 = d1
  d2 = d2
  p1 = p1
  n1 = n1
  Delivery = {d1, d2}
  Pipeline = {p1}
  PipelineOf <- SamePipeline
  Name = {n1}
  Normalize <- Single
  NumSteps = 1
  QueueSize = 1
  MaxJobCount = 2
  Canceller = {c1}
  Fault = {"db", "docker"}
CHECK_DEADLOCK FALSE
SYMMETRY Symmetry
INVARIANTS LeakExplained SettledIsFinal RestIsSettled
