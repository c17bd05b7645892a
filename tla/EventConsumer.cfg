SPECIFICATION ConsumerFairSpec
CONSTANTS
  s1 = s1
  l1 = l1
  l2 = l2
  Source = {s1}
  Loop = {l1, l2}
  SourceOf <- OneSource
  Started = {}
  RequestCtx = {l2}
  Worker = {w1}
  QueueSize = 1
  Fault = {"store"}
  None = None
  MaxCreated = 2
  MaxDrops = 1
  MaxBad = 1
CHECK_DEADLOCK FALSE
INVARIANTS ConsumerTypeOK ReadAccounted  
PROPERTY StreamedIsHandled
