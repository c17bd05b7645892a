SPECIFICATION FairSpec
CONSTANTS
  Writer = {w1, w2}
  Conn = {c1}
  BatchLimit = 2
  MaxEvents = 3
  MaxClock = 3
INVARIANTS TypeOK SentInOrder NoLostWakeup 
PROPERTIES PendingDrained FeedSpec
