SPECIFICATION FairWaitSpec
CONSTANTS
  r1 = r1
  r2 = r2
  r3 = r3
  Readers = {r1, r2, r3}
  MaxReads = 6
INVARIANTS NeverOverCounts NoLostWakeup BurstCounted
PROPERTY EventHandled
CHECK_DEADLOCK FALSE
