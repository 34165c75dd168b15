SPECIFICATION FairSpec
CONSTANTS
  c1 = c1
  c2 = c2
  c3 = c3
  Nobody = Nobody
  Clients = {c1, c2, c3}
  MaxSlots = 3
  PerRead = 2
  MaxSend <- Sends
INVARIANTS OwnSummands NeverBlocks
PROPERTY Answered
CHECK_DEADLOCK FALSE
