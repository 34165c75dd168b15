SPECIFICATION FairSpec
CONSTANTS
  c1 = c1
  c2 = c2
  None = None
  Clients = {c1, c2}
  MaxLines = 2
  MaxStarts = 2
INVARIANT SamePage
PROPERTY LineShown
CHECK_DEADLOCK FALSE
