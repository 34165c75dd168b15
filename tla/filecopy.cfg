SPECIFICATION FairSpec
CONSTANTS
  f1 = f1
  f2 = f2
  Absent = Absent
  Names = {f1, f2}
  MaxLen = 4
  BuffSize = 2
  SockCap = 3
INVARIANT SuccessIsWhole
PROPERTIES Implements TransferEnds
CHECK_DEADLOCK FALSE
