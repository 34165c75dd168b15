SPECIFICATION Spec
CONSTANTS
  c1 = c1
  c2 = c2
  c3 = c3
  c4 = c4
  None = None
  Clients = {c1, c2}
  MaxClients = 4
  Dests <- TwoDests
  Masks <- OneMask
  Vias <- OneVia
  Macs <- OneMac
  Flush = FALSE
  Events = {"quit", "sigint", "tear"}
  ChanCap = 2
  MaxOps = 2
SYMMETRY Symmetry
INVARIANTS Replica InSync
PROPERTY Implements
CHECK_DEADLOCK FALSE
