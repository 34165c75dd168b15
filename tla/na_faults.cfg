SPECIFICATION Spec
CONSTANTS
  c1 = c1
  c2 = c2
  c3 = c3
  c4 = c4
  None = None
  Clients = {c1, c2, c3}
  MaxClients = 4
  Dests <- OneDest
  Masks <- OneMask
  Vias <- OneVia
  Macs <- NoMacs
  Flush = TRUE
  Events = {"kill", "crash", "nomask"}
  ChanCap = 1
  MaxOps = 2
SYMMETRY Symmetry
INVARIANTS UniqueKeys NoRouteMissing FlushReaches
CHECK_DEADLOCK FALSE
