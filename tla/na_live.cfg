SPECIFICATION FairSpec
CONSTANTS
  c1 = c1
  c2 = c2
  c3 = c3
  c4 = c4
  None = None
  Clients = {c1, c2}
  MaxClients = 4
  Dests <- OneDest
  Masks <- OneMask
  Vias <- OneVia
  Macs <- NoMacs
  Flush = FALSE
  Events = {"sigint", "tear", "quit"}
  ChanCap = 1
  MaxOps = 2
INVARIANTS GoodbyeTold
PROPERTIES CleanShutdown Converges DisconnectNoticed
CHECK_DEADLOCK FALSE
