SPECIFICATION IpSpec
CONSTANTS
  c1 = c1
  c2 = c2
  Clients = {c1, c2}
  MaxCmds = 4
INVARIANTS RegionReady FreshIp
CHECK_DEADLOCK FALSE
