SPECIFICATION Spec
CONSTANTS
  u1 = u1
  u2 = u2
  Idle = Idle
  Users = {u1, u2}
  Machines <- AloneOrPair
  Pool = 2
INVARIANTS HealthyIsSafe PinnedWhileUsed NothingLeft LoadsAgain
CHECK_DEADLOCK FALSE
