SPECIFICATION Spec
CONSTANTS
  u1 = u1
  u2 = u2
  p1 = p1
  p2 = p2
  Idle = Idle
  Nothing = Nothing
  Users = {u1, u2}
  Page = 3
  Alloc = 2
  MaxWrites = 2
  Pins = {p1, p2}
  Led = p1
SYMMETRY Symmetry
INVARIANTS CopiesInPage ReadsOneWrite QuietMeansRewound ShowTellsStore
CHECK_DEADLOCK FALSE
