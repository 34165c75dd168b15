SPECIFICATION Spec
CONSTANTS
  a1 = a1
  a2 = a2
  a3 = a3
  a4 = a4
  a5 = a5
  Nil = Nil
  Cell = {a1, a2, a3, a4, a5}
  MaxFlush = 2
SYMMETRY Symmetry
INVARIANTS Linked MainSafe HandlerSafe
PROPERTY Implements
CHECK_DEADLOCK FALSE
