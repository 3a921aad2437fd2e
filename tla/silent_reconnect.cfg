SPECIFICATION Spec
CONSTANTS
  a = a
  b = b
  w1 = w1
  w2 = w2
  w3 = w3
  Names = {a, b}
  Work = {w1, w2, w3}
  NoName = NoName
  Drivers = {"mysql"}
  Faults = {"drop"}
  Careful = FALSE
  MaxDepth = 1
  MaxSavepoints = 1
SYMMETRY Symmetry
INVARIANT TransactionHeld
CHECK_DEADLOCK FALSE
