SPECIFICATION Spec
CONSTANTS
  a = a
  b = b
  w1 = w1
  w2 = w2
  w3 = w3
  Names = {a, b}
  Work = {w1, w2, w3}
  NoName = NoName
  Drivers = {"postgresql", "mysql", "sqlite3"}
  Faults = {"error"}
  Careful = TRUE
  MaxDepth = 3
  MaxSavepoints = 3
SYMMETRY Symmetry
INVARIANT TransactionsListed
CHECK_DEADLOCK FALSE
