SPECIFICATION Spec
CONSTANTS
  a = a
  b = b
  w1 = w1
  w2 = w2
  w3 = w3
  Names = {a, b}
  Work = {w1, w2, w3}
  NoName = NoName
  Drivers = {"postgresql", "mysql", "sqlite3"}
  Faults = {"error", "abort", "drop"}
  Careful = TRUE
  MaxDepth = 3
  MaxSavepoints = 4
SYMMETRY Symmetry
INVARIANTS TypeOK PromisesKept UndoneStaysUndone InStep ScopesBacked
PROPERTY ImplementsScopes
CHECK_DEADLOCK FALSE
