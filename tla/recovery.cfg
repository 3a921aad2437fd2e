SPECIFICATION FairSpec
CONSTANTS
  a = a
  b = b
  w1 = w1
  w2 = w2
  w3 = w3
  Names = {a, b}
  Work = {w1, w2, w3}
  NoName = NoName
  Drivers = {"postgresql", "mysql"}
  Faults = {"error", "abort", "drop"}
  Careful = TRUE
  MaxDepth = 2
  MaxSavepoints = 2
PROPERTY Recovers
CHECK_DEADLOCK FALSE
