SPECIFICATION SpecSideBySide
CONSTANTS
  Byte = {a, b, nl}
  Newline = nl
  Junk = junk
  MaxWrite = 2
  MaxBytes = 4
  Alloc0 = 1
  Chunk = 3
  Stored = 1
  Drivers = {"pg", "mysql", "sqlite3"}
  Keys = {k1, k2}
  Classes = {"long", "one", "null", "refused"}
  MaxRows = 2
  MaxThrown = 1
  Clients <- TestedClients
SYMMETRY Symmetry
INVARIANTS BothTyped WithinAlloc NoneLost  CountTrue NothingHeld
PROPERTY ImplementsQueue
CHECK_DEADLOCK FALSE
