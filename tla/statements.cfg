SPECIFICATION SpecSideBySide
CONSTANTS
  Kinds = {"Statement", "Query"}
  Drivers = {"pg", "mysql", "sqlite3"}
  Objects = {o1, o2, o3, o4}
  NULL = NULL
  Values = {a, b}
  Wants = 2
  MaxParams = 4
  Clients = {"any", "careful"}
  Stmts = {s1, s2, s3}
  MaxSessions = 4
SYMMETRY Symmetry
INVARIANTS TypeOK OwnsOne NothingLeaks SentAsBound
INVARIANTS ServerAgrees LibraryHarmless OthersClosed
CHECK_DEADLOCK FALSE
