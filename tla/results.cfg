SPECIFICATION SpecSideBySide
CONSTANTS
  Drivers = {"pg", "mysql", "sqlite3"}
  MaxCalls = 3
  MaxRows = 2
  Word = 16
  Selects = {1, 3}
  NCols = 2
  Decls = {"blob", "text", "none"}
  MaxRuns = 2
  Sends = {1, 2, 3, 4}
  Answers = {"rows", "no_rows", "error"}
INVARIANTS TypeOK OneOwner LatestHanded RowsOfThisRun TypesKnown OwnAnswer
PROPERTIES Retrieved RefusedWhenBusy
CHECK_DEADLOCK FALSE
