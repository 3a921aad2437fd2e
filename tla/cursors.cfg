SPECIFICATION Spec
CONSTANTS
  Kinds = {"pg", "sqlite3", "mysql", "mysql_binary"}
  MaxRows = 4
  Careful = TRUE
INVARIANTS TypeOK AnswersAsked Agree BufferKnown
PROPERTY ImplementsCursor
