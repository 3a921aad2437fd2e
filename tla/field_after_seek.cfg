SPECIFICATION Spec
CONSTANTS
  Kinds = {"mysql", "mysql_binary"}
  MaxRows = 3
  Careful = FALSE
INVARIANT AnswersAsked
