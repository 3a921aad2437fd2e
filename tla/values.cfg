SPECIFICATION Spec
CONSTANTS
  Drivers = {"pg", "mysql", "sqlite3"}
  Calls = {"execute", "aexecute", "prepare"}
  MaxLength = 5
  MaxValues = 3
  Results <- TestedResults
  Half <- TestedHalf
  Misread <- TestedMisread
  Dirs <- TestedDirs
  Files <- TestedFiles
  Kind <- TestedKind
  NameOf <- TestedNameOf
  Names = {"postgresql", "mysql", "sqlite3"}
  Contents <- TestedContents
  Packages = {"mysql"}
INVARIANTS TypeOK RunAsMeant ReadAsSent LoadedWhileUsed DeniedRightly
PROPERTY RewritingEnds
CHECK_DEADLOCK FALSE
