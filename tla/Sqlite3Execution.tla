--------------------------- MODULE Sqlite3Execution --------------------------
(***************************************************************************)
(* A Sqlite3Statement executes by stepping through all rows and writing     *)
(* them into its Sqlite3Result, which it keeps and clears for the next      *)
(* execution unless result() has handed it over.  A column without a        *)
(* declared type gets one from the values of the first row that is flushed, *)
(* and each value is marked binary by the type its column has by then.      *)
(***************************************************************************)
EXTENDS Naturals, Sequences

CONSTANTS NCols,    \* columns of the statement
          Decls,    \* their declared types, of "blob", "text", "none"
          MaxRows,  \* bound on the rows of an execution
          MaxRuns   \* bound on the executions

ExecutionAssumption ==
  /\ Decls \subseteq {"blob", "text", "none"}
  /\ {NCols, MaxRows, MaxRuns} \subseteq Nat \ {0}

VARIABLES decl,  \* the declared type of each column
          takes, \* whether the client takes every result
          phase, \* "idle", "stepping", "done", "failed"
          run,   \* number of the execution
          seen,  \* rows stepped through in it
          res,   \* _result of the statement
          taken  \* the result handed over last

made == <<decl, takes>>
vars == <<made, phase, run, seen, res, taken>>

Cols == 1..NCols
Classes == {"int", "blob", "null"}  \* what sqlite3_column_type says of a value
Types   == {"unknown", "int", "blob", "text"}

None == [present |-> FALSE]
Results == [present: {TRUE}, types: [Cols -> Types], lazy: BOOLEAN, rowno: 0..MaxRows,
            data: UNION {[1..n -> [run: 1..MaxRuns, binary: [Cols -> BOOLEAN]]] :
                           n \in 0..MaxRows}]

TypeOK ==
  /\ decl \in [Cols -> Decls] /\ takes \in BOOLEAN
  /\ phase \in {"idle", "stepping", "done", "failed"}
  /\ run \in 0..MaxRuns /\ seen \in 0..MaxRows
  /\ \A r \in {res, taken} : r = None \/ r \in Results

Init ==
  /\ decl \in [Cols -> Decls] /\ takes \in BOOLEAN
  /\ phase = "idle" /\ run = 0 /\ seen = 0
  /\ res = None /\ taken = None

-----------------------------------------------------------------------------
(* The constructor and fetchMeta.                                          *)
Fresh == [present |-> TRUE,
          types |-> [c \in Cols |-> IF decl[c] = "none" THEN "unknown" ELSE decl[c]],
          lazy |-> \E c \in Cols : decl[c] = "none",
          rowno |-> 0, data |-> <<>>]

ClearedRowno(r) == [r EXCEPT !.rowno = 0, !.lazy = FALSE]
Cleared(r) == [r EXCEPT !.rowno = 0, !.lazy = FALSE, !.data = <<>>]

(* execute(bind), until the first step.                                    *)
Start ==
  /\ phase # "stepping" /\ run < MaxRuns
  /\ takes => res = None
  /\ run' = run + 1 /\ seen' = 0 /\ phase' = "stepping"
  /\ res' = IF res = None THEN Fresh ELSE Cleared(res)
  /\ UNCHANGED <<made, taken>>

(* Another number of values than there are placeholders: nothing is touched *)
(* but the sqlite3_stmt.                                                   *)
StartRefused ==
  /\ phase # "stepping" /\ run < MaxRuns
  /\ run' = run + 1 /\ seen' = 0 /\ phase' = "failed"
  /\ UNCHANGED <<made, res, taken>>

(* write() of each column: the row at _rowno is made by the first.           *)
ByValue(types, class) == [c \in Cols |-> class[c] = "blob"]
Marked(types, class) == [c \in Cols |-> types[c] = "blob"]
Written(r, class) ==
  [r EXCEPT !.data = Append(@, [run |-> run, binary |-> Marked(r.types, class)])]

(* flush(): the first row decides the types that are open.                  *)
Decided(class) == IF class \in {"int", "blob"} THEN class ELSE "text"
Second(r) == r.rowno = 1
First(r)  == r.rowno = 0
Flushed(r, class) ==
  [r EXCEPT !.rowno = @ + 1, !.lazy = IF First(r) THEN FALSE ELSE @,
            !.types = [c \in Cols |-> IF First(r) /\ r.lazy /\ @[c] = "unknown"
                                      THEN Decided(class[c]) ELSE @[c]]]

Row(class) ==
  /\ phase = "stepping" /\ seen < MaxRows
  /\ res' = Flushed(Written(res, class), class)
  /\ seen' = seen + 1
  /\ UNCHANGED <<made, phase, run, taken>>

(* SQLITE_DONE rewinds the result; any other answer throws and leaves the    *)
(* rows so far, and the position behind them.                              *)
Done ==
  /\ phase = "stepping" /\ phase' = "done"
  /\ res' = [res EXCEPT !.rowno = 0]
  /\ UNCHANGED <<made, run, seen, taken>>

StepThrows ==
  /\ phase = "stepping" /\ phase' = "failed"
  /\ UNCHANGED <<made, run, seen, res, taken>>

(* result().                                                               *)
HandsOver(r) == None
TakeResult ==
  /\ phase # "stepping" /\ res # None
  /\ taken' = res /\ res' = HandsOver(res)
  /\ UNCHANGED <<made, phase, run, seen>>

Next ==
  \/ Start \/ StartRefused \/ Done \/ StepThrows \/ TakeResult
  \/ \E class \in [Cols -> Classes] : Row(class)

Spec == Init /\ [][Next]_vars

-----------------------------------------------------------------------------
(* When an execution returns, the statement's result has its rows, all of    *)
(* them and no others, whatever became of the executions before, and is at  *)
(* its start (sqlite3/statement.cc:69-97, sqlite3/result.cc:15-23).         *)
RowsOfThisRun ==
  phase = "done" /\ res # None =>
    /\ Len(res.data) = seen /\ res.rowno = 0
    /\ \A i \in 1..seen : res.data[i].run = run

(* A result with rows has a type for every column, when the client takes the *)
(* result of every execution                                               *)
(* (sqlite3/result.cc:58-61, sqlite3/result.cc:91-103).                     *)
TypesKnown ==
  takes /\ res # None /\ res.data # <<>> => \A c \in Cols : res.types[c] # "unknown"

(* The values that are marked binary are those of the columns whose type is  *)
(* BLOB, save in the first row, where a column without a declared type has  *)
(* none yet (sqlite3/result.cc:75-84).                                      *)
BinaryAgrees ==
  res # None => \A i \in 1..Len(res.data), c \in Cols :
                  decl[c] # "none" \/ i > 1 =>
                    (res.data[i].binary[c] <=> res.types[c] = "blob")
=============================================================================
