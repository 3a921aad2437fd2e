----------------------------- MODULE MCResults ------------------------------
(***************************************************************************)
(* Three ways to a result: execute() and result() of a handle, the         *)
(* execution of a Sqlite3Statement, and aexecute() with retrieve().  None  *)
(* reads what another keeps, so they are run side by side: in a behaviour  *)
(* one of them moves, and the others rest in one of their initial states.  *)
(***************************************************************************)
EXTENDS ExecutionResults, Sequences

CONSTANTS NCols, Decls, MaxRuns, Sends, Answers

VARIABLES part,   \* which one moves: "handle", "sqlite3" or "async"
          decl, takes, phase, run, seen, res, taken,
          setting, up, wire, state, holds, caller, crashed

Sqlite3 == INSTANCE Sqlite3Execution
Async   == INSTANCE AsyncResults WITH Drivers <- Drivers \ {"sqlite3"}, Queries <- Sends

ASSUME AllResultsAssumption ==
  ResultsAssumption /\ Sqlite3!ExecutionAssumption /\ Async!AsyncAssumption

HandleRests ==
  /\ Init /\ prompt

Sqlite3Rests ==
  /\ Sqlite3!Init /\ takes /\ \A c \in Sqlite3!Cols : decl[c] = "blob"

AsyncRests ==
  /\ setting = [orderly |-> TRUE, writes |-> FALSE, selects |-> TRUE, lossy |-> FALSE]
  /\ up = TRUE /\ wire = <<>> /\ caller = Async!NoCall /\ crashed = FALSE
  /\ state = [q \in Sends |-> "unsent"] /\ holds = [q \in Sends |-> Async!NoCall]

InitSideBySide ==
  \/ part = "handle"  /\ Init /\ Sqlite3Rests /\ AsyncRests
  \/ part = "sqlite3" /\ Sqlite3!Init /\ HandleRests /\ AsyncRests /\ driver = "sqlite3"
  \/ part = "async"   /\ Async!Init   /\ HandleRests /\ Sqlite3Rests

HandleUnmoved  == <<prompt, calls, rowsOf, place, connRows, asked, fresh, answer, open>>
Sqlite3Unmoved == <<decl, takes, phase, run, seen, res, taken>>
AsyncUnmoved   == <<setting, up, wire, state, holds, caller, crashed>>

NextSideBySide ==
  \/ part = "handle" /\ Next /\ UNCHANGED <<part, driver, Sqlite3Unmoved, AsyncUnmoved>>
  \/ part = "sqlite3" /\ Sqlite3!Next /\ UNCHANGED <<part, driver, HandleUnmoved, AsyncUnmoved>>
  \/ part = "async" /\ Async!Next /\ UNCHANGED <<part, driver, HandleUnmoved, Sqlite3Unmoved>>

SpecSideBySide ==
  /\ InitSideBySide
  /\ [][NextSideBySide]_<<part, vars, Sqlite3!vars, Async!vars>>
  /\ Async!Fairness

-----------------------------------------------------------------------------
(* A Sqlite3Statement and its result are of their type, and the result has   *)
(* the rows of the last execution (sqlite3/statement.cc:69-97).             *)
RowsOfThisRun == Sqlite3!TypeOK /\ Sqlite3!RowsOfThisRun

(* ... a type for each column, if the client takes every result, and values   *)
(* marked binary where the type is, but in the first row of columns with no  *)
(* declared type (sqlite3/result.cc:75-84, sqlite3/result.cc:91-103).       *)
TypesKnown == Sqlite3!TypesKnown /\ Sqlite3!BinaryAgrees

(* What is known of the queries sent is of its type; an orderly client's      *)
(* retrieve() brings the answer to its own query, and if all its queries     *)
(* have rows, has a result to read (pg/result.cc:66-73,                      *)
(* mysql/result.cc:130-146).                                                *)
OwnAnswer == (driver # "sqlite3" => Async!TypeOK) /\ Async!OwnAnswer /\ Async!ResultThere

(* ... and comes to an end, unless PostgreSQL's connection is lost           *)
(* (result.cc:82-87).                                                       *)
Retrieved == Async!Retrieved

(* Without write(), an aexecute() is refused for a reason                    *)
(* (pg/handle.cc:173-197).                                                  *)
RefusedWhenBusy == Async!RefusedWhenBusy
=============================================================================
