---------------------------- MODULE MCStatements ----------------------------
(***************************************************************************)
(* The statements of a program: the facade's Statement and Query, and the  *)
(* driver's statements on the sessions of a handle.  The two share nothing *)
(* but the choice of a driver, so they are run side by side: in a          *)
(* behaviour one of them moves, and the other rests in an initial state.   *)
(***************************************************************************)
EXTENDS StatementFacade, TLC

CONSTANTS Stmts, MaxSessions

VARIABLES part,   \* which of the two moves: "facade" or "server"
          careful, conn, sess, nesting, stmt, doomed, orphan

Server == INSTANCE PreparedStatements

ASSUME StatementsAssumption == FacadeAssumption /\ Server!PreparedAssumption

ServerUnmoved == UNCHANGED <<driver, careful, conn, sess, nesting, stmt, doomed, orphan>>
FacadeUnmoved == UNCHANGED <<kind, driver, client, alive, h, st, rs, params, heap, taken, bound,
                             sent, threw>>

InitSideBySide ==
  /\ Init /\ Server!Init
  /\ \/ part = "facade" /\ careful
     \/ part = "server" /\ kind = "Query" /\ client = "any"

NextSideBySide ==
  \/ part = "facade" /\ Next /\ ServerUnmoved /\ UNCHANGED part
  \/ part = "server" /\ Server!Next /\ FacadeUnmoved /\ UNCHANGED part

SpecSideBySide == InitSideBySide /\ [][NextSideBySide]_<<part, vars, Server!vars>>

(* Values of parameters and the driver's statements are interchangeable.   *)
Symmetry == Permutations(Values) \cup Permutations(Stmts)

-----------------------------------------------------------------------------
(* The driver's statements are of their type; server and careful client       *)
(* agree on which there are; and whatever the client does, libmysqlclient    *)
(* and SQLite keep nothing of a statement whose object was made and is       *)
(* gone (pg/statement.cc:32-39, mysql/statement.cc:74-79).  What MySQL's     *)
(* constructor leaves when it throws is exempted.                           *)
ServerAgrees == Server!TypeOK /\ Server!ServerAgrees /\ Server!NoneLeftBehind

(* The library makes no transaction of a careful client fail                *)
(* (query.cc:103-108, pg/statement.cc:35-38).                              *)
LibraryHarmless == Server!LibraryHarmless

(* Connections that were closed or replaced are closed, save what SQLite      *)
(* keeps open for a client that is not careful, and the one of a             *)
(* Sqlite3Statement is open, for any client (sqlite3/handle.cc:162-170,      *)
(* pg/handle.cc:267-271, sqlite3/statement.cc:24-42).                       *)
OthersClosed == Server!OthersClosed /\ Server!Sqlite3Backed
=============================================================================
