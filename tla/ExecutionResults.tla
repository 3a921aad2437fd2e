--------------------------- MODULE ExecutionResults --------------------------
(***************************************************************************)
(* execute() and result() of the three handles.  execute() leaves the       *)
(* result of the query in a slot, _result; result() makes an object of what *)
(* is in the slot and empties it.  The drivers differ in when the slot is   *)
(* emptied: before the query is sent (MySQL), when the next one has         *)
(* succeeded (the others), by every other command (PostgreSQL), by the      *)
(* commands that go through execute (MySQL), by none (SQLite).              *)
(*                                                                         *)
(* A prompt client calls result() only as the next call after an execute()  *)
(* that returned.                                                          *)
(***************************************************************************)
EXTENDS Naturals

CONSTANTS Drivers,  \* "pg", "mysql", "sqlite3"
          MaxCalls, \* bound on the queries, and so on their results
          MaxRows,  \* bound on the rows a query returns or changes
          Word,     \* how many numbers a uint32_t holds
          Selects   \* the queries that return rows; the others change some

ResultsAssumption ==
  /\ Drivers \subseteq {"pg", "mysql", "sqlite3"}
  /\ MaxCalls \in Nat \ {0} /\ MaxRows \in Nat \ {0}
  /\ Word \in Nat /\ MaxRows + 1 < Word

VARIABLES driver,
          prompt,   \* whether the client is the prompt one
          calls,    \* queries made so far; a query's number names it
          rowsOf,   \* for each query, the rows it returned or changed
          place,    \* where the result of each query is
          connRows, \* mysql_affected_rows(conn)
          asked,    \* the last query the client made by execute()
          fresh,    \* the last call was an execute() that returned
          answer,   \* what the last result() made: its query, and its rows()
          open      \* close() has not been called

made == <<driver, prompt>>
vars == <<made, calls, rowsOf, place, connRows, asked, fresh, answer, open>>

Queries == 1..MaxCalls
Counts  == 0..MaxRows
NoQuery == 0

(* (my_ulonglong) -1 in a uint32_t: what a command that did not end with a   *)
(* count leaves on a MySQL connection.  POSITIVE_OR_ZERO compares unsigned   *)
(* numbers and lets it pass.                                               *)
NoCount == Word - 1
Counted == Counts \cup {NoCount}

TypeOK ==
  /\ driver \in Drivers /\ prompt \in BOOLEAN
  /\ calls \in 0..MaxCalls
  /\ rowsOf \in [Queries -> Counts]
  /\ place \in [Queries -> {"nowhere", "slot", "handed", "freed", "freed twice"}]
  /\ connRows \in Counted
  /\ asked \in 0..calls
  /\ fresh \in BOOLEAN
  /\ answer \in [of: 0..calls, asked: 0..calls, rows: Counted]
  /\ open \in BOOLEAN

Init ==
  /\ driver \in Drivers /\ prompt \in BOOLEAN
  /\ calls = 0 /\ rowsOf = [q \in Queries |-> 0]
  /\ place = [q \in Queries |-> "nowhere"]
  /\ connRows = 0 /\ asked = NoQuery /\ fresh = FALSE
  /\ answer = [of |-> NoQuery, asked |-> NoQuery, rows |-> 0]
  /\ open = TRUE

-----------------------------------------------------------------------------
Slot == {q \in Queries : place[q] = "slot"}

Free(p, Q) == [q \in Queries |-> IF q \notin Q THEN p[q]
                                 ELSE IF p[q] = "freed" THEN "freed twice" ELSE "freed"]
Put(p, q)  == [p EXCEPT ![q] = "slot"]

(* The query q has succeeded: the slot's result is freed, q's is put in.     *)
FirstKept(p, q)    == IF Slot = {} THEN Put(p, q) ELSE p
PgKeeps(p, q)      == Put(Free(p, Slot), q)
MySqlKeeps(p, q)   == Put(Free(p, Slot), q)
Sqlite3Keeps(p, q) == Put(Free(p, Slot), q)
Keeps(p, q) == CASE driver = "pg"      -> PgKeeps(p, q)
                 [] driver = "mysql"   -> MySqlKeeps(p, q)
                 [] driver = "sqlite3" -> Sqlite3Keeps(p, q)

(* The query has failed, and execute() throws.                             *)
KeepsOld(p)       == p
PgKeepsOld(p)     == KeepsOld(p)
MySqlFreesFirst(p) == Free(p, Slot)
Sqlite3KeepsOld(p) == KeepsOld(p)
AfterError(p) == CASE driver = "pg"      -> PgKeepsOld(p)
                   [] driver = "mysql"   -> MySqlFreesFirst(p)
                   [] driver = "sqlite3" -> Sqlite3KeepsOld(p)

(* begin(), commit() and the rest of what is not a query of the client:      *)
(* _pgexecDirect, MySqlHandle::execute, Sqlite3Handle::_execute.            *)
PgDirect(p)     == Free(p, Slot)
MySqlDirect(p)  == Free(p, Slot)
Sqlite3Direct(p) == p
AfterDirect(p) == CASE driver = "pg"      -> PgDirect(p)
                    [] driver = "mysql"   -> MySqlDirect(p)
                    [] driver = "sqlite3" -> Sqlite3Direct(p)

Called(returned) ==
  /\ open /\ calls < MaxCalls
  /\ calls' = calls + 1 /\ asked' = calls + 1 /\ fresh' = returned
  /\ UNCHANGED <<made, answer, open>>

(* execute(sql) and execute(sql, bind).                                    *)
Execute(n) ==
  /\ Called(TRUE)
  /\ rowsOf' = [rowsOf EXCEPT ![calls + 1] = n]
  /\ place' = Keeps(place, calls + 1)
  /\ connRows' = n

ExecuteThrows ==
  /\ Called(FALSE)
  /\ place' = AfterError(place)
  /\ connRows' = NoCount
  /\ UNCHANGED rowsOf

(* Whether it succeeds or not: the slot is emptied before it is sent.        *)
Direct ==
  /\ open
  /\ place' = AfterDirect(place)
  /\ connRows' \in {0, NoCount} /\ fresh' = FALSE
  /\ UNCHANGED <<made, calls, rowsOf, asked, answer, open>>

(* A prepared statement is executed on the connection: its results are its   *)
(* own, the slot stays as it is.  An execution that throws leaves no count,  *)
(* and neither do prepare() and the deletion of a statement.                *)
StatementExecute(n) ==
  /\ open
  /\ connRows' = n /\ fresh' = FALSE
  /\ UNCHANGED <<made, calls, rowsOf, place, asked, answer, open>>

(* write(): PostgreSQL keeps the result of COPY, as it would a query's.  A    *)
(* write() that throws has emptied PostgreSQL's slot and no other.          *)
Write(n) ==
  /\ open /\ fresh' = FALSE
  /\ IF driver = "pg"
     THEN /\ calls < MaxCalls /\ calls' = calls + 1
          /\ rowsOf' = [rowsOf EXCEPT ![calls + 1] = n]
          /\ place' = Put(PgDirect(place), calls + 1)
     ELSE UNCHANGED <<calls, rowsOf, place>>
  /\ connRows' = n
  /\ UNCHANGED <<made, asked, answer, open>>

WriteThrows ==
  /\ open /\ fresh' = FALSE
  /\ place' = IF driver = "pg" THEN PgDirect(place) ELSE place
  /\ connRows' = NoCount
  /\ UNCHANGED <<made, calls, rowsOf, asked, answer, open>>

-----------------------------------------------------------------------------
(* rows() of the result of query q, as its object is made.  MySqlResult      *)
(* asks the connection for the affected rows, and prefers them to the rows   *)
(* of the MYSQL_RES, which only a query that returns rows has.              *)
PgRows(q)      == rowsOf[q]
Stored(q)      == IF q \in Selects THEN rowsOf[q] ELSE 0
BothCounts(q)  == connRows + Stored(q)
MySqlRows(q)   == IF open /\ connRows > 0 THEN connRows ELSE Stored(q)
RowsBefore(q)  == rowsOf[IF q > 1 THEN q - 1 ELSE q]
Sqlite3Rows(q) == rowsOf[q]
RowsSaid(q) == CASE driver = "pg"      -> PgRows(q)
                 [] driver = "mysql"   -> MySqlRows(q)
                 [] driver = "sqlite3" -> Sqlite3Rows(q)

HandCopy(p, q) == p
HandOver(p, q) == [p EXCEPT ![q] = "handed"]

(* result().  With an empty slot the PostgreSQL and SQLite handles return    *)
(* NULL, which the facade's Result refuses to use; MySqlHandle makes an      *)
(* object without rows, whose rows() is what the connection counts.         *)
Result ==
  /\ prompt => fresh
  /\ \E q \in Slot :
       /\ answer' = [of |-> q, asked |-> asked, rows |-> RowsSaid(q)]
       /\ place' = HandOver(place, q)
  /\ fresh' = FALSE
  /\ UNCHANGED <<made, calls, rowsOf, connRows, asked, open>>

ResultOfNone ==
  /\ prompt => fresh
  /\ driver = "mysql" /\ open /\ Slot = {}
  /\ answer' = [of |-> NoQuery, asked |-> asked, rows |-> connRows]
  /\ fresh' = FALSE
  /\ UNCHANGED <<made, calls, rowsOf, place, connRows, asked, open>>

(* The client deletes a result it was handed.                               *)
DeleteResult(q) ==
  /\ place[q] = "handed"
  /\ place' = Free(place, {q})
  /\ fresh' = FALSE
  /\ UNCHANGED <<made, calls, rowsOf, connRows, asked, answer, open>>

(* close(): MySQL's is cleanup(), the others leave the slot to ~Handle.       *)
Close ==
  /\ open /\ open' = FALSE
  /\ place' = IF driver = "mysql" THEN Free(place, Slot) ELSE place
  /\ fresh' = FALSE
  /\ UNCHANGED <<made, calls, rowsOf, connRows, asked, answer>>

(* ~Handle.                                                                *)
DestroyHandle ==
  /\ open' = FALSE /\ place' = Free(place, Slot) /\ fresh' = FALSE
  /\ UNCHANGED <<made, calls, rowsOf, connRows, asked, answer>>

Next ==
  \/ \E n \in Counts : Execute(n) \/ Write(n)
  \/ \E n \in Counted : StatementExecute(n)
  \/ ExecuteThrows \/ Direct \/ WriteThrows
  \/ Result \/ ResultOfNone \/ (\E q \in Queries : DeleteResult(q))
  \/ Close \/ DestroyHandle

Spec == Init /\ [][Next]_vars

-----------------------------------------------------------------------------
(* Every result has one owner: the slot holds one at most, none is handed    *)
(* out and then freed by the handle, none is freed twice                    *)
(* (pg/handle.cc:82-112, mysql/handle.cc:93-138, sqlite3/handle.cc:40-68).  *)
OneOwner ==
  /\ \A p, q \in Slot : p = q
  /\ \A q \in Queries : place[q] # "freed twice"
  /\ answer.of \notin Slot

(* The result a prompt client gets is that of the query it made last, and    *)
(* its rows() is the number of rows of that query (pg/handle.cc:107-112,     *)
(* mysql/handle.cc:132-138, mysql/result.cc:10-21, pg/result.cc:49-52).      *)
(* Another client may get an older result, and on MySQL the count of another *)
(* command, or NoCount.                                                    *)
LatestHanded ==
  prompt => /\ answer.of = answer.asked
            /\ answer.of # NoQuery => answer.rows = rowsOf[answer.of]
=============================================================================
