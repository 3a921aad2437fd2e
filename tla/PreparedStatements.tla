-------------------------- MODULE PreparedStatements -------------------------
(***************************************************************************)
(* The driver's statements on the connections of one handle.  A statement  *)
(* is prepared on a session.  Every reconnection makes a session of its     *)
(* own, and the three drivers keep the way back to it differently: a        *)
(* PgStatement has a name on whatever session its handle has now, a        *)
(* MySqlStatement a MYSQL_STMT that libmysqlclient cuts loose when the      *)
(* session goes, a Sqlite3Statement the connection it was prepared on.     *)
(*                                                                         *)
(* A careful client destroys its statements before it closes or reopens    *)
(* the handle, destroys none inside a transaction that has failed, and     *)
(* gives a Query no new SQL inside a transaction.  Calls on a closed        *)
(* handle, which libmysqlclient gets as a null pointer, are left out, as    *)
(* are the executions that succeed: they leave all of this as it is.        *)
(***************************************************************************)
EXTENDS Naturals, FiniteSets

CONSTANTS Drivers,     \* "pg", "mysql", "sqlite3"
          Stmts,       \* the driver's statement objects
          MaxSessions  \* bound on the sessions of the handle

PreparedAssumption ==
  /\ Drivers \subseteq {"pg", "mysql", "sqlite3"}
  /\ MaxSessions \in Nat \ {0}

VARIABLES driver,
          careful,  \* whether the client is the careful one
          conn,     \* the session of the handle, Closed when conn is NULL
          sess,     \* what the server, or SQLite, knows of each session
          nesting,  \* tr_nesting, as far as zero or not
          stmt,     \* for each object, the session it was prepared on
          doomed,   \* whose statement made an open transaction fail
          orphan    \* a MYSQL_STMT is left that no object will close

made == <<driver, careful>>
vars == <<made, conn, sess, nesting, stmt, doomed, orphan>>

Sessions == 1..MaxSessions
Closed   == 0
Absent   == 0   \* stmt of an object that is not, or no longer, there

TypeOK ==
  /\ driver \in Drivers /\ careful \in BOOLEAN
  /\ conn \in Sessions \cup {Closed}
  /\ sess \in [Sessions -> [link: {"none", "up", "lost", "closed"},
                            names: SUBSET Stmts,
                            tx: {"idle", "open", "failed"}]]
  /\ nesting \in {0, 1}
  /\ stmt \in [Stmts -> Sessions \cup {Absent}]
  /\ doomed \in {"nobody", "client", "library"}
  /\ orphan \in BOOLEAN

Fresh(l) == [link |-> l, names |-> {}, tx |-> "idle"]

(* The constructor connects; a connection that fails throws.               *)
Init ==
  /\ driver \in Drivers /\ careful \in BOOLEAN
  /\ conn = 1
  /\ sess = [c \in Sessions |-> Fresh(IF c = 1 THEN "up" ELSE "none")]
  /\ nesting = 0
  /\ stmt = [s \in Stmts |-> Absent]
  /\ doomed = "nobody"
  /\ orphan = FALSE

-----------------------------------------------------------------------------
Up      == conn # Closed /\ sess[conn].link = "up"
Alive   == {s \in Stmts : stmt[s] # Absent}
Unused  == {c \in Sessions : sess[c].link = "none"}
Next1   == CHOOSE c \in Unused : \A d \in Unused : c <= d

(* An error inside a PostgreSQL transaction dooms it.                      *)
Failing(w) == [w EXCEPT !.tx = IF driver = "pg" /\ @ = "open" THEN "failed" ELSE @]
Blames(w, who) == doomed' = IF Failing(w).tx = w.tx THEN doomed ELSE who

(* libmysqlclient cuts every prepared statement loose when it loses or       *)
(* closes the session.                                                     *)
Lost(w) == [w EXCEPT !.link = "lost", !.names = {}, !.tx = "idle"]

(* The server takes the session down.                                      *)
Drop ==
  /\ Up /\ driver # "sqlite3"
  /\ sess' = [sess EXCEPT ![conn] = Lost(@)]
  /\ UNCHANGED <<made, conn, nesting, stmt, doomed, orphan>>

(* BEGIN, and COMMIT or ROLLBACK, that succeed.                            *)
Begin ==
  /\ Up /\ sess[conn].tx = "idle"
  /\ sess' = [sess EXCEPT ![conn].tx = "open"] /\ nesting' = 1
  /\ UNCHANGED <<made, conn, stmt, doomed, orphan>>

End ==
  /\ Up /\ sess[conn].tx # "idle"
  /\ sess' = [sess EXCEPT ![conn].tx = "idle"] /\ nesting' = 0 /\ doomed' = "nobody"
  /\ UNCHANGED <<made, conn, stmt, orphan>>

-----------------------------------------------------------------------------
(* prepare(sql).  On a handle that was closed libpq and SQLite report an    *)
(* error, libmysqlclient is called with a null pointer.                    *)
Prepare(s) ==
  /\ stmt[s] = Absent
  /\ Up /\ sess[conn].tx # "failed"
  /\ sess' = [sess EXCEPT ![conn].names = @ \cup {s}]
  /\ stmt' = [stmt EXCEPT ![s] = conn]
  /\ UNCHANGED <<made, conn, nesting, doomed, orphan>>

(* When the server refuses the SQL there is no object and no statement on   *)
(* the server; of the constructor that threw, MySQL's has made a            *)
(* MYSQL_STMT by then, which boom() does not close.                         *)
PrepareThrows ==
  /\ conn # Closed
  /\ sess' = [sess EXCEPT ![conn] = Failing(@)] /\ Blames(sess[conn], "client")
  /\ orphan' = (orphan \/ driver = "mysql")
  /\ UNCHANGED <<made, conn, nesting, stmt>>

(* The session on which a statement is executed: PgStatement holds a        *)
(* pointer to the handle's conn, the other two the conn they were made on.  *)
PgSession(s)    == conn
OwnSession(s)   == stmt[s]
SessionOf(s)    == IF driver = "pg" THEN PgSession(s) ELSE OwnSession(s)
ExecuteThrows(s) ==
  /\ s \in Alive
  /\ conn # Closed
  /\ sess' = [sess EXCEPT ![SessionOf(s)] = Failing(@)]
  /\ Blames(sess[SessionOf(s)], "client")
  /\ UNCHANGED <<made, conn, nesting, stmt, orphan>>

-----------------------------------------------------------------------------
(* cleanup() of each class.  PostgreSQL's DEALLOCATE is a statement like     *)
(* others: a failed transaction refuses it, and an unknown name is an       *)
(* error, which nobody looks at.                                           *)
PgForgetsRepeated(w, s) ==   \* cleanup() and the destructor both
  IF w.tx = "failed" \/ w.link # "up" THEN w ELSE Failing([w EXCEPT !.names = @ \ {s}])
PgForgets(w, s) ==
  IF w.tx = "failed" \/ w.link # "up" THEN w
  ELSE IF s \in w.names THEN [w EXCEPT !.names = @ \ {s}] ELSE Failing(w)

Closes(w, s)      == [w EXCEPT !.names = @ \ {s}]
Leaves(w, s)      == w
MySqlForgets(w, s)   == Closes(w, s)
Sqlite3Forgets(w, s) == Closes(w, s)
Forgets(w, s) == CASE driver = "pg"      -> PgForgets(w, s)
                   [] driver = "mysql"   -> MySqlForgets(w, s)
                   [] driver = "sqlite3" -> Sqlite3Forgets(w, s)

(* Deleting the statement: the destructor calls cleanup().                 *)
Destroy(s) ==
  /\ s \in Alive
  /\ careful /\ SessionOf(s) # Closed => sess[SessionOf(s)].tx # "failed"
  /\ IF SessionOf(s) = Closed
     THEN UNCHANGED <<sess, doomed>>
     ELSE /\ sess' = [sess EXCEPT ![SessionOf(s)] = Forgets(@, s)]
          /\ doomed' = IF sess'[SessionOf(s)].tx = sess[SessionOf(s)].tx THEN doomed ELSE "library"
  /\ stmt' = [stmt EXCEPT ![s] = Absent]
  /\ UNCHANGED <<made, conn, nesting, orphan>>

(* Query::operator<<: cleanup(), which the destructor calls again, and then  *)
(* prepare(), for which r is the new object.                               *)
ForgetsTwice(w, s) == IF driver = "pg" THEN Forgets(Forgets(w, s), s) ELSE Forgets(w, s)

QueryReprepare(s, r) ==
  /\ s \in Alive /\ stmt[s] = conn /\ stmt[r] = Absent /\ Up
  /\ careful => sess[conn].tx = "idle"
  /\ LET w == ForgetsTwice(sess[conn], s) IN
     /\ doomed' = IF w.tx = sess[conn].tx THEN doomed ELSE "library"
     /\ IF w.tx = "failed"
        THEN /\ sess' = [sess EXCEPT ![conn] = w]
             /\ stmt' = [stmt EXCEPT ![s] = Absent]
        ELSE /\ sess' = [sess EXCEPT ![conn] = [w EXCEPT !.names = @ \cup {r}]]
             /\ stmt' = [stmt EXCEPT ![s] = Absent, ![r] = conn]
  /\ UNCHANGED <<made, conn, nesting, orphan>>

-----------------------------------------------------------------------------
(* close(), and ~Handle.  sqlite3_close refuses while    *)
(* there are statements, and the code does not look at its answer.         *)
Abandoned(w)       == w
PgFinished(w)      == [w EXCEPT !.link = "closed", !.names = {}, !.tx = "idle"]
MySqlFinished(w)   == [w EXCEPT !.link = "closed", !.names = {}, !.tx = "idle"]
Sqlite3Closed(w)   == PgFinished(w)
Sqlite3Finished(w) == IF w.names = {} THEN PgFinished(w) ELSE w
Finished(w) == CASE driver = "pg"      -> PgFinished(w)
                 [] driver = "mysql"   -> MySqlFinished(w)
                 [] driver = "sqlite3" -> Sqlite3Finished(w)

Close ==
  /\ conn # Closed
  /\ careful => Alive = {}
  /\ sess' = [sess EXCEPT ![conn] = Finished(@)]
  /\ conn' = Closed
  /\ UNCHANGED <<made, nesting, stmt, doomed, orphan>>

(* reconnect().  PQreset replaces the session even when it is in order; a   *)
(* connection that stays bad is replaced outside transactions only.        *)
PgReconnect ==
  /\ driver = "pg" /\ conn # Closed /\ Unused # {}
  /\ \E l \in {"up", "lost"} :
       sess' = [sess EXCEPT ![conn] = PgFinished(@), ![Next1] = Fresh(l)]
  /\ conn' = Next1 /\ doomed' = "nobody"
  /\ UNCHANGED <<made, nesting, stmt, orphan>>

(* libmysqlclient reconnects a session that is lost, and otherwise does     *)
(* nothing: in mysql_ping, and before any other command.                   *)
MySqlReopens ==
  /\ driver = "mysql" /\ conn # Closed /\ ~Up /\ Unused # {}
  /\ sess' = [sess EXCEPT ![Next1] = Fresh("up")] /\ conn' = Next1
  /\ UNCHANGED <<made, nesting, stmt, doomed, orphan>>

MySqlReconnect == nesting = 0 /\ MySqlReopens

Sqlite3Reconnect ==
  /\ driver = "sqlite3" /\ Unused # {}
  /\ \E l \in {"up", "lost"} :
       sess' = [c \in Sessions |-> IF c = Next1 THEN Fresh(l)
                                   ELSE IF c = conn THEN Finished(sess[c]) ELSE sess[c]]
  /\ conn' = Next1
  /\ UNCHANGED <<made, nesting, stmt, doomed, orphan>>

Reconnect ==
  /\ careful => Alive = {}
  /\ PgReconnect \/ MySqlReconnect \/ Sqlite3Reconnect

Next ==
  \/ Drop \/ Begin \/ End
  \/ PrepareThrows
  \/ \E s \in Stmts : Prepare(s) \/ ExecuteThrows(s) \/ Destroy(s)
  \/ \E s, r \in Stmts : QueryReprepare(s, r)
  \/ Close \/ Reconnect \/ MySqlReopens

Spec == Init /\ [][Next]_vars

-----------------------------------------------------------------------------
(* The server has the statements a careful client has, and no others: none   *)
(* that the client would believe in is unknown, none is left behind when   *)
(* its object goes (pg/statement.cc:32-39, mysql/statement.cc:74-79).      *)
ServerAgrees ==
  careful /\ Up => sess[conn].names = {s \in Stmts : stmt[s] = conn}

(* Nothing the library sends on its own account makes a careful client's    *)
(* transaction fail (query.cc:103-108, pg/statement.cc:35-38).             *)
LibraryHarmless == careful => doomed # "library"

(* What was closed or replaced is closed: no session but the handle's is    *)
(* up.  Only in SQLite, by the statements of a client that is not careful,   *)
(* is a connection kept (sqlite3/handle.cc:162-170, pg/handle.cc:267-271). *)
OthersClosed ==
  \A c \in Sessions \ {conn} :
    sess[c].link = "up" => ~careful /\ driver = "sqlite3"

(* Whatever the client closes or reopens, a Sqlite3Statement keeps a         *)
(* connection that is open and knows it: sqlite3_close refuses, so the      *)
(* statement's own conn never dangles (sqlite3/statement.cc:24-42).         *)
Sqlite3Backed ==
  driver = "sqlite3" => \A s \in Alive : /\ sess[stmt[s]].link = "up"
                                         /\ s \in sess[stmt[s]].names

(* Whatever the client does, libmysqlclient and SQLite keep nothing of a     *)
(* statement whose object was made and is gone (mysql/statement.cc:74-79).  *)
(* PostgreSQL does: a failed transaction refuses DEALLOCATE.  Of an object  *)
(* that was never made, because its constructor threw, only MySQL leaves    *)
(* anything (mysql/statement.cc:12-22, sqlite3/statement.cc:4-15).           *)
NoneLeftBehind ==
  /\ driver # "pg" => \A c \in Sessions : \A s \in sess[c].names : stmt[s] = c
  /\ orphan => driver = "mysql"
=============================================================================
