------------------------- MODULE DriverTransactions -------------------------
(***************************************************************************)
(* The transaction methods of PgHandle, MySqlHandle and Sqlite3Handle.     *)
(* The three drivers have the same text, statement for statement, around   *)
(* their private counter tr_nesting; they differ in reconnect() and in     *)
(* what the server makes of the statements (SqlSession).                   *)
(*                                                                         *)
(* Each operator returns the set of outcomes of one call on a handle whose *)
(* counter is `nest' and whose session is s: res is "ok" when it returns   *)
(* true, "error" when it throws RuntimeError and "lost" when the           *)
(* connection is gone (ConnectionError; RuntimeError from sqlite3).        *)
(***************************************************************************)
EXTENDS SqlSession

Outcome == [res: {"ok", "error", "lost"}, nest: Int, s: Session]

(* A statement that leaves the counter alone when it fails.                *)
Counted(nest, after, replies) ==
  {[res |-> r.res, nest |-> IF r.res = "ok" THEN after ELSE nest, s |-> r.s] : r \in replies}

(* Variants, each the slip a rewrite of these methods could make: a result   *)
(* not checked, the counter not put back, the outermost level left without  *)
(* its savepoint, COMMIT sent at every level, RELEASE for ROLLBACK TO, and  *)
(* a reconnect refused inside a transaction as MySQL's is.                 *)
DriverCommitUnchecked(nest, s) ==
  {[res |-> "ok", nest |-> 0, s |-> r.s] : r \in SendCommit(s)}
DriverBeginNamedCounted(n, nest, s) ==
  LET opened == IF nest = 0 THEN Counted(0, 1, SendBegin(s))
                ELSE {[res |-> "ok", nest |-> nest, s |-> s]}
  IN  {o \in opened : o.res # "ok"}
      \cup UNION {Counted(o.nest, o.nest + 1, SendSavepoint(n, o.s))
                    : o \in {q \in opened : q.res = "ok"}}
DriverBeginNamedBare(n, nest, s) ==
  IF nest = 0 THEN Counted(0, 1, SendBegin(s))
  ELSE Counted(nest, nest + 1, SendSavepoint(n, s))
DriverCommitNamedAlways(n, nest, s) ==
  LET released == Counted(nest, nest - 1, SendRelease(n, s))
      done     == {o \in released : o.res = "ok"}
  IN  (released \ done) \cup UNION {Counted(o.nest, o.nest, SendCommit(o.s)) : o \in done}
DriverRollbackNamedReleases(n, nest, s) ==
  LET rewound == Counted(nest, nest - 1, SendRelease(n, s))
      last    == {o \in rewound : o.res = "ok" /\ o.nest = 0}
  IN  (rewound \ last) \cup UNION {Counted(0, 0, SendRollback(o.s)) : o \in last}
PgReconnectRefusing(nest, s) ==
  IF nest > 0 THEN {[res |-> "lost", nest |-> nest, s |-> s]} ELSE Counted(nest, nest, Reopen(s))

-----------------------------------------------------------------------------
DriverBegin(nest, s)    == Counted(nest, nest + 1, SendBegin(s))
DriverCommit(nest, s)   == Counted(nest, 0, SendCommit(s))
DriverRollback(nest, s) == Counted(nest, 0, SendRollback(s))

(* The first named level opens the transaction as well, and takes back the *)
(* increment of begin() only when that returned.                           *)
DriverBeginNamed(n, nest, s) ==
  LET opened == IF nest = 0 THEN Counted(0, 0, SendBegin(s))
                ELSE {[res |-> "ok", nest |-> nest, s |-> s]}
  IN  {o \in opened : o.res # "ok"}
      \cup UNION {Counted(o.nest, o.nest + 1, SendSavepoint(n, o.s))
                    : o \in {q \in opened : q.res = "ok"}}

(* The decrement precedes the COMMIT or ROLLBACK of the last level, so it   *)
(* stands when that statement throws.                                      *)
DriverCommitNamed(n, nest, s) ==
  LET released == Counted(nest, nest - 1, SendRelease(n, s))
      last     == {o \in released : o.res = "ok" /\ o.nest = 0}
  IN  (released \ last) \cup UNION {DriverCommit(0, o.s) : o \in last}

DriverRollbackNamed(n, nest, s) ==
  LET rewound == Counted(nest, nest - 1, SendRollbackTo(n, s))
      last    == {o \in rewound : o.res = "ok" /\ o.nest = 0}
  IN  (rewound \ last) \cup UNION {DriverRollback(0, o.s) : o \in last}

(* reconnect() never touches tr_nesting.  PQreset and the reopened SQLite   *)
(* file begin a new session even when the old one was alive; mysql_ping    *)
(* reconnects only a lost one, and only outside a transaction.  A PQreset   *)
(* that fails is tried once more outside a transaction, to the same two     *)
(* outcomes.                                                               *)
PgReconnect(nest, s)      == Counted(nest, nest, Reopen(s))
Sqlite3Reconnect(nest, s) == Counted(nest, nest, Reopen(s))
MySqlReconnect(nest, s)   ==
  IF nest > 0 THEN {[res |-> "lost", nest |-> nest, s |-> s]}
  ELSE Counted(nest, nest, Exchange(s, {Ok(Reached(s))}))

DriverReconnect(nest, s) ==
  IF s.driver = "mysql" THEN MySqlReconnect(nest, s)
  ELSE IF s.driver = "sqlite3" THEN Sqlite3Reconnect(nest, s)
  ELSE PgReconnect(nest, s)
=============================================================================
