----------------------------- MODULE SqlSession -----------------------------
(***************************************************************************)
(* What a driver talks to: one server session together with the client     *)
(* library that carries statements to it (libpq, libmysqlclient, sqlite3). *)
(* None of this is code of the repository.  It is modelled from how the    *)
(* drivers use it: the six statements their transaction methods send, the  *)
(* reply each gets, and the ways in which no reply comes back.             *)
(*                                                                         *)
(* A session is a value and a statement is an operator that returns the    *)
(* set of replies the server may give, so that a driver method that sends  *)
(* two statements chains two of them within one step.                      *)
(***************************************************************************)
EXTENDS Integers, FiniteSets

CONSTANTS Names,    \* savepoint names
          Work,     \* units of work, each an INSERT that can be told apart
          Faults    \* what may go wrong, a subset of FaultKinds

(* "error": the server may refuse a statement it could have executed;      *)
(* "abort": a refusal that ends the whole transaction (a MySQL deadlock, a  *)
(*          SQLite statement that rolls back on conflict);                 *)
(* "drop":  the connection may be lost, or a file fail to open.            *)
FaultKinds == {"error", "abort", "drop"}

ASSUME FaultsAssumption == Faults \subseteq FaultKinds

Backends == {"postgresql", "mysql", "sqlite3"}

(* link: "down" is a lost connection; "retry" is libmysqlclient having     *)
(* reported the loss once, after which MYSQL_OPT_RECONNECT lets the next   *)
(* command reconnect.  blk: "failed" is PostgreSQL refusing everything     *)
(* until the end of the transaction, "bare" a SQLite transaction that a    *)
(* SAVEPOINT opened without BEGIN.  A savepoint's mark is the work that    *)
(* was pending when it was taken.                                          *)
Savepoint == [name: Names, age: Nat, mark: SUBSET Work]
Session   == [driver:  Backends,
              link:    {"up", "down", "retry"},
              blk:     {"idle", "open", "failed", "bare"},
              saves:   SUBSET Savepoint,
              clock:   Nat,
              pending: SUBSET Work,
              durable: SUBSET Work]
Reply     == [res: {"ok", "error", "lost"}, s: Session]

Connected(d) ==
  [driver |-> d, link |-> "up", blk |-> "idle", saves |-> {}, clock |-> 0,
   pending |-> {}, durable |-> {}]

When(c, S) == IF c THEN S ELSE {}
Ok(s)      == [res |-> "ok",    s |-> s]
Refused(s) == [res |-> "error", s |-> s]
Lost(s)    == [res |-> "lost",  s |-> s]

InTx(s)      == s.blk # "idle"
Ended(s)     == [s EXCEPT !.blk = "idle", !.saves = {}, !.clock = 0, !.pending = {}]
Committed(s) == [Ended(s) EXCEPT !.durable = s.durable \cup s.pending]
(* PostgreSQL dooms a transaction one of whose statements is refused.      *)
Doomed(s)    == IF s.driver = "postgresql" /\ s.blk = "open"
                THEN [s EXCEPT !.blk = "failed"] ELSE s

-----------------------------------------------------------------------------
(* The statements, on a live link.                                         *)

BeginStmt(s) ==
  IF ~InTx(s) THEN {Ok([s EXCEPT !.blk = "open"])}
  ELSE IF s.driver = "mysql" THEN {Ok([Committed(s) EXCEPT !.blk = "open"])}
  ELSE IF s.driver = "postgresql" /\ s.blk = "open" THEN {Ok(s)}
  ELSE {Refused(s)}

CommitStmt(s) ==
  IF s.blk = "idle" THEN {IF s.driver = "sqlite3" THEN Refused(s) ELSE Ok(s)}
  ELSE IF s.blk = "failed" THEN {Ok(Ended(s))}
  ELSE {Ok(Committed(s))}
       \cup When("error" \in Faults /\ s.driver = "postgresql", {Refused(Ended(s))})
       \cup When("error" \in Faults /\ s.driver = "sqlite3", {Refused(s)})
       \cup When("abort" \in Faults /\ s.driver # "postgresql", {Refused(Ended(s))})

RollbackStmt(s) ==
  {IF s.blk = "idle" /\ s.driver = "sqlite3" THEN Refused(s) ELSE Ok(Ended(s))}

Marked(n, s) ==
  LET older == IF s.driver = "mysql" THEN {o \in s.saves : o.name # n} ELSE s.saves
  IN  [s EXCEPT !.saves = older \cup {[name |-> n, age |-> s.clock, mark |-> s.pending]},
                !.clock = s.clock + 1]

SavepointStmt(n, s) ==
  IF s.blk = "idle" THEN
       {IF s.driver = "sqlite3" THEN Ok([Marked(n, s) EXCEPT !.blk = "bare"])
        ELSE IF s.driver = "mysql" THEN Ok(s) ELSE Refused(s)}
  ELSE IF s.blk = "failed" THEN {Refused(s)}
  ELSE {Ok(Marked(n, s))} \cup When("error" \in Faults, {Refused(Doomed(s))})

(* RELEASE and ROLLBACK TO find the youngest savepoint of the name: the     *)
(* first drops it with every later one, the second keeps it.               *)
Youngest(n, s) ==
  {p \in s.saves : p.name = n /\ \A o \in s.saves : o.name = n => o.age <= p.age}

Released(p, s) == [s EXCEPT !.saves = {o \in s.saves : o.age < p.age}, !.clock = p.age]
Rewound(p, s)  == [s EXCEPT !.saves = {o \in s.saves : o.age <= p.age},
                            !.clock = p.age + 1, !.pending = p.mark,
                            !.blk = IF s.blk = "failed" THEN "open" ELSE s.blk]

ReleaseStmt(n, s) ==
  IF s.blk \in {"idle", "failed"} \/ Youngest(n, s) = {} THEN {Refused(Doomed(s))}
  ELSE UNION {IF s.blk = "bare" /\ Released(p, s).saves = {}
              THEN CommitStmt(s) ELSE {Ok(Released(p, s))} : p \in Youngest(n, s)}

RollbackToStmt(n, s) ==
  IF s.blk = "idle" \/ Youngest(n, s) = {} THEN {Refused(Doomed(s))}
  ELSE {Ok(Rewound(p, s)) : p \in Youngest(n, s)}

WorkStmt(w, s) ==
  IF s.blk = "failed" THEN {Refused(s)}
  ELSE {Ok(IF InTx(s) THEN [s EXCEPT !.pending = s.pending \cup {w}]
                      ELSE [s EXCEPT !.durable = s.durable \cup {w}])}
       \cup When("error" \in Faults, {Refused(Doomed(s))})
       \cup When("abort" \in Faults /\ InTx(s) /\ s.driver # "postgresql", {Refused(Ended(s))})

-----------------------------------------------------------------------------
(* The link.  A connection lost after the server executed a statement and   *)
(* before its reply came back looks to the client like one lost before.     *)
(* libmysqlclient reports the loss of a transaction once and reconnects on  *)
(* the command after; outside a transaction it reconnects at once.          *)

Cut(before, s) ==
  [Ended(s) EXCEPT !.link = IF s.driver = "mysql" /\ ~InTx(before) THEN "retry" ELSE "down"]

(* The session a statement meets when it is sent.                          *)
Reached(s) == IF s.link = "retry" THEN [s EXCEPT !.link = "up"] ELSE s

(* What comes back for a statement whose replies at Reached(s) are given.  *)
Exchange(s, replies) ==
  IF s.link = "down"
  THEN {Lost([s EXCEPT !.link = IF s.driver = "mysql" THEN "retry" ELSE "down"])}
  ELSE replies
       \cup When(s.link = "retry", {Lost(s)})
       \cup When("drop" \in Faults /\ s.driver # "sqlite3",
                 {Lost(Cut(s, t)) : t \in {s} \cup {r.s : r \in replies}})

SendBegin(s)         == Exchange(s, BeginStmt(Reached(s)))
SendCommit(s)        == Exchange(s, CommitStmt(Reached(s)))
SendRollback(s)      == Exchange(s, RollbackStmt(Reached(s)))
SendSavepoint(n, s)  == Exchange(s, SavepointStmt(n, Reached(s)))
SendRelease(n, s)    == Exchange(s, ReleaseStmt(n, Reached(s)))
SendRollbackTo(n, s) == Exchange(s, RollbackToStmt(n, Reached(s)))
SendWork(w, s)       == Exchange(s, WorkStmt(w, Reached(s)))

(* A new session in place of this one, or the failure to get one.          *)
Reopen(s) ==
  {Ok([Ended(s) EXCEPT !.link = "up"])}
  \cup When("drop" \in Faults, {Lost([Ended(s) EXCEPT !.link = "down"])})
=============================================================================
