----------------------------- MODULE AsyncResults ----------------------------
(***************************************************************************)
(* aexecute(), retrieve() and cancel() of a handle.  aexecute() sends a     *)
(* query and returns a result object that knows the connection but not the  *)
(* query: retrieve() polls the connection until it is not busy and takes    *)
(* whatever result comes next.  wire is what was sent and not yet read, the *)
(* entry 0 being what write() leaves: a finished command whose end nobody   *)
(* has read.                                                               *)
(*                                                                         *)
(* An orderly client retrieves each result once, and makes no other call    *)
(* that runs SQL while one is waiting; a second aexecute() it does try on   *)
(* PostgreSQL, which refuses it.                                           *)
(***************************************************************************)
EXTENDS Naturals, Sequences

CONSTANTS Drivers,  \* "pg", "mysql"; SQLite's aexecute only throws
          Queries,  \* result objects, by the number of their query
          Answers   \* of "rows", "no_rows", "error"

AsyncAssumption ==
  /\ Drivers \subseteq {"pg", "mysql"}
  /\ Queries \subseteq Nat \ {0}
  /\ Answers \subseteq {"rows", "no_rows", "error"}

VARIABLES driver,
          setting,  \* whether the client is orderly, calls write(), sends
                    \* only queries with rows; whether the connection may be lost
          up,       \* the connection has not been lost
          wire,     \* commands whose results have not been read, oldest first
          state,    \* of each result object
          holds,    \* the query whose result the object has
          caller,   \* the object whose retrieve() runs, or NoCall
          crashed   \* a null MYSQL_RES was read

made == <<driver, setting>>
vars == <<made, up, wire, state, holds, caller, crashed>>

NoCall   == 0
Leftover == 0

Settings == [orderly: BOOLEAN, writes: BOOLEAN, selects: BOOLEAN, lossy: BOOLEAN]

TypeOK ==
  /\ setting \in Settings
  /\ driver \in Drivers /\ up \in BOOLEAN /\ crashed \in BOOLEAN
  /\ wire \in Seq([of: Queries \cup {Leftover}, answer: Answers \cup {"none_yet", "end"}])
  /\ state \in [Queries -> {"unsent", "waiting", "refused", "retrieving", "ready", "threw"}]
  /\ holds \in [Queries -> Queries \cup {NoCall}]
  /\ caller \in Queries \cup {NoCall}

Init ==
  /\ setting \in Settings
  /\ driver \in Drivers /\ up = TRUE /\ wire = <<>>
  /\ state = [q \in Queries |-> "unsent"] /\ holds = [q \in Queries |-> NoCall]
  /\ caller = NoCall /\ crashed = FALSE

Waiting == {q \in Queries : state[q] = "waiting"}
Free    == caller = NoCall /\ ~crashed

-----------------------------------------------------------------------------
(* The server answers its oldest query; the connection is lost.              *)
Answer ==
  /\ up /\ wire # <<>> /\ Head(wire).answer = "none_yet"
  /\ \E a \in Answers \ (IF setting.selects THEN {"no_rows"} ELSE {}) :
       wire' = [wire EXCEPT ![1].answer = a]
  /\ UNCHANGED <<made, up, state, holds, caller, crashed>>

Lose ==
  /\ setting.lossy /\ up /\ up' = FALSE
  /\ UNCHANGED <<made, wire, state, holds, caller, crashed>>

(* PQsendQuery takes no command before the end of the last has been read.    *)
Accepted == TRUE
PgIdle   == wire = <<>>

Sent(q)    == [of |-> q, answer |-> "none_yet"]
Becomes(q, st) == state' = [state EXCEPT ![q] = st]

(* aexecute(): a PQsendQuery that fails throws.                             *)
PgSend(q) ==
  /\ driver = "pg"
  /\ \/ PgIdle /\ wire' = <<Sent(q)>> /\ Becomes(q, "waiting")
     \/ (~PgIdle \/ ~up) /\ UNCHANGED wire /\ Becomes(q, "refused")

(* mysql_send_query's answer is ignored; it drops what has arrived and was    *)
(* not read, which is at most the oldest answer.                           *)
Unanswered == IF wire # <<>> /\ Head(wire).answer # "none_yet" THEN Tail(wire) ELSE wire

MySqlSend(q) ==
  /\ driver = "mysql" /\ (setting.orderly => wire = <<>>)
  /\ wire' = Append(Unanswered, Sent(q))
  /\ Becomes(q, "waiting")

Aexecute(q) ==
  /\ Free /\ state[q] = "unsent"
  /\ \A p \in Queries : p < q => state[p] # "unsent"
  /\ PgSend(q) \/ MySqlSend(q)
  /\ UNCHANGED <<made, up, holds, caller, crashed>>

(* execute(), begin() and all else that goes through PQexec: the results of   *)
(* an earlier command are read, and dropped.                                *)
PgExecute ==
  /\ Free /\ driver = "pg" /\ wire # <<>>
  /\ (setting.orderly => Waiting = {})
  /\ Head(wire).answer # "none_yet" \/ ~up
  /\ wire' = <<>>
  /\ UNCHANGED <<made, up, state, holds, caller, crashed>>

(* write(): _pgexecDirect, the copy, and PQgetResult once.                   *)
PgWrite ==
  /\ setting.writes /\ Free /\ driver = "pg" /\ up
  /\ (setting.orderly => Waiting = {})
  /\ wire # <<>> => Head(wire).answer # "none_yet"
  /\ wire' = <<[of |-> Leftover, answer |-> "end"]>>
  /\ UNCHANGED <<made, up, state, holds, caller, crashed>>

(* cancel(): PostgreSQL's server ends the query with an error, if it has not   *)
(* ended yet.  MySQL's returns true and does nothing.                       *)
PgCancel ==
  /\ Free /\ driver = "pg" /\ up
  /\ wire # <<>> /\ Head(wire).answer = "none_yet"
  /\ wire' = IF "error" \in Answers THEN [wire EXCEPT ![1].answer = "error"] ELSE wire
  /\ UNCHANGED <<made, up, state, holds, caller, crashed>>

-----------------------------------------------------------------------------
(* retrieve(): polls consumeResult() while it is true, then prepareResult().  *)
Retrieve(q) ==
  /\ Free
  /\ state[q] \in (IF setting.orderly THEN {"waiting"} ELSE {"waiting", "ready", "threw"})
  /\ caller' = q /\ Becomes(q, "retrieving")
  /\ UNCHANGED <<made, up, wire, holds, crashed>>

Ends(st) == Becomes(caller, st) /\ caller' = NoCall

(* PQisBusy: a query was sent and its answer has not come.  Nothing else ends *)
(* this; that PQconsumeInput fails on a lost connection is not looked at.    *)
BusyToTheEnd == wire # <<>>
PgBusy       == wire # <<>> /\ Head(wire).answer = "none_yet"

OneResult   == IF wire = <<>> THEN <<>> ELSE <<[of |-> Leftover, answer |-> "end"]>>
Drained     == <<>>

PgPrepare ==
  /\ caller # NoCall /\ driver = "pg" /\ ~PgBusy
  /\ wire' = Drained
  /\ IF wire = <<>> \/ (wire # <<>> /\ Head(wire).answer \in {"error", "end"})
     THEN Ends("threw") /\ UNCHANGED holds
     ELSE Ends("ready") /\ holds' = [holds EXCEPT ![caller] = Head(wire).of]
  /\ UNCHANGED <<made, up, crashed>>

(* mysql_read_query_result waits for the next answer, or fails.  A statement   *)
(* without rows has a null result, whose rows fetchMeta counts.             *)
NoErrors == {}
Errors   == {"error"}
Failing  == IF wire = <<>> THEN ~up
            ELSE Head(wire).answer \in Errors \/ (Head(wire).answer = "none_yet" /\ ~up)
Arrived  == wire # <<>> /\ Head(wire).answer # "none_yet"

MySqlPrepare ==
  /\ caller # NoCall /\ driver = "mysql"
  /\ Failing \/ Arrived
  /\ wire' = IF wire = <<>> THEN wire ELSE Tail(wire)
  /\ IF Failing
     THEN Ends("threw") /\ UNCHANGED <<holds, crashed>>
     ELSE /\ Ends("ready") /\ holds' = [holds EXCEPT ![caller] = Head(wire).of]
          /\ crashed' = (Head(wire).answer # "rows")
  /\ UNCHANGED <<made, up>>

Next ==
  \/ Answer \/ Lose
  \/ \E q \in Queries : Aexecute(q) \/ Retrieve(q)
  \/ PgExecute \/ PgWrite \/ PgCancel
  \/ PgPrepare \/ MySqlPrepare

(* The server answers what it was sent, and retrieve() goes on polling.       *)
Fairness == WF_vars(Answer) /\ WF_vars(PgPrepare) /\ WF_vars(MySqlPrepare)

Spec == Init /\ [][Next]_vars /\ Fairness

-----------------------------------------------------------------------------
(* The result an object of an orderly client has is that of the query it was *)
(* made for (pg/result.cc:66-73, mysql/result.cc:130-146).                  *)
OwnAnswer == setting.orderly => \A q \in Queries : state[q] = "ready" => holds[q] = q

(* Every retrieve() of an orderly client returns or throws, with MySQL also   *)
(* when the connection is lost (result.cc:82-87, mysql/result.cc:130-146).  *)
Retrieved ==
  \A q \in Queries :
    (state[q] = "retrieving" /\ setting.orderly /\ (driver = "mysql" \/ ~setting.lossy))
      ~> state[q] # "retrieving"

(* A client that does not call write() has an aexecute() refused only while   *)
(* the answer to another is outstanding, or the connection is lost          *)
(* (pg/handle.cc:173-197).                                                  *)
RefusedWhenBusy ==
  [][\A q \in Queries :
       state[q] = "unsent" /\ state'[q] = "refused" /\ ~setting.writes => Waiting # {} \/ ~up]_vars

(* prepareResult() of an orderly client that only makes queries with rows has *)
(* a result to read, or throws (mysql/result.cc:138-143).                   *)
ResultThere == setting.orderly /\ setting.selects => ~crashed
=============================================================================
