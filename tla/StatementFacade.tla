--------------------------- MODULE StatementFacade ---------------------------
(***************************************************************************)
(* One Statement or Query of a program.  The object owns the driver's      *)
(* statement st points at and, when it is a Query, the driver's result rs  *)
(* points at, and collects parameters until an execution sends them.       *)
(* Query is a Statement whose execute(), finish(), cleanup() and << are    *)
(* its own.  Objects on the heap are model values; what a driver does with *)
(* the parameters it is given differs by driver (Delivered).               *)
(*                                                                         *)
(* An orderly client calls nothing that needs a statement without one,     *)
(* and binds as many values as there are placeholders.  A careful one also  *)
(* clears the parameters of a Statement with finish() after an execution   *)
(* that threw; a Query has no call that clears them, so it executes that   *)
(* Query no more with bound parameters.                                    *)
(***************************************************************************)
EXTENDS Naturals, Sequences

CONSTANTS Kinds,    \* "Statement", "Query"
          Drivers,  \* "pg", "mysql", "sqlite3"
          Objects,  \* driver statements and results
          NULL,     \* the null pointer
          Values,   \* values of parameters
          Wants,    \* placeholders of the SQL
          MaxParams, \* bound on the parameters an object collects
          Clients   \* "any", "orderly", "careful"

FacadeAssumption ==
  /\ Kinds \subseteq {"Statement", "Query"}
  /\ Drivers \subseteq {"pg", "mysql", "sqlite3"}
  /\ NULL \notin Objects
  /\ Wants \in Nat /\ MaxParams \in Nat
  /\ Clients \subseteq {"any", "orderly", "careful"}

VARIABLES kind, driver,
          client,  \* the discipline of the client
          alive,   \* "unborn", "alive", "gone", or how the program ended
          h,       \* the handle pointer: "set", "null" or "wild", never written
          st, rs,  \* the two owning pointers
          params,  \* the parameters collected
          heap,    \* what has become of each object
          taken,   \* results handed to the client by result()
          bound,   \* what the client bound for its next execution
          sent,    \* whether the last execution sent what was bound for it
          threw    \* an execution threw and its parameters are still there

made == <<kind, driver, client>>
vars == <<made, alive, h, st, rs, params, heap, taken, bound, sent, threw>>

Careful == client = "careful"
Orderly == client \in {"orderly", "careful"}

Pointers == Objects \cup {NULL}
Lists    == UNION {[1..n -> Values] : n \in 0..MaxParams}

TypeOK ==
  /\ kind \in Kinds /\ driver \in Drivers /\ client \in Clients
  /\ alive \in {"unborn", "alive", "gone", "crashed", "astray"}
  /\ h \in {"set", "null", "wild"}
  /\ st \in Pointers /\ rs \in Pointers
  /\ params \in Lists /\ bound \in Lists
  /\ heap \in [Objects -> {"unborn", "live", "deleted", "left", "again", "twice"}]
  /\ taken \subseteq Objects
  /\ sent \in BOOLEAN
  /\ threw \in BOOLEAN

Init ==
  /\ kind \in Kinds /\ driver \in Drivers /\ client \in Clients
  /\ alive = "unborn" /\ h = "wild"
  /\ st = NULL /\ rs = NULL
  /\ params = <<>> /\ bound = <<>>
  /\ heap = [o \in Objects |-> "unborn"]
  /\ taken = {}
  /\ sent = TRUE
  /\ threw = FALSE

-----------------------------------------------------------------------------
(* Deleting an object; one that a << that threw has left is deleted again.   *)
(* And an object that new has just returned.                               *)
AfterDelete(x)  == IF x = "live" THEN "deleted"
                   ELSE IF x \in {"left", "again"} THEN "again" ELSE "twice"
Deleted(hp, o)  == IF o = NULL THEN hp ELSE [hp EXCEPT ![o] = AfterDelete(@)]
Born(hp, o)     == [hp EXCEPT ![o] = "live"]
Unborn          == {o \in Objects : heap[o] = "unborn"}
New             == {CHOOSE o \in Unborn : TRUE : u \in Unborn}   \* if any

(* << threw after it had deleted the old statement.                        *)
Broken == st # NULL /\ heap[st] # "live"

(* The object is usable: the rest of an orderly client's calls need st.     *)
Usable == alive = "alive" /\ st # NULL /\ ~Broken

(* What the server executes with, given the parameters p.  PostgreSQL and   *)
(* SQLite refuse a number other than that of the placeholders; MySQL takes *)
(* as many as there are placeholders from the front of the array, and runs *)
(* past its end when there are fewer.                                      *)
PgAccepts(p)      == Len(p) = Wants
MySqlAccepts(p)   == Len(p) >= Wants
Sqlite3Accepts(p) == Len(p) = Wants
Accepts(p)        == CASE driver = "pg"      -> PgAccepts(p)
                       [] driver = "mysql"   -> MySqlAccepts(p)
                       [] driver = "sqlite3" -> Sqlite3Accepts(p)
Delivered(p)      == SubSeq(p, 1, Wants)

-----------------------------------------------------------------------------
(* The constructors: Statement(), Statement(Handle), Statement(Handle, sql) *)
(* and, for Handle::prepare, Statement(AbstractStatement), which leaves h   *)
(* as it found it; Query(Handle, sql), which sets rs before anything else,  *)
(* and in the variant leaves it as it finds it.  When prepare throws there *)
(* is no object.                                                           *)
ResultUnset == "wild"
ResultNull  == NULL

ConstructEmpty ==
  /\ alive = "unborn" /\ kind = "Statement"
  /\ h' \in {"null", "set"} /\ alive' = "alive"
  /\ UNCHANGED <<made, st, rs, params, heap, taken, bound, sent, threw>>

ConstructPrepared ==
  /\ alive = "unborn"
  /\ \E o \in New : st' = o /\ heap' = Born(heap, o)
  /\ rs' = ResultNull /\ h' = "set" /\ alive' = "alive"
  /\ UNCHANGED <<made, params, taken, bound, sent, threw>>

ConstructFromDriver ==
  /\ alive = "unborn" /\ kind = "Statement"
  /\ \E o \in New : st' = o /\ heap' = Born(heap, o)
  /\ alive' = "alive"
  /\ UNCHANGED <<made, h, rs, params, taken, bound, sent, threw>>

(* bind(), and the operators , and % of every type of value.               *)
Collected(v) == Append(params, v)

Bind(v) ==
  /\ alive = "alive" /\ Len(params) < MaxParams /\ Len(bound) < MaxParams
  /\ Orderly => Len(bound) < Wants
  /\ Careful => ~threw
  /\ params' = Collected(v) /\ bound' = Append(bound, v)
  /\ UNCHANGED <<made, alive, h, st, rs, heap, taken, sent, threw>>

(* Query::finish() deletes the result; execute() and cleanup() of a Query   *)
(* begin with it.  A Statement has no result.  Two variants: the result is  *)
(* forgotten without being deleted, or deleted and not forgotten.          *)
WithoutResultLeaked(hp) == hp
WithoutResult(hp)       == IF kind = "Query" THEN Deleted(hp, rs) ELSE hp
ResultKept              == rs
ResultGone              == IF kind = "Query" THEN NULL ELSE rs

(* A driver's execute that returns; a Query takes the result there and then.*)
Ran(asked, list) ==
  /\ Usable /\ Accepts(list)
  /\ sent' = (Delivered(list) = asked)
  /\ IF kind = "Query"
     THEN \E o \in New : rs' = o /\ heap' = Born(WithoutResult(heap), o)
     ELSE UNCHANGED <<rs, heap>>
  /\ UNCHANGED <<made, alive, h, st, taken>>

(* execute(): the parameters are dropped once the driver has returned, and  *)
(* in the variant not even then.                                           *)
ParamsKept == params
ParamsSent == <<>>

Execute ==
  /\ Orderly => Len(bound) = Wants
  /\ Careful => ~threw
  /\ Ran(bound, params)
  /\ params' = ParamsSent /\ bound' = <<>> /\ threw' = FALSE

(* execute(list) leaves the collected parameters alone.                    *)
ExecuteWith(list) ==
  /\ Len(list) = Wants
  /\ Ran(list, list)
  /\ UNCHANGED <<params, bound, threw>>

(* execute() that throws, for a refused number of parameters or any other   *)
(* reason: a Query has deleted its result by then, nobody drops the list.  *)
ExecuteThrows ==
  /\ Usable
  /\ Orderly => Len(bound) = Wants
  /\ Careful => ~threw
  /\ heap' = WithoutResult(heap) /\ rs' = ResultGone
  /\ bound' = <<>> /\ threw' = (params # <<>>)
  /\ UNCHANGED <<made, alive, h, st, params, taken, sent>>

(* Statement::finish() drops the parameters, and so does its <<; those of a *)
(* Query do not.                                                           *)
ParamsDropped ==
  IF kind = "Statement" THEN params' = <<>> /\ bound' = <<>> /\ threw' = FALSE
                        ELSE UNCHANGED <<params, bound, threw>>

Finish ==
  /\ alive = "alive" /\ (kind = "Query" \/ ~Broken)
  /\ ParamsDropped
  /\ heap' = WithoutResult(heap) /\ rs' = ResultGone
  /\ UNCHANGED <<made, alive, h, st, taken, sent>>

(* cleanup(); in the variant the pointer is not reset.                     *)
PointerKept  == st
PointerReset == NULL

Cleanup ==
  /\ alive = "alive"
  /\ heap' = Deleted(WithoutResult(heap), st)
  /\ st' = PointerReset /\ rs' = ResultGone
  /\ UNCHANGED <<made, alive, h, params, taken, bound, sent, threw>>

(* operator<<.  A Statement drops its parameters and asks for a handle      *)
(* first, a Query does neither.  The old statement is deleted before the   *)
(* new one is prepared: when prepare throws, st still points at it.        *)
Reprepare ==
  /\ alive = "alive" /\ h = "set"
  /\ ParamsDropped
  /\ \E o \in New : st' = o /\ heap' = Born(Deleted(heap, st), o)
  /\ UNCHANGED <<made, alive, h, rs, taken, sent>>

ReprepareThrows ==
  /\ alive = "alive" /\ h = "set"
  /\ ParamsDropped
  /\ heap' = IF st = NULL THEN heap
             ELSE [Deleted(heap, st) EXCEPT ![st] = IF @ = "deleted" THEN "left" ELSE @]
  /\ UNCHANGED <<made, alive, h, st, rs, taken, sent>>

(* Without a handle << throws.  When h was never written it may be taken    *)
(* for a handle, which is called.                                          *)
ReprepareRefused ==
  /\ alive = "alive" /\ h # "set"
  /\ ParamsDropped
  /\ UNCHANGED <<made, alive, h, st, rs, heap, taken, sent>>

ReprepareWild ==
  /\ alive = "alive" /\ h = "wild" /\ ~Orderly
  /\ alive' = "astray"
  /\ UNCHANGED <<made, h, st, rs, params, heap, taken, bound, sent, threw>>

(* Calls without a statement, or with fewer values than MySQL reads.       *)
Misuse ==
  /\ alive = "alive" /\ ~Orderly
  /\ \/ ~Usable
     \/ driver = "mysql" /\ Len(params) < Wants
  /\ alive' = "crashed"
  /\ UNCHANGED <<made, h, st, rs, params, heap, taken, bound, sent, threw>>

(* Statement::result(): a new result, which the client deletes.            *)
TakeResult ==
  /\ Usable
  /\ \E o \in New : heap' = Born(heap, o) /\ taken' = taken \cup {o}
  /\ UNCHANGED <<made, alive, h, st, rs, params, bound, sent, threw>>

DropResult ==
  /\ \E o \in taken : heap' = Deleted(heap, o) /\ taken' = taken \ {o}
  /\ UNCHANGED <<made, alive, h, st, rs, params, bound, sent, threw>>

(* The destructors: cleanup(), and of a Query once more by each base class, *)
(* which finds both pointers reset.                                        *)
Destroy ==
  /\ alive = "alive"
  /\ heap' = Deleted(WithoutResult(heap), st)
  /\ st' = NULL /\ rs' = NULL
  /\ params' = <<>> /\ bound' = <<>> /\ threw' = FALSE
  /\ alive' = "gone"
  /\ UNCHANGED <<made, h, taken, sent>>

Next ==
  \/ ConstructEmpty \/ ConstructPrepared \/ ConstructFromDriver
  \/ \E v \in Values : Bind(v)
  \/ Execute \/ ExecuteThrows
  \/ \E list \in Lists : ExecuteWith(list)
  \/ Finish \/ Cleanup
  \/ Reprepare \/ ReprepareThrows \/ ReprepareRefused \/ ReprepareWild
  \/ TakeResult \/ DropResult
  \/ Destroy \/ Misuse

Spec == Init /\ [][Next]_vars

-----------------------------------------------------------------------------
(* A pointer of the object is null or points at a live object nobody else   *)
(* owns, and each object is deleted once, by cleanup(), << or a destructor, *)
(* whatever the client does, save the statement that a << that threw left   *)
(* behind (statement.cc:39-48 and 104-106, query.cc:15-28 and 103-108).     *)
OwnsOne ==
  /\ st # NULL => heap[st] \in {"live", "left", "again"} /\ st \notin taken \cup {rs}
  /\ rs # NULL => heap[rs] = "live" /\ rs \notin taken
  /\ \A o \in Objects : heap[o] # "twice"

(* Nothing is lost: what is live is in the hands of the object or of the    *)
(* client, so a destroyed object leaves only the results it handed out      *)
(* (statement.cc:39-48, query.cc:15-28).                                   *)
NothingLeaks == {o \in Objects : heap[o] = "live"} \subseteq {st, rs} \cup taken

(* An execution of a careful client sends the values bound for it and no    *)
(* others, also after one that threw (statement.cc:126-132,                *)
(* query.cc:75-83).                                                        *)
SentAsBound == Careful => sent
==============================================================================
