------------------------ MODULE NestedTransactions --------------------------
(***************************************************************************)
(* dbi::Handle and its transactions.  The state of the code is trx, the    *)
(* facade's list of open named transactions, tr_nesting, the driver's      *)
(* counter, and srv, the server session.  The facade edits trx before it   *)
(* calls the driver, the driver edits tr_nesting after the server answers, *)
(* and nothing puts either back when an exception passes through: whether   *)
(* the three agree is what this module is about.                           *)
(*                                                                         *)
(* The client is the environment.  A careful one gives open scopes         *)
(* different names, closes its innermost scope first, and after an         *)
(* exception calls nothing but rollback() and reconnect() until rollback() *)
(* returns; one that is not careful carries on.  scopes, view, acked,      *)
(* undone, done and broken are what the client has been told, kept to      *)
(* state the properties.                                                   *)
(***************************************************************************)
EXTENDS DriverTransactions, Sequences, SequencesExt

CONSTANTS Drivers,        \* the drivers a handle may be opened with
          Careful,        \* whether the client is the careful one
          NoName,         \* the name of a scope opened by begin()
          MaxDepth,       \* bound on open scopes and on tr_nesting
          MaxSavepoints   \* bound on the server's savepoints

ASSUME ParametersAssumption ==
  /\ Drivers \subseteq Backends
  /\ Careful \in BOOLEAN
  /\ NoName \notin Names
  /\ MaxDepth \in Nat /\ MaxSavepoints \in Nat

VARIABLES trx,         \* Handle::trx
          tr_nesting,  \* PgHandle::tr_nesting and its like
          srv,         \* the session behind the driver's conn
          scopes,      \* scopes the client opened and has not closed
          view,        \* uncommitted work the client believes in
          acked,       \* work the client was told is committed
          undone,      \* work the client was told is rolled back
          done,        \* work ever sent
          broken       \* an exception not yet followed by a rollback()

vars == <<trx, tr_nesting, srv, scopes, view, acked, undone, done, broken>>

(* A scope remembers the view it was opened on.                            *)
Scope == [name: Names \cup {NoName}, base: SUBSET Work]

TypeOK ==
  /\ trx \in Seq(Names)
  /\ tr_nesting \in Int
  /\ srv \in Session
  /\ scopes \in Seq(Scope)
  /\ view \in SUBSET Work /\ acked \in SUBSET Work
  /\ undone \in SUBSET Work /\ done \in SUBSET Work
  /\ broken \in BOOLEAN

Init ==
  /\ trx = <<>> /\ tr_nesting = 0
  /\ srv \in {Connected(d) : d \in Drivers}
  /\ scopes = <<>> /\ view = {} /\ acked = {} /\ undone = {} /\ done = {}
  /\ broken = FALSE

-----------------------------------------------------------------------------
Usable     == ~(Careful /\ broken)
Open(n)    == \E i \in DOMAIN scopes : scopes[i].name = n
Pushed(n)  == Append(scopes, [name |-> n, base |-> view])
Popped     == IF scopes = <<>> THEN <<>> ELSE Front(scopes)
Outermost  == Len(scopes) <= 1
Finishing  == IF Careful THEN broken \/ scopes # <<>> ELSE TRUE

Took(o) == tr_nesting' = o.nest /\ srv' = o.s

(* What the client makes of an exception: work whose commit was under way   *)
(* when the connection went is neither kept nor undone for certain.        *)
Threw(o, committing) ==
  /\ broken' = TRUE
  /\ view' = IF committing /\ o.res = "lost" THEN {} ELSE view
  /\ UNCHANGED <<scopes, acked, undone>>

-----------------------------------------------------------------------------
(* A variant of Begin that lists unnamed transactions as well.             *)
BeginListed ==
  /\ Usable /\ Len(scopes) < MaxDepth
  /\ trx' = Append(trx, NoName)
  /\ \E o \in DriverBegin(tr_nesting, srv) : Took(o)
  /\ UNCHANGED <<scopes, view, undone, acked, done, broken>>

(* A begin() that throws has changed nothing the client must clean up.     *)
Begin ==
  /\ Usable /\ (Careful => scopes = <<>>)
  /\ Len(scopes) < MaxDepth /\ tr_nesting < MaxDepth
  /\ \E o \in DriverBegin(tr_nesting, srv) :
       /\ Took(o)
       /\ IF o.res = "ok"
          THEN /\ scopes' = <<[name |-> NoName, base |-> {}]>>
               /\ undone' = undone \cup view /\ view' = {}
          ELSE UNCHANGED <<scopes, undone, view>>
  /\ UNCHANGED <<trx, acked, done, broken>>

Commit ==
  /\ Usable /\ Finishing
  /\ trx' = <<>>
  /\ \E o \in DriverCommit(tr_nesting, srv) :
       /\ Took(o)
       /\ IF o.res = "ok"
          THEN /\ acked' = acked \cup view
               /\ view' = {} /\ scopes' = <<>> /\ broken' = FALSE
               /\ UNCHANGED undone
          ELSE Threw(o, TRUE)
  /\ UNCHANGED done

Rollback ==
  /\ Finishing
  /\ trx' = <<>>
  /\ \E o \in DriverRollback(tr_nesting, srv) :
       /\ Took(o)
       /\ IF o.res = "ok"
          THEN /\ undone' = undone \cup view
               /\ view' = {} /\ scopes' = <<>> /\ broken' = FALSE
               /\ UNCHANGED acked
          ELSE Threw(o, FALSE)
  /\ UNCHANGED done

BeginNamed(n) ==
  /\ Usable /\ (Careful => ~Open(n))
  /\ Len(scopes) < MaxDepth /\ Len(trx) < MaxDepth /\ tr_nesting < MaxDepth
  /\ srv.clock < MaxSavepoints
  /\ trx' = Append(trx, n)
  /\ \E o \in DriverBeginNamed(n, tr_nesting, srv) :
       /\ Took(o)
       /\ IF o.res = "ok"
          THEN scopes' = Pushed(n) /\ UNCHANGED <<view, acked, undone, broken>>
          ELSE Threw(o, FALSE)
  /\ UNCHANGED done

(* list::pop_back on an empty list is undefined, so no client may get here *)
(* with trx empty.                                                         *)
CommitNamed(n) ==
  /\ Usable /\ trx # <<>>
  /\ Careful => scopes # <<>> /\ Last(scopes).name = n
  /\ trx' = Front(trx)
  /\ \E o \in DriverCommitNamed(n, tr_nesting, srv) :
       /\ Took(o)
       /\ IF o.res = "ok"
          THEN /\ acked' = IF Outermost THEN acked \cup view ELSE acked
               /\ view' = IF Outermost THEN {} ELSE view
               /\ scopes' = Popped
               /\ UNCHANGED <<undone, broken>>
          ELSE Threw(o, Outermost)
  /\ UNCHANGED done

RollbackNamed(n) ==
  /\ Usable /\ trx # <<>>
  /\ Careful => scopes # <<>> /\ Last(scopes).name = n
  /\ trx' = Front(trx)
  /\ \E o \in DriverRollbackNamed(n, tr_nesting, srv) :
       /\ Took(o)
       /\ IF o.res = "ok"
          THEN LET kept == IF Outermost THEN {} ELSE Last(scopes).base
               IN  /\ undone' = undone \cup (view \ kept)
                   /\ view' = kept
                   /\ scopes' = Popped
                   /\ UNCHANGED <<acked, broken>>
          ELSE Threw(o, FALSE)
  /\ UNCHANGED done

(* execute() outside any scope commits by itself.                          *)
Execute(w) ==
  /\ Usable /\ w \notin done
  /\ \E r \in SendWork(w, srv) :
       /\ srv' = r.s
       /\ IF r.res = "ok"
          THEN /\ view' = IF scopes = <<>> THEN view ELSE view \cup {w}
               /\ acked' = IF scopes = <<>> THEN acked \cup {w} ELSE acked
               /\ UNCHANGED broken
          ELSE broken' = (broken \/ scopes # <<>>) /\ UNCHANGED <<view, acked>>
  /\ done' = done \cup {w}
  /\ UNCHANGED <<trx, tr_nesting, scopes, undone>>

Reconnect ==
  /\ Careful => broken \/ scopes = <<>>
  /\ \E o \in DriverReconnect(tr_nesting, srv) : Took(o)
  /\ UNCHANGED <<trx, scopes, view, acked, undone, done, broken>>

(* The connection is lost between two calls.                               *)
Drop ==
  /\ "drop" \in Faults /\ srv.driver # "sqlite3" /\ srv.link = "up"
  /\ srv' = Cut(srv, srv)
  /\ UNCHANGED <<trx, tr_nesting, scopes, view, acked, undone, done, broken>>

Next ==
  \/ Begin \/ Commit \/ Rollback
  \/ \E n \in Names : BeginNamed(n) \/ CommitNamed(n) \/ RollbackNamed(n)
  \/ \E w \in Work : Execute(w)
  \/ Reconnect \/ Drop

Spec == Init /\ [][Next]_vars

(* A client that has caught an exception goes on calling rollback() and     *)
(* reconnect(), and the network does not defeat every attempt.             *)
Retry     == broken /\ Rollback
Recovered == broken /\ Rollback /\ ~broken'
Relinked  == Reconnect /\ srv'.link = "up"
FairSpec  == Spec /\ WF_vars(Retry) /\ SF_vars(Recovered) /\ SF_vars(Relinked)

-----------------------------------------------------------------------------
(* begin() only ever opens the first scope, so the named ones are the rest. *)
Plain      == scopes # <<>> /\ scopes[1].name = NoName
NamesOf(q) == [i \in DOMAIN q |-> q[i].name]
OpenNames  == IF Plain THEN NamesOf(Tail(scopes)) ELSE NamesOf(scopes)

(* What commit() or the outermost commit(name) reported as committed is in  *)
(* the database, whatever failed before and whatever fails after.          *)
PromisesKept == acked \subseteq srv.durable

(* What rollback() or rollback(name) reported as undone never reaches the   *)
(* database, not even with a later commit of an enclosing scope.           *)
UndoneStaysUndone == undone \cap srv.durable = {}

(* Until something throws, the facade's list, the driver's counter and the  *)
(* server agree with the scopes the client has open: the counter that       *)
(* decides whether commit(name) also sends COMMIT is the number of scopes,  *)
(* and the server is inside a transaction exactly when there is one.       *)
InStep ==
  ~broken =>
    /\ tr_nesting = Len(scopes)
    /\ trx = OpenNames
    /\ srv.link = "up" =>
         /\ srv.blk = IF scopes = <<>> THEN "idle" ELSE "open"
         /\ srv.pending = view

(* Each open named scope is backed by the server's youngest savepoint of    *)
(* its name, taken on what the scope started from and in nesting order, so  *)
(* RELEASE and ROLLBACK TO act on that scope and no other.                 *)
Backing(i) == Youngest(scopes[i].name, srv)
ScopesBacked ==
  ~broken /\ srv.link = "up" =>
    \A i, j \in DOMAIN scopes :
      scopes[i].name # NoName /\ scopes[j].name # NoName =>
        /\ \E p \in Backing(i) : p.mark = scopes[i].base
        /\ i < j => \A p \in Backing(i), q \in Backing(j) : p.age < q.age

(* Handle::transactions() lists the scopes that are open (handle.h says "a  *)
(* list of transactions in the transaction stack").                        *)
TransactionsListed == trx = OpenNames

(* A driver that counts itself inside a transaction on a live connection   *)
(* is inside one: the loss of a connection within a transaction is not      *)
(* papered over by a new session that commits statement by statement.      *)
TransactionHeld == tr_nesting > 0 /\ srv.link = "up" => InTx(srv)

(* A client that keeps calling rollback() and reconnect() after an          *)
(* exception gets back to a handle on which rollback() has returned.       *)
Recovers == broken ~> ~broken

-----------------------------------------------------------------------------
(* The promise to the client as a machine of its own: the scopes hold back  *)
(* the work, closing the last one makes all of it durable at once, and an   *)
(* exception stands for the whole transaction being given up.              *)
Scopes == INSTANCE TransactionScopes WITH
            stack   <- IF broken THEN <<>> ELSE [i \in DOMAIN scopes |-> scopes[i].base],
            work    <- IF broken THEN {} ELSE view,
            durable <- srv.durable

(* Every step of Handle, driver and server is a step of that machine: none  *)
(* makes part of a transaction durable, or work of a scope rolled back.    *)
ImplementsScopes == Scopes!Spec
=============================================================================
