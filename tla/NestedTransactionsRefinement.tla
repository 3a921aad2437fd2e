------------------- MODULE NestedTransactionsRefinement --------------------
(***************************************************************************)
(* NestedTransactions implements TransactionScopes: each step of handle,   *)
(* driver and server is a step of the machine of scopes, or none, for any   *)
(* names, work, faults, drivers and bounds and a careful client.           *)
(***************************************************************************)
EXTENDS NestedTransactionsProofs

(* The mapping of Scopes, with the scopes as a parameter.                  *)
Bases(q) == [i \in DOMAIN q |-> q[i].base]

LEMMA BasesOfSeq ==
  ASSUME NEW q \in Seq(Scope)
  PROVE  /\ Bases(q) \in Seq(SUBSET Work) /\ Len(Bases(q)) = Len(q)
         /\ \A i \in 1 .. Len(q) : Bases(q)[i] = q[i].base
         /\ Bases(q) = <<>> <=> q = <<>>
<1>1. Len(q) \in Nat /\ DOMAIN q = 1 .. Len(q) /\ \A i \in DOMAIN q : q[i].base \in SUBSET Work
  BY ScopeAt
<1>2. Bases(q) \in [1 .. Len(q) -> SUBSET Work]
  BY <1>1 DEF Bases
<1>3. Bases(q) \in Seq(SUBSET Work)
  BY <1>1, <1>2, SeqDef
<1>4. Len(Bases(q)) = Len(q)
  <2>1. Len(Bases(q)) \in Nat /\ 1 .. Len(Bases(q)) = 1 .. Len(q)
    BY <1>2, <1>3, LenProperties
  <2> QED BY <1>1, <2>1
<1>5. \A i \in 1 .. Len(q) : Bases(q)[i] = q[i].base
  BY <1>1 DEF Bases
<1>6. (Bases(q) = <<>> <=> Len(Bases(q)) = 0) /\ (q = <<>> <=> Len(q) = 0)
  BY <1>3, EmptySeq
<1> QED BY <1>3, <1>4, <1>5, <1>6

LEMMA BasesOfEmpty == Bases(<<>>) = <<>>
  BY BasesOfSeq, EmptySeq

LEMMA BasesOfAppend ==
  ASSUME NEW q \in Seq(Scope), NEW e \in Scope
  PROVE  Bases(Append(q, e)) = Append(Bases(q), e.base)
<1> DEFINE u == Append(q, e)
           l == Bases(u)
           r == Append(Bases(q), e.base)
<1>1. /\ u \in Seq(Scope) /\ Len(u) = Len(q) + 1 /\ Len(q) \in Nat
      /\ \A i \in 1 .. Len(q) : u[i] = q[i]
      /\ u[Len(q) + 1] = e
  BY ScopeAt, AppendProperties
<1>2. e.base \in SUBSET Work
  BY DEF Scope
<1>3. /\ Bases(q) \in Seq(SUBSET Work) /\ Len(Bases(q)) = Len(q)
      /\ \A i \in 1 .. Len(q) : Bases(q)[i] = q[i].base
  BY BasesOfSeq
<1>4. /\ r \in Seq(SUBSET Work) /\ Len(r) = Len(q) + 1
      /\ \A i \in 1 .. Len(q) : r[i] = q[i].base
      /\ r[Len(q) + 1] = e.base
  BY <1>2, <1>3, AppendProperties
<1> HIDE DEF u
<1>5. /\ l \in Seq(SUBSET Work) /\ Len(l) = Len(q) + 1
      /\ \A i \in 1 .. Len(q) + 1 : l[i] = u[i].base
  BY <1>1, BasesOfSeq
<1> HIDE DEF l, r
<1>6. \A i \in 1 .. Len(q) + 1 : i \in 1 .. Len(q) \/ i = Len(q) + 1
  BY <1>1
<1>7. \A i \in 1 .. Len(l) : l[i] = r[i]
  BY <1>1, <1>4, <1>5, <1>6
<1>8. l = r
  BY <1>4, <1>5, <1>7, SeqEqual
<1> QED BY <1>8 DEF l, r, u

LEMMA BasesOfFront ==
  ASSUME NEW q \in Seq(Scope), q # <<>>
  PROVE  Bases(Front(q)) = SubSeq(Bases(q), 1, Len(Bases(q)) - 1)
<1> DEFINE n == Bases(q)
           l == Bases(Front(q))
           r == Front(n)
<1>1. /\ Front(q) \in Seq(Scope) /\ Len(Front(q)) = Len(q) - 1 /\ Len(q) \in Nat \ {0}
      /\ \A i \in 1 .. Len(q) - 1 : Front(q)[i] = q[i]
  BY FrontOfSeq
<1>2. /\ n \in Seq(SUBSET Work) /\ Len(n) = Len(q) /\ n # <<>>
      /\ \A i \in 1 .. Len(q) : n[i] = q[i].base
  BY BasesOfSeq
<1> HIDE DEF n
<1>3. r \in Seq(SUBSET Work) /\ Len(r) = Len(q) - 1 /\ \A i \in 1 .. Len(q) - 1 : r[i] = n[i]
  BY <1>2, FrontOfSeq
<1>4. /\ l \in Seq(SUBSET Work) /\ Len(l) = Len(q) - 1
      /\ \A i \in 1 .. Len(q) - 1 : l[i] = Front(q)[i].base
  BY <1>1, BasesOfSeq
<1> HIDE DEF l, r
<1>5. \A i \in 1 .. Len(q) - 1 : i \in 1 .. Len(q)
  BY <1>1
<1>6. \A i \in 1 .. Len(l) : l[i] = r[i]
  BY <1>1, <1>2, <1>3, <1>4, <1>5
<1>7. l = r
  BY <1>3, <1>4, <1>6, SeqEqual
<1>8. r = SubSeq(n, 1, Len(n) - 1)
  BY DEF r, Front
<1> QED BY <1>7, <1>8 DEF l, n

-----------------------------------------------------------------------------
(* How the steps of the code look from the scopes.                         *)

(* The transaction is over, or given up, with nothing made durable.        *)
LEMMA SeenAsAbandon ==
  ASSUME broken' \/ (scopes' = <<>> /\ view' = {}), srv'.durable = srv.durable
  PROVE  Scopes!Next
<1>1. Scopes!Abandon
  BY BasesOfEmpty DEF Scopes!Abandon, Bases
<1> QED BY <1>1 DEF Scopes!Next

(* The transaction is over with all of its work made durable, whether or    *)
(* not the client got to know.                                             *)
LEMMA SeenAsCommit ==
  ASSUME ~broken, broken' \/ (scopes' = <<>> /\ view' = {}),
         srv'.durable = srv.durable \cup view
  PROVE  Scopes!Next
<1>1. Scopes!CommitAll
  BY BasesOfEmpty DEF Scopes!CommitAll, Bases
<1> QED BY <1>1 DEF Scopes!Next

LEMMA SeenAsOpen ==
  ASSUME ~broken, ~broken', scopes \in Seq(Scope), NEW e \in Scope, e.base = view,
         scopes' = Append(scopes, e), view' = view, srv'.durable = srv.durable
  PROVE  Scopes!Next
<1>1. Bases(scopes') = Append(Bases(scopes), view)
  BY BasesOfAppend
<1>2. Scopes!Open
  BY <1>1 DEF Scopes!Open, Bases
<1> QED BY <1>2 DEF Scopes!Next

(* An inner scope closed, its work kept or undone.                         *)
LEMMA SeenAsClose ==
  ASSUME ~broken, ~broken', scopes \in Seq(Scope), scopes # <<>>, Len(scopes) # 1,
         scopes' = Front(scopes), view' = view \/ view' = Last(scopes).base,
         srv'.durable = srv.durable
  PROVE  Scopes!Next
<1> DEFINE b == Bases(scopes)
<1>1. /\ Len(b) = Len(scopes) /\ Len(scopes) \in Nat \ {0} /\ Last(scopes) = scopes[Len(scopes)]
      /\ Bases(scopes') = SubSeq(b, 1, Len(b) - 1)
  BY BasesOfSeq, BasesOfFront, FrontOfSeq
<1>2. Len(b) > 1 /\ b[Len(b)] = Last(scopes).base
  <2>1. \A k \in Nat \ {0} : k # 1 => k > 1 /\ k \in 1 .. k
    OBVIOUS
  <2> QED BY <1>1, <2>1, BasesOfSeq
<1>3. view' = view => Scopes!Close
  BY <1>1, <1>2 DEF Scopes!Close, Bases
<1>4. view' = Last(scopes).base => Scopes!Undo
  BY <1>1, <1>2 DEF Scopes!Undo, Bases
<1> QED BY <1>3, <1>4 DEF Scopes!Next

LEMMA SeenAsWrite ==
  ASSUME ~broken, ~broken', scopes \in Seq(Scope), scopes' = scopes, NEW w \in Work,
         \/ scopes # <<>> /\ view' = view \cup {w} /\ srv'.durable = srv.durable
         \/ scopes = <<>> /\ srv'.durable = srv.durable \cup {w} /\ view' = view
  PROVE  Scopes!Next
<1>1. Bases(scopes) = <<>> <=> scopes = <<>>
  BY BasesOfSeq
<1>2. Scopes!Write(w)
  BY <1>1 DEF Scopes!Write, Bases
<1> QED BY <1>2 DEF Scopes!Next

LEMMA SeenAsNothing ==
  ASSUME broken' = broken, scopes' = scopes, view' = view, srv'.durable = srv.durable
  PROVE  UNCHANGED Scopes!svars
  BY DEF Scopes!svars

-----------------------------------------------------------------------------
ScopesStep == Scopes!Next \/ UNCHANGED Scopes!svars

LEMMA BeginSeen == Careful /\ IInv /\ Begin => ScopesStep
<1> SUFFICES ASSUME Careful, IInv, Begin PROVE ScopesStep
  OBVIOUS
<1>1. /\ ~broken /\ broken' = broken /\ scopes = <<>> /\ view = {} /\ tr_nesting = 0
      /\ srv \in Session /\ WellFormed(srv) /\ srv.blk = "idle" /\ scopes \in Seq(Scope)
  BY NoScopeHeld DEF Begin, Usable, IInv, Held, TypeOK
<1>2. PICK o \in DriverBegin(0, srv) :
        /\ srv' = o.s
        /\ IF o.res = "ok"
           THEN scopes' = <<[name |-> NoName, base |-> {}]>> /\ view' = {}
           ELSE UNCHANGED <<scopes, undone, view>>
  BY <1>1 DEF Begin, Took
<1>3. srv'.durable = srv.durable
  BY <1>1, <1>2, DriverBeginLeaves
<1>4. CASE o.res = "ok"
  <2> DEFINE e == [name |-> NoName, base |-> {}]
  <2>1. e \in Scope /\ e.base = view
    BY <1>1 DEF Scope
  <2>2. scopes' = Append(scopes, e)
    <3>1. Append(<<>>, e) = <<e>>
      OBVIOUS
    <3> QED BY <1>1, <1>2, <1>4, <3>1
  <2> HIDE DEF e
  <2>3. view' = view
    BY <1>1, <1>2, <1>4
  <2> QED BY <1>1, <1>3, <2>1, <2>2, <2>3, SeenAsOpen DEF ScopesStep
<1>5. CASE o.res # "ok"
  BY <1>1, <1>2, <1>3, <1>5, SeenAsNothing DEF ScopesStep
<1> QED BY <1>4, <1>5

LEMMA CommitSeen == Careful /\ IInv /\ Commit => ScopesStep
<1> SUFFICES ASSUME Careful, IInv, Commit PROVE ScopesStep
  OBVIOUS
<1>1. /\ ~broken /\ scopes # <<>> /\ srv \in Session /\ WellFormed(srv)
      /\ InScope(srv) /\ (srv.link = "up" => srv.pending = view)
  BY DEF Commit, Usable, Finishing, IInv, Held, TypeOK
<1>2. PICK o \in DriverCommit(tr_nesting, srv) :
        srv' = o.s /\ (broken' \/ (scopes' = <<>> /\ view' = {}))
  BY DEF Commit, Took, Threw
<1>3. srv'.durable = srv.durable \/ srv'.durable = srv.durable \cup srv.pending
  BY <1>1, <1>2, DriverCommitLeaves
<1>4. srv.pending = view \/ srv.durable \cup srv.pending = srv.durable
  BY <1>1 DEF InScope, WellFormed
<1>5. srv'.durable = srv.durable \/ srv'.durable = srv.durable \cup view
  BY <1>3, <1>4
<1> QED BY <1>1, <1>2, <1>5, SeenAsAbandon, SeenAsCommit DEF ScopesStep

LEMMA RollbackSeen == Careful /\ IInv /\ Rollback => ScopesStep
<1> SUFFICES ASSUME Careful, IInv, Rollback PROVE ScopesStep
  OBVIOUS
<1>1. srv \in Session /\ WellFormed(srv)
  BY DEF IInv, TypeOK
<1>2. PICK o \in DriverRollback(tr_nesting, srv) :
        srv' = o.s /\ (broken' \/ (scopes' = <<>> /\ view' = {}))
  BY DEF Rollback, Took, Threw
<1>3. srv'.durable = srv.durable
  BY <1>1, <1>2, DriverRollbackLeaves
<1> QED BY <1>2, <1>3, SeenAsAbandon DEF ScopesStep

LEMMA BeginNamedSeen ==
  ASSUME Careful, IInv, NEW n \in Names, BeginNamed(n)
  PROVE  ScopesStep
<1>1. ~broken
  BY DEF BeginNamed, Usable
<1>2. /\ srv \in Session /\ WellFormed(srv) /\ scopes \in Seq(Scope)
      /\ tr_nesting \in Nat /\ (tr_nesting = 0 <=> scopes = <<>>)
      /\ scopes = <<>> => srv.blk = "idle"
      /\ scopes # <<>> => InScope(srv)
  BY <1>1, ScopeFacts
<1>3. PICK o \in DriverBeginNamed(n, tr_nesting, srv) :
        srv' = o.s /\ (broken' \/ (scopes' = Pushed(n) /\ view' = view))
  BY DEF BeginNamed, Took, Threw
<1>4. srv'.durable = srv.durable
  BY <1>2, <1>3, DriverBeginNamedLeaves
<1>5. CASE broken'
  BY <1>4, <1>5, SeenAsAbandon DEF ScopesStep
<1>6. CASE ~broken'
  <2> DEFINE e == [name |-> n, base |-> view]
  <2>1. e \in Scope /\ e.base = view /\ scopes' = Append(scopes, e) /\ view' = view
    BY <1>3, <1>6 DEF Pushed, Scope, IInv, TypeOK
  <2> HIDE DEF e
  <2> QED BY <1>1, <1>2, <1>4, <1>6, <2>1, SeenAsOpen DEF ScopesStep
<1> QED BY <1>5, <1>6

LEMMA CommitNamedSeen ==
  ASSUME Careful, IInv, NEW n \in Names, CommitNamed(n)
  PROVE  ScopesStep
<1>1. ~broken /\ scopes # <<>> /\ Last(scopes).name = n
  BY DEF CommitNamed, Usable
<1>2. /\ srv \in Session /\ WellFormed(srv) /\ scopes \in Seq(Scope)
      /\ tr_nesting = Len(scopes) /\ tr_nesting \in Nat \ {0}
      /\ InScope(srv) /\ (srv.link = "up" => srv.pending = view)
  BY <1>1, ScopeFacts
<1>3. (Front(scopes) = <<>> <=> tr_nesting = 1) /\ (Outermost <=> tr_nesting = 1)
  BY <1>1, <1>2, PoppedFacts
<1>4. PICK o \in DriverCommitNamed(n, tr_nesting, srv) :
        /\ srv' = o.s
        /\ \/ broken' = TRUE
           \/ /\ ~broken' /\ scopes' = Front(scopes)
              /\ view' = (IF tr_nesting = 1 THEN {} ELSE view)
  BY <1>1, <1>3 DEF CommitNamed, Took, Threw, Popped
<1>5. /\ srv'.durable = srv.durable \/ srv'.durable = srv.durable \cup srv.pending
      /\ tr_nesting # 1 => srv'.durable = srv.durable
  BY <1>2, <1>4, DriverCommitNamedLeaves
<1>6. srv.pending = view \/ srv.durable \cup srv.pending = srv.durable
  BY <1>2 DEF InScope, WellFormed
<1>7. CASE broken' \/ tr_nesting = 1
  <2>1. broken' \/ (scopes' = <<>> /\ view' = {})
    BY <1>3, <1>4, <1>7
  <2>2. srv'.durable = srv.durable \/ srv'.durable = srv.durable \cup view
    BY <1>5, <1>6
  <2> QED BY <1>1, <2>1, <2>2, SeenAsAbandon, SeenAsCommit DEF ScopesStep
<1>8. CASE ~broken' /\ tr_nesting # 1
  <2>1. scopes' = Front(scopes) /\ view' = view /\ srv'.durable = srv.durable
    BY <1>4, <1>5, <1>8
  <2> QED BY <1>1, <1>2, <1>8, <2>1, SeenAsClose DEF ScopesStep
<1> QED BY <1>7, <1>8

LEMMA RollbackNamedSeen ==
  ASSUME Careful, IInv, NEW n \in Names, RollbackNamed(n)
  PROVE  ScopesStep
<1>1. ~broken /\ scopes # <<>> /\ Last(scopes).name = n
  BY DEF RollbackNamed, Usable
<1>2. /\ srv \in Session /\ WellFormed(srv) /\ scopes \in Seq(Scope)
      /\ tr_nesting = Len(scopes) /\ tr_nesting \in Nat \ {0} /\ InScope(srv)
  BY <1>1, ScopeFacts
<1>3. (Front(scopes) = <<>> <=> tr_nesting = 1) /\ (Outermost <=> tr_nesting = 1)
  BY <1>1, <1>2, PoppedFacts
<1>4. PICK o \in DriverRollbackNamed(n, tr_nesting, srv) :
        /\ srv' = o.s
        /\ \/ broken' = TRUE
           \/ /\ ~broken' /\ scopes' = Front(scopes)
              /\ view' = (IF tr_nesting = 1 THEN {} ELSE Last(scopes).base)
  BY <1>1, <1>3 DEF RollbackNamed, Took, Threw, Popped
<1>5. srv'.durable = srv.durable
  <2>1. o.s.durable = srv.durable
    BY <1>2, DriverRollbackNamedLeaves
  <2> QED BY <1>4, <2>1
<1>6. CASE broken' \/ tr_nesting = 1
  <2>1. broken' \/ (scopes' = <<>> /\ view' = {})
    BY <1>3, <1>4, <1>6
  <2> QED BY <1>5, <2>1, SeenAsAbandon DEF ScopesStep
<1>7. CASE ~broken' /\ tr_nesting # 1
  <2>1. scopes' = Front(scopes) /\ view' = Last(scopes).base
    BY <1>4, <1>7
  <2> QED BY <1>1, <1>2, <1>5, <1>7, <2>1, SeenAsClose DEF ScopesStep
<1> QED BY <1>6, <1>7

LEMMA ExecuteSeen ==
  ASSUME Careful, IInv, NEW w \in Work, Execute(w)
  PROVE  ScopesStep
<1>1. ~broken /\ scopes' = scopes
  BY DEF Execute, Usable
<1>2. /\ srv \in Session /\ WellFormed(srv) /\ scopes \in Seq(Scope)
      /\ scopes = <<>> => srv.blk = "idle" /\ view = {}
      /\ scopes # <<>> => InScope(srv)
  BY <1>1, ScopeFacts
<1>3. PICK r \in SendWork(w, srv) :
        /\ srv' = r.s
        /\ IF r.res = "ok"
           THEN view' = (IF scopes = <<>> THEN view ELSE view \cup {w}) /\ broken' = broken
           ELSE broken' = (broken \/ scopes # <<>>) /\ view' = view
  BY DEF Execute
<1>4. /\ InScope(srv) => srv'.durable = srv.durable
      /\ srv.blk = "idle" => srv'.durable = srv.durable \/ srv'.durable = srv.durable \cup {w}
  <2>1. /\ Follows(srv, r.s)
        /\ InScope(srv) => r.s.durable = srv.durable
        /\ InScope(srv) /\ r.res = "ok" => /\ srv.link = "up" /\ srv.blk = "open"
                                           /\ r.s = [srv EXCEPT !.pending = srv.pending \cup {w}]
        /\ srv.blk = "idle" => /\ r.s.blk = "idle"
                               /\ r.s.durable = srv.durable \/ r.s.durable = srv.durable \cup {w}
                               /\ r.res = "ok" => r.s.durable = srv.durable \cup {w}
    BY <1>2, WorkReturns
  <2> QED BY <1>3, <2>1
<1>5. CASE scopes = <<>>
  <2>1. /\ ~broken' /\ view' = view
        /\ srv'.durable = srv.durable \/ srv'.durable = srv.durable \cup {w}
    BY <1>1, <1>2, <1>3, <1>4, <1>5
  <2>2. broken' = broken \/ srv'.durable = srv.durable \cup {w}
    BY <1>1, <1>3, <1>5 DEF IInv, TypeOK
  <2>3. CASE srv'.durable = srv.durable \cup {w}
    BY <1>1, <1>2, <1>5, <2>1, <2>3, SeenAsWrite DEF ScopesStep
  <2>4. CASE srv'.durable = srv.durable /\ broken' = broken
    BY <1>1, <2>1, <2>4, SeenAsNothing DEF ScopesStep
  <2> QED BY <2>1, <2>2, <2>3, <2>4
<1>6. CASE scopes # <<>> /\ r.res = "ok"
  <2>1. ~broken' /\ view' = view \cup {w} /\ srv'.durable = srv.durable
    BY <1>1, <1>2, <1>3, <1>4, <1>6
  <2> QED BY <1>1, <1>2, <1>6, <2>1, SeenAsWrite DEF ScopesStep
<1>7. CASE scopes # <<>> /\ r.res # "ok"
  <2>1. broken' /\ srv'.durable = srv.durable
    BY <1>2, <1>3, <1>4, <1>7
  <2> QED BY <2>1, SeenAsAbandon DEF ScopesStep
<1> QED BY <1>5, <1>6, <1>7

LEMMA ReconnectSeen == Careful /\ IInv /\ Reconnect => ScopesStep
<1> SUFFICES ASSUME Careful, IInv, Reconnect PROVE ScopesStep
  OBVIOUS
<1>1. srv \in Session /\ WellFormed(srv)
  BY DEF IInv, TypeOK
<1>2. PICK o \in DriverReconnect(tr_nesting, srv) : srv' = o.s
  BY DEF Reconnect, Took
<1>3. srv'.durable = srv.durable
  BY <1>1, <1>2, DriverReconnectLeaves
<1> QED BY <1>3, SeenAsNothing DEF Reconnect, ScopesStep

LEMMA DropSeen == Careful /\ IInv /\ Drop => ScopesStep
<1> SUFFICES ASSUME Careful, IInv, Drop PROVE ScopesStep
  OBVIOUS
<1>1. srv'.durable = srv.durable
  BY CutFollows DEF Drop, IInv, TypeOK
<1> QED BY <1>1, SeenAsNothing DEF Drop, ScopesStep

(* Every step of Handle, driver and server is a step of the scopes: no step *)
(* makes part of a transaction durable, or work of a scope rolled back,     *)
(* and a lost COMMIT has stored all of the work or none.                   *)
THEOREM ScopesImplemented ==
  ASSUME Careful
  PROVE  Spec => ImplementsScopes
<1>1. Init => Scopes!Init
  <2> SUFFICES ASSUME Init PROVE Scopes!Init
    OBVIOUS
  <2>1. srv.durable = {}
    BY DEF Init, Connected
  <2> QED BY <2>1, BasesOfEmpty DEF Init, Scopes!Init, Bases
<1>2. IInv /\ [Next]_vars => [Scopes!Next]_(Scopes!svars)
  <2> SUFFICES ASSUME IInv, [Next]_vars PROVE ScopesStep
    BY DEF ScopesStep
  <2>1. CASE UNCHANGED vars
    BY <2>1, SeenAsNothing DEF vars, ScopesStep
  <2> QED
    BY <2>1, BeginSeen, CommitSeen, RollbackSeen, BeginNamedSeen, CommitNamedSeen,
       RollbackNamedSeen, ExecuteSeen, ReconnectSeen, DropSeen DEF Next
<1> QED BY <1>1, <1>2, InvariantHolds, PTL DEF Spec, ImplementsScopes, Scopes!Spec
=============================================================================
