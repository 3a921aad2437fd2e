---------------------- MODULE NestedTransactionsProofs ----------------------
(***************************************************************************)
(* Theorems about NestedTransactions, for any names, work, faults, drivers *)
(* and bounds.                                                             *)
(***************************************************************************)
EXTENDS NestedTransactions, DriverTransactionsProofs, SequenceTheorems

(* Type correctness.  Among what it says: Handle::trx only ever holds the   *)
(* names given to begin(name), and the session stays one every driver      *)
(* method is prepared for, through any mix of failures.                    *)

LEMMA FrontOfSeq ==
  ASSUME NEW S, NEW q \in Seq(S), q # <<>>
  PROVE  /\ Front(q) \in Seq(S)
         /\ Len(Front(q)) = Len(q) - 1
         /\ \A i \in 1 .. Len(q) - 1 : Front(q)[i] = q[i]
         /\ Last(q) = q[Len(q)] /\ Last(q) \in S /\ Len(q) \in Nat \ {0}
<1>1. Len(q) \in Nat \ {0} /\ \A i \in 1 .. Len(q) : q[i] \in S
  BY EmptySeq, ElementOfSeq
<1>2. \A i \in 1 .. Len(q) - 1 : q[i] \in S
  BY <1>1
<1>3. 1 \in Int /\ Len(q) - 1 \in Int
  BY <1>1
<1>4. /\ SubSeq(q, 1, Len(q) - 1) \in Seq(S)
      /\ Len(SubSeq(q, 1, Len(q) - 1)) = IF 1 <= Len(q) - 1 THEN Len(q) - 1 - 1 + 1 ELSE 0
      /\ \A i \in 1 .. Len(q) - 1 - 1 + 1 : SubSeq(q, 1, Len(q) - 1)[i] = q[1 + i - 1]
  BY <1>2, <1>3, SubSeqProperties
<1>5. Last(q) = q[Len(q)] /\ Front(q) = SubSeq(q, 1, Len(q) - 1)
  BY DEF Front, Last
<1>6. \A k \in Nat \ {0} : /\ (IF 1 <= k - 1 THEN k - 1 - 1 + 1 ELSE 0) = k - 1
                            /\ k - 1 - 1 + 1 = k - 1
                            /\ \A i \in 1 .. k - 1 : 1 + i - 1 = i
  OBVIOUS
<1>7. /\ Front(q) \in Seq(S)
      /\ Len(Front(q)) = Len(q) - 1
  BY <1>1, <1>4, <1>5, <1>6
<1>8. ASSUME NEW i \in 1 .. Len(q) - 1 PROVE Front(q)[i] = q[i]
  BY <1>1, <1>4, <1>5, <1>6
<1>9. Last(q) \in S
  BY <1>1, <1>5
<1> QED BY <1>1, <1>5, <1>7, <1>8, <1>9

LEMMA TypeInit == Init => TypeOK
<1> SUFFICES ASSUME Init PROVE TypeOK
  OBVIOUS
<1>1. \A d \in Drivers : Connected(d) \in Session
  BY ParametersAssumption DEF Connected, Session
<1>2. <<>> \in Seq(Names) /\ <<>> \in Seq(Scope)
  BY EmptySeq
<1>3. srv \in Session
  BY <1>1 DEF Init
<1>4. trx \in Seq(Names) /\ scopes \in Seq(Scope) /\ tr_nesting \in Int
  BY <1>2 DEF Init
<1> QED BY <1>3, <1>4 DEF Init, TypeOK

LEMMA TypeStep == TypeOK /\ [Next]_vars => TypeOK'
<1> SUFFICES ASSUME TypeOK, [Next]_vars PROVE TypeOK'
  OBVIOUS
<1> USE DEF TypeOK
<1>1. CASE Begin
  <2>1. PICK o \in DriverBegin(tr_nesting, srv) : Took(o)
    BY <1>1 DEF Begin
  <2>2. tr_nesting' \in Int /\ srv' \in Session
    BY <2>1, OutcomeTyped DEF Took
  <2>3. <<[name |-> NoName, base |-> {}]>> \in Seq(Scope)
    BY DEF Scope
  <2> QED BY <1>1, <2>2, <2>3 DEF Begin
<1>2. CASE Commit
  <2>1. PICK o \in DriverCommit(tr_nesting, srv) : Took(o)
    BY <1>2 DEF Commit
  <2>2. tr_nesting' \in Int /\ srv' \in Session
    BY <2>1, OutcomeTyped DEF Took
  <2> QED BY <1>2, <2>2, EmptySeq DEF Commit, Threw
<1>3. CASE Rollback
  <2>1. PICK o \in DriverRollback(tr_nesting, srv) : Took(o)
    BY <1>3 DEF Rollback
  <2>2. tr_nesting' \in Int /\ srv' \in Session
    BY <2>1, OutcomeTyped DEF Took
  <2> QED BY <1>3, <2>2, EmptySeq DEF Rollback, Threw
<1>4. ASSUME NEW n \in Names, BeginNamed(n) PROVE TypeOK'
  <2>1. PICK o \in DriverBeginNamed(n, tr_nesting, srv) : Took(o)
    BY <1>4 DEF BeginNamed
  <2>2. tr_nesting' \in Int /\ srv' \in Session
    BY <2>1, OutcomeTyped DEF Took
  <2>3. Append(trx, n) \in Seq(Names)
    BY AppendProperties
  <2>4. Pushed(n) \in Seq(Scope)
    BY AppendProperties DEF Pushed, Scope
  <2> QED BY <1>4, <2>2, <2>3, <2>4 DEF BeginNamed, Threw
<1>5. ASSUME NEW n \in Names, CommitNamed(n) PROVE TypeOK'
  <2>1. PICK o \in DriverCommitNamed(n, tr_nesting, srv) : Took(o)
    BY <1>5 DEF CommitNamed
  <2>2. tr_nesting' \in Int /\ srv' \in Session
    BY <2>1, OutcomeTyped DEF Took
  <2>3. trx' \in Seq(Names) /\ Popped \in Seq(Scope)
    BY <1>5, FrontOfSeq DEF CommitNamed, Popped
  <2> QED BY <1>5, <2>2, <2>3 DEF CommitNamed, Threw
<1>6. ASSUME NEW n \in Names, RollbackNamed(n) PROVE TypeOK'
  <2>1. PICK o \in DriverRollbackNamed(n, tr_nesting, srv) : Took(o)
    BY <1>6 DEF RollbackNamed
  <2>2. tr_nesting' \in Int /\ srv' \in Session
    BY <2>1, OutcomeTyped DEF Took
  <2>3. trx' \in Seq(Names) /\ Popped \in Seq(Scope)
    BY <1>6, FrontOfSeq DEF RollbackNamed, Popped
  <2>4. ~Outermost => Last(scopes).base \in SUBSET Work
    <3>1. ~Outermost => scopes # <<>>
      BY EmptySeq DEF Outermost
    <3>2. ~Outermost => Last(scopes) \in Scope
      BY <3>1, FrontOfSeq
    <3> QED BY <3>2 DEF Scope
  <2> QED BY <1>6, <2>2, <2>3, <2>4 DEF RollbackNamed, Threw
<1>7. ASSUME NEW w \in Work, Execute(w) PROVE TypeOK'
  <2>1. PICK r \in SendWork(w, srv) : srv' = r.s
    BY <1>7 DEF Execute
  <2>2. srv' \in Session
    BY <2>1, SendsReply DEF Reply
  <2> QED BY <1>7, <2>2 DEF Execute
<1>8. CASE Reconnect
  <2>1. PICK o \in DriverReconnect(tr_nesting, srv) : Took(o)
    BY <1>8 DEF Reconnect
  <2>2. tr_nesting' \in Int /\ srv' \in Session
    BY <2>1, OutcomeTyped DEF Took
  <2> QED BY <1>8, <2>2 DEF Reconnect
<1>9. CASE Drop
  <2>1. srv' \in Session
    BY <1>9, CutSession DEF Drop
  <2> QED BY <1>9, <2>1 DEF Drop
<1>10. CASE UNCHANGED vars
  BY <1>10 DEF vars
<1> QED BY <1>1, <1>2, <1>3, <1>4, <1>5, <1>6, <1>7, <1>8, <1>9, <1>10 DEF Next

THEOREM TypeCorrect == Spec => []TypeOK
  BY TypeInit, TypeStep, PTL DEF Spec

-----------------------------------------------------------------------------
(* The scopes and the savepoints behind them.  Backed is the body of        *)
(* ScopesBacked, with the scopes and the session as parameters.            *)
Backed(q, s) ==
  \A i, j \in DOMAIN q :
    q[i].name # NoName /\ q[j].name # NoName =>
      /\ \E p \in Youngest(q[i].name, s) : p.mark = q[i].base
      /\ i < j => \A p \in Youngest(q[i].name, s), o \in Youngest(q[j].name, s) : p.age < o.age

(* Scopes nest: each started from a view that its successor extended, under *)
(* a name no other open scope has, and only the first may be unnamed.      *)
Nested(q, v) ==
  /\ \A i \in DOMAIN q : q[i].base \subseteq v /\ (i > 1 => q[i].name # NoName)
  /\ \A i, j \in DOMAIN q : i < j => q[i].base \subseteq q[j].base /\ q[i].name # q[j].name

LEMMA ScopeAt ==
  ASSUME NEW q \in Seq(Scope)
  PROVE  /\ Len(q) \in Nat /\ DOMAIN q = 1 .. Len(q)
         /\ \A i \in DOMAIN q : q[i] \in Scope /\ q[i].name \in Names \cup {NoName}
                                /\ q[i].base \in SUBSET Work
         /\ q # <<>> => Len(q) \in Nat \ {0} /\ Len(q) \in DOMAIN q
<1>1. Len(q) \in Nat /\ DOMAIN q = 1 .. Len(q)
  BY LenProperties
<1>2. \A i \in DOMAIN q : q[i] \in Scope
  BY <1>1, ElementOfSeq
<1>3. q # <<>> => Len(q) \in Nat \ {0}
  BY EmptySeq
<1> QED BY <1>1, <1>2, <1>3 DEF Scope

LEMMA BackedPushed ==
  ASSUME NEW q \in Seq(Scope), NEW s \in Session, WellFormed(s), Backed(q, s),
         NEW n \in Names, \A i \in DOMAIN q : q[i].name # n,
         NEW e \in Scope, e.name = n, e.base = s.pending
  PROVE  Backed(Append(q, e), Marked(n, s))
<1> DEFINE u == Append(q, e)
           t == Marked(n, s)
<1>1. /\ Len(q) \in Nat /\ DOMAIN q = 1 .. Len(q) /\ DOMAIN u = 1 .. Len(q) + 1
      /\ \A i \in DOMAIN q : u[i] = q[i] /\ q[i].name \in Names \cup {NoName}
      /\ u[Len(q) + 1] = e
  BY ScopeAt, AppendProperties, LenProperties
<1>2. \A i \in DOMAIN u : i \in DOMAIN q \/ i = Len(q) + 1
  BY <1>1
<1>3. /\ \A m \in Names \ {n} : Youngest(m, t) = Youngest(m, s)
      /\ \A p \in Youngest(n, t) : p.age = s.clock
      /\ \E p \in Youngest(n, t) : p.mark = s.pending
      /\ \A m \in Names : \A p \in Youngest(m, s) : p.age < s.clock
  BY YoungestOfMarked
<1> HIDE DEF u, t
<1>4. \A i \in DOMAIN q : q[i].name # NoName => Youngest(q[i].name, t) = Youngest(q[i].name, s)
  BY <1>1, <1>3
<1>5. ASSUME NEW i \in DOMAIN u, u[i].name # NoName
      PROVE  \E p \in Youngest(u[i].name, t) : p.mark = u[i].base
  <2>1. CASE i \in DOMAIN q
    BY <1>1, <1>4, <1>5, <2>1 DEF Backed
  <2>2. CASE i = Len(q) + 1
    BY <1>1, <1>3, <2>2
  <2> QED BY <1>2, <2>1, <2>2
<1>6. ASSUME NEW i \in DOMAIN u, NEW j \in DOMAIN u, u[i].name # NoName, u[j].name # NoName, i < j,
             NEW p \in Youngest(u[i].name, t), NEW o \in Youngest(u[j].name, t)
      PROVE  p.age < o.age
  <2>1. i \in DOMAIN q
    BY <1>1, <1>6
  <2>2. p \in Youngest(q[i].name, s) /\ q[i].name \in Names
    BY <1>1, <1>4, <1>6, <2>1
  <2>3. CASE j \in DOMAIN q
    BY <1>1, <1>4, <1>6, <2>1, <2>2, <2>3 DEF Backed
  <2>4. CASE j = Len(q) + 1
    <3>1. o.age = s.clock
      BY <1>1, <1>3, <2>4
    <3> QED BY <1>3, <2>2, <3>1
  <2> QED BY <1>2, <2>3, <2>4
<1>7. Backed(u, t)
  BY <1>5, <1>6 DEF Backed
<1> QED BY <1>7 DEF u, t

LEMMA BackedPopped ==
  ASSUME NEW q \in Seq(Scope), q # <<>>, NEW v, Nested(q, v),
         NEW s \in Session, WellFormed(s), Backed(q, s),
         Last(q).name \in Names, NEW p \in Youngest(Last(q).name, s)
  PROVE  /\ Backed(Front(q), Released(p, s)) /\ Backed(Front(q), Rewound(p, s))
         /\ Released(p, s).pending = s.pending /\ Rewound(p, s).pending = Last(q).base
<1> DEFINE k == Len(q)
           f == Front(q)
<1>1. /\ k \in Nat \ {0} /\ DOMAIN q = 1 .. k /\ DOMAIN f = 1 .. k - 1
      /\ Last(q) = q[k] /\ \A i \in 1 .. k - 1 : f[i] = q[i]
      /\ \A i \in DOMAIN q : q[i].name \in Names \cup {NoName}
  BY FrontOfSeq, ScopeAt, LenProperties
<1>2. q[k].name # NoName /\ k \in DOMAIN q
  BY <1>1, ParametersAssumption
<1>3. p.mark = Last(q).base
  <2>1. PICK o \in Youngest(q[k].name, s) : o.mark = q[k].base
    BY <1>2 DEF Backed
  <2>2. o \in s.saves /\ p \in s.saves /\ o.age <= p.age /\ p.age <= o.age
    BY <1>1 DEF Youngest
  <2>3. o.age \in Nat /\ p.age \in Nat
    BY <2>2 DEF Session, Savepoint
  <2>4. o.age = p.age
    BY <2>2, <2>3
  <2>5. o = p
    BY <2>2, <2>4 DEF WellFormed
  <2> QED BY <1>1, <2>1, <2>5
<1> HIDE DEF k, f
<1>4. ASSUME NEW t,
             t.saves = {o \in s.saves : o.age < p.age} \/ t.saves = {o \in s.saves : o.age <= p.age}
      PROVE  Backed(f, t)
  <2>1. ASSUME NEW i \in DOMAIN f, f[i].name # NoName
        PROVE  /\ i \in DOMAIN q /\ f[i] = q[i]
               /\ Youngest(f[i].name, t) = Youngest(q[i].name, s)
    <3>1. i \in DOMAIN q /\ i < k /\ f[i] = q[i] /\ q[i].name \in Names
      BY <1>1, <2>1
    <3>2. PICK x \in Youngest(q[i].name, s) : x.mark = q[i].base
      BY <2>1, <3>1 DEF Backed
    <3>3. x.age < p.age
      BY <1>1, <1>2, <2>1, <3>1, <3>2 DEF Backed
    <3>4. Youngest(q[i].name, t) = Youngest(q[i].name, s)
      BY <1>4, <3>1, <3>2, <3>3, YoungestKept
    <3> QED BY <3>1, <3>4
  <2> QED BY <2>1 DEF Backed
<1>5. /\ Released(p, s).saves = {o \in s.saves : o.age < p.age} /\ Released(p, s).pending = s.pending
      /\ Rewound(p, s).saves = {o \in s.saves : o.age <= p.age} /\ Rewound(p, s).pending = p.mark
  BY DEF Released, Rewound, Session
<1>6. Backed(f, Released(p, s)) /\ Backed(f, Rewound(p, s))
  BY <1>4, <1>5
<1> QED BY <1>3, <1>5, <1>6 DEF f

LEMMA NestedPushed ==
  ASSUME NEW q \in Seq(Scope), NEW v, Nested(q, v), NEW n \in Names,
         \A i \in DOMAIN q : q[i].name # n, NEW e \in Scope, e.name = n, e.base = v
  PROVE  Nested(Append(q, e), v)
<1> DEFINE u == Append(q, e)
<1>1. /\ Len(q) \in Nat /\ DOMAIN q = 1 .. Len(q) /\ DOMAIN u = 1 .. Len(q) + 1
      /\ \A i \in DOMAIN q : u[i] = q[i]
      /\ u[Len(q) + 1] = e
  BY ScopeAt, AppendProperties, LenProperties
<1>2. \A i \in DOMAIN u : i \in DOMAIN q \/ i = Len(q) + 1
  BY <1>1
<1>3. n # NoName
  BY ParametersAssumption
<1> HIDE DEF u
<1>4. ASSUME NEW i \in DOMAIN u PROVE u[i].base \subseteq v /\ (i > 1 => u[i].name # NoName)
  BY <1>1, <1>2, <1>3 DEF Nested
<1>5. ASSUME NEW i \in DOMAIN u, NEW j \in DOMAIN u, i < j
      PROVE  u[i].base \subseteq u[j].base /\ u[i].name # u[j].name
  <2>1. i \in DOMAIN q
    BY <1>1, <1>5
  <2>2. CASE j \in DOMAIN q
    BY <1>1, <1>5, <2>1, <2>2 DEF Nested
  <2>3. CASE j = Len(q) + 1
    BY <1>1, <2>1, <2>3 DEF Nested
  <2> QED BY <1>2, <2>2, <2>3
<1> QED BY <1>4, <1>5 DEF Nested, u

LEMMA NestedPopped ==
  ASSUME NEW q \in Seq(Scope), q # <<>>, NEW v, Nested(q, v)
  PROVE  Nested(Front(q), v) /\ Nested(Front(q), Last(q).base) /\ Last(q).base \subseteq v
<1> DEFINE k == Len(q)
           f == Front(q)
<1>1. /\ k \in Nat \ {0} /\ DOMAIN q = 1 .. k /\ DOMAIN f = 1 .. k - 1
      /\ Last(q) = q[k] /\ \A i \in 1 .. k - 1 : f[i] = q[i]
  BY FrontOfSeq, ScopeAt, LenProperties
<1> HIDE DEF k, f
<1>2. \A i \in DOMAIN f : i \in DOMAIN q /\ f[i] = q[i] /\ i < k /\ k \in DOMAIN q
  BY <1>1
<1>3. Last(q).base \subseteq v /\ \A i \in DOMAIN f : f[i].base \subseteq Last(q).base
  BY <1>1, <1>2 DEF Nested
<1>4. \A i, j \in DOMAIN f : i < j => f[i].base \subseteq f[j].base /\ f[i].name # f[j].name
  BY <1>2 DEF Nested
<1>5. \A i \in DOMAIN f : f[i].base \subseteq v /\ (i > 1 => f[i].name # NoName)
  BY <1>2 DEF Nested
<1> QED BY <1>3, <1>4, <1>5 DEF Nested, f

-----------------------------------------------------------------------------
(* The inductive invariant under a careful client.  Ledger is what the      *)
(* client was told against what the database has.  Held is how the server  *)
(* comes to agree with the client: the counter is the number of scopes,    *)
(* without scopes the server is idle, with scopes it holds exactly the     *)
(* client's view, or the connection is lost until the client notices.      *)
Ledger ==
  /\ view \subseteq done /\ acked \subseteq done /\ undone \subseteq done
  /\ srv.durable \subseteq done
  /\ acked \subseteq srv.durable
  /\ undone \cap srv.durable = {} /\ undone \cap view = {} /\ view \cap srv.durable = {}

Held ==
  /\ tr_nesting = Len(scopes)
  /\ scopes = <<>> => srv.blk = "idle" /\ view = {}
  /\ scopes # <<>> => InScope(srv) /\ (srv.link = "up" => srv.pending = view)
  /\ srv.link = "up" => Backed(scopes, srv)

IInv ==
  /\ TypeOK
  /\ WellFormed(srv)
  /\ Ledger
  /\ ~broken => Nested(scopes, view) /\ Held

LEMMA InvariantInit == Init => IInv
<1> SUFFICES ASSUME Init PROVE IInv
  OBVIOUS
<1>1. TypeOK
  BY TypeInit
<1>2. srv.link = "up" /\ srv.blk = "idle" /\ srv.saves = {} /\ srv.pending = {} /\ srv.durable = {}
  BY DEF Init, Connected
<1>3. WellFormed(srv)
  BY <1>2 DEF WellFormed
<1>4. Ledger
  BY <1>2 DEF Init, Ledger
<1>5. Nested(<<>>, {}) /\ Backed(<<>>, srv) /\ Len(<<>>) = 0
  BY EmptySeq DEF Nested, Backed
<1>6. Nested(scopes, view) /\ Held
  BY <1>2, <1>5 DEF Init, Held
<1> QED BY <1>1, <1>3, <1>4, <1>6 DEF IInv

(* No scope at all, which is where commit() and rollback() lead.            *)
LEMMA NoScopeHeld ==
  ASSUME NEW s, NEW v
  PROVE  Nested(<<>>, v) /\ Backed(<<>>, s) /\ Len(<<>>) = 0
  BY EmptySeq DEF Nested, Backed

LEMMA BeginKeeps == Careful /\ IInv /\ TypeOK' /\ Begin => IInv'
<1> SUFFICES ASSUME Careful, IInv, TypeOK', Begin PROVE IInv'
  OBVIOUS
<1>1. /\ ~broken /\ ~broken' /\ scopes = <<>> /\ view = {} /\ tr_nesting = 0
      /\ srv \in Session /\ WellFormed(srv) /\ srv.blk = "idle"
  BY NoScopeHeld DEF Begin, Usable, IInv, Held, TypeOK
<1>2. PICK o \in DriverBegin(0, srv) :
        /\ tr_nesting' = o.nest /\ srv' = o.s
        /\ IF o.res = "ok"
           THEN scopes' = <<[name |-> NoName, base |-> {}]>> /\ undone' = undone \cup view /\ view' = {}
           ELSE UNCHANGED <<scopes, undone, view>>
  BY <1>1 DEF Begin, Took
<1>3. /\ Follows(srv, srv') /\ srv'.durable = srv.durable
      /\ o.res = "ok" => /\ tr_nesting' = 1 /\ OnLink(srv')
                         /\ srv'.blk = "open" /\ srv'.pending = {}
      /\ o.res # "ok" => tr_nesting' = 0 /\ srv'.blk = "idle"
  BY <1>1, <1>2, DriverBeginLeaves
<1>4. view' = {} /\ undone' = undone /\ acked' = acked /\ done' = done
  BY <1>1, <1>2 DEF Begin
<1>5. WellFormed(srv') /\ Ledger'
  BY <1>3, <1>4 DEF IInv, Ledger, Follows
<1>6. CASE o.res = "ok"
  <2> DEFINE first == [name |-> NoName, base |-> {}]
  <2>1. scopes' = <<first>> /\ Len(<<first>>) = 1 /\ <<first>> # <<>>
        /\ DOMAIN <<first>> = {1} /\ <<first>>[1] = first
    BY <1>2, <1>6
  <2>2. Nested(<<first>>, {}) /\ Backed(<<first>>, srv')
    BY <2>1 DEF Nested, Backed
  <2> HIDE DEF first
  <2>3. Held'
    BY <1>3, <1>4, <1>6, <2>1, <2>2 DEF Held, InScope, OnLink
  <2> QED BY <1>4, <1>5, <2>1, <2>2, <2>3 DEF IInv
<1>7. CASE o.res # "ok"
  <2>1. scopes' = <<>>
    BY <1>1, <1>2, <1>7
  <2>2. Held'
    BY <1>3, <1>4, <1>7, <2>1, NoScopeHeld DEF Held
  <2> QED BY <1>5, <2>1, <2>2, NoScopeHeld DEF IInv
<1> QED BY <1>6, <1>7

LEMMA CommitKeeps == Careful /\ IInv /\ TypeOK' /\ Commit => IInv'
<1> SUFFICES ASSUME Careful, IInv, TypeOK', Commit PROVE IInv'
  OBVIOUS
<1>1. /\ ~broken /\ scopes # <<>> /\ srv \in Session /\ WellFormed(srv)
      /\ InScope(srv) /\ (srv.link = "up" => srv.pending = view)
  BY DEF Commit, Usable, Finishing, IInv, Held, TypeOK
<1>2. PICK o \in DriverCommit(tr_nesting, srv) :
        /\ tr_nesting' = o.nest /\ srv' = o.s
        /\ IF o.res = "ok"
           THEN /\ acked' = acked \cup view
                /\ view' = {} /\ scopes' = <<>> /\ broken' = FALSE
                /\ undone' = undone
           ELSE /\ broken' = TRUE /\ view' = (IF o.res = "lost" THEN {} ELSE view)
                /\ acked' = acked /\ undone' = undone
  BY DEF Commit, Took, Threw
<1>3. /\ Follows(srv, srv')
      /\ srv'.durable = srv.durable \/ srv'.durable = srv.durable \cup srv.pending
      /\ o.res \notin {"ok", "lost"} => srv'.durable = srv.durable
      /\ o.res = "ok" => tr_nesting' = 0 /\ srv'.blk = "idle" /\ srv.link # "down"
      /\ o.res = "ok" /\ srv.blk # "failed" => srv'.durable = srv.durable \cup srv.pending
  BY <1>1, <1>2, DriverCommitLeaves
<1>4. done' = done
  BY DEF Commit
<1>5. srv.pending \subseteq view
  BY <1>1 DEF InScope, WellFormed
<1>6. CASE o.res = "ok"
  <2>1. srv'.durable = srv.durable \cup view
    BY <1>1, <1>3, <1>6 DEF InScope
  <2>2. acked' = acked \cup view /\ view' = {} /\ undone' = undone /\ scopes' = <<>>
    BY <1>2, <1>6
  <2>3. Ledger'
    BY <1>4, <2>1, <2>2 DEF IInv, Ledger
  <2>4. Held'
    BY <1>3, <1>6, <2>2, NoScopeHeld DEF Held
  <2> QED BY <1>3, <2>2, <2>3, <2>4, NoScopeHeld DEF IInv, Follows
<1>7. CASE o.res # "ok"
  <2>1. broken' /\ acked' = acked /\ undone' = undone
        /\ (view' = {} \/ (view' = view /\ srv'.durable = srv.durable))
    BY <1>2, <1>3, <1>7
  <2>2. acked \subseteq srv'.durable /\ srv'.durable \subseteq srv.durable \cup view
    BY <1>3, <1>5 DEF IInv, Ledger
  <2>3. Ledger'
    BY <1>4, <2>1, <2>2 DEF IInv, Ledger
  <2> QED BY <1>3, <2>1, <2>3 DEF IInv, Follows
<1> QED BY <1>6, <1>7

LEMMA RollbackKeeps == Careful /\ IInv /\ TypeOK' /\ Rollback => IInv'
<1> SUFFICES ASSUME Careful, IInv, TypeOK', Rollback PROVE IInv'
  OBVIOUS
<1>1. srv \in Session /\ WellFormed(srv)
  BY DEF IInv, TypeOK
<1>2. PICK o \in DriverRollback(tr_nesting, srv) :
        /\ tr_nesting' = o.nest /\ srv' = o.s
        /\ IF o.res = "ok"
           THEN /\ undone' = undone \cup view
                /\ view' = {} /\ scopes' = <<>> /\ broken' = FALSE
                /\ acked' = acked
           ELSE broken' = TRUE /\ view' = view /\ acked' = acked /\ undone' = undone
  BY DEF Rollback, Took, Threw
<1>3. /\ Follows(srv, srv') /\ srv'.durable = srv.durable /\ srv'.blk = "idle"
      /\ o.res = "ok" => tr_nesting' = 0
  BY <1>1, <1>2, DriverRollbackLeaves
<1>4. done' = done
  BY DEF Rollback
<1>5. Ledger'
  BY <1>2, <1>3, <1>4 DEF IInv, Ledger
<1>6. CASE o.res = "ok"
  <2>1. Held'
    BY <1>2, <1>3, <1>6, NoScopeHeld DEF Held
  <2> QED BY <1>2, <1>3, <1>5, <1>6, <2>1, NoScopeHeld DEF IInv, Follows
<1>7. CASE o.res # "ok"
  BY <1>2, <1>3, <1>5, <1>7 DEF IInv, Follows
<1> QED BY <1>6, <1>7

(* Before a named level is opened or closed.                               *)
LEMMA ScopeFacts ==
  ASSUME Careful, IInv, ~broken
  PROVE  /\ srv \in Session /\ WellFormed(srv) /\ scopes \in Seq(Scope)
         /\ Nested(scopes, view) /\ tr_nesting = Len(scopes) /\ tr_nesting \in Nat
         /\ tr_nesting = 0 <=> scopes = <<>>
         /\ scopes = <<>> => srv.blk = "idle" /\ view = {}
         /\ scopes # <<>> => InScope(srv) /\ (srv.link = "up" => srv.pending = view)
         /\ srv.link = "up" => Backed(scopes, srv)
<1>1. /\ srv \in Session /\ WellFormed(srv) /\ scopes \in Seq(Scope)
      /\ Nested(scopes, view) /\ tr_nesting = Len(scopes)
      /\ scopes = <<>> => srv.blk = "idle" /\ view = {}
      /\ scopes # <<>> => InScope(srv) /\ (srv.link = "up" => srv.pending = view)
      /\ srv.link = "up" => Backed(scopes, srv)
  BY DEF IInv, TypeOK, Held
<1>2. Len(scopes) \in Nat /\ (Len(scopes) = 0 <=> scopes = <<>>)
  BY <1>1, EmptySeq
<1> QED BY <1>1, <1>2

LEMMA BeginNamedKeeps ==
  ASSUME Careful, IInv, TypeOK', NEW n \in Names, BeginNamed(n)
  PROVE  IInv'
<1>1. ~broken /\ \A i \in DOMAIN scopes : scopes[i].name # n
  BY DEF BeginNamed, Usable, Open
<1>2. /\ srv \in Session /\ WellFormed(srv) /\ scopes \in Seq(Scope)
      /\ Nested(scopes, view) /\ tr_nesting = Len(scopes) /\ tr_nesting \in Nat
      /\ tr_nesting = 0 <=> scopes = <<>>
      /\ scopes = <<>> => srv.blk = "idle" /\ view = {}
      /\ scopes # <<>> => InScope(srv) /\ (srv.link = "up" => srv.pending = view)
      /\ srv.link = "up" => Backed(scopes, srv)
  BY <1>1, ScopeFacts
<1>3. PICK o \in DriverBeginNamed(n, tr_nesting, srv) :
        /\ tr_nesting' = o.nest /\ srv' = o.s
        /\ IF o.res = "ok"
           THEN scopes' = Pushed(n) /\ UNCHANGED <<view, acked, undone, broken>>
           ELSE broken' = TRUE /\ UNCHANGED <<view, scopes, acked, undone>>
  BY DEF BeginNamed, Took, Threw
<1>4. /\ Follows(srv, srv') /\ srv'.durable = srv.durable
      /\ o.res = "ok" =>
           /\ tr_nesting' = tr_nesting + 1
           /\ \E t \in Session : /\ OnLink(t) /\ t.blk = "open" /\ t.pending = srv.pending
                                 /\ t.saves = srv.saves /\ srv' = Marked(n, t)
                                 /\ tr_nesting # 0 => t = srv
  BY <1>2, <1>3, DriverBeginNamedLeaves
<1>5. view' = view /\ undone' = undone /\ acked' = acked /\ done' = done
  BY <1>3 DEF BeginNamed
<1>6. WellFormed(srv') /\ Ledger'
  BY <1>4, <1>5 DEF IInv, Ledger, Follows
<1>7. CASE o.res = "ok"
  <2>1. PICK t \in Session : /\ OnLink(t) /\ t.blk = "open" /\ t.pending = srv.pending
                             /\ t.saves = srv.saves /\ srv' = Marked(n, t)
                             /\ tr_nesting # 0 => t = srv
    BY <1>4, <1>7
  <2>2. t.pending = view /\ Backed(scopes, t)
    <3>1. CASE tr_nesting = 0
      BY <1>2, <2>1, <3>1, NoScopeHeld DEF WellFormed
    <3>2. CASE tr_nesting # 0
      BY <1>2, <2>1, <3>2 DEF OnLink
    <3> QED BY <3>1, <3>2
  <2> DEFINE e == [name |-> n, base |-> view]
  <2>3. /\ e \in Scope /\ e.name = n /\ e.base = view /\ scopes' = Append(scopes, e)
    BY <1>3, <1>7 DEF Pushed, Scope, IInv, TypeOK
  <2> HIDE DEF e
  <2>4. WellFormed(t) /\ t.link = "up"
    BY <2>1 DEF OnLink
  <2>5. Backed(scopes', srv') /\ Nested(scopes', view)
    BY <1>1, <1>2, <2>1, <2>2, <2>3, <2>4, BackedPushed, NestedPushed
  <2>6. srv'.link = "up" /\ srv'.blk = "open" /\ srv'.pending = view
    <3>1. Marked(n, t).pending = t.pending
      BY DEF Marked, Session
    <3> QED BY <2>1, <2>2, <2>4, <3>1, MarkedFollows
  <2>7. Len(scopes') = Len(scopes) + 1 /\ scopes' # <<>>
    BY <1>2, <2>3, AppendProperties
  <2>8. Held'
    BY <1>2, <1>4, <1>5, <1>7, <2>5, <2>6, <2>7 DEF Held, InScope
  <2> QED BY <1>5, <1>6, <2>5, <2>8 DEF IInv
<1>8. CASE o.res # "ok"
  BY <1>3, <1>6, <1>8 DEF IInv
<1> QED BY <1>7, <1>8

LEMMA PoppedFacts ==
  ASSUME NEW q \in Seq(Scope), q # <<>>
  PROVE  /\ Len(Front(q)) = Len(q) - 1 /\ Len(q) \in Nat \ {0}
         /\ Front(q) = <<>> <=> Len(q) = 1
         /\ q = scopes => (Outermost <=> Len(q) = 1)
<1>1. Front(q) \in Seq(Scope) /\ Len(Front(q)) = Len(q) - 1 /\ Len(q) \in Nat \ {0}
  BY FrontOfSeq
<1>2. Front(q) = <<>> <=> Len(Front(q)) = 0
  BY <1>1, EmptySeq
<1>3. \A k \in Nat \ {0} : (k <= 1 <=> k = 1) /\ (k - 1 = 0 <=> k = 1)
  OBVIOUS
<1>4. q = scopes => (Outermost <=> Len(q) = 1)
  BY <1>1, <1>3 DEF Outermost
<1> QED BY <1>1, <1>2, <1>3, <1>4

LEMMA CommitNamedKeeps ==
  ASSUME Careful, IInv, TypeOK', NEW n \in Names, CommitNamed(n)
  PROVE  IInv'
<1>1. ~broken /\ scopes # <<>> /\ Last(scopes).name = n
  BY DEF CommitNamed, Usable
<1>2. /\ srv \in Session /\ WellFormed(srv) /\ scopes \in Seq(Scope)
      /\ Nested(scopes, view) /\ tr_nesting = Len(scopes) /\ tr_nesting \in Nat \ {0}
      /\ InScope(srv) /\ (srv.link = "up" => srv.pending = view)
      /\ srv.link = "up" => Backed(scopes, srv)
  BY <1>1, ScopeFacts
<1>3. /\ Len(Front(scopes)) = tr_nesting - 1
      /\ Front(scopes) = <<>> <=> tr_nesting = 1
      /\ Outermost <=> tr_nesting = 1
  BY <1>1, <1>2, PoppedFacts
<1>4. PICK o \in DriverCommitNamed(n, tr_nesting, srv) :
        /\ tr_nesting' = o.nest /\ srv' = o.s
        /\ IF o.res = "ok"
           THEN /\ acked' = (IF tr_nesting = 1 THEN acked \cup view ELSE acked)
                /\ view' = (IF tr_nesting = 1 THEN {} ELSE view)
                /\ scopes' = Front(scopes)
                /\ UNCHANGED <<undone, broken>>
           ELSE /\ broken' = TRUE
                /\ view' = (IF tr_nesting = 1 /\ o.res = "lost" THEN {} ELSE view)
                /\ UNCHANGED <<scopes, acked, undone>>
  BY <1>1, <1>3 DEF CommitNamed, Took, Threw, Popped
<1>5. /\ Follows(srv, srv')
      /\ srv'.durable = srv.durable \/ srv'.durable = srv.durable \cup srv.pending
      /\ tr_nesting # 1 \/ o.res \notin {"ok", "lost"} => srv'.durable = srv.durable
      /\ o.res = "ok" => tr_nesting' = tr_nesting - 1 /\ srv.link = "up" /\ srv.blk = "open"
      /\ tr_nesting # 1 /\ o.res = "ok" => \E p \in Youngest(n, srv) : srv' = Released(p, srv)
      /\ tr_nesting = 1 /\ o.res = "ok" =>
           srv'.blk = "idle" /\ srv'.durable = srv.durable \cup srv.pending
  <2>1. /\ srv \in Session /\ WellFormed(srv) /\ InScope(srv) /\ tr_nesting \in Nat \ {0}
        /\ o \in DriverCommitNamed(n, tr_nesting, srv)
    BY <1>2
  <2>2. /\ Follows(srv, o.s)
        /\ o.s.durable = srv.durable \/ o.s.durable = srv.durable \cup srv.pending
        /\ tr_nesting # 1 \/ o.res \notin {"ok", "lost"} => o.s.durable = srv.durable
        /\ o.res = "ok" => o.nest = tr_nesting - 1 /\ srv.link = "up" /\ srv.blk = "open"
        /\ tr_nesting # 1 /\ o.res = "ok" => \E p \in Youngest(n, srv) : o.s = Released(p, srv)
        /\ tr_nesting = 1 /\ o.res = "ok" =>
             o.s.blk = "idle" /\ o.s.durable = srv.durable \cup srv.pending
    BY <2>1, DriverCommitNamedLeaves
  <2>3. tr_nesting' = o.nest /\ srv' = o.s
    BY <1>4
  <2> QED BY <2>2, <2>3
<1>6. done' = done
  BY DEF CommitNamed
<1>7. srv.pending \subseteq view
  BY <1>2 DEF InScope, WellFormed
<1>8. WellFormed(srv')
  BY <1>5 DEF Follows
<1>9. CASE o.res = "ok" /\ tr_nesting = 1
  <2>1. srv'.durable = srv.durable \cup view /\ srv'.blk = "idle" /\ tr_nesting' = 0
    BY <1>2, <1>5, <1>9
  <2>2. acked' = acked \cup view /\ view' = {} /\ undone' = undone /\ scopes' = <<>>
    BY <1>3, <1>4, <1>9
  <2>3. Ledger'
    BY <1>6, <2>1, <2>2 DEF IInv, Ledger
  <2>4. Held'
    BY <2>1, <2>2, NoScopeHeld DEF Held
  <2> QED BY <1>8, <2>2, <2>3, <2>4, NoScopeHeld DEF IInv
<1>10. CASE o.res = "ok" /\ tr_nesting # 1
  <2>1. /\ acked' = acked /\ view' = view /\ undone' = undone /\ scopes' = Front(scopes)
        /\ srv'.durable = srv.durable /\ tr_nesting' = tr_nesting - 1 /\ srv.link = "up"
        /\ srv.blk = "open"
    BY <1>4, <1>5, <1>10
  <2>2. PICK p \in Youngest(n, srv) : srv' = Released(p, srv)
    BY <1>5, <1>10
  <2>3. srv'.link = "up" /\ srv'.blk = "open"
    BY <1>2, <2>1, <2>2 DEF Released, Session
  <2>4. Backed(scopes', srv') /\ srv'.pending = view
    BY <1>1, <1>2, <2>1, <2>2, BackedPopped
  <2>5. Nested(scopes', view')
    BY <1>1, <1>2, <2>1, NestedPopped
  <2>6. Ledger'
    BY <1>6, <2>1 DEF IInv, Ledger
  <2>7. Held'
    BY <1>3, <1>10, <2>1, <2>3, <2>4 DEF Held, InScope
  <2> QED BY <1>8, <2>5, <2>6, <2>7 DEF IInv
<1>11. CASE o.res # "ok"
  <2>1. broken' /\ acked' = acked /\ undone' = undone
        /\ (view' = {} \/ (view' = view /\ srv'.durable = srv.durable))
    BY <1>4, <1>5, <1>11
  <2>2. acked \subseteq srv'.durable /\ srv'.durable \subseteq srv.durable \cup view
    BY <1>5, <1>7 DEF IInv, Ledger
  <2>3. Ledger'
    BY <1>6, <2>1, <2>2 DEF IInv, Ledger
  <2> QED BY <1>8, <2>1, <2>3 DEF IInv
<1> QED BY <1>9, <1>10, <1>11

LEMMA RollbackNamedKeeps ==
  ASSUME Careful, IInv, TypeOK', NEW n \in Names, RollbackNamed(n)
  PROVE  IInv'
<1>1. ~broken /\ scopes # <<>> /\ Last(scopes).name = n
  BY DEF RollbackNamed, Usable
<1>2. /\ srv \in Session /\ WellFormed(srv) /\ scopes \in Seq(Scope)
      /\ Nested(scopes, view) /\ tr_nesting = Len(scopes) /\ tr_nesting \in Nat \ {0}
      /\ InScope(srv) /\ (srv.link = "up" => srv.pending = view)
      /\ srv.link = "up" => Backed(scopes, srv)
  BY <1>1, ScopeFacts
<1>3. /\ Len(Front(scopes)) = tr_nesting - 1
      /\ Front(scopes) = <<>> <=> tr_nesting = 1
      /\ Outermost <=> tr_nesting = 1
  BY <1>1, <1>2, PoppedFacts
<1> DEFINE kept == IF tr_nesting = 1 THEN {} ELSE Last(scopes).base
<1>4. PICK o \in DriverRollbackNamed(n, tr_nesting, srv) :
        /\ tr_nesting' = o.nest /\ srv' = o.s
        /\ IF o.res = "ok"
           THEN /\ undone' = undone \cup (view \ kept)
                /\ view' = kept /\ scopes' = Front(scopes)
                /\ UNCHANGED <<acked, broken>>
           ELSE broken' = TRUE /\ UNCHANGED <<view, scopes, acked, undone>>
  BY <1>1, <1>3 DEF RollbackNamed, Took, Threw, Popped
<1> HIDE DEF kept
<1>5. /\ Follows(srv, srv') /\ srv'.durable = srv.durable
      /\ o.res = "ok" => tr_nesting' = tr_nesting - 1
      /\ tr_nesting # 1 /\ o.res = "ok" => /\ srv.link = "up" /\ srv.blk = "open"
                                          /\ \E p \in Youngest(n, srv) : srv' = Rewound(p, srv)
      /\ tr_nesting = 1 /\ o.res = "ok" => srv'.blk = "idle"
  <2>1. /\ srv \in Session /\ WellFormed(srv) /\ InScope(srv) /\ tr_nesting \in Nat \ {0}
        /\ o \in DriverRollbackNamed(n, tr_nesting, srv)
    BY <1>2
  <2>2. /\ Follows(srv, o.s) /\ o.s.durable = srv.durable
        /\ o.res = "ok" => o.nest = tr_nesting - 1
        /\ tr_nesting # 1 /\ o.res = "ok" => /\ srv.link = "up" /\ srv.blk = "open"
                                            /\ \E p \in Youngest(n, srv) : o.s = Rewound(p, srv)
        /\ tr_nesting = 1 /\ o.res = "ok" => o.s.blk = "idle"
    BY <2>1, DriverRollbackNamedLeaves
  <2>3. tr_nesting' = o.nest /\ srv' = o.s
    BY <1>4
  <2> QED BY <2>2, <2>3
<1>6. done' = done
  BY DEF RollbackNamed
<1>7. WellFormed(srv')
  BY <1>5 DEF Follows
<1>8. kept \subseteq view /\ Nested(Front(scopes), Last(scopes).base)
  BY <1>1, <1>2, NestedPopped DEF kept
<1>9. Ledger'
  <2>1. \/ /\ undone' = undone \cup (view \ kept) /\ view' = kept /\ acked' = acked
        \/ view' = view /\ acked' = acked /\ undone' = undone
    BY <1>4
  <2> QED BY <1>5, <1>6, <1>8, <2>1 DEF IInv, Ledger
<1>10. CASE o.res = "ok" /\ tr_nesting = 1
  <2>1. scopes' = <<>> /\ view' = {} /\ srv'.blk = "idle" /\ tr_nesting' = 0
    BY <1>3, <1>4, <1>5, <1>10 DEF kept
  <2>2. Held'
    BY <2>1, NoScopeHeld DEF Held
  <2> QED BY <1>7, <1>9, <2>1, <2>2, NoScopeHeld DEF IInv
<1>11. CASE o.res = "ok" /\ tr_nesting # 1
  <2>1. /\ view' = Last(scopes).base /\ scopes' = Front(scopes)
        /\ tr_nesting' = tr_nesting - 1 /\ srv.link = "up" /\ srv.blk = "open"
    BY <1>4, <1>5, <1>11 DEF kept
  <2>2. PICK p \in Youngest(n, srv) : srv' = Rewound(p, srv)
    BY <1>5, <1>11
  <2>3. srv'.link = "up" /\ srv'.blk = "open"
    BY <1>2, <2>1, <2>2 DEF Rewound, Session
  <2>4. Backed(scopes', srv') /\ srv'.pending = view'
    BY <1>1, <1>2, <2>1, <2>2, BackedPopped
  <2>5. Held'
    BY <1>3, <1>11, <2>1, <2>3, <2>4 DEF Held, InScope
  <2> QED BY <1>7, <1>8, <1>9, <2>1, <2>5 DEF IInv
<1>12. CASE o.res # "ok"
  BY <1>4, <1>7, <1>9, <1>12 DEF IInv
<1> QED BY <1>10, <1>11, <1>12

LEMMA ExecuteKeeps ==
  ASSUME Careful, IInv, TypeOK', NEW w \in Work, Execute(w)
  PROVE  IInv'
<1>1. ~broken /\ w \notin done
  BY DEF Execute, Usable
<1>2. /\ srv \in Session /\ WellFormed(srv) /\ scopes \in Seq(Scope)
      /\ Nested(scopes, view) /\ tr_nesting = Len(scopes)
      /\ scopes = <<>> => srv.blk = "idle" /\ view = {}
      /\ scopes # <<>> => InScope(srv) /\ (srv.link = "up" => srv.pending = view)
      /\ srv.link = "up" => Backed(scopes, srv)
  BY <1>1, ScopeFacts
<1>3. PICK r \in SendWork(w, srv) :
        /\ srv' = r.s
        /\ IF r.res = "ok"
           THEN /\ view' = (IF scopes = <<>> THEN view ELSE view \cup {w})
                /\ acked' = (IF scopes = <<>> THEN acked \cup {w} ELSE acked)
                /\ broken' = broken
           ELSE broken' = (broken \/ scopes # <<>>) /\ UNCHANGED <<view, acked>>
  BY DEF Execute
<1>4. done' = done \cup {w} /\ undone' = undone /\ scopes' = scopes /\ tr_nesting' = tr_nesting
  BY DEF Execute
<1>5. /\ Follows(srv, r.s)
      /\ InScope(srv) => r.s.durable = srv.durable
      /\ InScope(srv) /\ r.res = "ok" => /\ srv.link = "up" /\ srv.blk = "open"
                                         /\ r.s = [srv EXCEPT !.pending = srv.pending \cup {w}]
      /\ srv.blk = "idle" => /\ r.s.blk = "idle"
                             /\ r.s.durable = srv.durable \/ r.s.durable = srv.durable \cup {w}
                             /\ r.res = "ok" => r.s.durable = srv.durable \cup {w}
  BY <1>2, WorkReturns
<1>6. WellFormed(srv')
  BY <1>3, <1>5 DEF Follows
<1>7. w \notin view /\ w \notin acked /\ w \notin undone /\ w \notin srv.durable
  BY <1>1 DEF IInv, Ledger
<1>8. CASE scopes = <<>>
  <2>1. /\ srv'.blk = "idle" /\ view' = view /\ view = {} /\ ~broken'
        /\ \/ srv'.durable = srv.durable /\ acked' = acked
           \/ srv'.durable = srv.durable \cup {w} /\ (acked' = acked \/ acked' = acked \cup {w})
    BY <1>1, <1>2, <1>3, <1>5, <1>8
  <2>2. Ledger'
    BY <1>4, <1>7, <2>1 DEF IInv, Ledger
  <2>3. Held'
    BY <1>2, <1>4, <1>8, <2>1, NoScopeHeld DEF Held
  <2> QED BY <1>4, <1>6, <1>8, <2>2, <2>3, NoScopeHeld DEF IInv
<1>9. CASE scopes # <<>> /\ r.res = "ok"
  <2>1. /\ srv'.durable = srv.durable /\ srv.link = "up" /\ srv.blk = "open" /\ srv.pending = view
        /\ srv' = [srv EXCEPT !.pending = srv.pending \cup {w}]
        /\ view' = view \cup {w} /\ acked' = acked
    BY <1>2, <1>3, <1>5, <1>9
  <2>2. /\ srv'.link = "up" /\ srv'.blk = "open" /\ srv'.pending = view' /\ srv'.saves = srv.saves
    BY <1>2, <2>1 DEF Session
  <2>3. Ledger'
    BY <1>4, <1>7, <2>1 DEF IInv, Ledger
  <2>4. Nested(scopes', view')
    BY <1>2, <1>4, <2>1 DEF Nested
  <2>5. Backed(scopes', srv')
    BY <1>2, <1>4, <2>1, <2>2 DEF Backed, Youngest
  <2>6. Held'
    BY <1>2, <1>4, <1>9, <2>2, <2>5 DEF Held, InScope
  <2> QED BY <1>6, <2>3, <2>4, <2>6 DEF IInv
<1>10. CASE scopes # <<>> /\ r.res # "ok"
  <2>1. srv'.durable = srv.durable /\ view' = view /\ acked' = acked /\ broken'
    BY <1>2, <1>3, <1>5, <1>10
  <2>2. Ledger'
    BY <1>4, <2>1 DEF IInv, Ledger
  <2> QED BY <1>6, <2>1, <2>2 DEF IInv
<1> QED BY <1>8, <1>9, <1>10

LEMMA ReconnectKeeps == Careful /\ IInv /\ TypeOK' /\ Reconnect => IInv'
<1> SUFFICES ASSUME Careful, IInv, TypeOK', Reconnect PROVE IInv'
  OBVIOUS
<1>1. srv \in Session /\ WellFormed(srv)
  BY DEF IInv, TypeOK
<1>2. PICK o \in DriverReconnect(tr_nesting, srv) : tr_nesting' = o.nest /\ srv' = o.s
  BY DEF Reconnect, Took
<1>3. /\ Follows(srv, srv') /\ srv'.durable = srv.durable /\ tr_nesting' = tr_nesting
      /\ srv.blk = "idle" => srv'.blk = "idle"
  BY <1>1, <1>2, DriverReconnectLeaves
<1>4. UNCHANGED <<scopes, view, acked, undone, done, broken>> /\ (broken \/ scopes = <<>>)
  BY DEF Reconnect
<1>5. Ledger'
  BY <1>3, <1>4 DEF IInv, Ledger
<1>6. ~broken => Held'
  BY <1>3, <1>4, NoScopeHeld DEF IInv, Held
<1> QED BY <1>3, <1>4, <1>5, <1>6 DEF IInv, Follows

LEMMA DropKeeps == Careful /\ IInv /\ TypeOK' /\ Drop => IInv'
<1> SUFFICES ASSUME Careful, IInv, TypeOK', Drop PROVE IInv'
  OBVIOUS
<1>1. srv \in Session /\ WellFormed(srv) /\ srv.link = "up"
  BY DEF IInv, TypeOK, Drop
<1>2. /\ Follows(srv, srv') /\ srv'.durable = srv.durable /\ srv'.blk = "idle"
      /\ srv'.link # "up" /\ (srv.blk # "idle" => srv'.link = "down")
  BY <1>1, CutFollows DEF Drop, InTx
<1>3. UNCHANGED <<trx, tr_nesting, scopes, view, acked, undone, done, broken>>
  BY DEF Drop
<1>4. Ledger'
  BY <1>2, <1>3 DEF IInv, Ledger
<1>5. ~broken => Held'
  BY <1>1, <1>2, <1>3 DEF IInv, Held, InScope
<1> QED BY <1>2, <1>3, <1>4, <1>5 DEF IInv, Follows

LEMMA InvariantStep == Careful /\ IInv /\ [Next]_vars => IInv'
<1> SUFFICES ASSUME Careful, IInv, [Next]_vars PROVE IInv'
  OBVIOUS
<1>1. TypeOK'
  BY TypeStep DEF IInv
<1>2. CASE UNCHANGED vars
  BY <1>1, <1>2 DEF vars, IInv, Ledger, Held
<1> QED
  BY <1>1, <1>2, BeginKeeps, CommitKeeps, RollbackKeeps, BeginNamedKeeps, CommitNamedKeeps,
     RollbackNamedKeeps, ExecuteKeeps, ReconnectKeeps, DropKeeps DEF Next

-----------------------------------------------------------------------------
(* The inductive invariant holds in every reachable state.                 *)
LEMMA InvariantHolds ==
  ASSUME Careful
  PROVE  Spec => []IInv
<1>1. Init => IInv
  BY InvariantInit
<1>2. IInv /\ [Next]_vars => IInv'
  BY InvariantStep
<1> QED BY <1>1, <1>2, PTL DEF Spec

(* What commit() or the outermost commit(name) reported as committed is in  *)
(* the database in every state a careful client's handle reaches.          *)
THEOREM CommitsKept ==
  ASSUME Careful
  PROVE  Spec => []PromisesKept
<1>1. IInv => PromisesKept
  BY DEF IInv, Ledger, PromisesKept
<1> QED BY <1>1, InvariantHolds, PTL

(* What rollback() or rollback(name) reported as undone never gets there.   *)
THEOREM RollbacksFinal ==
  ASSUME Careful
  PROVE  Spec => []UndoneStaysUndone
<1>1. IInv => UndoneStaysUndone
  BY DEF IInv, Ledger, UndoneStaysUndone
<1> QED BY <1>1, InvariantHolds, PTL

(* RELEASE and ROLLBACK TO act on the scope the client of commit(name) and  *)
(* rollback(name) means.                                                   *)
THEOREM ScopesStayBacked ==
  ASSUME Careful
  PROVE  Spec => []ScopesBacked
<1>1. IInv => ScopesBacked
  BY DEF IInv, Held, Backed, ScopesBacked, Backing
<1> QED BY <1>1, InvariantHolds, PTL

-----------------------------------------------------------------------------
(* The facade's list.  OpenIn is OpenNames with the scopes as a parameter. *)
OpenIn(q) == IF q # <<>> /\ q[1].name = NoName THEN NamesOf(Tail(q)) ELSE NamesOf(q)

AnyName == Names \cup {NoName}

LEMMA NamesOfSeq ==
  ASSUME NEW q \in Seq(Scope)
  PROVE  /\ NamesOf(q) \in Seq(AnyName) /\ Len(NamesOf(q)) = Len(q)
         /\ \A i \in 1 .. Len(q) : NamesOf(q)[i] = q[i].name
<1>1. Len(q) \in Nat /\ DOMAIN q = 1 .. Len(q) /\ \A i \in DOMAIN q : q[i].name \in AnyName
  BY ScopeAt DEF AnyName
<1>2. NamesOf(q) \in [1 .. Len(q) -> AnyName]
  BY <1>1 DEF NamesOf
<1>3. NamesOf(q) \in Seq(AnyName)
  BY <1>1, <1>2, SeqDef
<1>4. Len(NamesOf(q)) = Len(q)
  <2>1. Len(NamesOf(q)) \in Nat /\ 1 .. Len(NamesOf(q)) = 1 .. Len(q)
    BY <1>2, <1>3, LenProperties
  <2> QED BY <1>1, <2>1
<1>5. \A i \in 1 .. Len(q) : NamesOf(q)[i] = q[i].name
  BY <1>1 DEF NamesOf
<1> QED BY <1>3, <1>4, <1>5

LEMMA NamesOfEmpty == NamesOf(<<>>) = <<>>
<1>1. <<>> \in Seq(Scope) /\ Len(<<>>) = 0
  BY EmptySeq
<1>2. NamesOf(<<>>) \in Seq(AnyName) /\ Len(NamesOf(<<>>)) = 0
  BY <1>1, NamesOfSeq
<1> QED BY <1>2, EmptySeq

LEMMA NamesOfAppend ==
  ASSUME NEW q \in Seq(Scope), NEW e \in Scope
  PROVE  NamesOf(Append(q, e)) = Append(NamesOf(q), e.name)
<1> DEFINE u == Append(q, e)
           l == NamesOf(u)
           r == Append(NamesOf(q), e.name)
<1>1. /\ u \in Seq(Scope) /\ Len(u) = Len(q) + 1 /\ Len(q) \in Nat
      /\ \A i \in 1 .. Len(q) : u[i] = q[i]
      /\ u[Len(q) + 1] = e
  BY ScopeAt, AppendProperties
<1>2. e.name \in AnyName
  BY DEF Scope, AnyName
<1>3. /\ NamesOf(q) \in Seq(AnyName) /\ Len(NamesOf(q)) = Len(q)
      /\ \A i \in 1 .. Len(q) : NamesOf(q)[i] = q[i].name
  BY NamesOfSeq
<1>4. /\ r \in Seq(AnyName) /\ Len(r) = Len(q) + 1
      /\ \A i \in 1 .. Len(q) : r[i] = q[i].name
      /\ r[Len(q) + 1] = e.name
  BY <1>2, <1>3, AppendProperties
<1> HIDE DEF u
<1>5. /\ l \in Seq(AnyName) /\ Len(l) = Len(q) + 1
      /\ \A i \in 1 .. Len(q) + 1 : l[i] = u[i].name
  BY <1>1, NamesOfSeq
<1> HIDE DEF l, r
<1>6. \A i \in 1 .. Len(q) + 1 : i \in 1 .. Len(q) \/ i = Len(q) + 1
  BY <1>1
<1>7. \A i \in 1 .. Len(l) : l[i] = r[i]
  BY <1>1, <1>4, <1>5, <1>6
<1>8. l = r
  BY <1>4, <1>5, <1>7, SeqEqual
<1> QED BY <1>8 DEF l, r, u

LEMMA NamesOfFront ==
  ASSUME NEW q \in Seq(Scope), q # <<>>
  PROVE  NamesOf(Front(q)) = Front(NamesOf(q))
<1> DEFINE n == NamesOf(q)
           l == NamesOf(Front(q))
           r == Front(n)
<1>1. /\ Front(q) \in Seq(Scope) /\ Len(Front(q)) = Len(q) - 1 /\ Len(q) \in Nat \ {0}
      /\ \A i \in 1 .. Len(q) - 1 : Front(q)[i] = q[i]
  BY FrontOfSeq
<1>2. n \in Seq(AnyName) /\ Len(n) = Len(q) /\ \A i \in 1 .. Len(q) : n[i] = q[i].name
  BY NamesOfSeq
<1> HIDE DEF n
<1>3. n # <<>>
  BY <1>1, <1>2, EmptySeq
<1>4. r \in Seq(AnyName) /\ Len(r) = Len(q) - 1 /\ \A i \in 1 .. Len(q) - 1 : r[i] = n[i]
  BY <1>2, <1>3, FrontOfSeq
<1>5. /\ l \in Seq(AnyName) /\ Len(l) = Len(q) - 1
      /\ \A i \in 1 .. Len(q) - 1 : l[i] = Front(q)[i].name
  BY <1>1, NamesOfSeq
<1> HIDE DEF l, r
<1>6. \A i \in 1 .. Len(q) - 1 : i \in 1 .. Len(q)
  BY <1>1
<1>7. \A i \in 1 .. Len(l) : l[i] = r[i]
  BY <1>1, <1>2, <1>4, <1>5, <1>6
<1>8. l = r
  BY <1>4, <1>5, <1>7, SeqEqual
<1> QED BY <1>8 DEF l, r, n

LEMMA TailOfFront ==
  ASSUME NEW q \in Seq(Scope), Len(q) > 1
  PROVE  /\ Tail(q) \in Seq(Scope) /\ Tail(q) # <<>>
         /\ Tail(Front(q)) = Front(Tail(q))
         /\ Front(q) # <<>> /\ Front(q)[1] = q[1]
<1> DEFINE t == Tail(q)
           f == Front(q)
<1>1. Len(q) \in Nat \ {0} /\ q # <<>>
  BY ScopeAt, EmptySeq
<1>2. t \in Seq(Scope) /\ Len(t) = Len(q) - 1 /\ \A i \in 1 .. Len(q) - 1 : t[i] = q[i + 1]
  BY <1>1, HeadTailProperties
<1>3. f \in Seq(Scope) /\ Len(f) = Len(q) - 1 /\ \A i \in 1 .. Len(q) - 1 : f[i] = q[i]
  BY <1>1, FrontOfSeq
<1>4. Len(q) - 1 # 0 /\ Len(q) - 1 \in Nat /\ 1 \in 1 .. Len(q) - 1
  <2>1. \A k \in Nat : k > 1 => k - 1 # 0 /\ k - 1 \in Nat /\ 1 \in 1 .. k - 1
    OBVIOUS
  <2> QED BY <1>1, <2>1
<1> HIDE DEF t, f
<1>5. t # <<>> /\ f # <<>> /\ f[1] = q[1]
  BY <1>2, <1>3, <1>4, EmptySeq
<1>6. /\ Tail(f) \in Seq(Scope) /\ Len(Tail(f)) = Len(q) - 1 - 1
      /\ \A i \in 1 .. Len(q) - 1 - 1 : Tail(f)[i] = f[i + 1]
  BY <1>3, <1>5, HeadTailProperties
<1>7. /\ Front(t) \in Seq(Scope) /\ Len(Front(t)) = Len(q) - 1 - 1
      /\ \A i \in 1 .. Len(q) - 1 - 1 : Front(t)[i] = t[i]
  BY <1>2, <1>5, FrontOfSeq
<1>8. \A i \in 1 .. Len(q) - 1 - 1 : i \in 1 .. Len(q) - 1 /\ i + 1 \in 1 .. Len(q) - 1
  BY <1>1
<1>9. \A i \in 1 .. Len(Tail(f)) : Tail(f)[i] = Front(t)[i]
  BY <1>2, <1>3, <1>6, <1>7, <1>8
<1>10. Tail(f) = Front(t)
  BY <1>6, <1>7, <1>9, SeqEqual
<1> QED BY <1>2, <1>5, <1>10 DEF t, f

LEMMA OpenInPushed ==
  ASSUME NEW q \in Seq(Scope), NEW e \in Scope, e.name \in Names
  PROVE  OpenIn(Append(q, e)) = Append(OpenIn(q), e.name)
<1>1. e.name # NoName /\ Append(q, e) # <<>>
  BY ParametersAssumption, AppendProperties
<1>2. CASE q = <<>>
  <2>1. Append(q, e)[1] = e
    BY <1>2, AppendProperties, EmptySeq
  <2> QED BY <1>1, <1>2, <2>1, NamesOfAppend DEF OpenIn
<1>3. CASE q # <<>>
  <2>1. Append(q, e)[1] = q[1] /\ Tail(Append(q, e)) = Append(Tail(q), e) /\ Tail(q) \in Seq(Scope)
    <3>1. 1 \in 1 .. Len(q)
      BY <1>3, EmptySeq
    <3>2. Append(q, e)[1] = q[1]
      BY <3>1, AppendProperties
    <3> QED BY <1>3, <3>2, HeadTailAppend, HeadTailProperties
  <2>2. NamesOf(Append(Tail(q), e)) = Append(NamesOf(Tail(q)), e.name)
    BY <2>1, NamesOfAppend
  <2>3. NamesOf(Append(q, e)) = Append(NamesOf(q), e.name)
    BY NamesOfAppend
  <2> QED BY <1>1, <1>3, <2>1, <2>2, <2>3 DEF OpenIn
<1> QED BY <1>2, <1>3

LEMMA OpenInPopped ==
  ASSUME NEW q \in Seq(Scope), q # <<>>, Last(q).name # NoName
  PROVE  OpenIn(Front(q)) = Front(OpenIn(q))
<1>1. Len(q) \in Nat \ {0} /\ Last(q) = q[Len(q)]
  BY FrontOfSeq
<1>2. CASE q[1].name = NoName
  <2>1. Len(q) > 1
    BY <1>1, <1>2
  <2>2. /\ Tail(q) \in Seq(Scope) /\ Tail(q) # <<>> /\ Tail(Front(q)) = Front(Tail(q))
        /\ Front(q) # <<>> /\ Front(q)[1] = q[1]
    BY <2>1, TailOfFront
  <2>3. NamesOf(Front(Tail(q))) = Front(NamesOf(Tail(q)))
    BY <2>2, NamesOfFront
  <2> QED BY <1>2, <2>2, <2>3 DEF OpenIn
<1>3. CASE q[1].name # NoName
  <2>1. Front(q) = <<>> \/ Front(q)[1] = q[1]
    <3>1. CASE Len(q) > 1
      BY <3>1, TailOfFront
    <3>2. CASE Len(q) = 1
      BY <3>2, PoppedFacts
    <3>3. \A k \in Nat \ {0} : k > 1 \/ k = 1
      OBVIOUS
    <3> QED BY <1>1, <3>1, <3>2, <3>3
  <2> QED BY <1>3, <2>1, NamesOfFront DEF OpenIn
<1> QED BY <1>2, <1>3

(* The list follows the scopes step by step.                               *)
Listed == ~broken => trx = OpenIn(scopes)

LEMMA ListedInit == Init => Listed
  BY NamesOfEmpty DEF Init, Listed, OpenIn

LEMMA ListedStep == Careful /\ IInv /\ Listed /\ [Next]_vars => Listed'
<1> SUFFICES ASSUME Careful, IInv, Listed, [Next]_vars PROVE Listed'
  OBVIOUS
<1>0. OpenIn(<<>>) = <<>>
  BY NamesOfEmpty DEF OpenIn
<1>1. CASE Begin
  <2>1. trx' = trx /\ broken' = broken /\ scopes = <<>>
        /\ (scopes' = scopes \/ scopes' = <<[name |-> NoName, base |-> {}]>>)
    BY <1>1 DEF Begin
  <2> DEFINE first == [name |-> NoName, base |-> {}]
  <2>2. <<first>> # <<>> /\ <<first>>[1].name = NoName /\ Tail(<<first>>) = <<>>
    OBVIOUS
  <2>3. OpenIn(<<first>>) = <<>>
    BY <2>2, NamesOfEmpty DEF OpenIn
  <2> QED BY <1>0, <2>1, <2>3 DEF Listed
<1>2. CASE Commit \/ Rollback
  BY <1>0, <1>2 DEF Commit, Rollback, Threw, Listed
<1>3. ASSUME NEW n \in Names, BeginNamed(n) PROVE Listed'
  <2>1. trx' = Append(trx, n) /\ ~broken /\ (broken' \/ scopes' = Pushed(n))
    BY <1>3 DEF BeginNamed, Threw, Usable
  <2> DEFINE e == [name |-> n, base |-> view]
  <2>2. e \in Scope /\ e.name = n /\ Pushed(n) = Append(scopes, e) /\ scopes \in Seq(Scope)
    BY DEF Pushed, Scope, IInv, TypeOK
  <2> HIDE DEF e
  <2>3. OpenIn(Append(scopes, e)) = Append(OpenIn(scopes), n)
    BY <2>2, OpenInPushed
  <2> QED BY <2>1, <2>2, <2>3 DEF Listed
<1>4. ASSUME NEW n \in Names, CommitNamed(n) \/ RollbackNamed(n) PROVE Listed'
  <2>1. /\ trx' = Front(trx) /\ ~broken /\ scopes # <<>> /\ Last(scopes).name = n
        /\ (broken' \/ scopes' = Front(scopes))
    BY <1>4 DEF CommitNamed, RollbackNamed, Threw, Usable, Popped
  <2>2. scopes \in Seq(Scope) /\ n # NoName
    BY ParametersAssumption DEF IInv, TypeOK
  <2>3. OpenIn(Front(scopes)) = Front(OpenIn(scopes))
    BY <2>1, <2>2, OpenInPopped
  <2> QED BY <2>1, <2>3 DEF Listed
<1>5. ASSUME NEW w \in Work, Execute(w) PROVE Listed'
  BY <1>5 DEF Execute, Usable, Listed
<1>6. CASE Reconnect \/ Drop \/ UNCHANGED vars
  BY <1>6 DEF Reconnect, Drop, vars, Listed
<1> QED BY <1>1, <1>2, <1>3, <1>4, <1>5, <1>6 DEF Next

(* Until something throws, Handle::trx, tr_nesting and the server agree     *)
(* with the scopes a careful client has open.                              *)
THEOREM StaysInStep ==
  ASSUME Careful
  PROVE  Spec => []InStep
<1>1. Init => IInv /\ Listed
  BY InvariantInit, ListedInit
<1>2. IInv /\ Listed /\ [Next]_vars => IInv' /\ Listed'
  BY InvariantStep, ListedStep
<1>3. IInv /\ Listed => InStep
  <2> SUFFICES ASSUME IInv, Listed, ~broken PROVE InStep
    BY DEF InStep
  <2>1. trx = OpenNames
    BY DEF Listed, OpenIn, OpenNames, Plain
  <2>2. scopes = <<>> => srv.pending = view
    BY DEF IInv, Held, WellFormed
  <2>3. srv.link = "up" => srv.blk = (IF scopes = <<>> THEN "idle" ELSE "open")
    BY DEF IInv, Held, InScope
  <2>4. srv.link = "up" => srv.pending = view
    BY <2>2 DEF IInv, Held
  <2> QED BY <2>1, <2>3, <2>4 DEF IInv, Held, InStep
<1> QED BY <1>1, <1>2, <1>3, PTL DEF Spec
=============================================================================
