--------------------------- MODULE StatementsProofs --------------------------
(***************************************************************************)
(* Two parts.  That a Statement or Query owns what it points at, for any     *)
(* client, any number of objects, any SQL and any parameters: the invariant  *)
(* joins what the run checks, the two pointers and the results in the        *)
(* client's hands are the live objects, each in one place; a second is about *)
(* the parameters.  And that the driver's statements are those the sessions   *)
(* of their handle know, for any number of statements and of sessions.       *)
(***************************************************************************)
EXTENDS MCStatements, SequenceTheorems, WellFoundedInduction, TLAPS

States == {"unborn", "live", "deleted", "left", "again", "twice"}

(* The heap hp, with the pointers s and r, and the results t taken.         *)
Owned(hp, s, r, t) ==
  /\ hp \in [Objects -> States]
  /\ s \in Pointers /\ r \in Pointers /\ t \subseteq Objects
  /\ s # NULL => hp[s] \in {"live", "left", "again"} /\ s \notin t /\ s # r
  /\ r # NULL => hp[r] = "live" /\ r \notin t
  /\ \A o \in t : hp[o] = "live"
  /\ \A o \in Objects : hp[o] # "twice" /\ (hp[o] = "live" => o \in {s, r} \cup t)

IInv ==
  /\ Owned(heap, st, rs, taken)
  /\ kind # "Query" => rs = NULL
  /\ alive = "unborn" => st = NULL /\ rs = NULL

-----------------------------------------------------------------------------
(* The heap's operations.                                                   *)
LEMMA NewIsUnborn == \A o \in New : o \in Objects /\ heap[o] = "unborn"
  BY DEF New, Unborn

LEMMA DeletedResult ==
  ASSUME FacadeAssumption, NEW hp, NEW s, NEW r, NEW t, Owned(hp, s, r, t)
  PROVE  Owned(Deleted(hp, r), s, NULL, t)
  BY DEF Owned, Deleted, AfterDelete, States, Pointers, FacadeAssumption

LEMMA DeletedStatement ==
  ASSUME FacadeAssumption, NEW hp, NEW s, NEW r, NEW t, Owned(hp, s, r, t)
  PROVE  Owned(Deleted(hp, s), NULL, r, t)
  BY DEF Owned, Deleted, AfterDelete, States, Pointers, FacadeAssumption

LEMMA DeletedTaken ==
  ASSUME FacadeAssumption, NEW hp, NEW s, NEW r, NEW t, Owned(hp, s, r, t), NEW o \in t
  PROVE  Owned(Deleted(hp, o), s, r, t \ {o})
  BY DEF Owned, Deleted, AfterDelete, States, Pointers, FacadeAssumption

(* A << that throws: the statement is gone, and still pointed at.            *)
LEMMA LeftStatement ==
  ASSUME FacadeAssumption, NEW hp, NEW s, NEW r, NEW t, Owned(hp, s, r, t), s # NULL
  PROVE  Owned([Deleted(hp, s) EXCEPT ![s] = IF @ = "deleted" THEN "left" ELSE @], s, r, t)
  BY DEF Owned, Deleted, AfterDelete, States, Pointers, FacadeAssumption

LEMMA BornStatement ==
  ASSUME FacadeAssumption, NEW hp, NEW r, NEW t, Owned(hp, NULL, r, t),
         NEW o \in Objects, hp[o] = "unborn"
  PROVE  Owned(Born(hp, o), o, r, t)
  BY DEF Owned, Born, States, Pointers, FacadeAssumption

LEMMA BornResult ==
  ASSUME FacadeAssumption, NEW hp, NEW s, NEW t, Owned(hp, s, NULL, t),
         NEW o \in Objects, hp[o] = "unborn"
  PROVE  Owned(Born(hp, o), s, o, t)
  BY DEF Owned, Born, States, Pointers, FacadeAssumption

LEMMA BornTaken ==
  ASSUME FacadeAssumption, NEW hp, NEW s, NEW r, NEW t, Owned(hp, s, r, t),
         NEW o \in Objects, hp[o] = "unborn"
  PROVE  Owned(Born(hp, o), s, r, t \cup {o})
  BY DEF Owned, Born, States, Pointers, FacadeAssumption

(* Deleting what an object owns leaves the unborn unborn.                    *)
LEMMA StaysUnborn ==
  ASSUME NEW hp, NEW s, NEW r, NEW t, Owned(hp, s, r, t),
         NEW o \in Objects, hp[o] = "unborn"
  PROVE  Deleted(hp, s)[o] = "unborn" /\ Deleted(hp, r)[o] = "unborn"
  BY DEF Owned, Deleted, AfterDelete, States, Pointers

(* What execute(), finish() and cleanup() begin with: a Query's result goes, *)
(* a Statement has none.                                                     *)
LEMMA ResultDropped ==
  ASSUME FacadeAssumption, IInv
  PROVE  /\ Owned(WithoutResult(heap), st, NULL, taken)
         /\ ResultGone = NULL
         /\ \A o \in New : WithoutResult(heap)[o] = "unborn"
<1>1. Owned(heap, st, rs, taken) /\ (kind # "Query" => rs = NULL)
  BY DEF IInv
<1>2. CASE kind = "Query"
  <2>1. Owned(Deleted(heap, rs), st, NULL, taken)
    BY <1>1, DeletedResult
  <2>2. \A o \in New : Deleted(heap, rs)[o] = "unborn"
    BY <1>1, NewIsUnborn, StaysUnborn
  <2> QED BY <1>2, <2>1, <2>2 DEF WithoutResult, ResultGone
<1>3. CASE kind # "Query"
  BY <1>1, <1>3, NewIsUnborn DEF WithoutResult, ResultGone
<1> QED BY <1>2, <1>3

-----------------------------------------------------------------------------
(* The invariant holds at first and is kept by every step.                   *)
LEMMA InvHoldsAtFirst ==
  ASSUME FacadeAssumption, Init
  PROVE  IInv
  BY DEF FacadeAssumption, Init, IInv, Owned, States, Pointers

(* The two constructors that have a statement.                               *)
LEMMA ConstructKeepsInv ==
  ASSUME FacadeAssumption, IInv, ConstructPrepared \/ ConstructFromDriver
  PROVE  IInv'
<1>1. PICK o \in New : st' = o /\ heap' = Born(heap, o)
  BY DEF ConstructPrepared, ConstructFromDriver
<1>2. Owned(heap, NULL, NULL, taken) /\ rs = NULL
  BY DEF IInv, ConstructPrepared, ConstructFromDriver
<1>3. Owned(Born(heap, o), o, NULL, taken)
  BY <1>1, <1>2, NewIsUnborn, BornStatement
<1>4. alive' = "alive" /\ rs' = NULL /\ UNCHANGED <<kind, taken>>
  BY <1>2 DEF ConstructPrepared, ConstructFromDriver, ResultNull, made
<1> QED BY <1>1, <1>3, <1>4 DEF IInv

(* An execution that returned: a Statement's leaves the heap alone.          *)
LEMMA RanKeepsInv ==
  ASSUME FacadeAssumption, IInv, NEW asked, NEW list, Ran(asked, list)
  PROVE  IInv'
<1>1. alive = "alive" /\ UNCHANGED <<kind, alive, st, taken>>
  BY DEF Ran, Usable, made
<1>2. CASE kind = "Query"
  <2>1. PICK o \in New : rs' = o /\ heap' = Born(WithoutResult(heap), o)
    BY <1>2 DEF Ran
  <2>2. Owned(WithoutResult(heap), st, NULL, taken) /\ WithoutResult(heap)[o] = "unborn"
    BY ResultDropped
  <2>3. Owned(Born(WithoutResult(heap), o), st, o, taken)
    BY <2>2, NewIsUnborn, BornResult
  <2> QED BY <1>1, <1>2, <2>1, <2>3 DEF IInv
<1>3. CASE kind # "Query"
  BY <1>1, <1>3 DEF Ran, IInv
<1> QED BY <1>2, <1>3

(* execute() that throws, and finish().                                      *)
LEMMA DroppingKeepsInv ==
  ASSUME FacadeAssumption, IInv, ExecuteThrows \/ Finish
  PROVE  IInv'
<1>1. heap' = WithoutResult(heap) /\ rs' = ResultGone /\ alive = "alive"
      /\ UNCHANGED <<kind, alive, st, taken>>
  BY DEF ExecuteThrows, Finish, Usable, made
<1>2. Owned(WithoutResult(heap), st, NULL, taken) /\ ResultGone = NULL
  BY ResultDropped
<1> QED BY <1>1, <1>2 DEF IInv

(* cleanup() and the destructors.                                            *)
LEMMA CleanupKeepsInv ==
  ASSUME FacadeAssumption, IInv, Cleanup \/ Destroy
  PROVE  IInv'
<1>1. Owned(WithoutResult(heap), st, NULL, taken) /\ ResultGone = NULL
  BY ResultDropped
<1>2. Owned(Deleted(WithoutResult(heap), st), NULL, NULL, taken)
  BY <1>1, DeletedStatement
<1>3. heap' = Deleted(WithoutResult(heap), st) /\ st' = NULL /\ rs' = NULL
      /\ UNCHANGED taken
  BY <1>1 DEF Cleanup, Destroy, PointerReset
<1> QED BY <1>2, <1>3 DEF IInv

(* << that returned: the old statement goes, a new one comes.                *)
LEMMA ReprepareKeepsInv ==
  ASSUME FacadeAssumption, IInv, Reprepare
  PROVE  IInv'
<1>1. PICK o \in New : st' = o /\ heap' = Born(Deleted(heap, st), o)
  BY DEF Reprepare
<1>2. Owned(Deleted(heap, st), NULL, rs, taken)
  BY DeletedStatement DEF IInv
<1>3. Deleted(heap, st)[o] = "unborn"
  BY NewIsUnborn, StaysUnborn DEF IInv
<1>4. Owned(Born(Deleted(heap, st), o), o, rs, taken)
  BY <1>2, <1>3, NewIsUnborn, BornStatement
<1>5. alive = "alive" /\ UNCHANGED <<kind, alive, rs, taken>>
  BY DEF Reprepare, made
<1> QED BY <1>1, <1>4, <1>5 DEF IInv

(* << that threw.                                                            *)
LEMMA ReprepareThrowsKeepsInv ==
  ASSUME FacadeAssumption, IInv, ReprepareThrows
  PROVE  IInv'
<1>1. Owned(heap', st, rs, taken)
  <2>1. CASE st = NULL
    BY <2>1 DEF IInv, ReprepareThrows
  <2>2. CASE st # NULL
    BY <2>2, LeftStatement DEF IInv, ReprepareThrows
  <2> QED BY <2>1, <2>2
<1>2. alive = "alive" /\ UNCHANGED <<kind, alive, st, rs, taken>>
  BY DEF ReprepareThrows, made
<1> QED BY <1>1, <1>2 DEF IInv

(* result(), and the client's delete of what it returned.                    *)
LEMMA TakingKeepsInv ==
  ASSUME FacadeAssumption, IInv, TakeResult \/ DropResult
  PROVE  IInv'
<1>1. CASE TakeResult
  <2>1. PICK o \in New : heap' = Born(heap, o) /\ taken' = taken \cup {o}
    BY <1>1 DEF TakeResult
  <2>2. Owned(Born(heap, o), st, rs, taken \cup {o})
    BY NewIsUnborn, BornTaken DEF IInv
  <2>3. UNCHANGED <<kind, alive, st, rs>>
    BY <1>1 DEF TakeResult, made
  <2> QED BY <2>1, <2>2, <2>3 DEF IInv
<1>2. CASE DropResult
  <2>1. PICK o \in taken : heap' = Deleted(heap, o) /\ taken' = taken \ {o}
    BY <1>2 DEF DropResult
  <2>2. Owned(Deleted(heap, o), st, rs, taken \ {o})
    BY DeletedTaken DEF IInv
  <2>3. UNCHANGED <<kind, alive, st, rs>>
    BY <1>2 DEF DropResult, made
  <2> QED BY <2>1, <2>2, <2>3 DEF IInv
<1> QED BY <1>1, <1>2

(* The calls that leave every object as it is.                               *)
LEMMA QuietKeepsInv ==
  ASSUME IInv, UNCHANGED <<kind, st, rs, heap, taken>>,
         alive' = "unborn" => alive = "unborn"
  PROVE  IInv'
  BY DEF IInv

LEMMA StepKeepsInv ==
  ASSUME FacadeAssumption, IInv, [Next]_vars
  PROVE  IInv'
<1>1. CASE ConstructEmpty
  BY <1>1, QuietKeepsInv DEF ConstructEmpty, made
<1>2. CASE ConstructPrepared \/ ConstructFromDriver
  BY <1>2, ConstructKeepsInv
<1>3. ASSUME NEW v \in Values, Bind(v)
      PROVE  IInv'
  BY <1>3, QuietKeepsInv DEF Bind, made
<1>4. CASE Execute
  BY <1>4, RanKeepsInv DEF Execute
<1>5. ASSUME NEW list \in Lists, ExecuteWith(list)
      PROVE  IInv'
  BY <1>5, RanKeepsInv DEF ExecuteWith
<1>6. CASE ExecuteThrows \/ Finish
  BY <1>6, DroppingKeepsInv
<1>7. CASE Cleanup \/ Destroy
  BY <1>7, CleanupKeepsInv
<1>8. CASE Reprepare
  BY <1>8, ReprepareKeepsInv
<1>9. CASE ReprepareThrows
  BY <1>9, ReprepareThrowsKeepsInv
<1>10. CASE ReprepareRefused \/ ReprepareWild \/ Misuse
  BY <1>10, QuietKeepsInv DEF ReprepareRefused, ReprepareWild, Misuse, made
<1>11. CASE TakeResult \/ DropResult
  BY <1>11, TakingKeepsInv
<1>12. CASE UNCHANGED vars
  BY <1>12, QuietKeepsInv DEF vars, made
<1> QED
  BY <1>1, <1>2, <1>3, <1>4, <1>5, <1>6, <1>7, <1>8, <1>9, <1>10, <1>11, <1>12 DEF Next

THEOREM OwnershipInvariant ==
  ASSUME FacadeAssumption
  PROVE  Spec => []IInv
<1>1. Init => IInv
  BY InvHoldsAtFirst
<1>2. IInv /\ [Next]_vars => IInv'
  BY StepKeepsInv
<1> QED BY <1>1, <1>2, PTL DEF Spec

-----------------------------------------------------------------------------
(* The parameters.  A careful client's are what it bound, unless an execution *)
(* threw since.                                                             *)
PInv ==
  /\ TypeOK
  /\ Careful /\ ~threw => params = bound
  /\ Careful => sent

LEMMA ListsAreSeqs ==
  ASSUME FacadeAssumption, NEW p \in Lists
  PROVE  p \in Seq(Values) /\ Len(p) \in Nat
<1>1. PICK n \in 0..MaxParams : p \in [1..n -> Values]
  BY DEF Lists
<1>2. n \in Nat
  BY DEF FacadeAssumption
<1>3. p \in Seq(Values)
  BY <1>1, <1>2, SeqDef
<1> QED BY <1>3, LenProperties

LEMMA SeqsAreLists ==
  ASSUME FacadeAssumption, NEW p \in Seq(Values), Len(p) <= MaxParams
  PROVE  p \in Lists
<1>1. Len(p) \in 0..MaxParams /\ p \in [1..Len(p) -> Values]
  BY LenProperties DEF FacadeAssumption
<1> QED BY <1>1 DEF Lists

LEMMA EmptyIsList ==
  ASSUME FacadeAssumption
  PROVE  <<>> \in Lists
<1>1. <<>> \in Seq(Values) /\ Len(<<>>) <= MaxParams
  BY EmptySeq DEF FacadeAssumption
<1> QED BY <1>1, SeqsAreLists

LEMMA AppendIsList ==
  ASSUME FacadeAssumption, NEW p \in Lists, NEW v \in Values, Len(p) < MaxParams
  PROVE  Append(p, v) \in Lists
<1>1. p \in Seq(Values) /\ Len(p) \in Nat
  BY ListsAreSeqs
<1>2. Append(p, v) \in Seq(Values) /\ Len(Append(p, v)) = Len(p) + 1
  BY <1>1, AppendProperties
<1>3. Len(Append(p, v)) <= MaxParams
  BY <1>1, <1>2 DEF FacadeAssumption
<1> QED BY <1>2, <1>3, SeqsAreLists

(* As many values as there are placeholders are delivered as they are.       *)
LEMMA DeliveredWhole ==
  ASSUME FacadeAssumption, NEW p \in Lists, Len(p) = Wants
  PROVE  Delivered(p) = p
<1>1. p \in Seq(Values)
  BY ListsAreSeqs
<1> QED BY <1>1, SubSeqFull DEF Delivered

LEMMA ParamsAtFirst ==
  ASSUME FacadeAssumption, Init
  PROVE  PInv
<1>1. <<>> \in Lists
  BY EmptyIsList
<1> HIDE DEF Lists
<1> QED BY <1>1 DEF Init, PInv, TypeOK, Pointers, Careful

(* The types of the objects follow from who owns them.                       *)
LEMMA ObjectsTyped ==
  ASSUME IInv'
  PROVE  /\ st' \in Pointers /\ rs' \in Pointers /\ taken' \subseteq Objects
         /\ heap' \in [Objects -> {"unborn", "live", "deleted", "left", "again", "twice"}]
  BY DEF IInv, Owned, States, Pointers

(* A step types its own part: the object's state, and the lists.             *)
LEMMA StepTypes ==
  ASSUME PInv, IInv', UNCHANGED made,
         alive' \in {"unborn", "alive", "gone", "crashed", "astray"},
         h' \in {"set", "null", "wild"},
         params' \in Lists, bound' \in Lists, sent' \in BOOLEAN, threw' \in BOOLEAN
  PROVE  TypeOK'
<1>1. kind' \in Kinds /\ driver' \in Drivers /\ client' \in Clients
  BY DEF PInv, TypeOK, made
<1> QED BY <1>1, ObjectsTyped DEF TypeOK

(* Binding, and the calls that send the parameters.                          *)
LEMMA BindKeepsParams ==
  ASSUME FacadeAssumption, PInv, IInv', NEW v \in Values, Bind(v)
  PROVE  PInv'
<1>1. params' = Append(params, v) /\ bound' = Append(bound, v) /\ (Careful => ~threw)
      /\ sent' = sent /\ threw' = threw /\ alive' = alive /\ h' = h /\ UNCHANGED made
  BY DEF Bind, Collected
<1>2. params' \in Lists /\ bound' \in Lists
  BY <1>1, AppendIsList DEF Bind, PInv, TypeOK
<1>3. TypeOK'
  BY <1>1, <1>2, StepTypes DEF PInv, TypeOK
<1> QED BY <1>1, <1>3 DEF PInv, Careful, made

LEMMA ExecuteKeepsParams ==
  ASSUME FacadeAssumption, PInv, IInv', Execute
  PROVE  PInv'
<1>1. /\ sent' = (Delivered(params) = bound) /\ alive' = alive /\ h' = h /\ UNCHANGED made
      /\ params' = <<>> /\ bound' = <<>> /\ threw' = FALSE
      /\ Orderly => Len(bound) = Wants
      /\ Careful => ~threw
  BY DEF Execute, Ran, ParamsSent
<1>2. TypeOK'
  BY <1>1, EmptyIsList, StepTypes DEF PInv, TypeOK
<1>3. Careful => sent'
  BY <1>1, DeliveredWhole DEF PInv, TypeOK, Careful, Orderly
<1> QED BY <1>1, <1>2, <1>3 DEF PInv, Careful, made

LEMMA ExecuteWithKeepsParams ==
  ASSUME FacadeAssumption, PInv, IInv', NEW list \in Lists, ExecuteWith(list)
  PROVE  PInv'
<1>1. /\ sent' = (Delivered(list) = list) /\ alive' = alive /\ h' = h /\ UNCHANGED made
      /\ params' = params /\ bound' = bound /\ threw' = threw /\ Len(list) = Wants
  BY DEF ExecuteWith, Ran
<1>2. TypeOK'
  BY <1>1, StepTypes DEF PInv, TypeOK
<1>3. sent'
  BY <1>1, DeliveredWhole
<1> QED BY <1>1, <1>2, <1>3 DEF PInv, Careful, made

(* The steps that keep the parameters, or drop them, and send nothing.       *)
LEMMA QuietKeepsParams ==
  ASSUME FacadeAssumption, PInv, IInv', UNCHANGED made, sent' = sent,
         alive' \in {"unborn", "alive", "gone", "crashed", "astray"},
         h' \in {"set", "null", "wild"},
         \/ params' = params /\ bound' = bound /\ threw' = threw
         \/ params' = <<>> /\ bound' = <<>> /\ threw' = FALSE
         \/ params' = params /\ bound' = <<>> /\ threw' = (params # <<>>)
  PROVE  PInv'
<1>1. params \in Lists /\ bound \in Lists /\ sent \in BOOLEAN /\ threw \in BOOLEAN
  BY DEF PInv, TypeOK
<1>2. params' \in Lists /\ bound' \in Lists /\ sent' \in BOOLEAN /\ threw' \in BOOLEAN
  BY <1>1, EmptyIsList
<1>3. TypeOK'
  BY <1>2, StepTypes
<1>4. Careful' <=> Careful
  BY DEF Careful, made
<1> QED BY <1>3, <1>4 DEF PInv

LEMMA StepKeepsParams ==
  ASSUME FacadeAssumption, PInv, IInv', [Next]_vars
  PROVE  PInv'
<1> USE DEF ParamsDropped
<1>1. alive \in {"unborn", "alive", "gone", "crashed", "astray"} /\ h \in {"set", "null", "wild"}
  BY DEF PInv, TypeOK
<1>2. CASE ConstructEmpty \/ ConstructPrepared \/ ConstructFromDriver
  BY <1>1, <1>2, QuietKeepsParams DEF ConstructEmpty, ConstructPrepared, ConstructFromDriver
<1>3. ASSUME NEW v \in Values, Bind(v)
      PROVE  PInv'
  BY <1>3, BindKeepsParams
<1>4. CASE Execute
  BY <1>4, ExecuteKeepsParams
<1>5. ASSUME NEW list \in Lists, ExecuteWith(list)
      PROVE  PInv'
  BY <1>5, ExecuteWithKeepsParams
<1>6. CASE ExecuteThrows
  BY <1>1, <1>6, QuietKeepsParams DEF ExecuteThrows
<1>7. CASE Finish
  BY <1>1, <1>7, QuietKeepsParams DEF Finish
<1>8. CASE Cleanup \/ Destroy
  BY <1>1, <1>8, QuietKeepsParams DEF Cleanup, Destroy
<1>9. CASE Reprepare \/ ReprepareThrows
  BY <1>1, <1>9, QuietKeepsParams DEF Reprepare, ReprepareThrows
<1>10. CASE ReprepareRefused \/ ReprepareWild \/ Misuse
  BY <1>1, <1>10, QuietKeepsParams DEF ReprepareRefused, ReprepareWild, Misuse
<1>11. CASE TakeResult \/ DropResult
  BY <1>1, <1>11, QuietKeepsParams DEF TakeResult, DropResult
<1>12. CASE UNCHANGED vars
  BY <1>1, <1>12, QuietKeepsParams DEF vars
<1> QED
  BY <1>2, <1>3, <1>4, <1>5, <1>6, <1>7, <1>8, <1>9, <1>10, <1>11, <1>12 DEF Next

THEOREM ParamsInvariant ==
  ASSUME FacadeAssumption
  PROVE  Spec => []PInv
<1>1. Init => PInv
  BY ParamsAtFirst
<1>2. PInv /\ IInv' /\ [Next]_vars => PInv'
  BY StepKeepsParams
<1> QED BY <1>1, <1>2, OwnershipInvariant, PTL DEF Spec

-----------------------------------------------------------------------------
(* The state is what the declarations say, for every client (statement.h,    *)
(* query.h).                                                                *)
THEOREM FacadeTyped ==
  ASSUME FacadeAssumption
  PROVE  Spec => []TypeOK
<1>1. PInv => TypeOK
  BY DEF PInv
<1> QED BY <1>1, ParamsInvariant, PTL

(* What a careful client binds is what its execution sends, also after an    *)
(* execution that threw (statement.cc:126-132, query.cc:75-83).              *)
THEOREM CarefulIsSent ==
  ASSUME FacadeAssumption
  PROVE  Spec => []SentAsBound
<1>1. PInv => SentAsBound
  BY DEF PInv, SentAsBound
<1> QED BY <1>1, ParamsInvariant, PTL

(* A pointer of a Statement or Query is null or points at a live object     *)
(* nobody else owns, or at the statement that a << that threw had deleted,   *)
(* and but for that statement no driver object is deleted twice             *)
(* (statement.cc:39-48 and 104, query.cc:15-28 and 105).                     *)
THEOREM PointersOwn ==
  ASSUME FacadeAssumption
  PROVE  Spec => []OwnsOne
<1>1. IInv => OwnsOne
  BY DEF IInv, Owned, OwnsOne
<1> QED BY <1>1, OwnershipInvariant, PTL

(* Every live driver object is the Statement's, the Query's or the client's *)
(* (statement.cc:39-48, query.cc:15-28).                                    *)
THEOREM NothingIsLost ==
  ASSUME FacadeAssumption
  PROVE  Spec => []NothingLeaks
<1>1. IInv => NothingLeaks
  BY DEF IInv, Owned, NothingLeaks
<1> QED BY <1>1, OwnershipInvariant, PTL

-----------------------------------------------------------------------------
(* The driver's statements.  What the run checks is not inductive without     *)
(* two more facts: nobody holds a session that was not opened yet, so that a *)
(* new one knows no statement; and as long as a careful client has a         *)
(* PgStatement the handle keeps the session it is on, for only MySQL          *)
(* reconnects on its own.                                                   *)
NoneUnused ==
  /\ conn # Server!Closed => sess[conn].link # "none"
  /\ \A s \in Server!Alive : sess[stmt[s]].link # "none"

PgStatementsHere ==
  careful /\ driver = "pg" => \A s \in Server!Alive : stmt[s] = conn

ServerInv ==
  /\ ServerAgrees /\ LibraryHarmless /\ OthersClosed
  /\ NoneUnused /\ PgStatementsHere

SessionRecords == [link: {"none", "up", "lost", "closed"}, names: SUBSET Stmts,
                   tx: {"idle", "open", "failed"}]

-----------------------------------------------------------------------------
(* The session that is opened next is one that was not opened.               *)
LEMMA SmallestSession ==
  ASSUME NEW T, T \subseteq Nat, T # {}
  PROVE  \E x \in T : \A y \in T : x <= y
<1> DEFINE R == {xy \in Nat \X Nat : xy[1] < xy[2]}
<1>1. IsWellFoundedOn(R, Nat)
  BY NatLessThanWellFounded DEF OpToRel
<1>2. \A x, y \in Nat : x < y => <<x, y>> \in R
  OBVIOUS
<1> HIDE DEF R
<1>3. PICK x \in T : \A y \in T : ~(<<y, x>> \in R)
  BY <1>1, WFMin, Zenon
<1>4. \A y \in T : y \in Nat /\ x \in Nat /\ ~(y < x)
  BY <1>2, <1>3
<1> QED BY <1>4

LEMMA NextIsUnused ==
  ASSUME Server!PreparedAssumption, Server!Unused # {}
  PROVE  Server!Next1 \in Server!Unused
<1>1. Server!Unused \subseteq Nat
  BY DEF Server!Unused, Server!Sessions, Server!PreparedAssumption
<1>2. \E c \in Server!Unused : \A d \in Server!Unused : c <= d
  BY <1>1, SmallestSession
<1> QED BY <1>2 DEF Server!Next1

(* What the type invariant says of the parts.                                *)
LEMMA ServerTyped ==
  ASSUME Server!PreparedAssumption, ServerInv
  PROVE  /\ driver \in {"pg", "mysql", "sqlite3"} /\ careful \in BOOLEAN
         /\ conn \in Server!Sessions \cup {Server!Closed}
         /\ Server!Closed \notin Server!Sessions /\ Server!Absent \notin Server!Sessions
         /\ sess \in [Server!Sessions -> SessionRecords]
         /\ stmt \in [Stmts -> Server!Sessions \cup {Server!Absent}]
         /\ nesting \in {0, 1} /\ doomed \in {"nobody", "client", "library"}
         /\ orphan \in BOOLEAN
  BY DEF ServerInv, ServerAgrees, Server!TypeOK, Server!PreparedAssumption, Server!Closed,
         Server!Absent, Server!Sessions, SessionRecords

(* The invariant's parts are visible in every step from here on.             *)
USE DEF ServerInv, ServerAgrees, LibraryHarmless, OthersClosed, NoneUnused, PgStatementsHere,
        Server!TypeOK, Server!ServerAgrees, Server!NoneLeftBehind, Server!LibraryHarmless,
        Server!OthersClosed, Server!Sqlite3Backed, Server!Up, Server!Alive, Server!made, SessionRecords

LEMMA ServerAtFirst ==
  ASSUME Server!PreparedAssumption, Server!Init
  PROVE  ServerInv
<1> USE DEF Server!Init, Server!PreparedAssumption, Server!Sessions, Server!Closed,
            Server!Absent, Server!Fresh
<1>1. Server!TypeOK
  <2>1. conn \in Server!Sessions \cup {Server!Closed}
    OBVIOUS
  <2>2. sess \in [Server!Sessions -> SessionRecords]
    OBVIOUS
  <2>3. stmt \in [Stmts -> Server!Sessions \cup {Server!Absent}]
    OBVIOUS
  <2>4. driver \in Drivers /\ careful \in BOOLEAN /\ orphan \in BOOLEAN
    BY Zenon
  <2>5. nesting \in {0, 1} /\ doomed \in {"nobody", "client", "library"}
    OBVIOUS
  <2> QED BY <2>1, <2>2, <2>3, <2>4, <2>5, Zenon
<1>2. Server!ServerAgrees /\ NoneUnused /\ PgStatementsHere
  OBVIOUS
<1>3. Server!LibraryHarmless /\ Server!OthersClosed /\ Server!Sqlite3Backed
  OBVIOUS
<1>4. Server!NoneLeftBehind
  OBVIOUS
<1> QED BY <1>1, <1>2, <1>3, <1>4

(* Transactions, and what a failing statement does to one.                  *)
LEMMA DropKeeps ==
  ASSUME Server!PreparedAssumption, ServerInv, Server!Drop
  PROVE  ServerInv'
  BY ServerTyped DEF Server!Drop, Server!Lost

LEMMA BeginKeeps ==
  ASSUME Server!PreparedAssumption, ServerInv, Server!Begin
  PROVE  ServerInv'
  BY ServerTyped DEF Server!Begin

LEMMA EndKeeps ==
  ASSUME Server!PreparedAssumption, ServerInv, Server!End
  PROVE  ServerInv'
  BY ServerTyped DEF Server!End

LEMMA FailedOnly ==
  ASSUME NEW w \in SessionRecords
  PROVE  /\ Server!Failing(w) \in SessionRecords
         /\ Server!Failing(w).link = w.link /\ Server!Failing(w).names = w.names
         /\ w.tx # "open" => Server!Failing(w) = w
  BY DEF Server!Failing

LEMMA PrepareKeeps ==
  ASSUME Server!PreparedAssumption, ServerInv, NEW s \in Stmts, Server!Prepare(s)
  PROVE  ServerInv'
  BY ServerTyped DEF Server!Prepare

LEMMA PrepareThrowsKeeps ==
  ASSUME Server!PreparedAssumption, ServerInv, Server!PrepareThrows
  PROVE  ServerInv'
  BY ServerTyped, FailedOnly DEF Server!PrepareThrows, Server!Blames

LEMMA ExecuteThrowsKeeps ==
  ASSUME Server!PreparedAssumption, ServerInv, NEW s \in Stmts, Server!ExecuteThrows(s)
  PROVE  ServerInv'
  BY ServerTyped, FailedOnly
  DEF Server!ExecuteThrows, Server!Blames, Server!SessionOf, Server!PgSession, Server!OwnSession

(* A cleanup() forgets its statement and no other, and only PostgreSQL's fails *)
(* in doing so: when the transaction has failed, and then without effect, or  *)
(* when the server knows no such statement, and then the transaction fails.  *)
LEMMA ForgottenOnly ==
  ASSUME Server!PreparedAssumption, driver \in Drivers, NEW w \in SessionRecords, NEW s \in Stmts
  PROVE  LET f == Server!Forgets(w, s) IN
         /\ f \in SessionRecords /\ f.link = w.link
         /\ f.names = w.names \ {s} \/ (driver = "pg" /\ f.names = w.names)
         /\ driver = "pg" /\ w.link = "up" /\ w.tx # "failed" => f.names = w.names \ {s}
         /\ f.tx = w.tx \/ (driver = "pg" /\ w.link = "up" /\ w.tx = "open" /\ s \notin w.names)
<1>1. CASE driver = "pg"
  <2>1. Server!Forgets(w, s) = Server!PgForgets(w, s)
    BY <1>1 DEF Server!Forgets
  <2>2. CASE w.tx = "failed" \/ w.link # "up"
    BY <1>1, <2>1, <2>2 DEF Server!PgForgets
  <2>3. CASE ~(w.tx = "failed" \/ w.link # "up") /\ s \in w.names
    BY <1>1, <2>1, <2>3 DEF Server!PgForgets
  <2>4. CASE ~(w.tx = "failed" \/ w.link # "up") /\ s \notin w.names
    <3>1. w.names \ {s} = w.names
      BY <2>4
    <3> QED BY <1>1, <2>1, <2>4, <3>1, FailedOnly DEF Server!PgForgets
  <2> QED BY <2>2, <2>3, <2>4
<1>2. CASE driver = "mysql" \/ driver = "sqlite3"
  <2>1. Server!Forgets(w, s) = [w EXCEPT !.names = w.names \ {s}]
    BY <1>2 DEF Server!Forgets, Server!MySqlForgets, Server!Sqlite3Forgets, Server!Closes
  <2> QED BY <2>1
<1> QED BY <1>1, <1>2 DEF Server!PreparedAssumption

LEMMA DestroyKeeps ==
  ASSUME Server!PreparedAssumption, ServerInv, NEW s \in Stmts, Server!Destroy(s)
  PROVE  ServerInv'
<1> DEFINE c == Server!SessionOf(s)
           w == Server!Forgets(sess[c], s)
<1> USE ServerTyped
<1>1. /\ UNCHANGED <<driver, careful, conn, nesting, orphan>>
      /\ stmt' = [stmt EXCEPT ![s] = Server!Absent] /\ stmt[s] # Server!Absent
      /\ c = IF driver = "pg" THEN conn ELSE stmt[s]
  BY DEF Server!Destroy, Server!SessionOf, Server!PgSession, Server!OwnSession
<1>2. CASE c = Server!Closed
  <2>1. UNCHANGED <<sess, doomed>>
    BY <1>2 DEF Server!Destroy
  <2>2. driver = "pg" /\ conn = Server!Closed
    BY <1>1, <1>2 DEF Server!Closed, Server!Absent
  <2> QED BY <1>1, <2>1, <2>2
<1>3. CASE c # Server!Closed
  <2>1. /\ c \in Server!Sessions /\ sess[c] \in SessionRecords
        /\ sess' = [sess EXCEPT ![c] = w] /\ sess'[c] = w
        /\ careful => sess[c].tx # "failed"
        /\ doomed' = IF w.tx = sess[c].tx THEN doomed ELSE "library"
    BY <1>1, <1>3 DEF Server!Destroy, Server!Closed, Server!Absent
  <2>2. /\ w \in SessionRecords /\ w.link = sess[c].link
        /\ w.names = sess[c].names \ {s} \/ (driver = "pg" /\ w.names = sess[c].names)
        /\ driver = "pg" /\ sess[c].link = "up" /\ sess[c].tx # "failed" => w.names = sess[c].names \ {s}
        /\ w.tx = sess[c].tx \/ (driver = "pg" /\ sess[c].link = "up" /\ sess[c].tx = "open" /\ s \notin sess[c].names)
    BY <2>1, ForgottenOnly
  <2> HIDE DEF w, c
  <2>3. Server!TypeOK' /\ Server!OthersClosed' /\ NoneUnused' /\ PgStatementsHere'
    BY <1>1, <2>1, <2>2
  <2>4. Server!ServerAgrees'
    BY <1>1, <2>1, <2>2
  <2>5. Server!NoneLeftBehind' /\ Server!Sqlite3Backed'
    BY <1>1, <2>1, <2>2
  <2>6. Server!LibraryHarmless'
    BY <1>1, <2>1, <2>2 DEF c
  <2> QED BY <2>3, <2>4, <2>5, <2>6
<1> QED BY <1>2, <1>3

(* Query's operator<< does it twice, outside transactions without harm.       *)
LEMMA ForgottenTwice ==
  ASSUME Server!PreparedAssumption, driver \in Drivers, NEW w \in SessionRecords, NEW s \in Stmts,
         w.link = "up"
  PROVE  LET f == Server!ForgetsTwice(w, s) IN
         /\ f \in SessionRecords /\ f.link = w.link
         /\ f.names = w.names \ {s} \/ (driver = "pg" /\ f.names = w.names)
         /\ driver = "pg" /\ w.tx # "failed" => f.names = w.names \ {s}
         /\ f.tx = w.tx \/ w.tx = "open"
<1> DEFINE g == Server!Forgets(w, s)
<1>1. /\ g \in SessionRecords /\ g.link = w.link
      /\ g.names = w.names \ {s} \/ (driver = "pg" /\ g.names = w.names)
      /\ driver = "pg" /\ w.tx # "failed" => g.names = w.names \ {s}
      /\ g.tx = w.tx \/ w.tx = "open"
  BY ForgottenOnly
<1>2. CASE driver # "pg"
  BY <1>1, <1>2 DEF Server!ForgetsTwice
<1>3. CASE driver = "pg"
  <2> DEFINE f == Server!Forgets(g, s)
  <2>1. /\ f \in SessionRecords /\ f.link = w.link
        /\ f.names = g.names \ {s} \/ f.names = g.names
        /\ g.tx # "failed" => f.names = g.names \ {s}
        /\ f.tx = g.tx \/ g.tx = "open"
    BY <1>1, ForgottenOnly
  <2>2. Server!ForgetsTwice(w, s) = f
    BY <1>3 DEF Server!ForgetsTwice
  <2> HIDE DEF f, g
  <2>3. w.names \ {s} = (w.names \ {s}) \ {s}
    OBVIOUS
  <2> QED BY <1>1, <1>3, <2>1, <2>2, <2>3
<1> QED BY <1>2, <1>3

LEMMA QueryReprepareKeeps ==
  ASSUME Server!PreparedAssumption, ServerInv, NEW s \in Stmts, NEW r \in Stmts,
         Server!QueryReprepare(s, r)
  PROVE  ServerInv'
<1> DEFINE w == Server!ForgetsTwice(sess[conn], s)
<1> USE ServerTyped
<1>1. /\ UNCHANGED <<driver, careful, conn, nesting, orphan>>
      /\ stmt[s] = conn /\ stmt[r] = Server!Absent /\ r # s
      /\ conn \in Server!Sessions /\ sess[conn] \in SessionRecords /\ sess[conn].link = "up"
      /\ careful => sess[conn].tx = "idle"
      /\ doomed' = IF w.tx = sess[conn].tx THEN doomed ELSE "library"
  BY DEF Server!QueryReprepare
<1>2. /\ w \in SessionRecords /\ w.link = "up"
      /\ w.names = sess[conn].names \ {s} \/ (driver = "pg" /\ w.names = sess[conn].names)
      /\ driver = "pg" /\ sess[conn].tx # "failed" => w.names = sess[conn].names \ {s}
      /\ w.tx = sess[conn].tx \/ sess[conn].tx = "open"
  BY <1>1, ForgottenTwice DEF Server!TypeOK
<1>3. CASE w.tx = "failed"
  <2>1. sess' = [sess EXCEPT ![conn] = w] /\ stmt' = [stmt EXCEPT ![s] = Server!Absent]
    BY <1>3 DEF Server!QueryReprepare
  <2> HIDE DEF w
  <2>2. Server!TypeOK' /\ Server!OthersClosed' /\ NoneUnused' /\ PgStatementsHere'
    BY <1>1, <1>2, <2>1
  <2>3. Server!ServerAgrees' /\ Server!LibraryHarmless'
    BY <1>1, <1>2, <1>3, <2>1
  <2>4. Server!NoneLeftBehind' /\ Server!Sqlite3Backed'
    BY <1>1, <1>2, <2>1
  <2> QED BY <2>2, <2>3, <2>4
<1>4. CASE w.tx # "failed"
  <2> DEFINE v == [w EXCEPT !.names = w.names \cup {r}]
  <2>1. sess' = [sess EXCEPT ![conn] = v] /\ stmt' = [stmt EXCEPT ![s] = Server!Absent, ![r] = conn]
    BY <1>4 DEF Server!QueryReprepare
  <2>2. v \in SessionRecords /\ v.link = "up" /\ v.names = w.names \cup {r} /\ v.tx = w.tx
    BY <1>2
  <2>3. \A t \in Stmts : stmt'[t] = IF t = r THEN conn ELSE IF t = s THEN Server!Absent ELSE stmt[t]
    BY <1>1, <2>1
  <2> HIDE DEF w, v
  <2>4. Server!TypeOK' /\ Server!OthersClosed' /\ NoneUnused' /\ PgStatementsHere'
    BY <1>1, <1>2, <2>1, <2>2
  <2>5. Server!ServerAgrees' /\ Server!LibraryHarmless'
    BY <1>1, <1>2, <2>1, <2>2, <2>3
  <2>6. Server!NoneLeftBehind' /\ Server!Sqlite3Backed'
    BY <1>1, <1>2, <2>1, <2>2, <2>3
  <2> QED BY <2>4, <2>5, <2>6
<1> QED BY <1>3, <1>4

(* What close() leaves of a session: nothing, if no Sqlite3Statement needs it. *)
LEMMA FinishedClosed ==
  ASSUME Server!PreparedAssumption, driver \in Drivers, NEW w \in SessionRecords
  PROVE  LET f == Server!Finished(w) IN
         /\ f \in SessionRecords
         /\ \/ f = w /\ driver = "sqlite3" /\ w.names # {}
            \/ f.link = "closed" /\ f.names = {}
         /\ driver = "sqlite3" /\ w.names # {} => f = w
<1>1. Server!PgFinished(w) \in SessionRecords /\ Server!PgFinished(w).link = "closed" /\ Server!PgFinished(w).names = {}
  BY DEF Server!PgFinished
<1>2. Server!MySqlFinished(w) = Server!PgFinished(w)
  BY DEF Server!PgFinished, Server!MySqlFinished
<1>3. CASE driver = "pg" \/ driver = "mysql"
  BY <1>1, <1>2, <1>3 DEF Server!Finished
<1>4. CASE driver = "sqlite3"
  <2>1. Server!Finished(w) = IF w.names = {} THEN Server!PgFinished(w) ELSE w
    BY <1>4 DEF Server!Finished, Server!Sqlite3Finished
  <2>2. CASE w.names = {}
    BY <1>1, <1>4, <2>1, <2>2
  <2>3. CASE w.names # {}
    <3>1. Server!Finished(w) = w
      BY <2>1, <2>3
    <3> QED BY <1>4, <2>3, <3>1
  <2> QED BY <2>2, <2>3
<1> QED BY <1>3, <1>4 DEF Server!PreparedAssumption

LEMMA CloseKeeps ==
  ASSUME Server!PreparedAssumption, ServerInv, Server!Close
  PROVE  ServerInv'
<1> DEFINE w == Server!Finished(sess[conn])
<1> USE ServerTyped
<1>1. /\ UNCHANGED <<driver, careful, nesting, stmt, doomed, orphan>>
      /\ conn \in Server!Sessions /\ sess[conn] \in SessionRecords
      /\ sess' = [sess EXCEPT ![conn] = w] /\ conn' = Server!Closed
      /\ careful => Server!Alive = {}
  BY DEF Server!Close
<1>2. /\ w \in SessionRecords
      /\ \/ w = sess[conn] /\ driver = "sqlite3" /\ sess[conn].names # {}
         \/ w.link = "closed" /\ w.names = {}
      /\ driver = "sqlite3" /\ sess[conn].names # {} => w = sess[conn]
  BY <1>1, FinishedClosed
<1> HIDE DEF w
<1>3. Server!TypeOK' /\ Server!ServerAgrees' /\ NoneUnused' /\ PgStatementsHere' /\ Server!LibraryHarmless'
  BY <1>1, <1>2
<1>4. Server!NoneLeftBehind' /\ Server!Sqlite3Backed'
  BY <1>1, <1>2
<1>5. Server!OthersClosed'
  <2>1. driver = "sqlite3" /\ sess[conn].names # {} => ~careful
    BY <1>1
  <2> QED BY <1>1, <1>2, <2>1
<1> QED BY <1>3, <1>4, <1>5

(* reconnect() and libmysqlclient's own reconnection move the handle to a new  *)
(* session, and leave the old one closed, lost, or to SQLite's statements.    *)
LEMMA ReconnectKeeps ==
  ASSUME Server!PreparedAssumption, ServerInv,
         \/ (careful => Server!Alive = {}) /\ (Server!PgReconnect \/ Server!Sqlite3Reconnect)
         \/ Server!MySqlReopens
  PROVE  ServerInv'
<1> DEFINE n == Server!Next1
<1> USE ServerTyped
<1>1. /\ UNCHANGED <<driver, careful, nesting, stmt, orphan>> /\ conn' = n /\ doomed' \in {doomed, "nobody"}
      /\ n \in Server!Sessions /\ sess[n].link = "none" /\ n # conn
      /\ \A s \in Stmts : stmt[s] # n
  <2>1. Server!Unused # {} /\ conn' = n /\ UNCHANGED <<driver, careful, nesting, stmt, orphan>> /\ doomed' \in {doomed, "nobody"}
    BY DEF Server!PgReconnect, Server!Sqlite3Reconnect, Server!MySqlReopens
  <2>2. n \in Server!Unused
    BY <2>1, NextIsUnused
  <2> QED BY <2>1, <2>2 DEF Server!Unused
<1>2. PICK l \in {"up", "lost"} :
        \A c \in Server!Sessions :
          sess'[c] = IF c = n THEN Server!Fresh(l)
                     ELSE IF c = conn /\ driver # "mysql" THEN Server!Finished(sess[c]) ELSE sess[c]
  <2>1. CASE Server!PgReconnect
    <3>1. driver = "pg" /\ conn \in Server!Sessions
      BY <2>1 DEF Server!PgReconnect
    <3>2. Server!Finished(sess[conn]) = Server!PgFinished(sess[conn])
      BY <3>1 DEF Server!Finished
    <3> QED BY <1>1, <2>1, <3>1, <3>2 DEF Server!PgReconnect
  <2>2. CASE Server!MySqlReopens
    BY <1>1, <2>2 DEF Server!MySqlReopens
  <2>3. CASE Server!Sqlite3Reconnect
    BY <1>1, <2>3 DEF Server!Sqlite3Reconnect
  <2> QED BY <2>1, <2>2, <2>3
<1>3. Server!Fresh(l) \in SessionRecords /\ Server!Fresh(l).link = l /\ Server!Fresh(l).names = {}
  BY DEF Server!Fresh
<1>4. sess' \in [Server!Sessions -> SessionRecords]
  <2>1. DOMAIN sess' = Server!Sessions /\ sess' = [c \in Server!Sessions |-> sess'[c]]
    BY DEF Server!PgReconnect, Server!Sqlite3Reconnect, Server!MySqlReopens
  <2>2. \A c \in Server!Sessions : sess'[c] \in SessionRecords
    BY <1>2, <1>3, FinishedClosed DEF Server!TypeOK
  <2> QED BY <2>1, <2>2
<1>5. \A c \in Server!Sessions : LET f == Server!Finished(sess[c]) IN
         \/ f = sess[c] /\ driver = "sqlite3" /\ sess[c].names # {}
         \/ f.link = "closed" /\ f.names = {} /\ (driver = "sqlite3" => sess[c].names = {})
  BY FinishedClosed DEF Server!TypeOK
<1>6. driver # "mysql" => (careful => Server!Alive = {})
  BY DEF Server!MySqlReopens
<1>7. driver = "mysql" => ~Server!Up
  BY DEF Server!MySqlReopens, Server!PgReconnect, Server!Sqlite3Reconnect
<1> HIDE DEF n
<1>8. Server!TypeOK' /\ NoneUnused' /\ PgStatementsHere' /\ Server!LibraryHarmless'
  BY <1>1, <1>2, <1>3, <1>4, <1>5, <1>6
<1>9. Server!ServerAgrees'
  BY <1>1, <1>2, <1>3
<1>10. Server!NoneLeftBehind' /\ Server!Sqlite3Backed'
  BY <1>1, <1>2, <1>3, <1>5
<1>11. Server!OthersClosed'
  BY <1>1, <1>2, <1>3, <1>5, <1>6, <1>7
<1> QED BY <1>8, <1>9, <1>10, <1>11

LEMMA ServerStepKeeps ==
  ASSUME Server!PreparedAssumption, ServerInv, Server!Next \/ UNCHANGED Server!vars
  PROVE  ServerInv'
<1>1. CASE Server!Drop \/ Server!Begin \/ Server!End \/ Server!PrepareThrows \/ Server!Close
  BY <1>1, DropKeeps, BeginKeeps, EndKeeps, PrepareThrowsKeeps, CloseKeeps
<1>2. ASSUME NEW s \in Stmts, Server!Prepare(s) \/ Server!ExecuteThrows(s) \/ Server!Destroy(s)
      PROVE  ServerInv'
  BY <1>2, PrepareKeeps, ExecuteThrowsKeeps, DestroyKeeps
<1>3. ASSUME NEW s \in Stmts, NEW r \in Stmts, Server!QueryReprepare(s, r)
      PROVE  ServerInv'
  BY <1>3, QueryReprepareKeeps
<1>4. CASE Server!Reconnect \/ Server!MySqlReopens
  BY <1>4, ReconnectKeeps DEF Server!Reconnect, Server!MySqlReconnect
<1>5. CASE UNCHANGED Server!vars
  BY <1>5 DEF Server!vars
<1> QED BY <1>1, <1>2, <1>3, <1>4, <1>5 DEF Server!Next

(* In a behaviour of the composition the server's part is a behaviour of its *)
(* own: what moves the facade leaves it alone.                              *)
LEMMA ServerInvariant == SpecSideBySide => []ServerInv
<1> USE StatementsAssumption
<1>1. InitSideBySide => ServerInv
  BY ServerAtFirst DEF InitSideBySide
<1>2. ServerInv /\ [NextSideBySide]_<<part, vars, Server!vars>> => ServerInv'
  <2>1. ServerInv /\ (Server!Next \/ UNCHANGED Server!vars) => ServerInv'
    BY ServerStepKeeps
  <2>2. [NextSideBySide]_<<part, vars, Server!vars>> => Server!Next \/ UNCHANGED Server!vars
    BY DEF NextSideBySide, ServerUnmoved, Server!vars
  <2> QED BY <2>1, <2>2
<1> QED BY <1>1, <1>2, PTL DEF SpecSideBySide

-----------------------------------------------------------------------------
(* The server has the statements that a careful client has and no others;      *)
(* for any client, libmysqlclient and SQLite keep none whose object was made *)
(* and is gone, whatever happens to the sessions, and only MySQL keeps one    *)
(* whose object was never made (pg/statement.cc:32-39,                       *)
(* mysql/statement.cc:12-22 and 74-79).                                      *)
THEOREM StatementsAgree == SpecSideBySide => []ServerAgrees
<1>1. ServerInv => ServerAgrees
  OBVIOUS
<1> QED BY <1>1, ServerInvariant, PTL

(* No DEALLOCATE, and nothing else the library sends by itself, makes a        *)
(* transaction of a careful client fail (query.cc:103-108,                   *)
(* pg/statement.cc:35-38).                                                  *)
THEOREM LibraryDoomsNone == SpecSideBySide => []LibraryHarmless
<1>1. ServerInv => LibraryHarmless
  OBVIOUS
<1> QED BY <1>1, ServerInvariant, PTL

(* Every session but the handle's is closed or lost, except, for a client that *)
(* is not careful, one that SQLite statements still need; and for any client  *)
(* that of a Sqlite3Statement is open (sqlite3/handle.cc:162-170,            *)
(* pg/handle.cc:267-271, sqlite3/statement.cc:24-42).                        *)
THEOREM OnlyNeededStayOpen == SpecSideBySide => []OthersClosed
<1>1. ServerInv => OthersClosed
  OBVIOUS
<1> QED BY <1>1, ServerInvariant, PTL
=============================================================================
