---------------------------- MODULE ResultsProofs ---------------------------
(***************************************************************************)
(* That the three ways to a result of MCResults give the client the right   *)
(* one: execute() and result() of each handle, for any number of queries    *)
(* and of rows, the execution of a Sqlite3Statement, for any number of      *)
(* columns, rows and executions, and aexecute() with retrieve(), for any    *)
(* number of queries.  Each has an invariant of its own; a step of another  *)
(* leaves what it speaks of alone.                                         *)
(***************************************************************************)
EXTENDS MCResults, SequenceTheorems, TLAPS

(***************************************************************************)
(* execute() and result().  Of the results only the numbers up to calls are  *)
(* in use, and while fresh holds the slot has nothing but the result of the  *)
(* last execute().                                                         *)
(***************************************************************************)

Unused == \A q \in Queries : q > calls => place[q] = "nowhere"

Single == \A p, q \in Slot : p = q

NoneTwice == \A q \in Queries : place[q] # "freed twice"

FreshIsLatest ==
  fresh => /\ open /\ asked \in Slot /\ \A q \in Slot : q = asked
           /\ connRows = rowsOf[asked]

IInv ==
  /\ TypeOK
  /\ Unused /\ Single /\ NoneTwice
  /\ answer.of \notin Slot
  /\ FreshIsLatest
  /\ LatestHanded

Places == {"nowhere", "slot", "handed", "freed", "freed twice"}

-----------------------------------------------------------------------------
(* What the type invariant says of the parts.                                *)
LEMMA Typed ==
  ASSUME ResultsAssumption, IInv
  PROVE  /\ driver \in {"pg", "mysql", "sqlite3"} /\ driver \in Drivers
         /\ prompt \in BOOLEAN /\ open \in BOOLEAN /\ fresh \in BOOLEAN
         /\ calls \in Nat /\ MaxCalls \in Nat /\ calls <= MaxCalls /\ asked \in 0..calls
         /\ rowsOf \in [Queries -> Counts] /\ place \in [Queries -> Places]
         /\ connRows \in Counted /\ 0 \in Counts /\ Counts \subseteq Counted
         /\ Counted \subseteq Nat /\ NoCount \in Counted
<1>1. /\ driver \in {"pg", "mysql", "sqlite3"} /\ driver \in Drivers
      /\ rowsOf \in [Queries -> Counts] /\ place \in [Queries -> Places]
      /\ prompt \in BOOLEAN /\ open \in BOOLEAN /\ fresh \in BOOLEAN /\ connRows \in Counted
     
  BY DEF IInv, TypeOK, ResultsAssumption, Places
<1>2. calls \in 0..MaxCalls /\ asked \in 0..calls
  BY DEF IInv, TypeOK
<1>3. /\ MaxCalls \in Nat /\ 0 \in Counts /\ Counts \subseteq Counted
      /\ Counted \subseteq Nat /\ NoCount \in Counted
  BY DEF ResultsAssumption, Counts, Counted, NoCount
<1> QED BY <1>1, <1>2, <1>3

LEMMA AnswerTyped ==
  ASSUME ResultsAssumption, IInv
  PROVE  /\ answer.of \in 0..calls /\ answer.asked \in 0..calls /\ answer.rows \in Counted
         /\ \A n \in {calls, calls + 1} : answer \in [of: 0..n, asked: 0..n, rows: Counted]
<1>1. answer \in [of: 0..calls, asked: 0..calls, rows: Counted]
  BY DEF IInv, TypeOK
<1>2. \A n \in {calls, calls + 1} : 0..calls \subseteq 0..n
  BY Typed
<1> QED BY <1>1, <1>2

(* What freeing the slot makes of the results, and putting one in it.        *)
LEMMA FreeSlot ==
  ASSUME place \in [Queries -> Places], NoneTwice
  PROVE  /\ Free(place, Slot) \in [Queries -> Places]
         /\ \A q \in Queries : Free(place, Slot)[q] = IF place[q] = "slot" THEN "freed" ELSE place[q]
  BY DEF Free, Slot, Places, NoneTwice

LEMMA PutInSlot ==
  ASSUME NEW p \in [Queries -> Places], NEW n \in Queries
  PROVE  /\ Put(p, n) \in [Queries -> Places]
         /\ \A q \in Queries : Put(p, n)[q] = IF q = n THEN "slot" ELSE p[q]
  BY DEF Put, Places

(* Whichever driver it is, a query that succeeded leaves its own result in    *)
(* the slot and no other, and moves nothing else.                            *)
LEMMA KeepsOne ==
  ASSUME ResultsAssumption, IInv, NEW n \in Queries
  PROVE  /\ Keeps(place, n) \in [Queries -> Places]
         /\ \A q \in Queries : Keeps(place, n)[q] = IF q = n THEN "slot"
                                                    ELSE IF place[q] = "slot" THEN "freed"
                                                    ELSE place[q]
<1>1. place \in [Queries -> Places] /\ NoneTwice /\ driver \in {"pg", "mysql", "sqlite3"}
  BY DEF IInv, TypeOK, Places, ResultsAssumption
<1>2. Keeps(place, n) = Put(Free(place, Slot), n)
  BY <1>1 DEF Keeps, PgKeeps, MySqlKeeps, Sqlite3Keeps
<1>3. Free(place, Slot) \in [Queries -> Places]
      /\ \A q \in Queries : Free(place, Slot)[q] = IF place[q] = "slot" THEN "freed" ELSE place[q]
  BY <1>1, FreeSlot
<1> HIDE DEF Keeps, Put, Free
<1>4. Put(Free(place, Slot), n) \in [Queries -> Places]
      /\ \A q \in Queries : Put(Free(place, Slot), n)[q]
                             = IF q = n THEN "slot" ELSE Free(place, Slot)[q]
  BY <1>3, PutInSlot
<1> QED BY <1>2, <1>3, <1>4

(* A call that failed, and every other command, frees the slot or does       *)
(* nothing.                                                                  *)
LEMMA KeepsOrFrees ==
  ASSUME ResultsAssumption, IInv
  PROVE  AfterError(place) \in {place, Free(place, Slot)}
         /\ AfterDirect(place) \in {place, Free(place, Slot)}
  BY DEF IInv, TypeOK, ResultsAssumption, AfterError, AfterDirect, KeepsOld, PgKeepsOld,
         MySqlFreesFirst, Sqlite3KeepsOld, PgDirect, MySqlDirect, Sqlite3Direct

-----------------------------------------------------------------------------
(* The invariant holds at first and is kept by every step.                   *)
LEMMA InvHoldsAtFirst ==
  ASSUME ResultsAssumption, Init
  PROVE  IInv
<1>1. TypeOK
  <2>1. 0 \in Counts /\ 0 \in Counted /\ calls \in 0..MaxCalls /\ asked \in 0..calls /\ 0 \in 0..calls
    BY DEF ResultsAssumption, Init, NoQuery, Counts, Counted
  <2>2. rowsOf \in [Queries -> Counts] /\ place \in [Queries -> Places] /\ connRows \in Counted
    BY <2>1 DEF Init, Places
  <2>3. answer \in [of: 0..calls, asked: 0..calls, rows: Counted]
    BY <2>1 DEF Init, NoQuery
  <2> QED BY <2>1, <2>2, <2>3 DEF Init, TypeOK, Places
<1>2. Slot = {} /\ answer.of = 0 /\ answer.asked = 0
  BY DEF Init, Slot, NoQuery
<1>3. Unused /\ NoneTwice /\ ~fresh
  BY DEF Init, Unused, NoneTwice
<1> QED BY <1>1, <1>2, <1>3 DEF IInv, Single, FreshIsLatest, LatestHanded, NoQuery

(* A step that only lets go of the slot's result, and makes nothing fresh.   *)
LEMMA LettingGoKeepsInv ==
  ASSUME ResultsAssumption, IInv,
         place' \in {place, Free(place, Slot)},
         calls' \in {calls, calls + 1}, calls' \in 0..MaxCalls,
         asked' \in {asked, calls'}, connRows' \in Counted, open' \in BOOLEAN, fresh' = FALSE,
         driver' = driver, prompt' = prompt, rowsOf' = rowsOf, answer' = answer
  PROVE  IInv'
<1>1. place \in [Queries -> Places] /\ NoneTwice /\ calls \in Nat
  BY Typed DEF IInv
<1>2. Free(place, Slot) \in [Queries -> Places]
      /\ \A q \in Queries : Free(place, Slot)[q] = IF place[q] = "slot" THEN "freed" ELSE place[q]
  BY <1>1, FreeSlot
<1>3. place' \in [Queries -> Places]
      /\ \A q \in Queries : place'[q] \in {place[q], IF place[q] = "slot" THEN "freed" ELSE place[q]}
  BY <1>1, <1>2
<1>4. TypeOK'
  <2>1. answer' \in [of: 0..calls', asked: 0..calls', rows: Counted]
    BY AnswerTyped
  <2>2. asked' \in 0..calls' /\ rowsOf' \in [Queries -> Counts] /\ driver' \in Drivers
        /\ prompt' \in BOOLEAN
    BY Typed
  <2> QED BY <1>3, <2>1, <2>2 DEF TypeOK, Places
<1>5. Slot' \subseteq Slot
  BY <1>3 DEF Slot
<1>6. Unused' /\ NoneTwice'
  <2>1. \A q \in Queries : q \in Nat /\ (q > calls' => q > calls)
    BY Typed DEF Queries
  <2> QED BY <1>1, <1>3, <2>1 DEF IInv, Unused, NoneTwice
<1>7. Single' /\ answer'.of \notin Slot' /\ FreshIsLatest'
  BY <1>5 DEF IInv, Single, FreshIsLatest
<1>8. LatestHanded'
  BY DEF IInv, LatestHanded
<1> QED BY <1>4, <1>6, <1>7, <1>8 DEF IInv

(* A step that puts the result of query calls + 1 into the slot.             *)
LEMMA PuttingKeepsInv ==
  ASSUME ResultsAssumption, IInv, NEW n \in Counts,
         open, calls < MaxCalls, calls' = calls + 1,
         place' \in [Queries -> Places],
         \A q \in Queries : place'[q] = IF q = calls + 1 THEN "slot"
                                        ELSE IF place[q] = "slot" THEN "freed" ELSE place[q],
         rowsOf' = [rowsOf EXCEPT ![calls + 1] = n], connRows' = n,
         fresh' \in BOOLEAN, asked' \in 0..calls', fresh' => asked' = calls + 1,
         driver' = driver, prompt' = prompt, answer' = answer, open' = open
  PROVE  IInv'
<1>1. calls + 1 \in Queries /\ calls \in Nat /\ MaxCalls \in Nat /\ calls + 1 \in 0..MaxCalls
  BY Typed DEF Queries
<1>2. rowsOf' \in [Queries -> Counts]
      /\ \A q \in Queries : rowsOf'[q] = IF q = calls + 1 THEN n ELSE rowsOf[q]
  BY Typed, <1>1
<1>3. answer' \in [of: 0..calls', asked: 0..calls', rows: Counted]
  BY AnswerTyped
<1>4. TypeOK'
  <2>1. driver' \in Drivers /\ prompt' \in BOOLEAN /\ open' \in BOOLEAN /\ connRows' \in Counted
    BY Typed
  <2> QED BY <1>1, <1>2, <1>3, <2>1 DEF TypeOK, Places
<1>5. Slot' = {calls + 1}
  BY <1>1 DEF Slot
<1>6. answer.of \in 0..calls
  BY AnswerTyped
<1>7. Unused' /\ NoneTwice'
  <2>1. \A q \in Queries : q > calls' => q > calls /\ q # calls + 1
    BY <1>1 DEF Queries
  <2> QED BY <2>1 DEF IInv, Unused, NoneTwice
<1>8. FreshIsLatest'
  BY <1>1, <1>2, <1>5 DEF FreshIsLatest
<1>9. LatestHanded'
  BY <1>1, <1>2, <1>6 DEF IInv, LatestHanded, Queries, NoQuery
<1> QED BY <1>1, <1>4, <1>5, <1>6, <1>7, <1>8, <1>9 DEF IInv, Single

LEMMA ExecuteKeepsInv ==
  ASSUME ResultsAssumption, IInv, NEW n \in Counts, Execute(n)
  PROVE  IInv'
<1>1. calls + 1 \in Queries /\ calls + 1 \in 0..(calls + 1)
  BY Typed DEF Execute, Called, Queries
<1>2. Keeps(place, calls + 1) \in [Queries -> Places]
      /\ \A q \in Queries : Keeps(place, calls + 1)[q]
                            = IF q = calls + 1 THEN "slot"
                              ELSE IF place[q] = "slot" THEN "freed" ELSE place[q]
  BY <1>1, KeepsOne
<1>3. /\ open /\ calls < MaxCalls /\ calls' = calls + 1 /\ asked' = calls + 1 /\ fresh' = TRUE
      /\ rowsOf' = [rowsOf EXCEPT ![calls + 1] = n] /\ connRows' = n
      /\ place' = Keeps(place, calls + 1)
      /\ driver' = driver /\ prompt' = prompt /\ answer' = answer /\ open' = open
  BY DEF Execute, Called, made
<1> HIDE DEF Keeps, IInv
<1> QED BY <1>1, <1>2, <1>3, PuttingKeepsInv

(* write(): only PostgreSQL keeps a result, and its slot is empty by then.    *)
LEMMA WriteKeepsInv ==
  ASSUME ResultsAssumption, IInv, NEW n \in Counts, Write(n)
  PROVE  IInv'
<1>1. open /\ fresh' = FALSE /\ connRows' = n /\ driver' = driver /\ prompt' = prompt
      /\ asked' = asked /\ answer' = answer /\ open' = open
  BY DEF Write, made
<1>2. calls \in 0..MaxCalls /\ asked \in 0..calls /\ open \in BOOLEAN
      /\ place \in [Queries -> Places] /\ NoneTwice /\ MaxCalls \in Nat /\ n \in Counted
  BY Typed DEF IInv
<1>3. CASE driver = "pg"
  <2>1. /\ calls < MaxCalls /\ calls' = calls + 1
        /\ rowsOf' = [rowsOf EXCEPT ![calls + 1] = n]
        /\ place' = Put(Free(place, Slot), calls + 1)
    BY <1>3 DEF Write, PgDirect
  <2>2. calls + 1 \in Queries /\ asked \in 0..(calls + 1)
    BY <1>2, <2>1 DEF Queries
  <2>3. Free(place, Slot) \in [Queries -> Places]
        /\ \A q \in Queries : Free(place, Slot)[q] = IF place[q] = "slot" THEN "freed" ELSE place[q]
    BY <1>2, FreeSlot
  <2> HIDE DEF Put, Free, IInv
  <2>4. Put(Free(place, Slot), calls + 1) \in [Queries -> Places]
        /\ \A q \in Queries : Put(Free(place, Slot), calls + 1)[q]
                               = IF q = calls + 1 THEN "slot" ELSE Free(place, Slot)[q]
    BY <2>2, <2>3, PutInSlot
  <2> QED BY <1>1, <2>1, <2>2, <2>3, <2>4, PuttingKeepsInv
<1>4. CASE driver # "pg"
  <2>1. calls' = calls /\ rowsOf' = rowsOf /\ place' = place
    BY <1>4 DEF Write
  <2> HIDE DEF IInv
  <2> QED BY <1>1, <1>2, <2>1, LettingGoKeepsInv
<1> QED BY <1>3, <1>4

(* The calls that free the slot or leave it.                                 *)
LEMMA FreeingKeepsInv ==
  ASSUME ResultsAssumption, IInv,
         \/ ExecuteThrows \/ Direct \/ WriteThrows \/ Close \/ DestroyHandle
         \/ \E n \in Counted : StatementExecute(n)
  PROVE  IInv'
<1>1. calls \in 0..MaxCalls /\ MaxCalls \in Nat /\ connRows \in Counted /\ {0, NoCount} \subseteq Counted
      /\ open \in BOOLEAN
  BY Typed
<1>2. AfterError(place) \in {place, Free(place, Slot)}
      /\ AfterDirect(place) \in {place, Free(place, Slot)}
  BY KeepsOrFrees
<1>3. CASE ExecuteThrows
  <2>1. /\ calls < MaxCalls /\ calls' = calls + 1 /\ asked' = calls + 1 /\ fresh' = FALSE
        /\ place' = AfterError(place) /\ connRows' = NoCount
        /\ driver' = driver /\ prompt' = prompt /\ rowsOf' = rowsOf
        /\ answer' = answer /\ open' = open
    BY <1>3 DEF ExecuteThrows, Called, made
  <2>2. calls' \in 0..MaxCalls
    BY <1>1, <2>1
  <2> HIDE DEF IInv
  <2> QED BY <1>1, <1>2, <2>1, <2>2, LettingGoKeepsInv
<1>4. CASE Direct
  <2>1. place' = AfterDirect(place) /\ connRows' \in {0, NoCount} /\ fresh' = FALSE
        /\ driver' = driver /\ prompt' = prompt /\ calls' = calls /\ rowsOf' = rowsOf
        /\ asked' = asked /\ answer' = answer /\ open' = open
    BY <1>4 DEF Direct, made
  <2> HIDE DEF IInv
  <2> QED BY <1>1, <1>2, <2>1, LettingGoKeepsInv
<1>5. CASE Close \/ DestroyHandle
  <2>1. place' \in {place, Free(place, Slot)} /\ open' = FALSE /\ fresh' = FALSE
        /\ driver' = driver /\ prompt' = prompt /\ calls' = calls /\ rowsOf' = rowsOf
        /\ connRows' = connRows /\ asked' = asked /\ answer' = answer
    BY <1>5 DEF Close, DestroyHandle, made
  <2> HIDE DEF IInv
  <2> QED BY <1>1, <2>1, LettingGoKeepsInv
<1>6. ASSUME NEW n \in Counted, StatementExecute(n)
      PROVE  IInv'
  <2>1. connRows' = n /\ fresh' = FALSE
        /\ driver' = driver /\ prompt' = prompt /\ calls' = calls /\ rowsOf' = rowsOf
        /\ place' = place /\ asked' = asked /\ answer' = answer /\ open' = open
    BY <1>6 DEF StatementExecute, made
  <2> HIDE DEF IInv
  <2> QED BY <1>1, <2>1, LettingGoKeepsInv
<1>7. CASE WriteThrows
  <2>1. place' \in {place, Free(place, Slot)} /\ connRows' = NoCount /\ fresh' = FALSE
        /\ driver' = driver /\ prompt' = prompt /\ calls' = calls
        /\ rowsOf' = rowsOf /\ asked' = asked /\ answer' = answer /\ open' = open
    BY <1>7 DEF WriteThrows, PgDirect, made
  <2> HIDE DEF IInv
  <2> QED BY <1>1, <2>1, LettingGoKeepsInv
<1> QED BY <1>3, <1>4, <1>5, <1>6, <1>7

(* result(): a prompt client finds the result of the query it asked last,    *)
(* and the connection still counts that query's rows.                        *)
LEMMA ResultKeepsInv ==
  ASSUME ResultsAssumption, IInv, Result
  PROVE  IInv'
<1>1. PICK q \in Slot : answer' = [of |-> q, asked |-> asked, rows |-> RowsSaid(q)]
                        /\ place' = HandOver(place, q)
  BY DEF Result
<1>2. fresh' = FALSE /\ (prompt => fresh)
      /\ UNCHANGED <<made, calls, rowsOf, connRows, asked, open>>
  BY DEF Result
<1>3. q \in Queries /\ place[q] = "slot" /\ place \in [Queries -> Places]
  BY Typed DEF Slot
<1>4. q \in 0..calls /\ calls \in 0..MaxCalls /\ asked \in 0..calls
  BY <1>3, Typed DEF IInv, Unused, Queries
<1>5. place' \in [Queries -> Places]
      /\ \A p \in Queries : place'[p] = IF p = q THEN "handed" ELSE place[p]
  BY <1>1, <1>3 DEF HandOver, Places
<1>6. RowsSaid(q) \in Counted /\ (open /\ connRows = rowsOf[q] => RowsSaid(q) = rowsOf[q])
  <2>1. rowsOf[q] \in Counts /\ rowsOf[q] \in Counted /\ rowsOf[q] \in Nat /\ 0 \in Counted
        /\ connRows \in Counted /\ driver \in {"pg", "mysql", "sqlite3"}
    BY <1>3, Typed
  <2>2. Stored(q) \in {0, rowsOf[q]}
    BY DEF Stored
  <2>3. MySqlRows(q) \in Counted /\ (open /\ connRows = rowsOf[q] => MySqlRows(q) = rowsOf[q])
    <3>1. Counted \subseteq Nat
      BY Typed
    <3> QED BY <2>1, <2>2, <3>1 DEF MySqlRows
  <2> QED BY <2>1, <2>3 DEF RowsSaid, PgRows, Sqlite3Rows
<1>7. answer' \in [of: 0..calls, asked: 0..calls, rows: Counted]
      /\ answer'.of = q /\ answer'.asked = asked /\ answer'.rows = RowsSaid(q)
  BY <1>1, <1>4, <1>6
<1>8. TypeOK'
  <2>1. /\ driver' \in Drivers /\ prompt' \in BOOLEAN /\ open' \in BOOLEAN
        /\ rowsOf' \in [Queries -> Counts] /\ connRows' \in Counted
        /\ calls' = calls /\ asked' = asked
    BY <1>2, Typed DEF made
  <2>2. answer' \in [of: 0..calls', asked: 0..calls', rows: Counted]
    BY <1>7, <2>1
  <2> QED BY <1>2, <1>4, <1>5, <2>1, <2>2 DEF TypeOK, Places
<1>9. Slot' = Slot \ {q}
  BY <1>5 DEF Slot
<1>10. Unused' /\ NoneTwice'
  BY <1>2, <1>3, <1>4, <1>5 DEF IInv, Unused, NoneTwice, Queries
<1>11. prompt => q = asked /\ open /\ connRows = rowsOf[q]
  BY <1>2 DEF IInv, FreshIsLatest
<1>12. LatestHanded'
  BY <1>2, <1>6, <1>7, <1>11 DEF LatestHanded, made
<1> QED BY <1>2, <1>7, <1>8, <1>9, <1>10, <1>12 DEF IInv, Single, FreshIsLatest

(* result() with an empty slot, which no prompt client finds.                *)
LEMMA ResultOfNoneKeepsInv ==
  ASSUME ResultsAssumption, IInv, ResultOfNone
  PROVE  IInv'
<1>1. /\ answer' = [of |-> NoQuery, asked |-> asked, rows |-> connRows]
      /\ fresh' = FALSE /\ Slot = {} /\ (prompt => fresh)
      /\ UNCHANGED <<made, calls, rowsOf, place, connRows, asked, open>>
  BY DEF ResultOfNone
<1>2. ~prompt
  BY <1>1 DEF IInv, FreshIsLatest
<1>3. answer' \in [of: 0..calls, asked: 0..calls, rows: Counted]
  BY <1>1, Typed DEF NoQuery
<1>4. Slot' = {}
  BY <1>1 DEF Slot
<1>5. TypeOK'
  BY <1>1, <1>3, Zenon DEF IInv, TypeOK, made
<1>6. Unused' /\ NoneTwice'
  BY <1>1 DEF IInv, Unused, NoneTwice
<1> QED BY <1>1, <1>2, <1>4, <1>5, <1>6 DEF IInv, Single, FreshIsLatest, LatestHanded, made

LEMMA DeleteKeepsInv ==
  ASSUME ResultsAssumption, IInv, NEW r \in Queries, DeleteResult(r)
  PROVE  IInv'
<1>1. place[r] = "handed" /\ place' = Free(place, {r}) /\ fresh' = FALSE
      /\ UNCHANGED <<made, calls, rowsOf, connRows, asked, answer, open>>
  BY DEF DeleteResult
<1>2. place' \in [Queries -> Places]
      /\ \A q \in Queries : place'[q] = IF q = r THEN "freed" ELSE place[q]
  BY <1>1, Typed DEF Free, Places
<1>3. Slot' = Slot
  BY <1>1, <1>2 DEF Slot
<1>4. TypeOK'
  BY <1>1, <1>2 DEF IInv, TypeOK, made, Places
<1>5. Unused' /\ NoneTwice'
  BY <1>1, <1>2 DEF IInv, Unused, NoneTwice
<1> QED BY <1>1, <1>3, <1>4, <1>5 DEF IInv, Single, FreshIsLatest, LatestHanded, made

LEMMA StepKeepsInv ==
  ASSUME ResultsAssumption, IInv, [Next]_vars
  PROVE  IInv'
<1>1. ASSUME NEW n \in Counts, Execute(n)
      PROVE  IInv'
  BY <1>1, ExecuteKeepsInv
<1>2. ASSUME NEW n \in Counts, Write(n)
      PROVE  IInv'
  BY <1>2, WriteKeepsInv
<1>3. CASE \/ ExecuteThrows \/ Direct \/ WriteThrows \/ Close \/ DestroyHandle
           \/ \E n \in Counted : StatementExecute(n)
  BY <1>3, FreeingKeepsInv
<1>4. CASE Result
  BY <1>4, ResultKeepsInv
<1>7. CASE ResultOfNone
  BY <1>7, ResultOfNoneKeepsInv
<1>5. ASSUME NEW r \in Queries, DeleteResult(r)
      PROVE  IInv'
  BY <1>5, DeleteKeepsInv
<1>6. CASE UNCHANGED vars
  BY <1>6, Zenon DEF vars, made, IInv, TypeOK, Unused, Single, Slot, NoneTwice, FreshIsLatest,
                     LatestHanded
<1> QED BY <1>1, <1>2, <1>3, <1>4, <1>5, <1>6, <1>7 DEF Next

THEOREM ResultsInvariant ==
  ASSUME ResultsAssumption
  PROVE  Spec => []IInv
<1>1. Init => IInv
  BY InvHoldsAtFirst
<1>2. IInv /\ [Next]_vars => IInv'
  BY StepKeepsInv
<1> QED BY <1>1, <1>2, PTL DEF Spec

-----------------------------------------------------------------------------
(* The state is typed: a query's result is in one of the five places, and what *)
(* its rows() says is a count, or after a failure of MySQL's the largest      *)
(* number there is (pg/handle.cc:82-112, mysql/handle.cc:93-138,              *)
(* sqlite3/handle.cc:40-68, mysql/result.cc:10-21).                         *)
THEOREM ResultsTyped ==
  ASSUME ResultsAssumption
  PROVE  Spec => []TypeOK
<1>1. IInv => TypeOK
  BY DEF IInv
<1> QED BY <1>1, ResultsInvariant, PTL

(* Every result has one owner, the slot, the client or nobody, and is freed   *)
(* once (pg/handle.cc:82-112, mysql/handle.cc:93-138,                        *)
(* sqlite3/handle.cc:40-68).                                                *)
THEOREM ResultsOwned ==
  ASSUME ResultsAssumption
  PROVE  Spec => []OneOwner
<1>1. IInv => OneOwner
  BY DEF IInv, Single, NoneTwice, OneOwner
<1> QED BY <1>1, ResultsInvariant, PTL

(* A client that calls result() right after execute() is handed the result of *)
(* that query, and its rows() is the number of rows of that query            *)
(* (pg/handle.cc:107-112, mysql/handle.cc:132-138, mysql/result.cc:10-21).    *)
THEOREM PromptGetsLatest ==
  ASSUME ResultsAssumption
  PROVE  Spec => []LatestHanded
<1>1. IInv => LatestHanded
  BY DEF IInv
<1> QED BY <1>1, ResultsInvariant, PTL

-----------------------------------------------------------------------------
(***************************************************************************)
(* aexecute() and retrieve().  An orderly client has one query out at most,  *)
(* and it is the one on the wire; what write() leaves there has no object.   *)
(* On PostgreSQL no more than one command is on the wire, and without        *)
(* write() its object waits for it.                                        *)
(***************************************************************************)
Entries == [of: Sends \cup {Async!Leftover}, answer: Answers \cup {"none_yet", "end"}]
States  == {"unsent", "waiting", "refused", "retrieving", "ready", "threw"}

AsyncTyped ==
  /\ setting \in Async!Settings
  /\ up \in BOOLEAN /\ crashed \in BOOLEAN /\ wire \in Seq(Entries)
  /\ state \in [Sends -> States] /\ holds \in [Sends -> Sends \cup {Async!NoCall}]
  /\ caller \in Sends \cup {Async!NoCall}

(* The query of the object has been sent and its answer not been taken.      *)
Out(q) == state[q] \in {"waiting", "retrieving"}
Asked(w) == \E p \in Sends : w.of = p /\ Out(p)

OneRetrieves == \A q \in Sends : state[q] = "retrieving" <=> caller = q

OrderlyOne ==
  setting.orderly =>
    /\ Len(wire) <= 1
    /\ \A q \in Sends : Out(q) => Len(wire) > 0 /\ wire[1].of = q
    /\ Len(wire) > 0 =>
         \/ /\ Asked(wire[1]) /\ wire[1].answer # "end"
            /\ setting.selects => wire[1].answer # "no_rows"
         \/ driver = "pg" /\ wire[1].of = Async!Leftover /\ wire[1].answer = "end"

PgOne ==
  driver = "pg" =>
    /\ Len(wire) <= 1
    /\ ~setting.writes /\ Len(wire) > 0 => Asked(wire[1])

AsyncInv ==
  /\ driver \in Drivers /\ (part = "async" => driver \in {"pg", "mysql"})
  /\ AsyncTyped /\ OneRetrieves /\ PgOne /\ OrderlyOne
  /\ Async!OwnAnswer /\ Async!ResultThere

-----------------------------------------------------------------------------
LEMMA Numbers ==
  ASSUME Async!AsyncAssumption
  PROVE  /\ Sends \subseteq Nat /\ Async!Leftover \notin Sends /\ Async!NoCall \notin Sends
         /\ Answers \subseteq {"rows", "no_rows", "error"}
  BY DEF Async!AsyncAssumption, Async!Leftover, Async!NoCall

(* Short sequences.                                                          *)
LEMMA Shortness ==
  ASSUME NEW S, NEW s \in Seq(S)
  PROVE  /\ Len(s) \in Nat /\ (s = <<>> <=> Len(s) = 0) /\ (s # <<>> <=> Len(s) > 0)
         /\ Len(s) > 0 => Head(s) = s[1] /\ s[1] \in S /\ Tail(s) \in Seq(S) /\ Len(Tail(s)) = Len(s) - 1
  BY EmptySeq, LenProperties, ElementOfSeq, HeadTailProperties

LEMMA Singleton ==
  ASSUME NEW S, NEW e \in S
  PROVE  <<e>> \in Seq(S) /\ Len(<<e>>) = 1 /\ <<e>>[1] = e
  OBVIOUS

LEMMA Answering ==
  ASSUME NEW s \in Seq(Entries), Len(s) > 0, NEW a \in Answers
  PROVE  LET t == [s EXCEPT ![1].answer = a]
         IN  t \in Seq(Entries) /\ Len(t) = Len(s) /\ t[1].of = s[1].of /\ t[1].answer = a
<1> DEFINE t == [s EXCEPT ![1].answer = a]
           e == [s[1] EXCEPT !.answer = a]
<1>1. 1 \in 1..Len(s) /\ s[1] \in Entries /\ Len(s) \in Nat
  BY Shortness
<1>2. e \in Entries /\ e.of = s[1].of /\ e.answer = a
  BY <1>1 DEF Entries
<1>3. t = [s EXCEPT ![1] = e]
  OBVIOUS
<1> HIDE DEF e
<1>4. t \in Seq(Entries) /\ Len(t) = Len(s) /\ t[1] = e
  BY <1>1, <1>2, <1>3, ExceptSeq
<1> HIDE DEF t
<1> QED BY <1>2, <1>4 DEF t

LEMMA SentOne ==
  ASSUME NEW q \in Sends
  PROVE  /\ Async!Sent(q) \in Entries /\ Async!Sent(q).of = q
         /\ Async!Sent(q).answer = "none_yet"
  BY DEF Async!Sent, Entries

LEMMA LeftOne ==
  [of |-> Async!Leftover, answer |-> "end"] \in Entries
  BY DEF Entries

(* What becomes of one object.                                               *)
LEMMA Became ==
  ASSUME AsyncTyped, NEW q \in Sends, NEW st \in States, Async!Becomes(q, st)
  PROVE  /\ state' \in [Sends -> States]
         /\ \A p \in Sends : state'[p] = IF p = q THEN st ELSE state[p]
  BY DEF AsyncTyped, Async!Becomes

USE Numbers
USE DEF Async!made

LEMMA AsyncParts ==
  ASSUME AsyncInv
  PROVE  /\ driver \in Drivers /\ (part = "async" => driver \in {"pg", "mysql"})
         /\ setting \in Async!Settings
         /\ up \in BOOLEAN /\ crashed \in BOOLEAN /\ wire \in Seq(Entries)
         /\ state \in [Sends -> States] /\ holds \in [Sends -> Sends \cup {Async!NoCall}]
         /\ caller \in Sends \cup {Async!NoCall}
         /\ OneRetrieves /\ PgOne /\ OrderlyOne /\ Async!OwnAnswer /\ Async!ResultThere
         /\ AsyncTyped
  BY DEF AsyncInv, AsyncTyped
USE AsyncParts

LEMMA AnswerKeeps ==
  ASSUME Async!AsyncAssumption, AsyncInv, driver' = driver, part' = part,
         Async!Answer \/ Async!PgCancel
  PROVE  AsyncInv'
<1>1. /\ Len(wire) > 0 /\ Head(wire).answer = "none_yet"
      /\ UNCHANGED <<driver, setting, state, holds, caller, crashed>> /\ up' = up
  BY Shortness DEF Async!Answer, Async!PgCancel
<1>2. \/ wire' = wire
      \/ \E a \in Answers : /\ setting.selects => a # "no_rows"
                            /\ wire' = [wire EXCEPT ![1].answer = a]
  BY DEF Async!Answer, Async!PgCancel
<1>3. /\ wire' \in Seq(Entries) /\ Len(wire') = Len(wire) /\ wire'[1].of = wire[1].of
      /\ \/ wire'[1].answer = wire[1].answer
         \/ /\ wire'[1].answer \in Answers
            /\ setting.selects => wire'[1].answer # "no_rows"
  <2>1. CASE wire' = wire
    BY <1>1, <2>1
  <2>2. ASSUME NEW a \in Answers, setting.selects => a # "no_rows",
               wire' = [wire EXCEPT ![1].answer = a]
        PROVE  /\ wire' \in Seq(Entries) /\ Len(wire') = Len(wire) /\ wire'[1].of = wire[1].of
               /\ wire'[1].answer = a
    <3> DEFINE t == [wire EXCEPT ![1].answer = a]
    <3>1. /\ t \in Seq(Entries) /\ Len(t) = Len(wire) /\ t[1].of = wire[1].of
          /\ t[1].answer = a
      BY <1>1, Answering, Zenon
    <3> HIDE DEF t
    <3>2. wire' = t
      BY <2>2 DEF t
    <3> QED BY <3>1, <3>2
  <2> QED BY <1>2, <2>1, <2>2
<1>4. wire[1].answer = "none_yet"
  BY <1>1, Shortness
<1>5. AsyncTyped'
  BY <1>1, <1>3, <1>4 DEF AsyncTyped
<1>6. OneRetrieves'
  BY <1>1, <1>3, <1>4 DEF OneRetrieves
<1>7. PgOne'
  BY <1>1, <1>3, <1>4 DEF PgOne, Asked, Out
<1>8. OrderlyOne'
  BY <1>1, <1>3, <1>4 DEF OrderlyOne, Asked, Out
<1>9. Async!OwnAnswer' /\ Async!ResultThere'
  BY <1>1, <1>3, <1>4 DEF Async!OwnAnswer, Async!ResultThere
<1> QED BY <1>5, <1>6, <1>7, <1>8, <1>9 DEF AsyncInv

LEMMA LoseKeeps ==
  ASSUME AsyncInv, driver' = driver, part' = part, Async!Lose
  PROVE  AsyncInv'
  BY DEF Async!Lose, AsyncInv, AsyncTyped, OneRetrieves, PgOne, OrderlyOne, Asked, Out,
         Async!OwnAnswer, Async!ResultThere

LEMMA PgSendKeeps ==
  ASSUME Async!AsyncAssumption, AsyncInv, driver' = driver, part' = part,
         NEW q \in Sends, Async!Aexecute(q), Async!PgSend(q)
  PROVE  AsyncInv'
<1>1. /\ UNCHANGED <<setting, up, holds, caller, crashed>> /\ state[q] = "unsent"
      /\ caller = Async!NoCall /\ driver = "pg"
  BY DEF Async!Aexecute, Async!Free, Async!PgSend
<1>2. CASE wire = <<>> /\ wire' = <<Async!Sent(q)>> /\ Async!Becomes(q, "waiting")
  <2>1. /\ wire' \in Seq(Entries) /\ Len(wire') = 1 /\ wire'[1].of = q
        /\ wire'[1].answer = "none_yet" /\ Len(wire) = 0
    <3> DEFINE e == Async!Sent(q)
    <3>1. e \in Entries /\ e.of = q /\ e.answer = "none_yet" /\ wire' = <<e>> /\ Len(wire) = 0
      BY <1>2, SentOne, Shortness
    <3> HIDE DEF e
    <3> QED BY <3>1, Singleton
  <2>2. /\ state' \in [Sends -> States]
        /\ \A p \in Sends : state'[p] = IF p = q THEN "waiting" ELSE state[p]
    BY <1>2, Became DEF States
  <2>3. AsyncTyped'
    BY <1>1, <2>1, <2>2 DEF AsyncTyped
  <2>4. OneRetrieves'
    BY <1>1, <2>1, <2>2 DEF OneRetrieves
  <2>5. PgOne'
    BY <1>1, <2>1, <2>2 DEF PgOne, Asked, Out
  <2>6. OrderlyOne'
    BY <1>1, <2>1, <2>2 DEF OrderlyOne, Asked, Out
  <2>7. Async!OwnAnswer' /\ Async!ResultThere'
    BY <1>1, <2>1, <2>2 DEF Async!OwnAnswer, Async!ResultThere
  <2> QED BY <2>3, <2>4, <2>5, <2>6, <2>7 DEF AsyncInv
<1>3. CASE UNCHANGED wire /\ Async!Becomes(q, "refused")
  <2>1. /\ state' \in [Sends -> States]
        /\ \A p \in Sends : state'[p] = IF p = q THEN "refused" ELSE state[p]
    BY <1>3, Became DEF States
  <2>2. AsyncTyped'
    BY <1>1, <1>3, <2>1 DEF AsyncTyped
  <2>3. OneRetrieves'
    BY <1>1, <1>3, <2>1 DEF OneRetrieves
  <2>4. PgOne'
    BY <1>1, <1>3, <2>1 DEF PgOne, Asked, Out
  <2>5. OrderlyOne'
    BY <1>1, <1>3, <2>1 DEF OrderlyOne, Asked, Out
  <2>6. Async!OwnAnswer' /\ Async!ResultThere'
    BY <1>1, <1>3, <2>1 DEF Async!OwnAnswer, Async!ResultThere
  <2> QED BY <2>2, <2>3, <2>4, <2>5, <2>6 DEF AsyncInv
<1> QED BY <1>2, <1>3 DEF Async!PgSend, Async!PgIdle

LEMMA MySqlSendKeeps ==
  ASSUME Async!AsyncAssumption, AsyncInv, driver' = driver, part' = part,
         NEW q \in Sends, Async!Aexecute(q), Async!MySqlSend(q)
  PROVE  AsyncInv'
<1>1. /\ UNCHANGED <<setting, up, holds, caller, crashed>> /\ state[q] = "unsent"
      /\ caller = Async!NoCall /\ driver = "mysql"
  BY DEF Async!Aexecute, Async!Free, Async!MySqlSend
<1>0. (setting.orderly => wire = <<>>) /\ wire' = Append(Async!Unanswered, Async!Sent(q))
  BY DEF Async!MySqlSend
<1>2. /\ state' \in [Sends -> States]
      /\ \A p \in Sends : state'[p] = IF p = q THEN "waiting" ELSE state[p]
  BY Became DEF States, Async!MySqlSend
<1>3. Async!Unanswered \in Seq(Entries) /\ (wire = <<>> => Async!Unanswered = <<>>)
  BY Shortness DEF Async!Unanswered
<1>4. wire' \in Seq(Entries)
  BY <1>0, <1>3, SentOne, AppendProperties
<1>5. setting.orderly => /\ Len(wire) = 0 /\ Len(wire') = 1 /\ wire'[1].of = q
                         /\ wire'[1].answer = "none_yet"
  <2> DEFINE e == Async!Sent(q)
             u == Async!Unanswered
  <2>1. /\ wire' = Append(u, e) /\ u \in Seq(Entries)
        /\ setting.orderly => Len(u) = 0 /\ Len(wire) = 0
    BY <1>0, <1>3, Shortness
  <2>2. e \in Entries /\ e.of = q /\ e.answer = "none_yet"
    BY SentOne
  <2> HIDE DEF e, u
  <2> QED BY <2>1, <2>2, AppendProperties
<1>6. AsyncTyped'
  BY <1>1, <1>2, <1>4, <1>5 DEF AsyncTyped
<1>7. OneRetrieves'
  BY <1>1, <1>2, <1>4, <1>5 DEF OneRetrieves
<1>8. PgOne'
  BY <1>1, <1>2, <1>4, <1>5 DEF PgOne, Asked, Out
<1>9. OrderlyOne'
  <2> SUFFICES ASSUME setting.orderly
               PROVE  /\ Len(wire') <= 1
                      /\ \A p \in Sends : Out(p)' => Len(wire') > 0 /\ wire'[1].of = p
                      /\ Asked(wire[1])' /\ wire'[1].answer = "none_yet"
    BY <1>1 DEF OrderlyOne
  <2>1. Len(wire') = 1 /\ wire'[1].of = q /\ wire'[1].answer = "none_yet" /\ \A p \in Sends : ~Out(p)
    BY <1>5 DEF OrderlyOne
  <2>2. \A p \in Sends : Out(p)' <=> p = q
    BY <1>2, <2>1 DEF Out
  <2> QED BY <2>1, <2>2 DEF Asked
<1>10. Async!OwnAnswer' /\ Async!ResultThere'
  BY <1>1, <1>2, <1>4, <1>5 DEF Async!OwnAnswer, Async!ResultThere
<1> QED BY <1>6, <1>7, <1>8, <1>9, <1>10 DEF AsyncInv

LEMMA PgOthersKeep ==
  ASSUME Async!AsyncAssumption, AsyncInv, driver' = driver, part' = part,
         Async!PgExecute \/ Async!PgWrite
  PROVE  AsyncInv'
<1>1. /\ UNCHANGED <<setting, up, state, holds, caller, crashed>>
      /\ caller = Async!NoCall /\ driver = "pg" /\ (setting.orderly => Async!Waiting = {})
  BY DEF Async!PgExecute, Async!PgWrite, Async!Free
<1>2. setting.orderly => \A q \in Sends : ~Out(q)
  BY <1>1, Numbers DEF Async!Waiting, Out, OneRetrieves
<1>3. CASE Async!PgExecute
  <2>1. wire' \in Seq(Entries) /\ Len(wire') = 0
    BY <1>3, EmptySeq DEF Async!PgExecute
  <2>2. AsyncTyped'
    BY <1>1, <1>2, <2>1 DEF AsyncTyped
  <2>3. OneRetrieves'
    BY <1>1, <1>2, <2>1 DEF OneRetrieves
  <2>4. PgOne'
    BY <1>1, <1>2, <2>1 DEF PgOne, Asked, Out
  <2>5. OrderlyOne'
    BY <1>1, <1>2, <2>1 DEF OrderlyOne, Asked, Out
  <2>6. Async!OwnAnswer' /\ Async!ResultThere'
    BY <1>1, <1>2, <2>1 DEF Async!OwnAnswer, Async!ResultThere
  <2> QED BY <2>2, <2>3, <2>4, <2>5, <2>6 DEF AsyncInv
<1>4. CASE Async!PgWrite
  <2> DEFINE e == [of |-> Async!Leftover, answer |-> "end"]
  <2>1. wire' = <<e>> /\ setting.writes
    BY <1>4 DEF Async!PgWrite
  <2>2. e \in Entries /\ e.of = Async!Leftover /\ e.answer = "end"
    BY LeftOne
  <2> HIDE DEF e
  <2>3. /\ wire' \in Seq(Entries) /\ Len(wire') = 1 /\ wire'[1] = e
    BY <2>1, <2>2, Singleton
  <2>4. setting.writes
    BY <2>1
  <2>5. AsyncTyped'
    BY <1>1, <1>2, <2>4, <2>2, <2>3 DEF AsyncTyped
  <2>6. OneRetrieves'
    BY <1>1, <1>2, <2>4, <2>2, <2>3 DEF OneRetrieves
  <2>7. PgOne'
    BY <1>1, <1>2, <2>4, <2>2, <2>3 DEF PgOne, Asked, Out
  <2>8. OrderlyOne'
    BY <1>1, <1>2, <2>4, <2>2, <2>3 DEF OrderlyOne, Asked, Out
  <2>9. Async!OwnAnswer' /\ Async!ResultThere'
    BY <1>1, <1>2, <2>4, <2>2, <2>3 DEF Async!OwnAnswer, Async!ResultThere
  <2> QED BY <2>5, <2>6, <2>7, <2>8, <2>9 DEF AsyncInv
<1> QED BY <1>3, <1>4

LEMMA RetrieveKeeps ==
  ASSUME Async!AsyncAssumption, AsyncInv, driver' = driver, part' = part,
         NEW q \in Sends, Async!Retrieve(q)
  PROVE  AsyncInv'
<1>1. /\ UNCHANGED <<setting, up, wire, holds, crashed>> /\ caller' = q
      /\ caller = Async!NoCall /\ (setting.orderly => state[q] = "waiting")
  BY DEF Async!Retrieve, Async!Free
<1>2. /\ state' \in [Sends -> States]
      /\ \A p \in Sends : state'[p] = IF p = q THEN "retrieving" ELSE state[p]
  BY Became DEF States, Async!Retrieve
<1>3. AsyncTyped'
  BY <1>1, <1>2 DEF AsyncTyped
<1>4. OneRetrieves'
  BY <1>1, <1>2 DEF OneRetrieves
<1>5. PgOne'
  BY <1>1, <1>2 DEF PgOne, Asked, Out
<1>6. OrderlyOne'
  BY <1>1, <1>2 DEF OrderlyOne, Asked, Out
<1>7. Async!OwnAnswer' /\ Async!ResultThere'
  BY <1>1, <1>2 DEF Async!OwnAnswer, Async!ResultThere
<1> QED BY <1>3, <1>4, <1>5, <1>6, <1>7 DEF AsyncInv

(* A retrieve() that ends takes the answer to the query before it, or throws. *)
LEMMA EndsKeep ==
  ASSUME Async!AsyncAssumption, AsyncInv, driver' = driver, part' = part, setting' = setting,
         caller \in Sends, caller' = Async!NoCall, up' = up,
         NEW st \in {"ready", "threw"}, Async!Becomes(caller, st),
         IF st = "threw" THEN holds' = holds /\ crashed' = crashed
         ELSE /\ Len(wire) > 0 /\ holds' = [holds EXCEPT ![caller] = wire[1].of]
              /\ crashed' \in BOOLEAN
              /\ setting.orderly /\ setting.selects => ~crashed',
         wire' \in Seq(Entries), driver = "pg" \/ Len(wire) <= 1 => Len(wire') = 0
  PROVE  AsyncInv'
<1>1. /\ state' \in [Sends -> States]
      /\ \A p \in Sends : state'[p] = IF p = caller THEN st ELSE state[p]
  BY DEF States, Async!Becomes
<1>4. setting.orderly => \A p \in Sends : ~(state'[p] \in {"waiting", "retrieving"})
  BY <1>1 DEF OrderlyOne, OneRetrieves, Out
<1>5. /\ holds' \in [Sends -> Sends \cup {Async!NoCall}]
      /\ setting.orderly /\ st = "ready" => holds'[caller] = caller
      /\ \A p \in Sends \ {caller} : holds'[p] = holds[p]
  <2>1. CASE st = "threw"
    BY <2>1
  <2>2. CASE st = "ready"
    <3>1. wire[1] \in Entries /\ holds' = [holds EXCEPT ![caller] = wire[1].of]
      BY <2>2, Shortness
    <3>2. wire[1].of \in Sends \cup {Async!NoCall}
      BY <3>1 DEF Entries, Async!Leftover, Async!NoCall
    <3>3. setting.orderly => wire[1].of = caller
      BY DEF OrderlyOne, OneRetrieves, Out
    <3> QED BY <3>1, <3>2, <3>3
  <2> QED BY <2>1, <2>2
<1>6. AsyncTyped'
  BY <1>1, <1>4, <1>5 DEF AsyncTyped
<1>7. OneRetrieves'
  BY <1>1, <1>4, <1>5 DEF OneRetrieves
<1>8. PgOne'
  BY <1>1, <1>4, <1>5 DEF PgOne, Asked, Out
<1>9. OrderlyOne'
  BY <1>1, <1>4, <1>5 DEF OrderlyOne, Asked, Out
<1>10. Async!OwnAnswer' /\ Async!ResultThere'
  BY <1>1, <1>4, <1>5 DEF Async!OwnAnswer, Async!ResultThere
<1> QED BY <1>6, <1>7, <1>8, <1>9, <1>10 DEF AsyncInv

LEMMA PgPrepareKeeps ==
  ASSUME Async!AsyncAssumption, AsyncInv, driver' = driver, part' = part, Async!PgPrepare
  PROVE  AsyncInv'
<1> DEFINE threw == wire = <<>> \/ (wire # <<>> /\ Head(wire).answer \in {"error", "end"})
           st == IF threw THEN "threw" ELSE "ready"
<1>1. /\ caller \in Sends /\ driver = "pg" /\ wire' = <<>> /\ up' = up /\ setting' = setting
      /\ caller' = Async!NoCall /\ crashed' = crashed /\ Async!Becomes(caller, st)
      /\ IF threw THEN holds' = holds ELSE holds' = [holds EXCEPT ![caller] = Head(wire).of]
  BY DEF Async!PgPrepare, Async!Drained, Async!Ends
<1>2. /\ st \in {"ready", "threw"} /\ (st = "threw" => holds' = holds)
      /\ st # "threw" => Len(wire) > 0 /\ holds' = [holds EXCEPT ![caller] = wire[1].of]
  BY <1>1, Shortness
<1>3. crashed' \in BOOLEAN /\ (setting.orderly /\ setting.selects => ~crashed')
  BY <1>1 DEF Async!ResultThere
<1>4. wire' \in Seq(Entries) /\ Len(wire') = 0
  BY <1>1, EmptySeq
<1>5. /\ caller \in Sends /\ up' = up /\ setting' = setting
      /\ caller' = Async!NoCall /\ crashed' = crashed /\ Async!Becomes(caller, st)
  BY <1>1
<1> HIDE DEF st, threw
<1> QED BY <1>2, <1>3, <1>4, <1>5, EndsKeep DEF Async!Becomes

LEMMA MySqlPrepareKeeps ==
  ASSUME Async!AsyncAssumption, AsyncInv, driver' = driver, part' = part, Async!MySqlPrepare
  PROVE  AsyncInv'
<1> DEFINE st == IF Async!Failing THEN "threw" ELSE "ready"
<1>1. /\ caller \in Sends /\ driver = "mysql" /\ up' = up /\ setting' = setting
      /\ caller' = Async!NoCall /\ Async!Becomes(caller, st)
      /\ Async!Failing \/ Async!Arrived
      /\ IF Async!Failing THEN holds' = holds /\ crashed' = crashed
         ELSE /\ holds' = [holds EXCEPT ![caller] = Head(wire).of]
              /\ crashed' = (Head(wire).answer # "rows")
      /\ wire' = IF wire = <<>> THEN wire ELSE Tail(wire)
  BY DEF Async!MySqlPrepare, Async!Ends
<1>2. /\ st \in {"ready", "threw"} /\ (st = "threw" => holds' = holds /\ crashed' = crashed)
      /\ st = "ready" => Len(wire) > 0
  BY <1>1, Shortness DEF Async!Arrived
<1>3. Len(wire) > 0 => Head(wire) = wire[1] /\ wire[1] \in Entries
  BY Shortness
<1>4. wire' \in Seq(Entries) /\ (Len(wire) <= 1 => Len(wire') = 0)
  <2>1. CASE wire = <<>>
    BY <1>1, <2>1, EmptySeq
  <2>2. CASE wire # <<>>
    <3>1. wire' = Tail(wire) /\ Len(wire) > 0
      BY <1>1, <2>2, Shortness
    <3>2. Tail(wire) \in Seq(Entries) /\ Len(Tail(wire)) = Len(wire) - 1 /\ Len(wire) \in Nat
      BY <3>1, Shortness
    <3> QED BY <3>1, <3>2
  <2> QED BY <2>1, <2>2
<1>5. st = "ready" => /\ holds' = [holds EXCEPT ![caller] = wire[1].of]
                      /\ crashed' = (wire[1].answer # "rows")
                      /\ wire[1].answer \in Answers \cup {"none_yet", "end"}
                      /\ wire[1].answer \notin {"error", "none_yet"}
  <2> SUFFICES ASSUME ~Async!Failing, Async!Arrived, Len(wire) > 0
               PROVE  /\ holds' = [holds EXCEPT ![caller] = wire[1].of]
                      /\ crashed' = (wire[1].answer # "rows")
                      /\ wire[1].answer \in Answers \cup {"none_yet", "end"}
                      /\ wire[1].answer \notin {"error", "none_yet"}
    BY <1>1, <1>2
  <2>1. Head(wire).answer # "none_yet" /\ Head(wire).answer # "error"
    BY Shortness DEF Async!Failing, Async!Arrived, Async!Errors
  <2>2. wire[1].answer \in Answers \cup {"none_yet", "end"}
    BY <1>3 DEF Entries
  <2> QED BY <1>1, <1>3, <2>1, <2>2
<1>6. st = "ready" => crashed' \in BOOLEAN /\ (setting.orderly /\ setting.selects => ~crashed')
  <2>1. st = "ready" /\ setting.orderly /\ setting.selects => wire[1].answer \notin {"end", "no_rows"}
    BY <1>1, <1>2 DEF OrderlyOne
  <2> QED BY <1>5, <2>1, Numbers
<1>7. /\ caller \in Sends /\ driver = "mysql" /\ up' = up /\ setting' = setting
      /\ caller' = Async!NoCall /\ Async!Becomes(caller, st)
  BY <1>1
<1> HIDE DEF st
<1> QED BY <1>2, <1>4, <1>5, <1>6, <1>7, EndsKeep DEF Async!Becomes

LEMMA AsyncStep ==
  ASSUME Async!AsyncAssumption, AsyncInv, driver' = driver, part' = part, Async!Next
  PROVE  AsyncInv'
<1>1. ASSUME NEW q \in Sends, Async!Aexecute(q)
      PROVE  AsyncInv'
  BY <1>1, PgSendKeeps, MySqlSendKeeps DEF Async!Aexecute
<1>2. ASSUME NEW q \in Sends, Async!Retrieve(q)
      PROVE  AsyncInv'
  BY <1>2, RetrieveKeeps
<1> QED BY <1>1, <1>2, AnswerKeeps, LoseKeeps, PgOthersKeep, PgPrepareKeeps, MySqlPrepareKeeps
        DEF Async!Next

LEMMA AsyncUntouched ==
  ASSUME AsyncInv, UNCHANGED <<part, driver, AsyncUnmoved>>
  PROVE  AsyncInv'
  BY DEF AsyncUnmoved, AsyncInv, AsyncTyped, OneRetrieves, PgOne, OrderlyOne, Asked, Out,
         Async!OwnAnswer, Async!ResultThere

LEMMA AsyncAtFirst ==
  ASSUME AllResultsAssumption, InitSideBySide
  PROVE  AsyncInv
<1> USE EmptySeq DEF AllResultsAssumption
<1>1. /\ wire = <<>> /\ state = [q \in Sends |-> "unsent"] /\ holds = [q \in Sends |-> Async!NoCall]
      /\ caller = Async!NoCall /\ crashed = FALSE /\ up = TRUE /\ setting \in Async!Settings
  <2>1. [orderly |-> TRUE, writes |-> FALSE, selects |-> TRUE, lossy |-> FALSE] \in Async!Settings
    BY DEF Async!Settings
  <2>2. AsyncRests \/ Async!Init
    BY DEF InitSideBySide
  <2>3. CASE AsyncRests
    BY <2>1, <2>3 DEF AsyncRests
  <2>4. CASE Async!Init
    BY <2>4 DEF Async!Init
  <2> QED BY <2>2, <2>3, <2>4
<1>2. driver \in Drivers /\ (part = "async" => driver \in Drivers \ {"sqlite3"})
  BY DEF InitSideBySide, HandleRests, Init, Async!Init
<1>3. part = "async" => driver \in {"pg", "mysql"}
  BY <1>2 DEF Async!AsyncAssumption
<1>4. wire \in Seq(Entries) /\ Len(wire) = 0
  BY <1>1
<1>5. AsyncTyped
  BY <1>1, <1>4 DEF AsyncTyped, States
<1>6. OneRetrieves /\ PgOne /\ OrderlyOne
  BY <1>1, <1>4, Numbers DEF OneRetrieves, PgOne, OrderlyOne, Out
<1> QED BY <1>1, <1>2, <1>3, <1>5, <1>6 DEF AsyncInv, Async!OwnAnswer, Async!ResultThere

LEMMA AsyncStepSideBySide ==
  ASSUME AllResultsAssumption, AsyncInv,
         [NextSideBySide]_<<part, vars, Sqlite3!vars, Async!vars>>
  PROVE  AsyncInv'
<1>1. CASE part = "async" /\ Async!Next /\ UNCHANGED <<part, driver>>
  BY <1>1, AsyncStep DEF AllResultsAssumption
<1>2. CASE UNCHANGED <<part, driver, AsyncUnmoved>>
  BY <1>2, AsyncUntouched
<1>3. UNCHANGED <<part, vars, Sqlite3!vars, Async!vars>> => UNCHANGED <<part, driver, AsyncUnmoved>>
  BY DEF vars, Async!vars, AsyncUnmoved
<1> QED BY <1>1, <1>2, <1>3 DEF NextSideBySide

LEMMA AsyncInvariant == SpecSideBySide => []AsyncInv
<1>1. InitSideBySide => AsyncInv
  BY AllResultsAssumption, AsyncAtFirst
<1>2. AsyncInv /\ [NextSideBySide]_<<part, vars, Sqlite3!vars, Async!vars>> => AsyncInv'
  BY AllResultsAssumption, AsyncStepSideBySide
<1> QED BY <1>1, <1>2, PTL DEF SpecSideBySide

-----------------------------------------------------------------------------
(* What an orderly client's retrieve() brings is the answer to its own query, *)
(* and there is a result to read when its queries have rows                 *)
(* (pg/result.cc:66-73, mysql/result.cc:130-146).                           *)
THEOREM AsyncOwnAnswer == SpecSideBySide => []OwnAnswer
<1>1. AsyncInv => OwnAnswer
  BY DEF AsyncInv, AsyncTyped, OwnAnswer, Async!TypeOK, Entries, States
<1> QED BY <1>1, AsyncInvariant, PTL

(* Without write(), an aexecute() is refused only while the answer to another  *)
(* is outstanding or the connection is lost (pg/handle.cc:173-197).          *)
THEOREM AsyncRefusedWhenBusy == SpecSideBySide => RefusedWhenBusy
<1>1. AsyncInv /\ [NextSideBySide]_<<part, vars, Sqlite3!vars, Async!vars>> =>
        [\A q \in Sends : state[q] = "unsent" /\ state'[q] = "refused" /\ ~setting.writes
                           => Async!Waiting # {} \/ ~up]_(Async!vars)
  <2> SUFFICES ASSUME AsyncInv, NextSideBySide, NEW q \in Sends,
                      state[q] = "unsent", state'[q] = "refused", ~setting.writes, up
               PROVE  Async!Waiting # {}
    BY DEF vars, Async!vars
  <2>1. driver \in {"pg", "mysql"} /\ Async!Next
    BY AllResultsAssumption DEF NextSideBySide, AsyncUnmoved
  <2>2. Async!Aexecute(q)
    <3>1. CASE Async!Answer \/ Async!Lose \/ Async!PgExecute \/ Async!PgWrite \/ Async!PgCancel
      BY <3>1 DEF Async!Answer, Async!Lose, Async!PgExecute, Async!PgWrite, Async!PgCancel
    <3>2. ASSUME NEW p \in Sends, Async!Retrieve(p)
          PROVE  FALSE
      BY <3>2 DEF Async!Retrieve, Async!Becomes
    <3>3. CASE Async!PgPrepare \/ Async!MySqlPrepare
      <4>1. caller \in Sends /\ \E st \in {"ready", "threw"} : Async!Becomes(caller, st)
        BY <3>3 DEF Async!PgPrepare, Async!MySqlPrepare, Async!Ends
      <4> QED BY <4>1 DEF Async!Becomes
    <3>4. ASSUME NEW p \in Sends, Async!Aexecute(p)
          PROVE  p = q
      <4>1. \E st \in {"waiting", "refused"} : Async!Becomes(p, st)
        BY <3>4 DEF Async!Aexecute, Async!PgSend, Async!MySqlSend
      <4> QED BY <4>1 DEF Async!Becomes
    <3> QED BY <2>1, <3>1, <3>2, <3>3, <3>4 DEF Async!Next
  <2>3. driver = "pg" /\ Len(wire) > 0 /\ caller = Async!NoCall
    <3>1. ~Async!Becomes(q, "waiting")
      BY DEF Async!Becomes
    <3>2. driver = "pg" /\ wire # <<>> /\ caller = Async!NoCall
      BY <2>2, <3>1 DEF Async!Aexecute, Async!Free, Async!PgSend, Async!PgIdle, Async!MySqlSend
    <3> QED BY <3>2, Shortness
  <2>4. PICK p \in Sends : Out(p)
    BY <2>3 DEF PgOne, Asked
  <2>5. state[p] = "waiting"
    BY <2>3, <2>4, Numbers, AllResultsAssumption DEF Out, OneRetrieves
  <2> QED BY <2>5 DEF Async!Waiting
<1> QED BY <1>1, AsyncInvariant, PTL DEF SpecSideBySide, RefusedWhenBusy, Async!RefusedWhenBusy

-----------------------------------------------------------------------------
(***************************************************************************)
(* A Sqlite3Statement.  While it steps, the result has the rows stepped      *)
(* through and is positioned behind them, and a result that is not lazy, the  *)
(* first of its statement, knows the types of its columns; a declared type    *)
(* is never replaced.                                                      *)
(***************************************************************************)
RowsRead == [run: 1..MaxRuns, binary: [Sqlite3!Cols -> BOOLEAN]]

Stepping ==
  phase = "stepping" =>
    /\ run \in 1..MaxRuns /\ res \in Sqlite3!Results
    /\ Len(res.data) = seen /\ res.rowno = seen
    /\ \A i \in 1..seen : res.data[i].run = run
    /\ takes /\ seen = 0 /\ ~res.lazy => \A c \in Sqlite3!Cols : res.types[c] # "unknown"

DeclaredStay ==
  res \in Sqlite3!Results =>
    \A c \in Sqlite3!Cols : decl[c] # "none" => res.types[c] = decl[c]

SqliteInv == RowsOfThisRun /\ TypesKnown /\ Stepping /\ DeclaredStay

(* A result of the type, its rows a sequence.                                *)
Typings == [Sqlite3!Cols -> Sqlite3!Types]
Loose == [present: {TRUE}, types: Typings, lazy: BOOLEAN, rowno: Nat, data: Seq(RowsRead)]

LEMMA ResultParts ==
  ASSUME Sqlite3!ExecutionAssumption, NEW r \in Sqlite3!Results
  PROVE  /\ r # Sqlite3!None /\ r \in Loose
         /\ r.types \in [Sqlite3!Cols -> Sqlite3!Types] /\ r.lazy \in BOOLEAN
         /\ r.rowno \in 0..MaxRows /\ r.data \in Seq(RowsRead) /\ Len(r.data) \in 0..MaxRows
<1>1. PICK n \in 0..MaxRows : r.data \in [1..n -> RowsRead]
  BY DEF Sqlite3!Results, RowsRead
<1>2. n \in Nat /\ 0..MaxRows \subseteq Nat
  BY DEF Sqlite3!ExecutionAssumption
<1>3. r.data \in Seq(RowsRead) /\ Len(r.data) = n
  BY <1>1, <1>2
<1> DEFINE D == UNION {[1..m -> [run: 1..MaxRuns, binary: [Sqlite3!Cols -> BOOLEAN]]] : m \in 0..MaxRows}
<1>4. r \in [present: {TRUE}, types: [Sqlite3!Cols -> Sqlite3!Types], lazy: BOOLEAN,
             rowno: 0..MaxRows, data: D]
  BY DEF Sqlite3!Results
<1> HIDE DEF D
<1>5. /\ r.present = TRUE /\ r.types \in [Sqlite3!Cols -> Sqlite3!Types] /\ r.lazy \in BOOLEAN
      /\ r.rowno \in 0..MaxRows
      /\ r = [present |-> r.present, types |-> r.types, lazy |-> r.lazy, rowno |-> r.rowno,
              data |-> r.data]
  BY <1>4
<1>6. r # Sqlite3!None
  BY <1>5 DEF Sqlite3!None
<1>7. r \in Loose
  BY <1>2, <1>3, <1>5 DEF Loose, Typings
<1> QED BY <1>1, <1>3, <1>5, <1>6, <1>7

LEMMA ResultMade ==
  ASSUME Sqlite3!ExecutionAssumption, NEW r \in Loose,
         r.rowno \in 0..MaxRows, Len(r.data) \in 0..MaxRows
  PROVE  r \in Sqlite3!Results
<1>1. r.data \in Seq(RowsRead)
  BY DEF Loose
<1>2. r.data \in [1..Len(r.data) -> RowsRead]
  BY <1>1, LenProperties
<1>3. r.data \in UNION {[1..n -> [run: 1..MaxRuns, binary: [Sqlite3!Cols -> BOOLEAN]]] : n \in 0..MaxRows}
  BY <1>2 DEF RowsRead
<1> QED BY <1>3 DEF Sqlite3!Results, Loose, Typings

LEMMA SqliteTyped ==
  ASSUME Sqlite3!ExecutionAssumption, SqliteInv
  PROVE  /\ decl \in [Sqlite3!Cols -> {"blob", "text", "none"}] /\ takes \in BOOLEAN
         /\ decl \in [Sqlite3!Cols -> Decls]
         /\ phase \in {"idle", "stepping", "done", "failed"}
         /\ MaxRuns \in Nat /\ MaxRows \in Nat /\ run \in 0..MaxRuns /\ seen \in 0..MaxRows
         /\ res = Sqlite3!None \/ res \in Sqlite3!Results
         /\ taken = Sqlite3!None \/ taken \in Sqlite3!Results
  BY DEF SqliteInv, RowsOfThisRun, Sqlite3!TypeOK, Sqlite3!ExecutionAssumption

USE DEF SqliteInv, RowsOfThisRun, TypesKnown, Stepping, DeclaredStay, Sqlite3!TypeOK,
        Sqlite3!RowsOfThisRun, Sqlite3!TypesKnown, Sqlite3!BinaryAgrees, Sqlite3!made

LEMMA SqliteAtFirst ==
  ASSUME Sqlite3!ExecutionAssumption, Sqlite3!Init
  PROVE  SqliteInv
<1>1. Sqlite3!None \notin Sqlite3!Results
  BY ResultParts
<1> QED BY <1>1 DEF Sqlite3!Init, Sqlite3!ExecutionAssumption

LEMMA StartKeeps ==
  ASSUME Sqlite3!ExecutionAssumption, SqliteInv, Sqlite3!Start
  PROVE  SqliteInv'
<1> USE SqliteTyped
<1>1. /\ run' = run + 1 /\ seen' = 0 /\ phase' = "stepping" /\ run' \in 1..MaxRuns
      /\ UNCHANGED <<decl, takes, taken>>
  BY DEF Sqlite3!Start
<1>2. /\ res' \in Sqlite3!Results /\ res'.data = <<>> /\ res'.rowno = 0
      /\ \A c \in Sqlite3!Cols : decl[c] # "none" => res'.types[c] = decl[c]
      /\ takes /\ ~res'.lazy => \A c \in Sqlite3!Cols : res'.types[c] # "unknown"
  <2>1. <<>> \in Seq(RowsRead) /\ Len(<<>>) \in 0..MaxRows /\ 0 \in 0..MaxRows
    BY EmptySeq
  <2>2. CASE res = Sqlite3!None
    <3> DEFINE t == [c \in Sqlite3!Cols |-> IF decl[c] = "none" THEN "unknown" ELSE decl[c]]
               l == \E c \in Sqlite3!Cols : decl[c] = "none"
    <3>1. t \in [Sqlite3!Cols -> Sqlite3!Types] /\ l \in BOOLEAN
      BY DEF Sqlite3!Types
    <3>2. res' = [present |-> TRUE, types |-> t, lazy |-> l, rowno |-> 0, data |-> <<>>]
      BY <2>2 DEF Sqlite3!Start, Sqlite3!Fresh
    <3> HIDE DEF t, l
    <3>3. res' \in Loose /\ res'.types = t /\ res'.lazy = l /\ res'.rowno = 0 /\ res'.data = <<>>
      BY <2>1, <3>1, <3>2 DEF Loose, Typings
    <3>4. res' \in Sqlite3!Results
      BY <2>1, <3>3, ResultMade
    <3> USE DEF t, l
    <3> QED BY <3>3, <3>4
  <2>3. CASE res # Sqlite3!None
    <3>1. res \in Sqlite3!Results /\ ~takes
      BY <2>3 DEF Sqlite3!Start
    <3>2. res' = [res EXCEPT !.rowno = 0, !.lazy = FALSE, !.data = <<>>] /\ res \in Loose
      BY <2>3, <3>1, ResultParts DEF Sqlite3!Start, Sqlite3!Cleared
    <3>3. /\ res' \in Loose
          /\ res'.types = res.types /\ res'.lazy = FALSE /\ res'.rowno = 0 /\ res'.data = <<>>
      BY <2>1, <3>2 DEF Loose
    <3>4. res' \in Sqlite3!Results
      BY <2>1, <3>3, ResultMade
    <3> QED BY <3>1, <3>3, <3>4
  <2> QED BY <2>2, <2>3
<1>3. res' # Sqlite3!None /\ Len(res'.data) = 0
  BY <1>2, ResultParts
<1> QED BY <1>1, <1>2, <1>3

LEMMA RowKeeps ==
  ASSUME Sqlite3!ExecutionAssumption, SqliteInv,
         NEW class \in [Sqlite3!Cols -> Sqlite3!Classes], Sqlite3!Row(class)
  PROVE  SqliteInv'
<1> DEFINE mark == Sqlite3!Marked(res.types, class)
           rec  == [run |-> run, binary |-> mark]
           data == Append(res.data, rec)
           type == [c \in Sqlite3!Cols |->
                      IF res.rowno = 0 /\ res.lazy /\ res.types[c] = "unknown"
                      THEN Sqlite3!Decided(class[c]) ELSE res.types[c]]
           lazy == IF res.rowno = 0 THEN FALSE ELSE res.lazy
<1> USE SqliteTyped
<1>1. /\ phase = "stepping" /\ phase' = "stepping" /\ seen < MaxRows /\ seen' = seen + 1
      /\ UNCHANGED <<decl, takes, taken, run>> /\ run \in 1..MaxRuns
      /\ res \in Sqlite3!Results /\ Len(res.data) = seen /\ res.rowno = seen
  BY DEF Sqlite3!Row
<1>2. /\ res.types \in [Sqlite3!Cols -> Sqlite3!Types] /\ res.lazy \in BOOLEAN
      /\ res.data \in Seq(RowsRead) /\ res # Sqlite3!None
  BY <1>1, ResultParts
<1>3. /\ type \in [Sqlite3!Cols -> Sqlite3!Types] /\ lazy \in BOOLEAN
      /\ rec \in RowsRead /\ seen + 1 \in 0..MaxRows
      /\ mark \in [Sqlite3!Cols -> BOOLEAN]
      /\ \A c \in Sqlite3!Cols : mark[c] = (res.types[c] = "blob")
  <2>1. \A c \in Sqlite3!Cols : Sqlite3!Decided(class[c]) \in Sqlite3!Types
    BY DEF Sqlite3!Decided, Sqlite3!Types
  <2>2. /\ mark \in [Sqlite3!Cols -> BOOLEAN]
        /\ \A c \in Sqlite3!Cols : mark[c] = (res.types[c] = "blob")
    BY DEF Sqlite3!Marked
  <2>3. type \in [Sqlite3!Cols -> Sqlite3!Types]
    BY <1>2, <2>1
  <2>4. rec \in RowsRead
    BY <1>1, <2>2 DEF RowsRead
  <2>5. lazy \in BOOLEAN
    BY <1>2
  <2>6. seen + 1 \in 0..MaxRows
    BY <1>1
  <2> QED BY <2>2, <2>3, <2>4, <2>5, <2>6
<1>4. /\ data \in Seq(RowsRead) /\ Len(data) = seen + 1
      /\ \A i \in 1..seen : data[i] = res.data[i]
      /\ data[seen + 1] = rec
  BY <1>1, <1>2, <1>3, AppendProperties
<1>5. /\ res' \in Loose
      /\ res'.types = type /\ res'.lazy = lazy /\ res'.rowno = seen + 1 /\ res'.data = data
  <2> DEFINE w == Sqlite3!Written(res, class)
  <2>1. w \in Loose /\ w.types = res.types /\ w.lazy = res.lazy /\ w.rowno = res.rowno /\ w.data = data
    <3>1. w = [res EXCEPT !.data = data]
      BY DEF Sqlite3!Written
    <3>2. res \in Loose
      BY <1>1, ResultParts
    <3> HIDE DEF w, data
    <3> QED BY <1>4, <3>1, <3>2 DEF Loose
  <2>2. res' = [w EXCEPT !.rowno = w.rowno + 1, !.lazy = IF w.rowno = 0 THEN FALSE ELSE w.lazy,
                         !.types = [c \in Sqlite3!Cols |->
                                      IF w.rowno = 0 /\ w.lazy /\ w.types[c] = "unknown"
                                      THEN Sqlite3!Decided(class[c]) ELSE w.types[c]]]
    BY DEF Sqlite3!Row, Sqlite3!Flushed, Sqlite3!First
  <2> HIDE DEF w, data
  <2>3. res' = [w EXCEPT !.rowno = seen + 1, !.lazy = lazy, !.types = type]
    BY <1>1, <2>1, <2>2
  <2> HIDE DEF lazy, type
  <2>4. seen + 1 \in Nat
    BY <1>1
  <2>5. type \in Typings
    BY <1>3 DEF Typings
  <2> QED BY <1>3, <2>1, <2>3, <2>4, <2>5 DEF Loose
<1>6. res' \in Sqlite3!Results
  <2> HIDE DEF data, lazy, type, rec, mark
  <2>1. PICK r \in Loose : r = res'
    BY <1>5
  <2>2. r.rowno \in 0..MaxRows /\ Len(r.data) \in 0..MaxRows
    BY <1>3, <1>4, <1>5, <2>1
  <2>3. r \in Sqlite3!Results
    BY <2>2, ResultMade
  <2> QED BY <2>1, <2>3
<1>7. res' # Sqlite3!None
  BY <1>6, ResultParts
<1>8. \A c \in Sqlite3!Cols : type[c] = res.types[c] \/ (seen = 0 /\ decl[c] = "none")
  <2>1. \A c \in Sqlite3!Cols : decl[c] \in {"blob", "text", "none"} /\ decl[c] # "none" => res.types[c] # "unknown"
    BY <1>1
  <2> QED BY <1>1, <2>1
<1>9. takes => \A c \in Sqlite3!Cols : type[c] # "unknown"
  <2>1. \A c \in Sqlite3!Cols : Sqlite3!Decided(class[c]) # "unknown"
    BY DEF Sqlite3!Decided
  <2>2. CASE seen = 0
    BY <1>1, <2>1, <2>2
  <2>3. CASE seen # 0
    <3>1. res.data # <<>>
      BY <1>1, <2>3, EmptySeq
    <3> QED BY <1>1, <1>2, <2>3, <3>1
  <2> QED BY <2>2, <2>3
<1> HIDE DEF data, type, lazy, rec, mark
<1>10. Sqlite3!TypeOK' /\ Sqlite3!RowsOfThisRun' /\ DeclaredStay' /\ Sqlite3!TypesKnown'
  BY <1>1, <1>3, <1>5, <1>6, <1>7, <1>8, <1>9
<1>11. Stepping'
  <2>1. \A i \in 1..seen + 1 : data[i].run = run
    BY <1>1, <1>4 DEF rec
  <2> QED BY <1>1, <1>4, <1>5, <1>6, <2>1
<1>12. Sqlite3!BinaryAgrees'
  <2> SUFFICES ASSUME NEW i \in 1..seen + 1, NEW c \in Sqlite3!Cols, decl[c] # "none" \/ i > 1
               PROVE  data[i].binary[c] <=> type[c] = "blob"
    BY <1>1, <1>4, <1>5
  <2>1. type[c] = res.types[c]
    <3>1. CASE seen = 0
      BY <1>8, <3>1
    <3>2. CASE seen # 0
      BY <1>8, <3>2
    <3> QED BY <3>1, <3>2
  <2>2. CASE i \in 1..seen
    BY <1>1, <1>2, <1>4, <2>1, <2>2
  <2>3. CASE i = seen + 1
    BY <1>3, <1>4, <2>1, <2>3 DEF rec
  <2> QED BY <1>1, <2>2, <2>3
<1> QED BY <1>10, <1>11, <1>12

LEMMA DoneKeeps ==
  ASSUME Sqlite3!ExecutionAssumption, SqliteInv, Sqlite3!Done
  PROVE  SqliteInv'
<1> USE SqliteTyped
<1>1. /\ phase = "stepping" /\ phase' = "done" /\ UNCHANGED <<decl, takes, run, seen, taken>>
      /\ res \in Sqlite3!Results
  BY DEF Sqlite3!Done
<1>2. res' = [res EXCEPT !.rowno = 0] /\ res \in Loose
  BY <1>1, ResultParts DEF Sqlite3!Done
<1>3. /\ res' \in Loose
      /\ res'.types = res.types /\ res'.lazy = res.lazy /\ res'.rowno = 0 /\ res'.data = res.data
  BY <1>2 DEF Loose
<1>4. res' \in Sqlite3!Results
  BY <1>1, <1>3, ResultParts, ResultMade
<1> QED BY <1>1, <1>3, <1>4, ResultParts

LEMMA RestKeep ==
  ASSUME Sqlite3!ExecutionAssumption, SqliteInv,
         \/ Sqlite3!StartRefused \/ Sqlite3!StepThrows \/ Sqlite3!TakeResult \/ UNCHANGED Sqlite3!vars
  PROVE  SqliteInv'
<1> USE SqliteTyped
<1>1. CASE Sqlite3!StartRefused \/ Sqlite3!StepThrows
  BY <1>1 DEF Sqlite3!StartRefused, Sqlite3!StepThrows
<1>2. CASE Sqlite3!TakeResult
  <2>1. Sqlite3!None \notin Sqlite3!Results
    BY ResultParts
  <2> QED BY <1>2, <2>1 DEF Sqlite3!TakeResult, Sqlite3!HandsOver
<1>3. CASE UNCHANGED Sqlite3!vars
  BY <1>3 DEF Sqlite3!vars
<1> QED BY <1>1, <1>2, <1>3

LEMMA SqliteInvariant == SpecSideBySide => []SqliteInv
<1> USE AllResultsAssumption
<1>1. InitSideBySide => SqliteInv
  BY SqliteAtFirst DEF InitSideBySide, Sqlite3Rests
<1>2. SqliteInv /\ [NextSideBySide]_<<part, vars, Sqlite3!vars, Async!vars>> => SqliteInv'
  <2>1. SqliteInv /\ (Sqlite3!Next \/ UNCHANGED Sqlite3!vars) => SqliteInv'
    BY StartKeeps, RowKeeps, DoneKeeps, RestKeep DEF Sqlite3!Next
  <2>2. [NextSideBySide]_<<part, vars, Sqlite3!vars, Async!vars>>
          => Sqlite3!Next \/ UNCHANGED Sqlite3!vars
    BY DEF NextSideBySide, Sqlite3Unmoved, Sqlite3!vars
  <2> QED BY <2>1, <2>2
<1> QED BY <1>1, <1>2, PTL DEF SpecSideBySide

(* Whatever execution it was, and whatever became of those before it, the     *)
(* result has the rows of the last one that ended, and no others, and is at   *)
(* its start (sqlite3/statement.cc:69-97, sqlite3/result.cc:15-23).          *)
THEOREM SqliteRowsOfThisRun == SpecSideBySide => []RowsOfThisRun
<1>1. SqliteInv => RowsOfThisRun
  OBVIOUS
<1> QED BY <1>1, SqliteInvariant, PTL

(* A result with rows has a type for each column, if the client takes the       *)
(* result of every execution; and whatever it does the values of BLOB columns  *)
(* are marked binary, and no others, save in the first row of columns without *)
(* a declared type (sqlite3/result.cc:75-84, sqlite3/result.cc:91-103).     *)
THEOREM SqliteTypesKnown == SpecSideBySide => []TypesKnown
<1>1. SqliteInv => TypesKnown
  OBVIOUS
<1> QED BY <1>1, SqliteInvariant, PTL
=============================================================================
