------------------------- MODULE ResultCursorsProofs ------------------------
(***************************************************************************)
(* A careful reader gets the row it asked for from each of the four        *)
(* classes, whatever the number of rows, and cannot tell them apart.       *)
(***************************************************************************)
EXTENDS ResultCursors, TLAPS

(* After a seek() every class is at the row sought, and it exists.         *)
SoughtThere ==
  sought # Nowhere => sought < rows /\ \A k \in Kinds : cur[k].rowno = sought

Together == settled => \A k, l \in Kinds : cur[k].rowno = cur[l].rowno

(* A cursor as the invariant leaves it: the list of a MySQL class stands at *)
(* the row number, and n is false only after a seek().                     *)
Sane(k, c, n) ==
  /\ c \in Cursors /\ c.rowno <= rows
  /\ k \in Buffered => /\ c.at = c.rowno
                       /\ n /\ c.rowno > 0 => c.buf = c.rowno - 1

Answered == \A k, l \in Kinds : out[k].got = out[k].want /\ out[k].want = out[l].want

(* The inductive invariant of a careful reader.                            *)
IInv ==
  /\ TypeOK /\ SoughtThere /\ Together /\ Answered
  /\ \A k \in Kinds : Sane(k, cur[k], sought = Nowhere)

-----------------------------------------------------------------------------
Placed(r, a, b) == [rowno |-> r, at |-> a, buf |-> b]

LEMMA Parts ==
  ASSUME rows \in Row, NEW c \in Cursors
  PROVE  /\ rows \in Nat /\ rows <= MaxRows /\ MaxRows \in Nat
         /\ c.rowno \in Nat /\ c.at \in Nat
         /\ c = Placed(c.rowno, c.at, c.buf)
  BY ReaderAssumption DEF Row, Cursors, Placed

LEMMA Excepting ==
  ASSUME NEW c \in Cursors, NEW v, NEW w
  PROVE  /\ [c EXCEPT !.rowno = v] = Placed(v, c.at, c.buf)
         /\ [c EXCEPT !.rowno = v, !.at = w] = Placed(v, w, c.buf)
<1>1. [c EXCEPT !.rowno = v] = Placed(v, c.at, c.buf)
  BY DEF Cursors, Placed
<1>2. [c EXCEPT !.rowno = v, !.at = w] = Placed(v, w, c.buf)
  <2>1. [c EXCEPT !.rowno = v, !.at = w] = [[c EXCEPT !.rowno = v] EXCEPT !.at = w]
    OBVIOUS
  <2>2. [Placed(v, c.at, c.buf) EXCEPT !.at = w] = Placed(v, w, c.buf)
    BY DEF Placed
  <2> QED
    BY <2>1, <2>2, <1>1
<1> QED
  BY <1>1, <1>2

LEMMA Seeking ==
  ASSUME NEW k \in Buffered, NEW c \in Cursors, rows \in Nat, NEW r \in Nat, r < rows
  PROVE  Sought(k, c, r) = Placed(r, r, c.buf)
<1>1. [c EXCEPT !.rowno = r, !.at = r] = Placed(r, r, c.buf)
  BY Excepting
<1>2. MySqlSought(c, r) = Placed(r, r, c.buf)
  BY <1>1 DEF MySqlSought
<1>3. ~(r >= rows)
  OBVIOUS
<1>4. BinarySought(c, r) = Placed(r, r, c.buf)
  BY <1>1, <1>3 DEF BinarySought
<1> QED
  BY <1>2, <1>4 DEF Sought, Direct, Buffered

LEMMA Making ==
  ASSUME rows \in Row, NEW r \in 0..rows, NEW a \in 0..rows, NEW b \in 0..rows \cup {Unset, Null}
  PROVE  Placed(r, a, b) \in Cursors
  BY ReaderAssumption DEF Row, Cursors, Placed

(* A fetch from a list that is not at its end takes the row there, in both  *)
(* MySQL classes.                                                          *)
LEMMA Fetching ==
  ASSUME NEW k \in Kinds, NEW c \in Cursors, c.at < rows
  PROVE  Fetched(k, c) = Placed(c.rowno, c.at + 1, c.at)
  BY DEF Fetched, MySqlFetched, BinaryFetched, Cursors, Placed

LEMMA ReadMoves ==
  ASSUME rows \in Row, NEW k \in Kinds, NEW c, NEW n \in BOOLEAN, Sane(k, c, n),
         n \/ c.rowno < rows
  PROVE  /\ Sane(k, AfterRead(k, c), TRUE)
         /\ AfterRead(k, c).rowno = IF c.rowno < rows THEN c.rowno + 1 ELSE c.rowno
         /\ ReadAnswer(k, c) = IF c.rowno < rows THEN c.rowno ELSE End
<1>0. /\ c \in Cursors /\ c.rowno <= rows
      /\ rows \in Nat /\ rows <= MaxRows /\ MaxRows \in Nat
      /\ c.rowno \in Nat /\ c.at \in Nat
      /\ c = Placed(c.rowno, c.at, c.buf)
  BY Parts DEF Sane
<1>1. CASE c.rowno >= rows
  <2>1. AfterRead(k, c) = c
    BY <1>0, <1>1 DEF AfterRead, DirectRead, BufferedRead
  <2>2. n
    BY <1>0, <1>1
  <2> QED
    BY <2>1, <2>2, <1>0, <1>1 DEF ReadAnswer, Sane
<1>2. CASE c.rowno < rows /\ k \in Direct
  <2>1. AfterRead(k, c) = Placed(c.rowno + 1, c.at, c.buf)
    BY <1>0, <1>2 DEF AfterRead, DirectRead, Cursors, Placed
  <2>2. k \notin Buffered
    BY <1>2 DEF Direct, Buffered
  <2>3. Placed(c.rowno + 1, c.at, c.buf) \in Cursors
    BY <1>0, <1>2 DEF Cursors, Placed, Row
  <2> QED
    BY <2>1, <2>2, <2>3, <1>2, <1>0 DEF ReadAnswer, Sane, Placed
<1>3. CASE c.rowno < rows /\ k \notin Direct
  <2>1. k \in Buffered /\ c.at = c.rowno
    BY <1>3, ReaderAssumption DEF Sane
  <2>2. AfterRead(k, c) = Placed(c.rowno + 1, c.rowno + 1, c.rowno)
    <3>1. Fetched(k, c) = Placed(c.rowno, c.rowno + 1, c.rowno)
      BY <1>0, <2>1, <1>3, Fetching
    <3> QED
      BY <3>1, <1>3 DEF AfterRead, BufferedRead, Placed
  <2>3. Placed(c.rowno + 1, c.rowno + 1, c.rowno) \in Cursors
    BY Making, <1>0, <1>3
  <2>4. ReadAnswer(k, c) = c.rowno
    BY <2>2, <1>3, <1>0 DEF ReadAnswer, Placed
  <2> QED
    BY <2>1, <2>2, <2>3, <2>4, <1>3, <1>0 DEF Sane, Placed
<1> QED
  <2>1. c.rowno >= rows \/ c.rowno < rows
    BY <1>0
  <2> QED
    BY <2>1, <1>1, <1>2, <1>3, Zenon

LEMMA FieldMoves ==
  ASSUME rows \in Row, NEW k \in Kinds, NEW c, NEW n \in BOOLEAN, Sane(k, c, n),
         NEW r \in Row, n \/ r # c.rowno - 1
  PROVE  /\ Sane(k, AfterField(k, c, r), n \/ r < rows)
         /\ AfterField(k, c, r).rowno \in IF r < rows THEN {c.rowno, r, r + 1} ELSE {c.rowno}
         /\ FieldAnswer(k, c, r) = IF r < rows THEN r ELSE Null
<1>0. /\ c \in Cursors /\ c.rowno <= rows
      /\ rows \in Nat /\ rows <= MaxRows /\ MaxRows \in Nat
      /\ c.rowno \in Nat /\ c.at \in Nat /\ r \in Nat
      /\ c = Placed(c.rowno, c.at, c.buf)
  BY Parts DEF Sane, Row
<1>1. CASE r >= rows
  <2>1. AfterField(k, c, r) = c
    BY <1>0, <1>1, ReaderAssumption
    DEF AfterField, PgField, Sqlite3Field, BufferedField, Direct, Buffered
  <2>2. FieldAnswer(k, c, r) = Null
    BY <1>1, <1>0 DEF FieldAnswer
  <2>3. (n \/ r < rows) = n
    BY <1>1, <1>0
  <2> QED
    BY <2>1, <2>2, <2>3, <1>0, <1>1
<1>2. CASE r < rows /\ k \in Direct
  <2>1. k \notin Buffered
    BY <1>2 DEF Direct, Buffered
  <2>2. AfterField(k, c, r) \in {Placed(r, c.at, c.buf), c}
    <3>1. [c EXCEPT !.rowno = r] = Placed(r, c.at, c.buf)
      BY <1>0, Excepting
    <3> QED
      BY <3>1, <1>2 DEF AfterField, PgField, Sqlite3Field, Direct
  <2>3. Placed(r, c.at, c.buf) \in Cursors
    BY <1>0, <1>2 DEF Cursors, Placed, Row
  <2>4. FieldAnswer(k, c, r) = r
    BY <1>2, <1>0 DEF FieldAnswer
  <2> QED
    BY <2>1, <2>2, <2>3, <2>4, <1>2, <1>0 DEF Sane, Placed
<1>3. CASE r < rows /\ k \notin Direct
  <2>1. k \in Buffered /\ c.at = c.rowno /\ k \notin {"pg", "sqlite3"}
    BY <1>3, ReaderAssumption DEF Sane, Direct
  <2>2. AfterField(k, c, r) = BufferedField(k, c, r)
    BY <2>1 DEF AfterField
  <2>3. CASE r + 1 = c.rowno
    <3>1. BufferedField(k, c, r) = c /\ c.buf = r
      BY <2>1, <2>3, <1>0, <1>3 DEF BufferedField, Sane
    <3> QED
      BY <3>1, <2>1, <2>2, <2>3, <1>3, <1>0 DEF FieldAnswer, Sane
  <2>4. CASE r + 1 # c.rowno
    <3> DEFINE placed == IF r = 0 THEN BufferedRewound(c)
                         ELSE IF r # c.rowno THEN Sought(k, c, r) ELSE c
    <3>1. placed = Placed(r, r, c.buf)
      <4>1. BufferedRewound(c) = Placed(0, 0, c.buf)
        BY <1>0, Excepting DEF BufferedRewound
      <4>2. Sought(k, c, r) = Placed(r, r, c.buf)
        BY <1>0, <1>3, <2>1, Seeking
      <4> QED
        BY <4>1, <4>2, <2>1, <1>0
    <3>2. placed \in Cursors
      BY <3>1, <1>0, <1>3 DEF Cursors, Placed, Row
    <3>3. Fetched(k, placed) = Placed(r, r + 1, r)
      BY <3>1, <3>2, <1>3, Fetching DEF Placed
    <3>4. BufferedField(k, c, r) = Placed(r + 1, r + 1, r)
      <4>1. BufferedField(k, c, r) = [Fetched(k, placed) EXCEPT !.rowno = r + 1]
        BY <1>0, <1>3, <2>4 DEF BufferedField
      <4> QED
        BY <4>1, <3>3 DEF Placed
    <3>5. Placed(r + 1, r + 1, r) \in Cursors
      BY Making, <1>0, <1>3
    <3>6. FieldAnswer(k, c, r) = r
      BY <3>4, <2>2, <1>3, <1>0 DEF FieldAnswer, Placed
    <3> QED
      BY <3>4, <3>5, <3>6, <2>1, <2>2, <1>3, <1>0 DEF Sane, Placed
  <2> QED
    BY <2>3, <2>4
<1> QED
  <2>1. r >= rows \/ r < rows
    BY <1>0
  <2> QED
    BY <2>1, <1>1, <1>2, <1>3, Zenon

LEMMA SeekMoves ==
  ASSUME rows \in Row, NEW k \in Kinds, NEW c, NEW n \in BOOLEAN, Sane(k, c, n),
         NEW r \in Row, r < rows
  PROVE  Sane(k, Sought(k, c, r), FALSE) /\ Sought(k, c, r).rowno = r
<1>0. /\ c \in Cursors
      /\ rows \in Nat /\ rows <= MaxRows /\ MaxRows \in Nat
      /\ c.rowno \in Nat /\ c.at \in Nat /\ r \in Nat
      /\ c = Placed(c.rowno, c.at, c.buf)
  BY Parts DEF Sane, Row
<1>1. CASE k \in Direct
  <2>1. Sought(k, c, r) = Placed(r, c.at, c.buf) /\ k \notin Buffered
    BY <1>0, <1>1, Excepting DEF Sought, DirectSought, Direct, Buffered
  <2>2. Placed(r, c.at, c.buf) \in Cursors
    BY <1>0 DEF Cursors, Placed, Row
  <2> QED
    BY <2>1, <2>2, <1>0 DEF Sane, Placed
<1>2. CASE k \in Buffered
  <2>1. Sought(k, c, r) = Placed(r, r, c.buf)
    BY <1>0, <1>2, Seeking
  <2>2. Placed(r, r, c.buf) \in Cursors
    BY <1>0 DEF Cursors, Placed, Row
  <2> QED
    BY <2>1, <2>2, <1>0 DEF Sane, Placed
<1> QED
  BY <1>1, <1>2, ReaderAssumption

LEMMA RewindMoves ==
  ASSUME rows \in Row, NEW k \in Kinds, NEW c, NEW n \in BOOLEAN, Sane(k, c, n)
  PROVE  Sane(k, Rewound(k, c), TRUE) /\ Rewound(k, c).rowno = 0
<1>0. /\ c \in Cursors
      /\ rows \in Nat /\ rows <= MaxRows /\ MaxRows \in Nat
      /\ c.rowno \in Nat /\ c.at \in Nat
      /\ c = Placed(c.rowno, c.at, c.buf)
  BY Parts DEF Sane
<1>1. \A a \in {0, c.at} : Placed(0, a, c.buf) \in Cursors
  BY <1>0 DEF Cursors, Placed, Row
<1>2. Rewound(k, c) = IF k \in Direct THEN Placed(0, c.at, c.buf) ELSE Placed(0, 0, c.buf)
  BY <1>0, Excepting DEF Rewound, DirectRewound, BufferedRewound
<1>3. k \in Buffered => k \notin Direct
  BY DEF Direct, Buffered
<1> QED
  BY <1>0, <1>1, <1>2, <1>3 DEF Sane, Placed

-----------------------------------------------------------------------------
(* The invariant: the first call finds every class sane, and each call     *)
(* leaves them so.                                                         *)
LEMMA InitSane == Init => IInv
<1> SUFFICES ASSUME Init PROVE IInv
  OBVIOUS
<1>1. Opened \in Cursors /\ Silent \in [want: Answer, got: Answer]
  BY ReaderAssumption DEF Opened, Silent, Cursors, Answer, Row
<1>2. TypeOK
  BY <1>1 DEF Init, TypeOK
<1>3. \A k \in Kinds : Sane(k, cur[k], sought = Nowhere)
  <2>1. Opened.rowno = 0 /\ Opened.at = 0
    BY DEF Opened
  <2>2. rows \in Nat /\ \A k \in Kinds : cur[k] = Opened
    BY DEF Init, Row
  <2>3. 0 <= rows /\ ~(0 > 0)
    BY <2>2
  <2> QED
    BY <1>1, <2>1, <2>2, <2>3, Zenon DEF Sane
<1>4. Together /\ SoughtThere
  BY DEF Init, SoughtThere, Together
<1>5. Answered
  BY DEF Init, Answered, Silent
<1> QED
  BY <1>2, <1>3, <1>4, <1>5 DEF IInv

(* What a step of a careful reader does to the cursor of each class.       *)
Moves(k, place, answer, n) ==
  /\ Sane(k, cur'[k], n)
  /\ cur'[k].rowno \in place
  /\ out'[k] = [want |-> answer, got |-> answer]

LEMMA Moved ==
  ASSUME NEW k \in Kinds, NEW f, NEW a \in Answer, NEW n \in BOOLEAN, Moves(k, f, a, n)
  PROVE  /\ Sane(k, cur'[k], n) /\ cur'[k].rowno \in f
         /\ out'[k] \in [want: Answer, got: Answer]
         /\ out'[k].want = a /\ out'[k].got = a
  BY DEF Moves

LEMMA ReadStep ==
  ASSUME Careful, IInv, Read, NEW k \in Kinds
  PROVE  LET p == cur[k].rowno IN
         IF p < rows THEN Moves(k, {p + 1}, p, TRUE) ELSE Moves(k, {p}, End, TRUE)
<1>1. rows \in Row /\ Sane(k, cur[k], sought = Nowhere) /\ (sought = Nowhere) \in BOOLEAN
  BY DEF IInv, TypeOK
<1>2. (sought = Nowhere) \/ cur[k].rowno < rows
  BY DEF IInv, SoughtThere
<1>3. /\ Sane(k, AfterRead(k, cur[k]), TRUE)
      /\ AfterRead(k, cur[k]).rowno = IF cur[k].rowno < rows THEN cur[k].rowno + 1 ELSE cur[k].rowno
      /\ ReadAnswer(k, cur[k]) = IF cur[k].rowno < rows THEN cur[k].rowno ELSE End
  BY <1>1, <1>2, ReadMoves
<1>4. cur'[k] = AfterRead(k, cur[k])
  BY DEF Read
<1>5. out'[k] = [want |-> IF cur[k].rowno < rows THEN cur[k].rowno ELSE End,
                 got  |-> ReadAnswer(k, cur[k])]
  BY DEF Read
<1> QED
  BY <1>3, <1>4, <1>5 DEF Moves

LEMMA FieldStep ==
  ASSUME Careful, IInv, NEW r \in Row, Field(r), NEW k \in Kinds
  PROVE  LET p == cur[k].rowno IN
         IF r < rows THEN Moves(k, {p, r, r + 1}, r, TRUE)
                     ELSE Moves(k, {p}, Null, sought = Nowhere)
<1>1. rows \in Row /\ Sane(k, cur[k], sought = Nowhere) /\ (sought = Nowhere) \in BOOLEAN
  BY DEF IInv, TypeOK
<1>2. (sought = Nowhere) \/ r # cur[k].rowno - 1
  BY DEF IInv, SoughtThere, Field
<1>3. /\ Sane(k, AfterField(k, cur[k], r), sought = Nowhere \/ r < rows)
      /\ AfterField(k, cur[k], r).rowno \in
           IF r < rows THEN {cur[k].rowno, r, r + 1} ELSE {cur[k].rowno}
      /\ FieldAnswer(k, cur[k], r) = IF r < rows THEN r ELSE Null
  <2> DEFINE c == cur[k]
             n == sought = Nowhere
  <2>1. rows \in Row /\ Sane(k, c, n) /\ n \in BOOLEAN /\ (n \/ r # c.rowno - 1)
    BY <1>1, <1>2
  <2> HIDE DEF c, n
  <2>2. /\ Sane(k, AfterField(k, c, r), n \/ r < rows)
        /\ AfterField(k, c, r).rowno \in IF r < rows THEN {c.rowno, r, r + 1} ELSE {c.rowno}
        /\ FieldAnswer(k, c, r) = IF r < rows THEN r ELSE Null
    BY <2>1, FieldMoves
  <2> QED
    BY <2>2 DEF c, n
<1>4. cur'[k] = AfterField(k, cur[k], r)
  BY DEF Field
<1>5. out'[k] = [want |-> IF r < rows THEN r ELSE Null, got |-> FieldAnswer(k, cur[k], r)]
  BY DEF Field
<1>6. CASE r < rows
  <2>1. (sought = Nowhere \/ r < rows) = TRUE
    BY <1>6
  <2> QED
    BY <2>1, <1>3, <1>4, <1>5, <1>6 DEF Moves
<1>7. CASE ~(r < rows)
  <2>1. (sought = Nowhere \/ r < rows) = (sought = Nowhere)
    BY <1>7
  <2> QED
    BY <2>1, <1>3, <1>4, <1>5, <1>7 DEF Moves
<1> QED
  BY <1>6, <1>7

LEMMA PlaceStep ==
  ASSUME Careful, IInv, NEW k \in Kinds
  PROVE  /\ \A r \in Row : Seek(r) => r < rows /\ Moves(k, {r}, Nothing, FALSE)
         /\ Rewind => Moves(k, {0}, Nothing, TRUE)
<1>1. rows \in Row /\ Sane(k, cur[k], sought = Nowhere) /\ (sought = Nowhere) \in BOOLEAN
  BY DEF IInv, TypeOK
<1>2. ASSUME NEW r \in Row, Seek(r) PROVE r < rows /\ Moves(k, {r}, Nothing, FALSE)
  <2>1. r < rows
    BY <1>2 DEF Seek
  <2>2. Sane(k, Sought(k, cur[k], r), FALSE) /\ Sought(k, cur[k], r).rowno = r
    BY <1>1, <2>1, SeekMoves
  <2>3. cur'[k] = Sought(k, cur[k], r) /\ out'[k] = Silent
    BY <1>2 DEF Seek
  <2> QED
    BY <2>1, <2>2, <2>3 DEF Moves, Silent
<1>3. ASSUME Rewind PROVE Moves(k, {0}, Nothing, TRUE)
  <2>1. Sane(k, Rewound(k, cur[k]), TRUE) /\ Rewound(k, cur[k]).rowno = 0
    BY <1>1, RewindMoves
  <2>2. cur'[k] = Rewound(k, cur[k]) /\ out'[k] = Silent
    BY <1>3 DEF Rewind
  <2> QED
    BY <2>1, <2>2 DEF Moves, Silent
<1> QED
  BY <1>2, <1>3

LEMMA StepSane ==
  ASSUME Careful PROVE IInv /\ [Next]_vars => IInv'
<1> SUFFICES ASSUME IInv, [Next]_vars PROVE IInv'
  OBVIOUS
<1>0. /\ rows \in Row /\ \A k \in Kinds : cur[k].rowno <= rows /\ cur[k].rowno \in Nat
      /\ rows \in Nat /\ rows <= MaxRows /\ MaxRows \in Nat
  BY ReaderAssumption DEF IInv, TypeOK, Sane, Cursors, Row
(* It is enough that each class moved to a place of its own and answered.  *)
<1>1. ASSUME NEW n \in BOOLEAN, rows' = rows,
             \A k \in Kinds : Sane(k, cur'[k], n) /\ out'[k] \in [want: Answer, got: Answer],
             cur' = [k \in Kinds |-> cur'[k]], out' = [k \in Kinds |-> out'[k]],
             n => sought' = Nowhere, ~n => sought' # Nowhere,
             settled' \in BOOLEAN, sought' \in Row \cup {Nowhere},
             SoughtThere', Together', Answered'
      PROVE  IInv'
  <2>1. \A k \in Kinds : /\ cur'[k] \in Cursors
                         /\ out'[k] \in [want: Answer, got: Answer]
                         /\ Sane(k, cur'[k], (sought' = Nowhere))
    BY <1>1 DEF Sane
  <2>2. TypeOK'
    BY <2>1, <1>0, <1>1 DEF TypeOK
  <2>4. \A k \in Kinds : Sane(k, cur[k], sought = Nowhere)'
    BY <2>1, <1>1 DEF Sane
  <2> QED
    BY <2>2, <2>4, <1>1 DEF IInv
<1>2. CASE Read
  <2>1. /\ rows' = rows /\ sought' = Nowhere /\ settled /\ settled'
        /\ cur' = [k \in Kinds |-> cur'[k]] /\ out' = [k \in Kinds |-> out'[k]]
    BY <1>2 DEF Read
  <2>2. ASSUME NEW k \in Kinds
        PROVE  LET p == cur[k].rowno  a == IF p < rows THEN p ELSE End IN
               /\ Sane(k, cur'[k], TRUE) /\ out'[k] \in [want: Answer, got: Answer]
               /\ cur'[k].rowno = IF p < rows THEN p + 1 ELSE p
               /\ out'[k].want = a /\ out'[k].got = a
    <3> DEFINE p == cur[k].rowno
    <3>1. p \in Answer /\ End \in Answer
      BY <1>0 DEF Answer, Row
    <3>2. CASE p < rows
      <4>1. Moves(k, {p + 1}, p, TRUE)
        BY <1>2, <3>2, ReadStep
      <4>2. /\ Sane(k, cur'[k], TRUE) /\ cur'[k].rowno \in {p + 1}
            /\ out'[k] \in [want: Answer, got: Answer]
            /\ out'[k].want = p /\ out'[k].got = p
        BY <4>1, <3>1, Moved
      <4> QED
        BY <4>2, <3>2
    <3>3. CASE ~(p < rows)
      <4>1. Moves(k, {p}, End, TRUE)
        BY <1>2, <3>3, ReadStep
      <4>2. /\ Sane(k, cur'[k], TRUE) /\ cur'[k].rowno \in {p}
            /\ out'[k] \in [want: Answer, got: Answer]
            /\ out'[k].want = End /\ out'[k].got = End
        BY <4>1, <3>1, Moved
      <4> QED
        BY <4>2, <3>3
    <3> QED
      BY <3>2, <3>3
  <2>3. \A k, l \in Kinds : cur[k].rowno = cur[l].rowno
    BY <2>1 DEF IInv, Together
  <2>4. Together'
    <3>1. \A k \in Kinds : cur'[k].rowno = IF cur[k].rowno < rows THEN cur[k].rowno + 1 ELSE cur[k].rowno
      BY <2>2
    <3>2. \A k, l \in Kinds : cur'[k].rowno = cur'[l].rowno
      BY <2>3, <3>1
    <3> QED
      BY <3>2 DEF Together
  <2>5. Answered'
    BY <2>2, <2>3 DEF Answered
  <2>6. SoughtThere' /\ settled' \in BOOLEAN
    BY <1>2, <2>1 DEF SoughtThere, Read, IInv, TypeOK
  <2> QED
    BY <2>1, <2>2, <2>4, <2>5, <2>6, <1>1
<1>3. ASSUME NEW r \in Row, Field(r) PROVE IInv'
  <2>1. /\ rows' = rows
        /\ cur' = [k \in Kinds |-> cur'[k]] /\ out' = [k \in Kinds |-> out'[k]]
    BY <1>3 DEF Field
  <2>2. CASE r < rows
    <3>1. sought' = Nowhere /\ settled' = FALSE /\ r \in Answer
      BY <1>3, <2>2 DEF Field, Answer
    <3>2. ASSUME NEW k \in Kinds
          PROVE  /\ Sane(k, cur'[k], TRUE) /\ out'[k] \in [want: Answer, got: Answer]
                 /\ out'[k].want = r /\ out'[k].got = r
      <4>1. Moves(k, {cur[k].rowno, r, r + 1}, r, TRUE)
        BY <1>3, <2>2, FieldStep
      <4> QED
        BY <4>1, <3>1, Moved
    <3>3. Together' /\ SoughtThere'
      BY <3>1 DEF Together, SoughtThere
    <3>4. Answered'
      BY <3>2 DEF Answered
    <3> QED
      BY <2>1, <3>1, <3>2, <3>3, <3>4, <1>1
  <2>3. CASE ~(r < rows)
    <3>1. /\ sought' = sought /\ settled' = settled /\ Null \in Answer
          /\ (sought = Nowhere) \in BOOLEAN
      BY <1>3, <2>3 DEF Field, Answer
    <3>2. ASSUME NEW k \in Kinds
          PROVE  /\ Sane(k, cur'[k], sought = Nowhere)
                 /\ out'[k] \in [want: Answer, got: Answer]
                 /\ out'[k].want = Null /\ out'[k].got = Null
                 /\ cur'[k].rowno = cur[k].rowno
      <4>1. Moves(k, {cur[k].rowno}, Null, sought = Nowhere)
        BY <1>3, <2>3, FieldStep
      <4> QED
        BY <4>1, <3>1, Moved
    <3>3. Together' /\ SoughtThere'
      BY <2>1, <3>1, <3>2 DEF Together, SoughtThere, IInv
    <3>4. Answered'
      BY <3>2 DEF Answered
    <3>5. settled' \in BOOLEAN /\ sought' \in Row \cup {Nowhere}
      BY <3>1 DEF IInv, TypeOK
    <3> QED
      BY <2>1, <3>1, <3>2, <3>3, <3>4, <3>5, <1>1
  <2> QED
    BY <2>2, <2>3
<1>4. ASSUME NEW r \in Row, Seek(r) PROVE IInv'
  <2>1. /\ rows' = rows /\ sought' = r /\ settled' = TRUE
        /\ cur' = [k \in Kinds |-> cur'[k]] /\ out' = [k \in Kinds |-> out'[k]]
        /\ r < rows /\ r # Nowhere /\ Nothing \in Answer
    BY <1>4 DEF Seek, Row, Nowhere, Answer
  <2>2. ASSUME NEW k \in Kinds
        PROVE  /\ Sane(k, cur'[k], FALSE) /\ out'[k] \in [want: Answer, got: Answer]
               /\ out'[k].want = Nothing /\ out'[k].got = Nothing
               /\ cur'[k].rowno = r
    <3>1. Moves(k, {r}, Nothing, FALSE) /\ Nothing \in Answer
      BY <1>4, PlaceStep DEF Answer
    <3>2. /\ Sane(k, cur'[k], FALSE) /\ cur'[k].rowno \in {r}
          /\ out'[k] \in [want: Answer, got: Answer]
          /\ out'[k].want = Nothing /\ out'[k].got = Nothing
      BY <3>1, Moved
    <3> QED
      BY <3>2
  <2>3. Together' /\ SoughtThere'
    BY <2>1, <2>2 DEF Together, SoughtThere
  <2>4. Answered'
    BY <2>2 DEF Answered
  <2> QED
    BY <2>1, <2>2, <2>3, <2>4, <1>1
<1>5. CASE Rewind
  <2>1. /\ rows' = rows /\ sought' = Nowhere /\ settled' = TRUE
        /\ cur' = [k \in Kinds |-> cur'[k]] /\ out' = [k \in Kinds |-> out'[k]]
        /\ Nothing \in Answer
    BY <1>5 DEF Rewind, Answer
  <2>2. ASSUME NEW k \in Kinds
        PROVE  /\ Sane(k, cur'[k], TRUE) /\ out'[k] \in [want: Answer, got: Answer]
               /\ out'[k].want = Nothing /\ out'[k].got = Nothing
               /\ cur'[k].rowno = 0
    <3>1. Moves(k, {0}, Nothing, TRUE) /\ Nothing \in Answer
      BY <1>5, PlaceStep DEF Answer
    <3>2. /\ Sane(k, cur'[k], TRUE) /\ cur'[k].rowno \in {0}
          /\ out'[k] \in [want: Answer, got: Answer]
          /\ out'[k].want = Nothing /\ out'[k].got = Nothing
      BY <3>1, Moved
    <3> QED
      BY <3>2
  <2>3. Together' /\ SoughtThere'
    BY <2>1, <2>2 DEF Together, SoughtThere
  <2>4. Answered'
    BY <2>2 DEF Answered
  <2> QED
    BY <2>1, <2>2, <2>3, <2>4, <1>1
<1>6. CASE UNCHANGED vars
  BY <1>6 DEF vars, IInv, TypeOK, SoughtThere, Together, Answered, Sane
<1> QED
  BY <1>2, <1>3, <1>4, <1>5, <1>6 DEF Next

(* What the invariant says of the properties that are model-checked.       *)
LEMMA SaneAnswers == IInv => AnswersAsked /\ Agree /\ BufferKnown
<1> SUFFICES ASSUME IInv PROVE AnswersAsked /\ Agree /\ BufferKnown
  OBVIOUS
<1>1. AnswersAsked /\ Agree
  BY DEF IInv, Answered, Together, AnswersAsked, Agree
<1>2. BufferKnown
  <2> SUFFICES ASSUME NEW k \in Kinds \cap Buffered
               PROVE  /\ cur[k].at = IF cur[k].rowno < rows THEN cur[k].rowno ELSE rows
                      /\ sought = Nowhere /\ cur[k].rowno \in 1..rows =>
                           cur[k].buf = cur[k].rowno - 1
    BY DEF BufferKnown
  <2>1. Sane(k, cur[k], sought = Nowhere) /\ rows \in Nat /\ cur[k].rowno \in Nat
    BY DEF IInv, TypeOK, Cursors, Row
  <2> QED
    BY <2>1 DEF Sane
<1> QED
  BY <1>1, <1>2

(* A careful reader of any result gets what it asked for, from whichever   *)
(* class answers, and the MySQL classes never hand out a stale buffer.     *)
THEOREM CarefulReading ==
  ASSUME Careful
  PROVE  Spec => [](TypeOK /\ AnswersAsked /\ Agree /\ BufferKnown)
<1>1. Init => IInv
  BY InitSane
<1>2. IInv /\ [Next]_vars => IInv'
  BY StepSane
<1>3. IInv => TypeOK /\ AnswersAsked /\ Agree /\ BufferKnown
  BY SaneAnswers DEF IInv
<1> QED
  BY <1>1, <1>2, <1>3, PTL DEF Spec

(* The cursors, what they returned and the last seek() are of their types   *)
(* for a careful reader: positions stay natural numbers, however often the  *)
(* result is read past its end (result.cc, binary_result.cc of each driver).*)
THEOREM CursorsTyped ==
  ASSUME Careful
  PROVE  Spec => []TypeOK
  BY CarefulReading, PTL

(* The four classes return the same for the same calls of a careful reader  *)
(* (pg/result.cc:87-193, mysql/result.cc:33-108).                          *)
THEOREM ClassesAgree ==
  ASSUME Careful
  PROVE  Spec => []Agree
  BY CarefulReading, PTL

(* What a MySQL class has in its buffer is the row before the one it is to  *)
(* read next, so no stale row is taken for another (mysql/result.cc:79-108, *)
(* mysql/binary_result.cc:345-392).                                         *)
THEOREM BuffersKnown ==
  ASSUME Careful
  PROVE  Spec => []BufferKnown
  BY CarefulReading, PTL

-----------------------------------------------------------------------------
(* Refinement.  A step as the cursor of Cursor sees it, for class k.       *)
CursorStep(k) ==
  LET p == cur[k].rowno  q == cur'[k].rowno  g == out'[k].got IN
  /\ rows' = rows
  /\ \/ p < rows  /\ g = p   /\ q = p + 1
     \/ p >= rows /\ g = End /\ q = p
     \/ \E r \in Row : /\ g = IF r < rows THEN r ELSE Null
                       /\ q \in IF r < rows THEN {p, r, r + 1} ELSE {p}
     \/ \E r \in Row : /\ q \in IF r < rows THEN {r} ELSE {r, p}
                       /\ g = Nothing
     \/ q = p /\ g = out[k].got

LEMMA StepOfCursor ==
  ASSUME Careful, IInv, [Next]_vars, NEW k \in Kinds PROVE CursorStep(k)
<1> DEFINE p == cur[k].rowno
<1>0. p \in Nat /\ rows \in Nat /\ 0 \in Row
  BY ReaderAssumption DEF IInv, TypeOK, Cursors, Row
<1>1. CASE Read
  <2>1. rows' = rows
    BY <1>1 DEF Read
  <2>2. CASE p < rows
    <3>1. Moves(k, {p + 1}, p, TRUE)
      BY <1>1, <2>2, ReadStep
    <3>2. cur'[k].rowno = p + 1 /\ out'[k].got = p
      BY <3>1 DEF Moves
    <3> QED
      BY <3>2, <2>1, <2>2 DEF CursorStep
  <2>3. CASE ~(p < rows)
    <3>1. Moves(k, {p}, End, TRUE)
      BY <1>1, <2>3, ReadStep
    <3>2. cur'[k].rowno = p /\ out'[k].got = End /\ p >= rows
      BY <3>1, <2>3, <1>0 DEF Moves
    <3> QED
      BY <3>2, <2>1 DEF CursorStep
  <2> QED
    BY <2>2, <2>3
<1>2. ASSUME NEW r \in Row, Field(r) PROVE CursorStep(k)
  <2>1. rows' = rows
    BY <1>2 DEF Field
  <2>2. /\ out'[k].got = IF r < rows THEN r ELSE Null
        /\ cur'[k].rowno \in IF r < rows THEN {p, r, r + 1} ELSE {p}
    <3>1. IF r < rows THEN Moves(k, {p, r, r + 1}, r, TRUE)
                      ELSE Moves(k, {p}, Null, sought = Nowhere)
      BY <1>2, FieldStep
    <3>2. CASE r < rows
      <4>1. Moves(k, {p, r, r + 1}, r, TRUE)
        BY <3>1, <3>2
      <4> QED
        BY <4>1, <3>2 DEF Moves
    <3>3. CASE ~(r < rows)
      <4>1. Moves(k, {p}, Null, sought = Nowhere)
        BY <3>1, <3>3
      <4> QED
        BY <4>1, <3>3 DEF Moves
    <3> QED
      BY <3>2, <3>3
  <2> QED
    BY <2>1, <2>2 DEF CursorStep
<1>3. ASSUME NEW r \in Row, Seek(r) PROVE CursorStep(k)
  <2>1. r < rows /\ Moves(k, {r}, Nothing, FALSE) /\ rows' = rows
    BY <1>3, PlaceStep DEF Seek
  <2>2. cur'[k].rowno \in {r} /\ out'[k].got = Nothing
    BY <2>1 DEF Moves
  <2>3. cur'[k].rowno \in IF r < rows THEN {r} ELSE {r, p}
    BY <2>1, <2>2
  <2> QED
    BY <2>1, <2>2, <2>3 DEF CursorStep
<1>4. CASE Rewind
  <2>1. Moves(k, {0}, Nothing, TRUE) /\ rows' = rows
    BY <1>4, PlaceStep DEF Rewind
  <2>2. cur'[k].rowno \in {0} /\ out'[k].got = Nothing
    BY <2>1 DEF Moves
  <2>3. cur'[k].rowno \in IF 0 < rows THEN {0} ELSE {0, p}
    BY <2>2
  <2> QED
    BY <2>1, <2>2, <2>3, <1>0 DEF CursorStep
<1>5. CASE UNCHANGED vars
  BY <1>5 DEF vars, CursorStep
<1> QED
  BY <1>1, <1>2, <1>3, <1>4, <1>5 DEF Next

LEMMA PgStep ==
  ASSUME "pg" \in Kinds, CursorStep("pg") PROVE [Pg!Next]_(Pg!cvars)
  BY DEF CursorStep, Pg!Next, Pg!Read, Pg!Field, Pg!Seek, Pg!cvars, Row

LEMMA PgStart == "pg" \in Kinds /\ Init => Pg!Init
  BY DEF Init, Pg!Init, Opened, Silent, Row

LEMMA Sqlite3Step ==
  ASSUME "sqlite3" \in Kinds, CursorStep("sqlite3") PROVE [Sqlite3!Next]_(Sqlite3!cvars)
  BY DEF CursorStep, Sqlite3!Next, Sqlite3!Read, Sqlite3!Field, Sqlite3!Seek, Sqlite3!cvars, Row

LEMMA Sqlite3Start == "sqlite3" \in Kinds /\ Init => Sqlite3!Init
  BY DEF Init, Sqlite3!Init, Opened, Silent, Row

LEMMA MySqlStep ==
  ASSUME "mysql" \in Kinds, CursorStep("mysql") PROVE [MySql!Next]_(MySql!cvars)
  BY DEF CursorStep, MySql!Next, MySql!Read, MySql!Field, MySql!Seek, MySql!cvars, Row

LEMMA MySqlStart == "mysql" \in Kinds /\ Init => MySql!Init
  BY DEF Init, MySql!Init, Opened, Silent, Row

LEMMA MySqlBinaryStep ==
  ASSUME "mysql_binary" \in Kinds, CursorStep("mysql_binary") PROVE [MySqlBinary!Next]_(MySqlBinary!cvars)
  BY DEF CursorStep, MySqlBinary!Next, MySqlBinary!Read, MySqlBinary!Field, MySqlBinary!Seek, MySqlBinary!cvars, Row

LEMMA MySqlBinaryStart == "mysql_binary" \in Kinds /\ Init => MySqlBinary!Init
  BY DEF Init, MySqlBinary!Init, Opened, Silent, Row

(* Each of the four classes is the documented cursor to a careful reader.  *)
THEOREM CursorsImplemented ==
  ASSUME Careful, Kinds = Direct \cup Buffered
  PROVE  Spec => ImplementsCursor
<1>0. "pg" \in Kinds /\ "sqlite3" \in Kinds /\ "mysql" \in Kinds /\ "mysql_binary" \in Kinds
  BY DEF Direct, Buffered
<1>1. Init => IInv /\ Pg!Init /\ Sqlite3!Init /\ MySql!Init /\ MySqlBinary!Init
  BY <1>0, InitSane, PgStart, Sqlite3Start, MySqlStart, MySqlBinaryStart
<1>2. IInv /\ [Next]_vars => IInv'
  BY StepSane
<1>3. IInv /\ [Next]_vars => /\ [Pg!Next]_(Pg!cvars)
                             /\ [Sqlite3!Next]_(Sqlite3!cvars)
                             /\ [MySql!Next]_(MySql!cvars)
                             /\ [MySqlBinary!Next]_(MySqlBinary!cvars)
  BY <1>0, StepOfCursor, PgStep, Sqlite3Step, MySqlStep, MySqlBinaryStep
<1> QED
  BY <1>1, <1>2, <1>3, PTL
  DEF Spec, ImplementsCursor, Pg!Spec, Sqlite3!Spec, MySql!Spec, MySqlBinary!Spec

=============================================================================
