---------------------------- MODULE ResultCursors ---------------------------
(***************************************************************************)
(* Reading a result.  The facade Result hands each call to one of four     *)
(* classes: PgResult and Sqlite3Result index their rows, MySqlResult and   *)
(* MySqlBinaryResult walk a linked list behind a buffer that holds the row *)
(* fetched last, and take _rowno for the number of the row after it.  The   *)
(* same calls are made on one result of each class here, side by side, so   *)
(* that their answers can be compared.  A row is its number, and a field   *)
(* is the row it belongs to.                                               *)
(*                                                                         *)
(* A careful reader does not call read() straight after read(r, c), which  *)
(* leaves each class at another row; seeks only to rows that exist; and    *)
(* after seek(k) fetches a row before it asks for a field of row k - 1.    *)
(***************************************************************************)
EXTENDS Integers

CONSTANTS Kinds,     \* the classes compared
          MaxRows,   \* bound on the rows of a result
          Careful    \* whether the reader is the careful one

Direct   == {"pg", "sqlite3"}
Buffered == {"mysql", "mysql_binary"}

ASSUME ReaderAssumption ==
  /\ Kinds \subseteq Direct \cup Buffered
  /\ MaxRows \in Nat
  /\ Careful \in BOOLEAN

VARIABLES rows,      \* _rows, the same for each class
          cur,       \* the cursor of each class
          out,       \* for each class, the row asked for last and the answer
          settled,   \* whether every class is at the same row
          sought     \* the row of a seek() no fetch has followed, or Nowhere

vars == <<rows, cur, out, settled, sought>>

Row     == 0..MaxRows
Nowhere == -1

(* Answers that are no row: a call that returns none, the end of the rows, *)
(* a NULL pointer and memory nobody has written.                           *)
Nothing == -1
End     == -2
Null    == -3
Unset   == -4

(* rowno is _rowno; at is the list cursor, equal to rows at the end of the  *)
(* list, and buf the row in _rowdata or pool (Buffered only).              *)
Cursors == [rowno: Row, at: Row, buf: Row \cup {Unset, Null}]
Answer  == Row \cup {Nothing, End, Null, Unset}

TypeOK ==
  /\ rows \in Row
  /\ cur \in [Kinds -> Cursors]
  /\ out \in [Kinds -> [want: Answer, got: Answer]]
  /\ settled \in BOOLEAN
  /\ sought \in Row \cup {Nowhere}

(* Neither MySQL class initialises its row buffer.                         *)
Opened == [rowno |-> 0, at |-> 0, buf |-> Unset]

Silent == [want |-> Nothing, got |-> Nothing]

Init ==
  /\ rows \in Row
  /\ cur = [k \in Kinds |-> Opened]
  /\ out = [k \in Kinds |-> Silent]
  /\ settled = TRUE /\ sought = Nowhere

-----------------------------------------------------------------------------
(* The list walked by the MySQL classes: mysql_fetch_row returns NULL at    *)
(* the end, fetchRow leaves the buffer as it is.                           *)
MySqlFetched(c)  == IF c.at < rows THEN [c EXCEPT !.buf = c.at, !.at = c.at + 1]
                                   ELSE [c EXCEPT !.buf = Null]
BinaryFetched(c) == IF c.at < rows THEN [c EXCEPT !.buf = c.at, !.at = c.at + 1] ELSE c
Fetched(k, c)    == IF k = "mysql" THEN MySqlFetched(c) ELSE BinaryFetched(c)

(* Variants: the binary seek walks on from where it is, rewind() moves the  *)
(* row number only, the test for a buffered row is off by one, and read()  *)
(* does not look for the end.                                              *)
BinarySoughtOn(c, r) ==
  IF r >= rows THEN c
  ELSE [c EXCEPT !.rowno = r, !.at = IF c.at + r < rows THEN c.at + r ELSE rows]
BufferedRewoundInPart(c) == [c EXCEPT !.rowno = 0]
BufferedFieldOffByOne(k, c, r) ==
  IF r >= rows \/ r = c.rowno THEN c
  ELSE [Fetched(k, [c EXCEPT !.rowno = r, !.at = r]) EXCEPT !.rowno = r + 1]
BufferedReadUnguarded(k, c) == [Fetched(k, c) EXCEPT !.rowno = c.rowno + 1]

(* seek(): past the end MySqlResult leaves the list at its end, and         *)
(* MySqlBinaryResult does nothing.                                         *)
DirectSought(c, r) == [c EXCEPT !.rowno = r]
MySqlSought(c, r)  == [c EXCEPT !.rowno = r, !.at = IF r < rows THEN r ELSE rows]
BinarySought(c, r) == IF r >= rows THEN c ELSE [c EXCEPT !.rowno = r, !.at = r]
Sought(k, c, r)    == IF k \in Direct THEN DirectSought(c, r)
                      ELSE IF k = "mysql" THEN MySqlSought(c, r) ELSE BinarySought(c, r)

DirectRewound(c)   == [c EXCEPT !.rowno = 0]
BufferedRewound(c) == [c EXCEPT !.rowno = 0, !.at = 0]
Rewound(k, c)      == IF k \in Direct THEN DirectRewound(c) ELSE BufferedRewound(c)

(* read(row).                                                              *)
DirectRead(c)      == IF c.rowno < rows THEN [c EXCEPT !.rowno = c.rowno + 1] ELSE c
BufferedRead(k, c) == IF c.rowno < rows
                      THEN [Fetched(k, c) EXCEPT !.rowno = c.rowno + 1] ELSE c
AfterRead(k, c)    == IF k \in Direct THEN DirectRead(c) ELSE BufferedRead(k, c)
ReadAnswer(k, c)   == IF c.rowno >= rows THEN End
                      ELSE IF k \in Direct THEN c.rowno ELSE AfterRead(k, c).buf

(* read(r, c).  The MySQL classes answer from the buffer when _rowno says   *)
(* it holds row r, and fetch without a seek when it is the one before.     *)
PgField(c, r)      == IF r < rows THEN [c EXCEPT !.rowno = r] ELSE c
Sqlite3Field(c, r) == c
BufferedField(k, c, r) ==
  LET placed == IF r = 0 THEN BufferedRewound(c)
                ELSE IF r # c.rowno THEN Sought(k, c, r) ELSE c
  IN  IF r >= rows \/ r + 1 = c.rowno THEN c
      ELSE [Fetched(k, placed) EXCEPT !.rowno = r + 1]
AfterField(k, c, r) ==
  IF k = "pg" THEN PgField(c, r)
  ELSE IF k = "sqlite3" THEN Sqlite3Field(c, r) ELSE BufferedField(k, c, r)
FieldAnswer(k, c, r) ==
  IF r >= rows THEN Null
  ELSE IF k \in Direct THEN r ELSE AfterField(k, c, r).buf

-----------------------------------------------------------------------------
Read ==
  /\ Careful => settled
  /\ cur' = [k \in Kinds |-> AfterRead(k, cur[k])]
  /\ out' = [k \in Kinds |->
               [want |-> IF cur[k].rowno < rows THEN cur[k].rowno ELSE End,
                got  |-> ReadAnswer(k, cur[k])]]
  /\ sought' = Nowhere
  /\ UNCHANGED <<rows, settled>>

Field(r) ==
  /\ Careful => r # sought - 1
  /\ cur' = [k \in Kinds |-> AfterField(k, cur[k], r)]
  /\ out' = [k \in Kinds |->
               [want |-> IF r < rows THEN r ELSE Null, got |-> FieldAnswer(k, cur[k], r)]]
  /\ IF r < rows THEN settled' = FALSE /\ sought' = Nowhere
                 ELSE UNCHANGED <<settled, sought>>
  /\ UNCHANGED rows

Seek(r) ==
  /\ Careful => r < rows
  /\ cur' = [k \in Kinds |-> Sought(k, cur[k], r)]
  /\ out' = [k \in Kinds |-> Silent]
  /\ settled' = TRUE /\ sought' = r
  /\ UNCHANGED rows

Rewind ==
  /\ cur' = [k \in Kinds |-> Rewound(k, cur[k])]
  /\ out' = [k \in Kinds |-> Silent]
  /\ settled' = TRUE /\ sought' = Nowhere
  /\ UNCHANGED rows

Next == Read \/ Rewind \/ \E r \in Row : Field(r) \/ Seek(r)

Spec == Init /\ [][Next]_vars

-----------------------------------------------------------------------------
(* read() returns the row tell() announced and read(r, c) a field of row r *)
(* (abstract_result.h: "the current row number in the result set that a    *)
(* subsequent read will return"; "Reads a field at a given position").     *)
AnswersAsked == \A k \in Kinds : out[k].got = out[k].want

(* The four classes cannot be told apart by a careful reader: the same      *)
(* calls get the same answers, and the same tell() where it is defined.    *)
Agree ==
  \A k, l \in Kinds :
    /\ out[k].got = out[l].got
    /\ settled => cur[k].rowno = cur[l].rowno

(* What the MySQL classes conclude from _rowno: the list stands at that     *)
(* row, and the buffer holds the one before unless a seek() has moved on.  *)
BufferKnown ==
  \A k \in Kinds \cap Buffered :
    /\ cur[k].at = IF cur[k].rowno < rows THEN cur[k].rowno ELSE rows
    /\ sought = Nowhere /\ cur[k].rowno \in 1..rows => cur[k].buf = cur[k].rowno - 1

-----------------------------------------------------------------------------
(* Each class behaves as the documented cursor does.                       *)
Pg          == INSTANCE Cursor WITH pos <- cur["pg"].rowno,           got <- out["pg"].got
Sqlite3     == INSTANCE Cursor WITH pos <- cur["sqlite3"].rowno,      got <- out["sqlite3"].got
MySql       == INSTANCE Cursor WITH pos <- cur["mysql"].rowno,        got <- out["mysql"].got
MySqlBinary == INSTANCE Cursor WITH pos <- cur["mysql_binary"].rowno, got <- out["mysql_binary"].got

ImplementsCursor == Pg!Spec /\ Sqlite3!Spec /\ MySql!Spec /\ MySqlBinary!Spec
=============================================================================
