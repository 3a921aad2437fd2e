------------------------------ MODULE BinaryRow ------------------------------
(***************************************************************************)
(* How the MySQL driver takes the rows of a prepared statement apart: a      *)
(* bitmap of NULLs, then the fields without their lengths, each as long as   *)
(* its type says.  A reader that is wrong about one field reads all later    *)
(* ones from the wrong place.                                               *)
(*                                                                         *)
(* A value is a tuple: of an integer its number, of a float the decimals it  *)
(* needs and the characters before them, of a string its length, of a time   *)
(* sign, days, hours and fraction, of a date the day, of a datetime day, hour *)
(* and fraction.  What is read from a wrong place, or as another type, is    *)
(* Garbage.  A program that has written behind a buffer is gone.             *)
(***************************************************************************)
EXTENDS Integers, Sequences

CONSTANTS Results,  \* fields, sequences of [type, values], and counts of rows
          Half,     \* of how many numbers fit in 1, 2, 4 and 8 bytes, the half
          Misread   \* lengths that bytes which are no length are taken for

NULL    == <<>>
Garbage == <<0, 0, 0, 0, 0>>

(* NULL_LENGTH is the largest number there is: one more is 0.                 *)
NullLength == -1
Types   == {"TINY", "SHORT", "LONG", "LONGLONG", "INT24", "YEAR", "FLOAT", "DOUBLE",
            "TIME", "DATE", "DATETIME", "STRING"}

(* The row on the wire.                                                     *)
Width(t) ==
  CASE t = "TINY" -> 1 [] t \in {"SHORT", "YEAR"} -> 2
    [] t \in {"LONG", "INT24", "FLOAT"} -> 4 [] OTHER -> 8

Integer == {"TINY", "SHORT", "LONG", "LONGLONG", "INT24", "YEAR"}
Float   == {"FLOAT", "DOUBLE"}

(* What a server can have in a column of a type, signed or unsigned.          *)
Arity(t) ==
  CASE t = "TIME" -> 4 [] t = "DATETIME" -> 3 [] t \in Float -> 2 [] OTHER -> 1

ValueOf(t, v) ==
  /\ v \in Seq(Int) /\ Len(v) = Arity(t)
  /\ IF t \in Integer THEN -Half[Width(t)] <= v[1] /\ v[1] < 2 * Half[Width(t)]
                      ELSE \A i \in 1..Arity(t) : v[i] >= 0

BinaryRowAssumption ==
  /\ Half \in [{1, 2, 4, 8} -> Nat \ {0}] /\ Half[1] = 128
  /\ Misread \subseteq Nat \cup {NullLength}
  /\ Results # {}
  /\ \A r \in Results :
       /\ r.count \in Nat \ {0} /\ DOMAIN r.fields = 1..Len(r.fields) /\ Len(r.fields) \in Nat
       /\ \A c \in DOMAIN r.fields :
            /\ r.fields[c].type \in Types
            /\ \A v \in r.fields[c].values : ValueOf(r.fields[c].type, v)

VARIABLES fields, rows, \* what the server sends
          place,        \* where in the row it has put the field to be read
          rowno, j,     \* the row and column to be read
          nulls, bit, row, \* fetchRow's: byte and bit of the bitmap, place
          pool          \* what was read of each column, and its buffer

vars == <<fields, rows, place, rowno, j, nulls, bit, row, pool>>

Columns == Len(fields)
Rows    == Len(rows)

Power(i) == <<1, 2, 4, 8, 16, 32, 64, 128>>[i + 1]

TypeOK ==
  /\ \E r \in Results : fields = r.fields /\ Rows = r.count
  /\ rowno \in 1..Rows + 1 /\ j \in 1..Columns + 1
  /\ place \in Nat /\ row \in Nat /\ nulls \in Nat /\ bit \in {Power(i) : i \in 0..7}
  /\ \A c \in 1..Columns : pool[c].alloc \in Nat /\ pool[c].used \in Nat

-----------------------------------------------------------------------------
Header(length) ==
  CASE length < 251 -> 1 [] 251 <= length /\ length < 65536 -> 3
    [] 65536 <= length /\ length < 16777216 -> 4 [] OTHER -> 9

TimeLength(v) ==
  IF v[2] = 0 /\ v[3] = 0 /\ v[4] = 0 THEN 0 ELSE IF v[4] = 0 THEN 8 ELSE 12
DateTimeLength(v) ==
  CASE v[3] # 0 -> 11 [] v[3] = 0 /\ v[2] # 0 -> 7 [] OTHER -> IF v[1] # 0 THEN 4 ELSE 0

Size(t, v) ==
  CASE t = "STRING" -> Header(v[1]) + v[1] [] t = "TIME" -> 1 + TimeLength(v)
    [] t = "DATE" -> (IF v[1] = 0 THEN 1 ELSE 5) [] t = "DATETIME" -> 1 + DateTimeLength(v)
    [] OTHER -> Width(t)

BitmapBytes == (Columns + 7 + 2) \div 8

(* A NULL takes no room.                                                    *)
NextPlace ==
  IF rows[rowno][j] = NULL THEN place ELSE place + Size(fields[j].type, rows[rowno][j])

NullBit(r, byte, b) ==
  \E c \in 1..Columns :
    rows[r][c] = NULL /\ byte = (c + 1) \div 8 /\ b = Power((c + 1) % 8)

-----------------------------------------------------------------------------
(* Integers: the bytes of a TINY are read unsigned, of the others signed.     *)
Bytes(n, w)    == IF n < 0 THEN n + 2 * Half[w] ELSE n
Unsigned(n, w) == Bytes(n, w)
Signed(n, w)   == IF Bytes(n, w) < Half[w] THEN Bytes(n, w) ELSE Bytes(n, w) - 2 * Half[w]

(* %f and %lf print six decimals, into 32 and 64 bytes with the end.          *)
Least(m, n) == IF m <= n THEN m ELSE n
Line(t)     == IF t = "FLOAT" THEN 31 ELSE 63
Printed(t, v) ==
  <<IF v[2] < Line(t) THEN Least(Least(v[1], 6), Line(t) - v[2] - 1) ELSE 0, Least(v[2], Line(t))>>

(* net_field_length: by the first byte, how far it moves, and the length.     *)
FirstByte(length) ==
  CASE length < 251 -> length [] 251 <= length /\ length < 65536 -> 252
    [] 65536 <= length /\ length < 16777216 -> 253 [] OTHER -> 254
ShortPrefix(first) == CASE first <= 252 -> 1 [] first = 253 -> 4 [] OTHER -> 9
Prefix(first) == CASE first <= 251 -> 1 [] first = 252 -> 3 [] first = 253 -> 4 [] OTHER -> 9

(* A number is read as a string whose length its first byte is or announces:  *)
(* an announced one reaches into the next field.                            *)
Byte(t, v)     == Bytes(v[1], Width(t)) % 256
Lengths(first) == IF first < 251 THEN {first} ELSE IF first = 251 THEN {NullLength} ELSE Misread

(* What has no function of its own is read as a string.                      *)
Unlisted == {"INT24", "YEAR"}
Sized(t) == t \in Unlisted \cup {"STRING"}

(* read_binary_time and fetch_result_time: days become hours, the sign and    *)
(* the fraction are read and not printed.                                   *)
DaysLost(v)  == <<0, 0, v[3], 0>>
TimeRead(v)  == <<0, 0, v[3] + 24 * v[2], 0>>

(* read_binary_date, read_binary_datetime: what is absent is zero.            *)
DateTimeRead(v) == <<v[1], v[2], 0>>

(* What fetchRow() makes of a field, by the function for its type, and how    *)
(* far it moves.                                                            *)
Read(t, v) ==
  CASE t = "TINY" -> <<Unsigned(v[1], 1)>>
    [] t \in {"SHORT", "LONG", "LONGLONG"} -> <<Signed(v[1], Width(t))>>
    [] t \in Float -> Printed(t, v)
    [] t = "TIME" -> TimeRead(v)
    [] t = "DATETIME" -> DateTimeRead(v)
    [] t \in {"STRING", "DATE"} -> v
    [] OTHER -> Garbage

Moved(t, v) == IF t = "STRING" THEN Prefix(FirstByte(v[1])) + v[1] ELSE Size(t, v)

(* fetch_result_bin makes room for the text and its end.                      *)
RoomForText(p, length) == IF p.alloc < length THEN length ELSE p.alloc
Room(p, length)        == IF p.alloc < length + 1 THEN length + 1 ELSE p.alloc

Filled(p, text, length) ==
  [text  |-> text, alloc |-> Room(p, length),
   used  |-> IF length = NullLength THEN Room(p, length) + 1 ELSE length + 1]

(* Nothing is written behind a buffer.                                       *)
Held == \A c \in 1..Columns : pool[c].used <= pool[c].alloc

-----------------------------------------------------------------------------
RowOf(fs) ==
  {w \in [DOMAIN fs -> UNION {fs[c].values : c \in DOMAIN fs} \cup {NULL}] :
     \A c \in DOMAIN fs : w[c] \in fs[c].values \cup {NULL}}

Init ==
  /\ \E r \in Results : fields = r.fields /\ rows \in [1..r.count -> RowOf(r.fields)]
  /\ rowno = 1 /\ j = 1 /\ place = BitmapBytes
  /\ nulls = 0 /\ bit = 4 /\ row = BitmapBytes
  /\ pool = [c \in 1..Columns |-> [text |-> NULL, alloc |-> 1024, used |-> 0]]

(* The next bit of the bitmap, whose first two are reserved.                 *)
SameByte == bit' = (IF bit = 128 THEN 1 ELSE 2 * bit) /\ UNCHANGED nulls
Shifted  == IF bit = 128 THEN bit' = 1 /\ nulls' = nulls + 1
                         ELSE bit' = 2 * bit /\ UNCHANGED nulls

(* One turn of fetchRow()'s loop: a NULL, a field where it is, a number that   *)
(* is taken for a string, and whatever is there when the place is not right.  *)
ReadNull ==
  /\ rowno <= Rows /\ j <= Columns /\ NullBit(rowno, nulls, bit)
  /\ pool' = [pool EXCEPT ![j].text = NULL]
  /\ UNCHANGED row

ReadField ==
  /\ rowno <= Rows /\ j <= Columns /\ ~NullBit(rowno, nulls, bit) /\ row = place
  /\ LET t == fields[j].type
         v == rows[rowno][j]
     IN  /\ v # NULL /\ t \notin Unlisted
         /\ pool' = [pool EXCEPT ![j] = Filled(@, Read(t, v), IF Sized(t) THEN v[1] ELSE 0)]
         /\ row' = row + Moved(t, v)

ReadAsString ==
  /\ rowno <= Rows /\ j <= Columns /\ ~NullBit(rowno, nulls, bit) /\ row = place
  /\ LET t == fields[j].type
         v == rows[rowno][j]
     IN  /\ v # NULL /\ t \in Unlisted
         /\ \E length \in Lengths(Byte(t, v)) :
              /\ pool' = [pool EXCEPT ![j] = Filled(@, Garbage, length)]
              /\ row' = row + Prefix(Byte(t, v)) + length

ReadAstray ==
  /\ rowno <= Rows /\ j <= Columns /\ ~NullBit(rowno, nulls, bit)
  /\ row # place \/ rows[rowno][j] = NULL
  /\ \E length \in Misread :
       /\ pool' = [pool EXCEPT ![j] = Filled(@, Garbage, IF Sized(fields[j].type) THEN length ELSE 0)]
       /\ row' = row + 1 + length

FetchColumn ==
  /\ Held
  /\ ReadNull \/ ReadField \/ ReadAsString \/ ReadAstray
  /\ Shifted /\ j' = j + 1 /\ place' = NextPlace
  /\ UNCHANGED <<fields, rows, rowno>>

(* read() of the next row.                                                  *)
NextRow ==
  /\ Held /\ rowno <= Rows /\ j = Columns + 1
  /\ rowno' = rowno + 1 /\ j' = 1 /\ place' = BitmapBytes
  /\ nulls' = 0 /\ bit' = 4 /\ row' = BitmapBytes
  /\ UNCHANGED <<fields, rows, pool>>

Next == FetchColumn \/ NextRow

Spec == Init /\ [][Next]_vars

-----------------------------------------------------------------------------
(* A value as a client expects to read it: of a time, hours.                  *)
Text(t, v) ==
  IF t = "TIME" /\ v # NULL THEN <<v[1], 0, v[3] + 24 * v[2], v[4]>> ELSE v

(* Whether a column before c has a type without a function of its own.        *)
Unhandled(c) ==
  \E b \in 1..c - 1 : fields[b].type \in Unlisted /\ rows[rowno][b] # NULL

(* Each field is read from where the server has put it, unless a column       *)
(* before it is one of those (binary_result.cc:249-304).                    *)
InStep == rowno <= Rows /\ ~Unhandled(j) => row = place

(* What the functions print as it is: a TINY that is not negative, an         *)
(* integer that is signed, six decimals, a number that its line holds, a     *)
(* time that is not negative and of whole seconds, as dates are.            *)
Printable(t, v) ==
  CASE t = "TINY" -> v[1] >= 0
    [] t \in {"SHORT", "LONG", "LONGLONG"} -> v[1] < Half[Width(t)]
    [] t \in Float -> v[1] <= 6 /\ v[2] + (IF v[1] = 0 THEN 0 ELSE v[1] + 1) <= Line(t)
    [] t = "TIME" -> v[1] = 0 /\ v[4] = 0
    [] t = "DATETIME" -> v[3] = 0
    [] OTHER -> t \notin Unlisted

(* What was read of such values in a row is what was sent, NULLs included,    *)
(* if no column before has a type without a function                        *)
(* (binary_result.cc:116-192, 240-307).                                     *)
ReadAsSent ==
  rowno <= Rows =>
    \A c \in 1..j - 1 :
      LET v == rows[rowno][c] IN
      ~Unhandled(c) /\ (v # NULL => Printable(fields[c].type, v)) =>
        pool[c].text = Text(fields[c].type, v)

(* Nothing is written behind a buffer, unless in the row that is read a       *)
(* column up to here has a type without a function: its first byte is its   *)
(* length, and 251 is NULL_LENGTH (binary_result.cc:178-192).               *)
BufferHolds == Held \/ (rowno <= Rows /\ Unhandled(j))
=============================================================================
