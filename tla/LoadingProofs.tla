---------------------------- MODULE LoadingProofs ---------------------------
(***************************************************************************)
(* That StringIO never copies past its block and is a queue of bytes, for    *)
(* every length of writes, chunks and formats; and what write() has made of  *)
(* a table when it throws or returns, for any keys, any number of rows and   *)
(* any kinds of client.                                                    *)
(***************************************************************************)
EXTENDS MCLoading, SequenceTheorems, WellFoundedInduction, FiniteSetTheorems, TLAPS

(***************************************************************************)
(* StringIO.  What is left to read begins behind rpos; a client that ends    *)
(* its lines keeps rpos inside the data.                                   *)
(***************************************************************************)

IInv ==
  /\ TypeOK /\ WithinAlloc
  /\ ended => rpos <= wpos

-----------------------------------------------------------------------------
(* Of bytes from r on, r of which have been read.                            *)
Left(s, r) == SubSeq(s, r + 1, Len(s))

LEMMA LeftIs ==
  ASSUME NEW s \in Seq(Bytes), NEW r \in 0..Len(s)
  PROVE  /\ Left(s, r) \in Seq(Bytes) /\ Len(Left(s, r)) = Len(s) - r
         /\ \A i \in 1..(Len(s) - r) : Left(s, r)[i] = s[r + i]
<1>1. Len(s) \in Nat /\ r \in Nat /\ r <= Len(s) /\ r + 1 \in Int /\ Len(s) \in Int
  BY LenProperties
<1>2. \A i \in (r + 1)..Len(s) : s[i] \in Bytes
  BY <1>1, ElementOfSeq
<1>3. /\ SubSeq(s, r + 1, Len(s)) \in Seq(Bytes)
      /\ Len(SubSeq(s, r + 1, Len(s))) = IF r + 1 <= Len(s) THEN Len(s) - (r + 1) + 1 ELSE 0
      /\ \A i \in 1..(Len(s) - (r + 1) + 1) : SubSeq(s, r + 1, Len(s))[i] = s[r + 1 + i - 1]
  BY <1>1, <1>2, SubSeqProperties
<1>4. \A i \in 1..(Len(s) - r) : i \in 1..(Len(s) - (r + 1) + 1) /\ r + 1 + i - 1 = r + i
  BY <1>1
<1> QED BY <1>1, <1>3, <1>4 DEF Left

(* Of the first n bytes of what is left.                                     *)
LEMMA FrontIs ==
  ASSUME NEW s \in Seq(Bytes), NEW m \in Nat, NEW n \in Nat, m + n <= Len(s)
  PROVE  /\ SubSeq(s, m + 1, m + n) \in Seq(Bytes) /\ Len(SubSeq(s, m + 1, m + n)) = n
         /\ \A i \in 1..n : SubSeq(s, m + 1, m + n)[i] = s[m + i]
<1>1. Len(s) \in Nat /\ m + 1 \in Int /\ m + n \in Int
  BY LenProperties
<1>2. \A i \in (m + 1)..(m + n) : s[i] \in Bytes
  BY <1>1, ElementOfSeq
<1>3. /\ SubSeq(s, m + 1, m + n) \in Seq(Bytes)
      /\ Len(SubSeq(s, m + 1, m + n)) = IF m + 1 <= m + n THEN m + n - (m + 1) + 1 ELSE 0
      /\ \A i \in 1..(m + n - (m + 1) + 1) : SubSeq(s, m + 1, m + n)[i] = s[m + 1 + i - 1]
  BY <1>1, <1>2, SubSeqProperties
<1>4. \A i \in 1..n : i \in 1..(m + n - (m + 1) + 1) /\ m + 1 + i - 1 = m + i
  BY <1>1
<1> QED BY <1>1, <1>3, <1>4

(* Appending to the data appends to what is left.                            *)
LEMMA LeftOfConcat ==
  ASSUME NEW s \in Seq(Bytes), NEW v \in Seq(Bytes), NEW r \in 0..Len(s)
  PROVE  Left(s \o v, r) = Left(s, r) \o v
<1>1. Len(s) \in Nat /\ Len(v) \in Nat
  BY LenProperties
<1>2. /\ s \o v \in Seq(Bytes) /\ Len(s \o v) = Len(s) + Len(v)
      /\ \A i \in 1..(Len(s) + Len(v)) : (s \o v)[i] = IF i <= Len(s) THEN s[i] ELSE v[i - Len(s)]
  BY ConcatProperties
<1>3. r \in 0..Len(s \o v)
  BY <1>1, <1>2
<1>4. /\ Left(s, r) \in Seq(Bytes) /\ Len(Left(s, r)) = Len(s) - r
      /\ \A i \in 1..(Len(s) - r) : Left(s, r)[i] = s[r + i]
  BY LeftIs
<1>5. /\ Left(s \o v, r) \in Seq(Bytes) /\ Len(Left(s \o v, r)) = Len(s \o v) - r
      /\ \A i \in 1..(Len(s \o v) - r) : Left(s \o v, r)[i] = (s \o v)[r + i]
  BY <1>2, <1>3, LeftIs
<1>6. /\ Left(s, r) \o v \in Seq(Bytes) /\ Len(Left(s, r) \o v) = Len(Left(s, r)) + Len(v)
      /\ \A i \in 1..(Len(Left(s, r)) + Len(v)) :
           (Left(s, r) \o v)[i] = IF i <= Len(Left(s, r)) THEN Left(s, r)[i]
                                                          ELSE v[i - Len(Left(s, r))]
  BY <1>4, ConcatProperties
<1>7. Len(Left(s \o v, r)) = Len(Left(s, r) \o v)
  BY <1>1, <1>2, <1>4, <1>5, <1>6
<1>8. ASSUME NEW i \in 1..Len(Left(s \o v, r))
      PROVE  Left(s \o v, r)[i] = (Left(s, r) \o v)[i]
  <2>1. i \in 1..(Len(s) + Len(v) - r) /\ r + i \in 1..(Len(s) + Len(v)) /\ i \in Nat /\ r \in Nat
    BY <1>1, <1>2, <1>5
  <2>2. Left(s \o v, r)[i] = (s \o v)[r + i]
    BY <1>2, <1>5, <2>1
  <2>3. CASE r + i <= Len(s)
    <3>1. i \in 1..(Len(s) - r)
      BY <1>1, <2>1, <2>3
    <3>2. (s \o v)[r + i] = s[r + i]
      BY <1>2, <2>1, <2>3
    <3>3. (Left(s, r) \o v)[i] = Left(s, r)[i]
      BY <1>1, <1>4, <1>6, <2>1, <3>1
    <3> QED BY <1>4, <2>2, <3>1, <3>2, <3>3
  <2>4. CASE ~(r + i <= Len(s))
    <3>1. (s \o v)[r + i] = v[r + i - Len(s)]
      BY <1>2, <2>1, <2>4
    <3>2. (Left(s, r) \o v)[i] = v[i - (Len(s) - r)]
      <4>1. i \in 1..(Len(Left(s, r)) + Len(v)) /\ ~(i <= Len(Left(s, r)))
        BY <1>1, <1>4, <2>1, <2>4
      <4>2. (Left(s, r) \o v)[i] = v[i - Len(Left(s, r))]
        BY <1>6, <4>1
      <4> QED BY <1>4, <4>2
    <3>3. i - (Len(s) - r) = r + i - Len(s)
      BY <1>1, <2>1
    <3> QED BY <2>2, <3>1, <3>2, <3>3
  <2> QED BY <2>3, <2>4
<1> QED BY <1>5, <1>6, <1>7, <1>8, SeqEqual

(* Taking n bytes off what is left reads them and leaves the rest.           *)
LEMMA LeftSplits ==
  ASSUME NEW s \in Seq(Bytes), NEW r \in 0..Len(s), NEW n \in 0..(Len(s) - r)
  PROVE  /\ SubSeq(Left(s, r), 1, n) = SubSeq(s, r + 1, r + n)
         /\ SubSeq(Left(s, r), n + 1, Len(Left(s, r))) = Left(s, r + n)
<1>1. Len(s) \in Nat /\ r \in Nat /\ n \in Nat /\ r + n <= Len(s) /\ 0 \in Nat /\ 0 + n = n
      /\ 0 + 1 = 1
  BY LenProperties
<1>2. /\ Left(s, r) \in Seq(Bytes) /\ Len(Left(s, r)) = Len(s) - r
      /\ \A i \in 1..(Len(s) - r) : Left(s, r)[i] = s[r + i]
  BY LeftIs
<1>3. SubSeq(Left(s, r), 1, n) = SubSeq(s, r + 1, r + n)
  <2>1. /\ SubSeq(s, r + 1, r + n) \in Seq(Bytes) /\ Len(SubSeq(s, r + 1, r + n)) = n
        /\ \A i \in 1..n : SubSeq(s, r + 1, r + n)[i] = s[r + i]
    BY <1>1, FrontIs
  <2>2. 0 + n <= Len(Left(s, r))
    BY <1>1, <1>2
  <2>3. /\ SubSeq(Left(s, r), 0 + 1, 0 + n) \in Seq(Bytes)
        /\ Len(SubSeq(Left(s, r), 0 + 1, 0 + n)) = n
        /\ \A i \in 1..n : SubSeq(Left(s, r), 0 + 1, 0 + n)[i] = Left(s, r)[0 + i]
    BY <1>1, <1>2, <2>2, FrontIs
  <2>4. \A i \in 1..n : i \in 1..(Len(s) - r) /\ 0 + i = i
    BY <1>1
  <2>5. \A i \in 1..n : SubSeq(Left(s, r), 1, n)[i] = SubSeq(s, r + 1, r + n)[i]
    BY <1>1, <1>2, <2>1, <2>3, <2>4
  <2> QED BY <1>1, <2>1, <2>3, <2>5, SeqEqual
<1>4. SubSeq(Left(s, r), n + 1, Len(Left(s, r))) = Left(s, r + n)
  <2>1. n \in 0..Len(Left(s, r)) /\ r + n \in 0..Len(s)
    BY <1>1, <1>2
  <2>2. /\ Left(Left(s, r), n) \in Seq(Bytes)
        /\ Len(Left(Left(s, r), n)) = Len(Left(s, r)) - n
        /\ \A i \in 1..(Len(Left(s, r)) - n) : Left(Left(s, r), n)[i] = Left(s, r)[n + i]
    BY <1>2, <2>1, LeftIs
  <2>3. /\ Left(s, r + n) \in Seq(Bytes) /\ Len(Left(s, r + n)) = Len(s) - (r + n)
        /\ \A i \in 1..(Len(s) - (r + n)) : Left(s, r + n)[i] = s[r + n + i]
    BY <2>1, LeftIs
  <2>4. Len(Left(s, r)) - n = Len(s) - (r + n)
    BY <1>1, <1>2
  <2>5. \A i \in 1..(Len(s) - (r + n)) : n + i \in 1..(Len(s) - r) /\ r + (n + i) = r + n + i
    BY <1>1
  <2>6. \A i \in 1..(Len(s) - (r + n)) : Left(Left(s, r), n)[i] = Left(s, r + n)[i]
    BY <1>2, <2>2, <2>3, <2>4, <2>5
  <2>7. Left(Left(s, r), n) = Left(s, r + n)
    BY <2>2, <2>3, <2>4, <2>6, SeqEqual
  <2> QED BY <2>7 DEF Left
<1> QED BY <1>3, <1>4

(* Every nonempty set of numbers has a smallest.                             *)
LEMMA Smallest ==
  ASSUME NEW T, T \subseteq Nat, T # {}
  PROVE  \E x \in T : \A y \in T : x <= y
<1> DEFINE R == {xy \in Nat \X Nat : xy[1] < xy[2]}
<1>1. IsWellFoundedOn(R, Nat)
  BY NatLessThanWellFounded DEF OpToRel
<1>2. \A x, y \in Nat : x < y => <<x, y>> \in R
  OBVIOUS
<1> HIDE DEF R
<1>3. PICK x \in T : \A y \in T : ~(<<y, x>> \in R)
  BY <1>1, WFMin, Zenon
<1>4. \A y \in T : y \in Nat /\ x \in Nat /\ ~(y < x)
  BY <1>2, <1>3
<1> QED BY <1>4

-----------------------------------------------------------------------------
(* What the invariant says of the offsets, and of what is left.              *)
LEMMA Offsets ==
  ASSUME IInv
  PROVE  /\ data \in Seq(Bytes) /\ wpos = Len(data) /\ wpos \in Nat /\ rpos \in Nat /\ alloc \in Nat
         /\ wpos <= alloc /\ rpos <= wpos + 1 /\ (ended => rpos <= wpos)
  BY LenProperties DEF IInv, TypeOK, WithinAlloc

LEMMA InputsAreBytes ==
  ASSUME StringIOAssumption, NEW v \in Inputs
  PROVE  v \in Seq(Byte) /\ v \in Seq(Bytes) /\ Len(v) \in Nat
<1>1. PICK n \in 1..MaxWrite : v \in [1..n -> Byte]
  BY DEF Inputs
<1>2. n \in Nat
  BY DEF StringIOAssumption
<1>3. v \in Seq(Byte)
  BY <1>1, <1>2, SeqDef
<1>4. v \in Seq(Bytes)
  BY <1>3, SeqMonotonic DEF Bytes
<1> QED
  BY <1>3, <1>4, LenProperties

LEMMA FormattedAreBytes ==
  ASSUME StringIOAssumption, NEW v \in Inputs
  PROVE  /\ Formatted(v) \in Seq(Bytes) /\ Len(Formatted(v)) = Len(v)
         /\ Len(v) <= Stored => Formatted(v) = v
<1>1. v \in Seq(Byte) /\ v \in Seq(Bytes) /\ Len(v) \in Nat
  BY InputsAreBytes
<1>2. \A i \in 1..Len(v) : v[i] \in Byte
  BY <1>1, ElementOfSeq
<1>3. Formatted(v) \in [1..Len(v) -> Bytes]
  BY <1>2 DEF Formatted, Bytes
<1>4. Formatted(v) \in Seq(Bytes)
  BY <1>1, <1>3, SeqDef
<1>5. Len(Formatted(v)) = Len(v)
  <2>1. DOMAIN Formatted(v) = 1..Len(v)
    BY <1>3
  <2>2. Len(Formatted(v)) \in Nat /\ DOMAIN Formatted(v) = 1..Len(Formatted(v))
    BY <1>4, LenProperties
  <2> QED BY <1>1, <2>1, <2>2
<1>6. ASSUME Len(v) <= Stored
      PROVE  Formatted(v) = v
  <2>1. \A i \in 1..Len(Formatted(v)) : Formatted(v)[i] = v[i]
    BY <1>1, <1>5, <1>6 DEF Formatted, StringIOAssumption
  <2> QED BY <1>1, <1>4, <1>5, <2>1, SeqEqual
<1> QED BY <1>4, <1>5, <1>6

(* The end of a line is where the next newline stands, or the end of the     *)
(* data; behind it the queue's line is as long as the buffer's.              *)
LEMMA LineEnds ==
  ASSUME IInv, rpos < wpos
  PROVE  /\ LineEnd \in rpos..wpos
         /\ data[wpos] = Newline => LineEnd < wpos
         /\ Queue!LineLength(Left(data, rpos)) = LineEnd - rpos
<1> DEFINE q == Left(data, rpos)
           First(p) == data[p + 1] = Newline /\ \A o \in rpos..(p - 1) : data[o + 1] # Newline
           FirstOf(i) == q[i] = Newline /\ \A j \in 1..(i - 1) : q[j] # Newline
<1>1. data \in Seq(Bytes) /\ wpos = Len(data) /\ wpos \in Nat /\ rpos \in Nat
      /\ rpos \in 0..Len(data)
  BY Offsets
<1>2. Len(q) = wpos - rpos /\ \A i \in 1..(wpos - rpos) : q[i] = data[rpos + i]
  BY <1>1, LeftIs
<1> HIDE DEF q
<1>3. CASE \E p \in rpos..(wpos - 1) : data[p + 1] = Newline
  <2>1. \E p \in rpos..(wpos - 1) : First(p)
    <3> DEFINE T == {p \in rpos..(wpos - 1) : data[p + 1] = Newline}
    <3>1. T \subseteq Nat /\ T # {}
      <4>1. T \subseteq Nat
        BY <1>1
      <4>2. T # {}
        BY <1>3
      <4> QED BY <4>1, <4>2
    <3> HIDE DEF T
    <3>2. PICK p \in T : \A o \in T : p <= o
      BY <3>1, Smallest
    <3>3. p \in rpos..(wpos - 1) /\ data[p + 1] = Newline
      BY <3>2 DEF T
    <3>4. \A o \in rpos..(p - 1) : data[o + 1] # Newline
      BY <1>1, <3>2, <3>3 DEF T
    <3> QED BY <3>3, <3>4
  <2>2. LineEnd = CHOOSE p \in rpos..(wpos - 1) : First(p)
    BY <1>3 DEF LineEnd
  <2> HIDE DEF First
  <2>3. LineEnd \in rpos..(wpos - 1) /\ First(LineEnd)
    BY <2>1, <2>2
  <2> USE DEF First
  <2>4. LineEnd - rpos + 1 \in 1..Len(q) /\ rpos + (LineEnd - rpos + 1) = LineEnd + 1
    BY <1>1, <1>2, <2>3
  <2>5. FirstOf(LineEnd - rpos + 1)
    <3>1. q[LineEnd - rpos + 1] = Newline
      BY <1>2, <2>3, <2>4
    <3>2. ASSUME NEW j \in 1..(LineEnd - rpos)
          PROVE  q[j] # Newline
      <4>1. rpos + j - 1 \in rpos..(LineEnd - 1) /\ j \in 1..(wpos - rpos)
            /\ (rpos + j - 1) + 1 = rpos + j
        BY <1>1, <2>3
      <4>2. data[(rpos + j - 1) + 1] # Newline
        BY <2>3, <4>1
      <4> QED BY <1>2, <4>1, <4>2
    <3>3. (LineEnd - rpos + 1) - 1 = LineEnd - rpos
      BY <1>1, <2>3
    <3> QED BY <3>1, <3>2, <3>3
  <2>6. ASSUME NEW i \in 1..Len(q), FirstOf(i)
        PROVE  i = LineEnd - rpos + 1
    BY <1>1, <1>2, <2>3, <2>4, <2>5, <2>6
  <2>7. \E i \in 1..Len(q) : q[i] = Newline
    BY <2>4, <2>5
  <2> DEFINE c == CHOOSE i \in 1..Len(q) : FirstOf(i)
  <2>8. Queue!LineLength(q) = c - 1
    BY <2>7 DEF Queue!LineLength
  <2> HIDE DEF FirstOf
  <2>9. c \in 1..Len(q) /\ FirstOf(c)
    BY <2>4, <2>5, Zenon
  <2> HIDE DEF c
  <2>10. Queue!LineLength(q) = LineEnd - rpos
    BY <1>1, <2>3, <2>6, <2>8, <2>9
  <2> QED BY <1>1, <2>3, <2>10 DEF q
<1>4. CASE ~ \E p \in rpos..(wpos - 1) : data[p + 1] = Newline
  <2>1. LineEnd = wpos
    BY <1>4 DEF LineEnd
  <2>2. wpos - 1 \in rpos..(wpos - 1) /\ (wpos - 1) + 1 = wpos
    BY <1>1
  <2>3. data[wpos] # Newline
    BY <1>4, <2>2
  <2>4. ~ \E i \in 1..Len(q) : q[i] = Newline
    <3> SUFFICES ASSUME NEW i \in 1..Len(q)
                 PROVE  q[i] # Newline
      OBVIOUS
    <3>1. rpos + i - 1 \in rpos..(wpos - 1) /\ (rpos + i - 1) + 1 = rpos + i
          /\ i \in 1..(wpos - rpos)
      BY <1>1, <1>2
    <3>2. data[(rpos + i - 1) + 1] # Newline
      BY <1>4, <3>1
    <3> QED BY <1>2, <3>1, <3>2
  <2>5. Queue!LineLength(q) = Len(q)
    BY <2>4 DEF Queue!LineLength
  <2> QED BY <1>1, <1>2, <2>1, <2>3, <2>5 DEF q
<1> QED
  BY <1>3, <1>4

-----------------------------------------------------------------------------
(* The invariant.                                                            *)
LEMMA InvHoldsAtFirst ==
  ASSUME StringIOAssumption, Init
  PROVE  IInv /\ Queue!Init
<1>1. rpos = 0 /\ Alloc0 \in Nat /\ ended \in BOOLEAN /\ short \in BOOLEAN /\ last = Call("new", <<>>)
  BY DEF Init, StringIOAssumption
<1>2. PICK v \in Inputs \cup {<<>>} :
        /\ data = v /\ wpos = Len(v)
        /\ (v = <<>> /\ alloc = Alloc0) \/ alloc = Len(v) * 2 + 1
  BY EmptySeq DEF Init, InitEmpty, InitGiven
<1>3. v \in Seq(Bytes) /\ Len(v) \in Nat /\ Len(<<>>) = 0
  BY InputsAreBytes, EmptySeq
<1>4. IInv
  BY <1>1, <1>2, <1>3 DEF IInv, TypeOK, WithinAlloc
<1>5. SubSeq(data, rpos + 1, wpos) = v
  BY <1>1, <1>2, <1>3, SubSeqFull
<1> QED BY <1>1, <1>2, <1>4, <1>5 DEF Queue!Init, Queue!Call, Call, Queue!Inputs, Inputs

(* write() and writef().                                                     *)
LEMMA AppendedKeepsInv ==
  ASSUME IInv, NEW v \in Seq(Bytes), Appended(v), rpos' = rpos, ended' = ended, short' = short
  PROVE  /\ IInv'
         /\ ended => SubSeq(data', rpos' + 1, wpos') = SubSeq(data, rpos + 1, wpos) \o v
<1>1. /\ data \in Seq(Bytes) /\ wpos = Len(data) /\ wpos \in Nat /\ rpos \in Nat /\ alloc \in Nat
      /\ wpos <= alloc /\ rpos <= wpos + 1 /\ (ended => rpos <= wpos)
  BY Offsets
<1>2. Len(v) \in Nat
  BY LenProperties
<1>3. data' = data \o v /\ data' \in Seq(Bytes) /\ wpos' = Len(data') /\ wpos' = wpos + Len(v)
  BY <1>1, ConcatProperties DEF Appended
<1>4. alloc' \in Nat /\ wpos' <= alloc'
  BY <1>1, <1>2 DEF Appended, Grown
<1>5. IInv'
  BY <1>1, <1>2, <1>3, <1>4 DEF IInv, TypeOK, WithinAlloc
<1>6. ASSUME ended
      PROVE  Left(data \o v, rpos) = Left(data, rpos) \o v
  BY <1>1, <1>6, LeftOfConcat
<1> QED BY <1>1, <1>3, <1>5, <1>6 DEF Left

(* read().                                                                   *)
LEMMA ReadKeepsInv ==
  ASSUME IInv, NEW size \in Nat, Read(size)
  PROVE  IInv' /\ (ended => Queue!Next)
<1>1. /\ data \in Seq(Bytes) /\ wpos = Len(data) /\ wpos \in Nat /\ rpos \in Nat /\ alloc \in Nat
      /\ wpos <= alloc /\ rpos <= wpos + 1 /\ (ended => rpos <= wpos)
  BY Offsets
<1>2. data' = data /\ wpos' = wpos /\ alloc' = alloc /\ ended' = ended /\ short' = short
  BY DEF Read, made
<1> DEFINE n == IF rpos < wpos THEN Bounded(size) ELSE 0
<1>3. n \in Nat /\ (rpos <= wpos => rpos + n <= wpos) /\ rpos' = rpos + n
  BY <1>1 DEF Read, Bounded
<1>4. IInv'
  BY <1>1, <1>2, <1>3 DEF IInv, TypeOK, WithinAlloc
<1>5. last' = Call("read", SubSeq(data, rpos + 1, rpos + n))
  <2>1. CASE rpos < wpos
    BY <2>1 DEF Read
  <2>2. CASE ~(rpos < wpos)
    <3>1. SubSeq(data, rpos + 1, rpos + 0) = <<>>
      BY <1>1, SubSeqEmpty
    <3> QED BY <2>2, <3>1 DEF Read
  <2> QED BY <2>1, <2>2
<1> HIDE DEF n
<1>6. ASSUME ended
      PROVE  Queue!Next
  <2>1. rpos \in 0..Len(data) /\ n \in 0..(Len(data) - rpos)
    BY <1>1, <1>3, <1>6
  <2>2. /\ SubSeq(Left(data, rpos), 1, n) = SubSeq(data, rpos + 1, rpos + n)
        /\ SubSeq(Left(data, rpos), n + 1, Len(Left(data, rpos))) = Left(data, rpos + n)
        /\ Len(Left(data, rpos)) = Len(data) - rpos
    BY <1>1, <2>1, LeftSplits, LeftIs
  <2>3. Queue!Read(n)
    BY <1>1, <1>2, <1>3, <1>5, <2>2
       DEF Queue!Read, Queue!FirstN, Queue!AfterN, Queue!Call, Call, Left
  <2>4. n \in 0..Len(SubSeq(data, rpos + 1, wpos))
    BY <1>1, <2>1, <2>2 DEF Left
  <2> QED BY <2>3, <2>4 DEF Queue!Next
<1> QED BY <1>4, <1>6

LEMMA ReadLineKeepsInv ==
  ASSUME IInv, ReadLine
  PROVE  IInv' /\ (ended => Queue!Next)
<1>1. /\ data \in Seq(Bytes) /\ wpos = Len(data) /\ wpos \in Nat /\ rpos \in Nat /\ alloc \in Nat
      /\ wpos <= alloc /\ rpos <= wpos + 1 /\ (ended => rpos <= wpos)
  BY Offsets
<1>2. data' = data /\ wpos' = wpos /\ alloc' = alloc /\ ended' = ended /\ short' = short
  BY DEF ReadLine, made
<1>3. CASE rpos < wpos
  <2>1. /\ LineEnd \in rpos..wpos
        /\ data[wpos] = Newline => LineEnd < wpos
        /\ Queue!LineLength(Left(data, rpos)) = LineEnd - rpos
    BY <1>3, LineEnds
  <2>2. /\ last' = Call("line", SubSeq(data, rpos + 1, LineEnd)) /\ rpos' = LineEnd + 1
        /\ ended => LineEnd < wpos
    BY <1>3, <2>1 DEF ReadLine, BehindLine
  <2>3. IInv'
    BY <1>1, <1>2, <2>1, <2>2 DEF IInv, TypeOK, WithinAlloc
  <2>4. ASSUME ended
        PROVE  Queue!Next
    <3> DEFINE n == LineEnd - rpos
    <3>1. /\ rpos \in 0..Len(data) /\ n \in Nat /\ n \in 0..(Len(data) - rpos)
          /\ n + 1 \in 0..(Len(data) - rpos) /\ rpos + n = LineEnd /\ rpos + (n + 1) = rpos'
      BY <1>1, <1>3, <2>1, <2>2, <2>4
    <3> HIDE DEF n
    <3>2. SubSeq(Left(data, rpos), 1, n) = SubSeq(data, rpos + 1, rpos + n)
      BY <1>1, <3>1, LeftSplits
    <3>3. SubSeq(Left(data, rpos), (n + 1) + 1, Len(Left(data, rpos))) = Left(data, rpos + (n + 1))
      BY <1>1, <3>1, LeftSplits
    <3>4. Len(Left(data, rpos)) = Len(data) - rpos
      BY <1>1, <3>1, LeftIs
    <3>5. Left(data, rpos) # <<>>
      BY <1>1, <1>3, <3>4, EmptySeq
    <3>6. Queue!Shorter(n + 1, Len(Left(data, rpos))) = n + 1
      BY <1>1, <3>1, <3>4 DEF Queue!Shorter
    <3>7. Queue!LineLength(Left(data, rpos)) = n
      BY <2>1 DEF n
    <3>8. last' = Call("line", SubSeq(Left(data, rpos), 1, n))
      BY <2>2, <3>1, <3>2
    <3>9. SubSeq(data', rpos' + 1, wpos')
            = SubSeq(Left(data, rpos), (n + 1) + 1, Len(Left(data, rpos)))
      BY <1>1, <1>2, <3>1, <3>3 DEF Left
    <3>10. SubSeq(data, rpos + 1, wpos) = Left(data, rpos)
      BY <1>1 DEF Left
    <3> HIDE DEF Left
    <3>11. Queue!ReadLine
      BY <3>5, <3>6, <3>7, <3>8, <3>9, <3>10
         DEF Queue!ReadLine, Queue!FirstN, Queue!AfterN, Queue!Call, Call
    <3> QED BY <3>11 DEF Queue!Next
  <2> QED BY <2>3, <2>4
<1>4. CASE ~(rpos < wpos)
  <2>1. last' = Call("no line", <<>>) /\ rpos' = rpos
    BY <1>4 DEF ReadLine
  <2>2. IInv'
    BY <1>1, <1>2, <2>1 DEF IInv, TypeOK, WithinAlloc
  <2>3. SubSeq(data, rpos + 1, wpos) = <<>>
    BY <1>1, <1>4, SubSeqEmpty
  <2>4. Queue!ReadLine
    BY <1>2, <2>1, <2>3 DEF Queue!ReadLine, Queue!Call, Call
  <2> QED BY <2>2, <2>4 DEF Queue!Next
<1> QED BY <1>3, <1>4

LEMMA TruncateKeepsInv ==
  ASSUME IInv, Truncate
  PROVE  IInv' /\ Queue!Next
<1>1. data' = <<>> /\ wpos' = 0 /\ rpos' = 0 /\ last' = Call("truncate", <<>>)
      /\ alloc' = alloc /\ ended' = ended /\ short' = short
  BY DEF Truncate, made
<1>2. alloc \in Nat /\ data' \in Seq(Bytes) /\ Len(data') = 0
  BY <1>1, Offsets, EmptySeq
<1>3. IInv'
  BY <1>1, <1>2 DEF IInv, TypeOK, WithinAlloc
<1>4. SubSeq(data', rpos' + 1, wpos') = <<>>
  BY <1>1, SubSeqEmpty
<1>5. Queue!Truncate
  BY <1>1, <1>4 DEF Queue!Truncate, Queue!Call, Call
<1> QED BY <1>3, <1>5 DEF Queue!Next

(* Every step keeps the invariant, and with a client that ends its lines and *)
(* keeps its formats short is a step of the queue.                           *)
LEMMA StepIsQueueStep ==
  ASSUME StringIOAssumption, IInv, Next
  PROVE  IInv' /\ (ended /\ short => Queue!Next)
<1>1. ASSUME NEW v \in Inputs, Write(v)
      PROVE  IInv' /\ (ended /\ short => Queue!Next)
  <2>1. v \in Seq(Bytes)
    BY InputsAreBytes
  <2>2. /\ Appended(v) /\ rpos' = rpos /\ ended' = ended /\ short' = short
        /\ last' = Call("write", v)
    BY <1>1 DEF Write, made
  <2>3. IInv' /\ (ended => SubSeq(data', rpos' + 1, wpos') = SubSeq(data, rpos + 1, wpos) \o v)
    BY <2>1, <2>2, AppendedKeepsInv
  <2>4. ended => Queue!Write(v)
    BY <2>2, <2>3 DEF Queue!Write, Queue!Call, Call
  <2> QED BY <2>3, <2>4 DEF Queue!Next, Queue!Inputs, Inputs
<1>2. ASSUME NEW v \in Inputs, Writef(v)
      PROVE  IInv' /\ (ended /\ short => Queue!Next)
  <2>1. Formatted(v) \in Seq(Bytes) /\ (Len(v) <= Stored => Formatted(v) = v)
    BY FormattedAreBytes
  <2>2. /\ Appended(Formatted(v)) /\ rpos' = rpos /\ ended' = ended /\ short' = short
        /\ last' = Call("write", v) /\ (short => Len(v) <= Stored)
    BY <1>2 DEF Writef, made
  <2>3. IInv' /\ (ended => SubSeq(data', rpos' + 1, wpos')
                           = SubSeq(data, rpos + 1, wpos) \o Formatted(v))
    BY <2>1, <2>2, AppendedKeepsInv
  <2>4. ended /\ short => Queue!Write(v)
    BY <2>1, <2>2, <2>3 DEF Queue!Write, Queue!Call, Call
  <2> QED BY <2>3, <2>4 DEF Queue!Next, Queue!Inputs, Inputs
<1>3. ASSUME NEW size \in 1..MaxWrite, Read(size)
      PROVE  IInv' /\ (ended => Queue!Next)
  <2>1. size \in Nat
    BY DEF StringIOAssumption
  <2> QED BY <1>3, <2>1, ReadKeepsInv
<1>4. ASSUME ReadAll
      PROVE  IInv' /\ (ended => Queue!Next)
  <2>1. Chunk \in Nat
    BY DEF StringIOAssumption
  <2> QED BY <1>4, <2>1, ReadKeepsInv DEF ReadAll
<1>5. ASSUME ReadLine
      PROVE  IInv' /\ (ended => Queue!Next)
  BY <1>5, ReadLineKeepsInv
<1>6. ASSUME Truncate
      PROVE  IInv' /\ Queue!Next
  BY <1>6, TruncateKeepsInv
<1> QED BY <1>1, <1>2, <1>3, <1>4, <1>5, <1>6 DEF Next

LEMMA StutterKeepsInv ==
  ASSUME IInv, UNCHANGED vars
  PROVE  IInv' /\ UNCHANGED Queue!vars
  BY DEF vars, made, IInv, TypeOK, WithinAlloc, Queue!vars

THEOREM BufferInvariant ==
  ASSUME StringIOAssumption
  PROVE  Spec => []IInv
<1>1. Init => IInv
  BY InvHoldsAtFirst
<1>2. IInv /\ [Next]_vars => IInv'
  BY StepIsQueueStep, StutterKeepsInv
<1> QED BY <1>1, <1>2, PTL DEF Spec

-----------------------------------------------------------------------------
(* Every copy into the block ends inside it, however long the writes, and     *)
(* reading runs ahead of writing by no more than a missing last newline      *)
(* (string_io.cc:22-30, string_io.cc:79-96).                                *)
THEOREM NoOverrun ==
  ASSUME StringIOAssumption
  PROVE  Spec => []WithinAlloc
<1>1. IInv => WithinAlloc
  BY DEF IInv
<1> QED BY <1>1, BufferInvariant, PTL

(* With a client that ends its lines and keeps its formats short the buffer   *)
(* implements the queue of bytes.                                            *)
THEOREM BufferIsQueue ==
  ASSUME StringIOAssumption
  PROVE  Spec => ImplementsQueue
<1>1. Init => Queue!Init
  BY InvHoldsAtFirst
<1>2. IInv /\ [Next]_vars => [ended /\ short => Queue!Next]_(Queue!vars)
  BY StepIsQueueStep, StutterKeepsInv
<1> QED BY <1>1, <1>2, BufferInvariant, PTL DEF Spec, ImplementsQueue

-----------------------------------------------------------------------------
(***************************************************************************)
(* write().  The rows the IO object still has are the last of those given.   *)
(* While write() goes on for a client that refills, and no row has failed,   *)
(* the rows read are in the table, but where a later row has their key, and  *)
(* are counted; and when the client replaces nothing, the keys of the rows    *)
(* to come are free.                                                       *)
(***************************************************************************)
(* The rows of given that write() has read, or a call before it.              *)
RowsRead == Len(given) - Len(io)
Counted(n) == {i \in 1..n : given[i].class # "refused"}

BulkTyped ==
  /\ driver \in Drivers /\ client \in Clients
  /\ table \in [Keys -> Bulk!Contents] /\ before \in [Keys -> Bulk!Contents]
  /\ io \in Seq(Bulk!Rows) /\ given \in Seq(Bulk!Rows) /\ Len(given) <= MaxRows
  /\ loading \in BOOLEAN /\ failing \in BOOLEAN /\ copyIn \in BOOLEAN
  /\ count \in Nat /\ count <= 2 * MaxRows
  /\ thrown \in Nat /\ thrown <= MaxThrown /\ held \in Nat
  /\ said \in {"nothing", "threw", "returned"}

IoIsRest ==
  /\ Len(io) <= Len(given)
  /\ \A i \in 1..Len(io) : io[i] = given[RowsRead + i]

WhileLoading == loading => said = "nothing" /\ count <= 2 * RowsRead /\ held >= 1
OnlyCopyFails == failing => driver = "pg"
WhenReturned == said = "returned" => Len(io) = 0 /\ ~failing

Going == client.refills /\ ~failing /\ (loading \/ said = "returned")

RowKept(i, n) ==
  \/ driver = "sqlite3" /\ given[i].class \in {"one", "null"}
  \/ driver = "mysql" /\ given[i].class = "refused"
  \/ table[given[i].key] = Bulk!AsWritten(given[i].class)
  \/ \E j \in (i + 1)..n : given[j].key = given[i].key

ReadAreKept == Going => \A i \in 1..RowsRead : RowKept(i, RowsRead)

RestIsFree ==
  loading /\ client.refills /\ ~client.replaces =>
    /\ \A i, j \in 1..Len(given) : i # j => given[i].key # given[j].key
    /\ \A i \in (RowsRead + 1)..Len(given) : table[given[i].key] = Bulk!NoRow

CountIsTrue ==
  Going /\ ~client.replaces => count = Cardinality(Counted(RowsRead))

BulkInv ==
  /\ BulkTyped /\ IoIsRest /\ WhileLoading /\ WhenReturned
  /\ OnlyCopyFails /\ Bulk!NoneLost /\ Bulk!NothingHeld
  /\ ReadAreKept /\ RestIsFree /\ CountIsTrue

-----------------------------------------------------------------------------
LEMMA BulkConstants ==
  ASSUME Bulk!BulkWriteAssumption
  PROVE  /\ MaxRows \in Nat /\ MaxRows > 0
         /\ Drivers \subseteq {"pg", "mysql", "sqlite3"}
         /\ Classes \subseteq {"long", "one", "null", "refused"}
         /\ MaxThrown \in Nat
         /\ \A c \in Clients : c.refills \in BOOLEAN /\ c.replaces \in BOOLEAN
  BY DEF Bulk!BulkWriteAssumption, Bulk!AnyClient

LEMMA RowSeq ==
  ASSUME Bulk!BulkWriteAssumption, NEW s
  PROVE  s \in Bulk!RowSeqs <=> s \in Seq(Bulk!Rows) /\ Len(s) <= MaxRows
<1>1. ASSUME s \in Bulk!RowSeqs
      PROVE  s \in Seq(Bulk!Rows) /\ Len(s) <= MaxRows
  <2>1. PICK n \in 0..MaxRows : s \in [1..n -> Bulk!Rows]
    BY <1>1 DEF Bulk!RowSeqs
  <2>2. n \in Nat /\ n <= MaxRows
    BY <2>1, BulkConstants
  <2> QED BY <2>1, <2>2
<1>2. ASSUME s \in Seq(Bulk!Rows), Len(s) <= MaxRows
      PROVE  s \in Bulk!RowSeqs
  <2>1. Len(s) \in 0..MaxRows /\ s \in [1..Len(s) -> Bulk!Rows]
    BY <1>2, BulkConstants, LenProperties
  <2> QED BY <2>1 DEF Bulk!RowSeqs
<1> QED BY <1>1, <1>2

LEMMA BulkParts ==
  ASSUME Bulk!BulkWriteAssumption, BulkInv
  PROVE  /\ driver \in Drivers /\ driver \in {"pg", "mysql", "sqlite3"} /\ client \in Clients
         /\ client.refills \in BOOLEAN /\ client.replaces \in BOOLEAN
         /\ table \in [Keys -> Bulk!Contents] /\ before \in [Keys -> Bulk!Contents]
         /\ io \in Seq(Bulk!Rows) /\ given \in Seq(Bulk!Rows)
         /\ loading \in BOOLEAN /\ failing \in BOOLEAN /\ copyIn \in BOOLEAN
         /\ count \in Nat /\ count <= 2 * MaxRows
         /\ thrown \in Nat /\ thrown <= MaxThrown /\ MaxThrown \in Nat /\ held \in Nat
         /\ held <= thrown + 1 /\ (~loading => held <= thrown) /\ (loading => held >= 1)
         /\ said \in {"nothing", "threw", "returned"}
         /\ Len(io) \in Nat /\ Len(given) \in Nat /\ Len(io) <= Len(given) /\ Len(given) <= MaxRows
         /\ RowsRead \in Nat /\ RowsRead + Len(io) = Len(given) /\ MaxRows \in Nat
<1>1. io \in Seq(Bulk!Rows) /\ given \in Seq(Bulk!Rows)
  BY DEF BulkInv, BulkTyped
<1>2. Len(io) \in Nat /\ Len(given) \in Nat
  BY <1>1, LenProperties
<1> QED BY <1>1, <1>2, BulkConstants DEF BulkInv, BulkTyped, IoIsRest, RowsRead, WhileLoading, Bulk!NothingHeld

(* The row write() reads next, as the client gave it.                        *)
LEMMA NextRow ==
  ASSUME Bulk!BulkWriteAssumption, BulkInv, io # <<>>
  PROVE  /\ Bulk!Row = given[RowsRead + 1] /\ Bulk!Row \in Bulk!Rows
         /\ Bulk!Row.key \in Keys /\ Bulk!Row.class \in Classes
         /\ RowsRead + 1 \in 1..Len(given)
         /\ Tail(io) \in Seq(Bulk!Rows) /\ Len(Tail(io)) = Len(io) - 1
         /\ Len(given) - Len(Tail(io)) = RowsRead + 1
         /\ \A i \in 1..Len(Tail(io)) : Tail(io)[i] = given[RowsRead + 1 + i]
<1>1. /\ Len(io) > 0 /\ Head(io) = io[1] /\ io[1] \in Bulk!Rows
      /\ Tail(io) \in Seq(Bulk!Rows) /\ Len(Tail(io)) = Len(io) - 1
      /\ \A i \in 1..Len(Tail(io)) : Tail(io)[i] = io[i + 1]
  BY BulkParts, EmptySeq, ElementOfSeq, HeadTailProperties
<1>2. Bulk!Row = given[RowsRead + 1] /\ Bulk!Row \in Bulk!Rows
  BY <1>1, BulkParts DEF Bulk!Row, BulkInv, IoIsRest
<1>3. Bulk!Row.key \in Keys /\ Bulk!Row.class \in Classes
  BY <1>2 DEF Bulk!Rows
<1>4. RowsRead + 1 \in 1..Len(given) /\ Len(given) - Len(Tail(io)) = RowsRead + 1
  BY <1>1, BulkParts
<1>5. ASSUME NEW i \in 1..Len(Tail(io))
      PROVE  Tail(io)[i] = given[RowsRead + 1 + i]
  <2>1. i + 1 \in 1..Len(io) /\ RowsRead + (i + 1) = RowsRead + 1 + i
    BY <1>1, BulkParts
  <2> QED BY <1>1, <2>1 DEF BulkInv, IoIsRest
<1> QED BY <1>1, <1>2, <1>3, <1>4, <1>5

LEMMA GivenTyped ==
  ASSUME Bulk!BulkWriteAssumption, BulkInv, NEW i \in 1..Len(given)
  PROVE  given[i].key \in Keys /\ given[i].class \in Classes
<1>1. given[i] \in Bulk!Rows
  BY BulkParts, ElementOfSeq
<1> QED BY <1>1 DEF Bulk!Rows

(* One more row counts, unless it is refused.                                *)
LEMMA CountedGrows ==
  ASSUME NEW n \in Nat
  PROVE  /\ Cardinality(Counted(n)) \in Nat
         /\ given[n + 1].class = "refused" => Counted(n + 1) = Counted(n)
         /\ given[n + 1].class # "refused" => Cardinality(Counted(n + 1)) = Cardinality(Counted(n)) + 1
<1>1. IsFiniteSet(Counted(n))
  <2>1. IsFiniteSet(1..n)
    BY FS_Interval
  <2>2. Counted(n) \subseteq 1..n
    BY DEF Counted
  <2> QED BY <2>1, <2>2, FS_Subset
<1>2. n + 1 \notin Counted(n)
  BY DEF Counted
<1>3. Counted(n + 1) = IF given[n + 1].class = "refused" THEN Counted(n) ELSE Counted(n) \cup {n + 1}
  BY DEF Counted
<1>4. Cardinality(Counted(n)) \in Nat
  BY <1>1, FS_CardinalityType
<1>5. Cardinality(Counted(n) \cup {n + 1}) = Cardinality(Counted(n)) + 1
  BY <1>1, <1>2, FS_AddElement
<1> QED BY <1>3, <1>4, <1>5

LEMMA NoneCounted == Counted(0) = {} /\ Cardinality({}) = 0
  BY FS_EmptySet DEF Counted

-----------------------------------------------------------------------------
LEMMA BulkAtFirst ==
  ASSUME Bulk!BulkWriteAssumption, Bulk!Init
  PROVE  BulkInv
<1>1. /\ driver \in Drivers /\ client \in Clients /\ table = [k \in Keys |-> Bulk!NoRow] /\ before = table
      /\ ~loading /\ ~failing /\ count = 0 /\ ~copyIn /\ held = 0 /\ thrown = 0 /\ said = "nothing"
      /\ loading = FALSE /\ failing = FALSE /\ copyIn = FALSE
  BY DEF Bulk!Init
<1>2. /\ io \in Seq(Bulk!Rows) /\ given \in Seq(Bulk!Rows) /\ Len(io) = 0 /\ Len(given) = 0
  BY EmptySeq DEF Bulk!Init
<1>3. BulkTyped
  <2>1. table \in [Keys -> Bulk!Contents] /\ before \in [Keys -> Bulk!Contents]
    BY <1>1 DEF Bulk!Contents, Bulk!NoRow
  <2>2. /\ Len(given) <= MaxRows /\ count \in Nat /\ count <= 2 * MaxRows
        /\ thrown \in Nat /\ thrown <= MaxThrown /\ held \in Nat
    BY <1>1, <1>2, BulkConstants
  <2> QED BY <1>1, <1>2, <2>1, <2>2 DEF BulkTyped
<1>4. IoIsRest /\ WhileLoading /\ WhenReturned
  BY <1>1, <1>2 DEF IoIsRest, WhileLoading, WhenReturned
<1>5. ReadAreKept /\ RestIsFree /\ CountIsTrue
  BY <1>1 DEF ReadAreKept, RestIsFree, CountIsTrue, Going
<1>6. OnlyCopyFails /\ Bulk!NoneLost /\ Bulk!NothingHeld
  BY <1>1, <1>2 DEF OnlyCopyFails, Bulk!NoneLost, Bulk!NothingHeld
<1> QED BY <1>1, <1>3, <1>4, <1>5, <1>6 DEF BulkInv

(* write() is called: with new rows, or with what the call before it left.    *)
LEMMA CallsWith ==
  ASSUME Bulk!BulkWriteAssumption, BulkInv, Bulk!Calls
  PROVE  /\ ~loading
         /\ io' \in Seq(Bulk!Rows) /\ given' \in Seq(Bulk!Rows) /\ Len(given') <= MaxRows
         /\ IoIsRest'
         /\ table' = table /\ driver' = driver => Bulk!NoneLost'
         /\ client.refills =>
              /\ RowsRead' = 0
              /\ ~client.replaces =>
                   /\ \A i, j \in 1..Len(given') : i # j => given'[i].key # given'[j].key
                   /\ \A i \in 1..Len(given') : table[given'[i].key] = Bulk!NoRow
<1>1. ~loading
  BY DEF Bulk!Calls
<1>2. CASE UNCHANGED <<io, given>> /\ ~client.refills
  BY <1>1, <1>2, BulkParts DEF BulkInv, IoIsRest, RowsRead, Bulk!NoneLost
<1>3. ASSUME NEW rows \in Bulk!RowSeqs, client.replaces \/ Bulk!Clean(rows),
             io' = rows, given' = rows
      PROVE  /\ io' \in Seq(Bulk!Rows) /\ given' \in Seq(Bulk!Rows) /\ Len(given') <= MaxRows
             /\ IoIsRest' /\ RowsRead' = 0 /\ Bulk!NoneLost'
             /\ ~client.replaces =>
                   /\ \A i, j \in 1..Len(given') : i # j => given'[i].key # given'[j].key
                   /\ \A i \in 1..Len(given') : table[given'[i].key] = Bulk!NoRow
  <2>1. rows \in Seq(Bulk!Rows) /\ Len(rows) <= MaxRows /\ Len(rows) \in Nat /\ DOMAIN rows = 1..Len(rows)
    BY <1>3, RowSeq, LenProperties
  <2>2. RowsRead' = 0
    BY <1>3, <2>1 DEF RowsRead
  <2>3. IoIsRest'
    BY <1>3, <2>1, <2>2 DEF IoIsRest
  <2>4. ~client.replaces => /\ \A i, j \in 1..Len(rows) : i # j => rows[i].key # rows[j].key
                            /\ \A i \in 1..Len(rows) : table[rows[i].key] = Bulk!NoRow
    BY <1>3, <2>1 DEF Bulk!Clean
  <2>5. Bulk!NoneLost'
    BY <1>3, <2>1 DEF Bulk!NoneLost
  <2> QED BY <1>3, <2>1, <2>2, <2>3, <2>4, <2>5
<1> QED BY <1>1, <1>2, <1>3 DEF Bulk!Calls

LEMMA StartKeepsBulk ==
  ASSUME Bulk!BulkWriteAssumption, BulkInv, Bulk!Start
  PROVE  BulkInv'
<1>1. /\ Bulk!Calls /\ loading' = TRUE /\ failing' = FALSE /\ count' = 0 /\ said' = "nothing"
      /\ copyIn' \in BOOLEAN /\ held' = held + 1
      /\ UNCHANGED <<driver, client, table, before, thrown>>
  BY DEF Bulk!Start, Bulk!CountFrom, Bulk!made
<1>2. held' \in Nat /\ held' >= 1 /\ held' <= thrown' + 1
  BY <1>1, CallsWith, BulkParts
<1>3. BulkTyped'
  <2>1. count' \in Nat /\ count' <= 2 * MaxRows
    BY <1>1, BulkConstants
  <2> QED BY <1>1, <1>2, <2>1, CallsWith, BulkParts DEF BulkTyped
<1>4. IoIsRest' /\ RowsRead' \in Nat
  <2>1. Len(io') \in Nat /\ Len(given') \in Nat
    BY <1>1, CallsWith, LenProperties
  <2> QED BY <1>1, <2>1, CallsWith DEF IoIsRest, RowsRead
<1>5. WhileLoading' /\ WhenReturned' /\ OnlyCopyFails' /\ Bulk!NoneLost' /\ Bulk!NothingHeld'
  <2>1. count' <= 2 * RowsRead'
    <3>1. \A n \in Nat : 0 <= 2 * n
      OBVIOUS
    <3> QED BY <1>1, <1>4, <3>1
  <2>2. WhileLoading'
    BY <1>1, <1>2, <2>1 DEF WhileLoading
  <2>3. Bulk!NoneLost'
    BY <1>1, CallsWith
  <2>4. Bulk!NothingHeld'
    BY <1>1, <1>2 DEF Bulk!NothingHeld
  <2> QED BY <1>1, <2>2, <2>3, <2>4 DEF WhenReturned, OnlyCopyFails
<1>6. client.refills => RowsRead' = 0
  BY <1>1, CallsWith
<1>7. ReadAreKept' /\ CountIsTrue'
  <2>1. Going' => RowsRead' = 0
    BY <1>1, <1>6 DEF Going
  <2>2. Counted(0)' = {} /\ Cardinality({}) = 0
    BY FS_EmptySet DEF Counted
  <2>3. RowsRead' = 0 => Cardinality(Counted(RowsRead))' = 0
    BY <2>2
  <2>4. CountIsTrue'
    BY <1>1, <2>1, <2>3 DEF CountIsTrue
  <2> QED BY <2>1, <2>4 DEF ReadAreKept
<1>8. RestIsFree'
  BY <1>1, <1>6, CallsWith DEF RestIsFree
<1> QED BY <1>3, <1>4, <1>5, <1>7, <1>8 DEF BulkInv

(* A step after which no write() runs, and the last has not returned.         *)
LEMMA ThrowingKeeps ==
  ASSUME Bulk!BulkWriteAssumption, BulkInv,
         UNCHANGED <<driver, client>>, loading' = FALSE, said' = "threw",
         table' \in [Keys -> Bulk!Contents], before' \in [Keys -> Bulk!Contents],
         Bulk!NoneLost',
         io' \in Seq(Bulk!Rows), given' \in Seq(Bulk!Rows), Len(given') <= MaxRows, IoIsRest',
         failing' = FALSE, copyIn' \in BOOLEAN, count' = 0,
         thrown' \in Nat, thrown' <= MaxThrown, held' \in Nat, held' <= thrown'
  PROVE  BulkInv'
<1>1. BulkTyped'
  <2>1. count' \in Nat /\ count' <= 2 * MaxRows
    BY BulkConstants
  <2> QED BY <2>1, BulkParts DEF BulkTyped
<1>2. WhileLoading' /\ WhenReturned' /\ OnlyCopyFails' /\ Bulk!NothingHeld'
  <2>1. \A t \in Nat : t + 0 = t
    OBVIOUS
  <2>2. Bulk!NothingHeld'
    BY <2>1, Zenon DEF Bulk!NothingHeld
  <2> QED BY <2>2 DEF WhileLoading, WhenReturned, OnlyCopyFails
<1>3. ReadAreKept' /\ RestIsFree' /\ CountIsTrue'
  BY DEF ReadAreKept, RestIsFree, CountIsTrue, Going
<1> QED BY <1>1, <1>2, <1>3 DEF BulkInv

LEMMA StartThrowsKeeps ==
  ASSUME Bulk!BulkWriteAssumption, BulkInv, Bulk!StartThrows
  PROVE  BulkInv'
<1>1. /\ Bulk!Calls /\ Bulk!Throws(table) /\ copyIn' = FALSE
      /\ UNCHANGED <<driver, client, held, thrown>>
  BY DEF Bulk!StartThrows, Bulk!made
<1>2. /\ table' = table /\ before' = table /\ loading' = FALSE /\ failing' = FALSE
      /\ count' = 0 /\ said' = "threw"
  BY <1>1 DEF Bulk!Throws, Bulk!CountFrom
<1> QED BY <1>1, <1>2, CallsWith, BulkParts, ThrowingKeeps

(* The connection is lost: what is left of the rows is a rest of them.        *)
LEMMA LostKeeps ==
  ASSUME Bulk!BulkWriteAssumption, BulkInv, Bulk!Lost
  PROVE  BulkInv'
<1>1. /\ loading /\ driver # "sqlite3" /\ loading' = FALSE /\ said' = "threw" /\ copyIn' = FALSE
      /\ held' \in Bulk!AfterError(held) /\ table' = before /\ before' = before
      /\ failing' = FALSE /\ count' = 0
      /\ UNCHANGED <<driver, client, given, thrown>>
  BY DEF Bulk!Lost, Bulk!Throws, Bulk!CountFrom, Bulk!made
<1>2. PICK n \in 1..(Len(io) + 1) : io' = SubSeq(io, n, Len(io))
  BY DEF Bulk!Lost
<1>3. /\ io' \in Seq(Bulk!Rows) /\ Len(io') = Len(io) + 1 - n
      /\ \A i \in 1..(Len(io) + 1 - n) : io'[i] = io[n + i - 1]
  <2>1. n \in Int /\ Len(io) \in Int /\ n <= Len(io) + 1
    BY <1>2, BulkParts
  <2>2. \A i \in n..Len(io) : io[i] \in Bulk!Rows
    <3>1. \A i \in n..Len(io) : i \in 1..Len(io)
      BY <1>2, BulkParts
    <3> QED BY <3>1, BulkParts, ElementOfSeq
  <2>3. /\ SubSeq(io, n, Len(io)) \in Seq(Bulk!Rows)
        /\ Len(SubSeq(io, n, Len(io))) = IF n <= Len(io) THEN Len(io) - n + 1 ELSE 0
        /\ \A i \in 1..(Len(io) - n + 1) : SubSeq(io, n, Len(io))[i] = io[n + i - 1]
    BY <2>1, <2>2, SubSeqProperties
  <2>4. Len(io) - n + 1 = Len(io) + 1 - n
    BY <2>1
  <2> QED BY <1>2, <2>1, <2>3, <2>4
<1>4. IoIsRest'
  <2>1. Len(io') <= Len(given') /\ RowsRead' = RowsRead + (n - 1)
    BY <1>1, <1>2, <1>3, BulkParts DEF RowsRead
  <2>2. ASSUME NEW i \in 1..Len(io')
        PROVE  io'[i] = given'[RowsRead' + i]
    <3>1. n + i - 1 \in 1..Len(io) /\ RowsRead + (n + i - 1) = RowsRead' + i
      <4>1. Len(io) \in Nat /\ n \in Nat /\ n >= 1 /\ n <= Len(io) + 1 /\ RowsRead \in Nat
        BY <1>2, BulkParts
      <4>2. i \in Nat /\ 1 <= i /\ i <= Len(io) + 1 - n
        BY <1>3, <4>1
      <4> QED BY <2>1, <4>1, <4>2
    <3>2. io[n + i - 1] = given[RowsRead + (n + i - 1)]
      BY <3>1 DEF BulkInv, IoIsRest
    <3> QED BY <1>1, <1>3, <3>1, <3>2
  <2> QED BY <2>1, <2>2 DEF IoIsRest
<1>5. held' \in Nat /\ held' <= thrown'
  BY <1>1, BulkParts DEF Bulk!AfterError, Bulk!EndErases, Bulk!Released
<1>6. Bulk!NoneLost'
  BY <1>1 DEF Bulk!NoneLost
<1> QED BY <1>1, <1>3, <1>4, <1>5, <1>6, BulkParts, ThrowingKeeps

LEMMA IoThrowsKeeps ==
  ASSUME Bulk!BulkWriteAssumption, BulkInv, Bulk!IoThrows
  PROVE  BulkInv'
<1>1. /\ loading /\ thrown < MaxThrown /\ thrown' = thrown + 1
      /\ loading' = FALSE /\ said' = "threw" /\ failing' = FALSE /\ count' = 0 /\ before' = table'
      /\ table' = IF driver = "sqlite3" THEN table ELSE before
      /\ UNCHANGED <<driver, client, io, given, copyIn, held>>
  BY DEF Bulk!IoThrows, Bulk!Throws, Bulk!CountFrom, Bulk!made
<1>2. IoIsRest'
  BY <1>1 DEF BulkInv, IoIsRest, RowsRead
<1>3. Bulk!NoneLost'
  BY <1>1 DEF BulkInv, Bulk!NoneLost
<1>4. thrown' \in Nat /\ thrown' <= MaxThrown /\ held' \in Nat /\ held' <= thrown'
  BY <1>1, BulkParts
<1>5. table' \in [Keys -> Bulk!Contents] /\ before' \in [Keys -> Bulk!Contents]
  BY <1>1, BulkParts
<1> QED BY <1>1, <1>2, <1>3, <1>4, <1>5, BulkParts, ThrowingKeeps
-----------------------------------------------------------------------------
(* A row that is read, whatever becomes of it: only its key's entry of the    *)
(* table changes, if any, and no more than two rows are counted.             *)
LEMMA ReadingOne ==
  ASSUME Bulk!BulkWriteAssumption, BulkInv, loading,
         io # <<>>, io' = Tail(io), UNCHANGED <<driver, client, before, given, copyIn, held, thrown>>,
         loading' = TRUE, said' = said, failing' \in BOOLEAN, failing => failing', failing' => driver = "pg",
         table' \in [Keys -> Bulk!Contents],
         \A k \in Keys \ {Bulk!Row.key} : table'[k] = table[k],
         count' \in {count, count + 1, count + 2},
         ~failing' =>
           /\ \/ driver = "sqlite3" /\ Bulk!Row.class \in {"one", "null"}
              \/ driver = "mysql" /\ Bulk!Row.class = "refused"
              \/ table'[Bulk!Row.key] = Bulk!AsWritten(Bulk!Row.class)
           /\ Bulk!Row.class = "refused" => count' = count
           /\ Bulk!Row.class # "refused" /\ table[Bulk!Row.key] = Bulk!NoRow => count' = count + 1,
         driver = "sqlite3" => table'[Bulk!Row.key] # Bulk!NoRow
  PROVE  BulkInv'
<1>0. PICK n \in Nat : n = RowsRead
  BY BulkParts
<1>1. /\ Bulk!Row = given[n + 1] /\ Bulk!Row.key \in Keys /\ n + 1 \in 1..Len(given)
      /\ io' \in Seq(Bulk!Rows) /\ Len(io') = Len(io) - 1 /\ RowsRead' = n + 1
      /\ \A i \in 1..Len(io') : io'[i] = given[n + 1 + i]
  BY <1>0, NextRow DEF RowsRead
<1>2. n \in Nat /\ Len(given) \in Nat /\ Len(io) \in Nat /\ said = "nothing" /\ count <= 2 * n
      /\ n + 1 <= MaxRows /\ MaxRows \in Nat /\ count \in Nat /\ held \in Nat /\ held >= 1
  BY <1>0, <1>1, BulkParts DEF BulkInv, WhileLoading
<1>3. count' \in Nat /\ count' <= 2 * (n + 1) /\ count' <= 2 * MaxRows
  BY <1>2
<1>4. BulkTyped'
  BY <1>1, <1>3, BulkParts DEF BulkTyped
<1>5. IoIsRest'
  BY <1>1, BulkParts DEF IoIsRest
<1>6. WhileLoading' /\ WhenReturned' /\ OnlyCopyFails' /\ Bulk!NothingHeld'
  <2>1. WhileLoading' /\ WhenReturned' /\ OnlyCopyFails'
    BY <1>1, <1>2, <1>3 DEF WhileLoading, WhenReturned, OnlyCopyFails
  <2>2. Bulk!NothingHeld'
    BY BulkParts DEF Bulk!NothingHeld
  <2> QED BY <2>1, <2>2
<1>11. Bulk!NoneLost'
  <2> SUFFICES ASSUME driver = "sqlite3", NEW i \in 1..(n + 1)
               PROVE  given[i].class = "refused" \/ table'[given[i].key] # Bulk!NoRow
    BY <1>1 DEF Bulk!NoneLost, RowsRead
  <2>1. CASE given[i].key = given[n + 1].key
    BY <1>1, <2>1
  <2>2. CASE given[i].key # given[n + 1].key
    <3>1. i \in 1..n /\ i \in 1..Len(given)
      BY <1>1, <1>2, <2>2
    <3>2. given[i].class = "refused" \/ table[given[i].key] # Bulk!NoRow
      BY <1>0, <3>1 DEF BulkInv, Bulk!NoneLost, RowsRead
    <3>3. given[i].key \in Keys
      BY <3>1, GivenTyped
    <3> QED BY <1>1, <2>2, <3>2, <3>3
  <2> QED BY <2>1, <2>2
<1>7. ASSUME Going'
      PROVE  /\ \A i \in 1..(n + 1) : RowKept(i, n + 1)'
             /\ ~client.replaces => count' = Cardinality(Counted(n + 1)) /\ Counted(n + 1)' = Counted(n + 1)
  <2>1. Going /\ ~failing'
    BY <1>7 DEF Going
  <2>2. \A i \in 1..n : RowKept(i, n)
    BY <1>0, <2>1 DEF BulkInv, ReadAreKept
  <2>3. ASSUME NEW i \in 1..n
        PROVE  RowKept(i, n + 1)'
    <3>1. CASE given[i].key = given[n + 1].key
      BY <1>2, <3>1 DEF RowKept
    <3>2. CASE given[i].key # given[n + 1].key
      <4>1. given[i].key \in Keys
        BY <1>1, <1>2, GivenTyped
      <4>2. table'[given[i].key] = table[given[i].key]
        BY <1>1, <3>2, <4>1
      <4>3. RowKept(i, n)
        BY <2>2
      <4>4. \A j \in (i + 1)..n : j \in (i + 1)..(n + 1)
        BY <1>2
      <4> QED BY <4>2, <4>3, <4>4 DEF RowKept, Bulk!AsWritten
    <3> QED BY <3>1, <3>2
  <2>4. RowKept(n + 1, n + 1)'
    BY <1>1, <2>1 DEF RowKept, Bulk!AsWritten
  <2>5. \A i \in 1..(n + 1) : i \in 1..n \/ i = n + 1
    BY <1>2
  <2>6. ASSUME ~client.replaces
        PROVE  count' = Cardinality(Counted(n + 1))
    <3>1. count = Cardinality(Counted(n))
      BY <1>0, <2>1, <2>6 DEF BulkInv, CountIsTrue
    <3>2. table[Bulk!Row.key] = Bulk!NoRow
      BY <1>0, <1>1, <1>2, <2>1, <2>6 DEF BulkInv, RestIsFree, Going
    <3> QED BY <1>1, <1>2, <2>1, <3>1, <3>2, CountedGrows
  <2>7. Counted(n + 1)' = Counted(n + 1)
    BY DEF Counted
  <2> QED BY <2>3, <2>4, <2>5, <2>6, <2>7
<1>8. ReadAreKept'
  BY <1>1, <1>7 DEF ReadAreKept, RowKept
<1>9. CountIsTrue'
  BY <1>1, <1>7 DEF CountIsTrue, Counted
<1>10. RestIsFree'
  <2> SUFFICES ASSUME client.refills, ~client.replaces
               PROVE  /\ \A i, j \in 1..Len(given) : i # j => given[i].key # given[j].key
                      /\ \A i \in (n + 2)..Len(given) : table'[given[i].key] = Bulk!NoRow
    BY <1>1, <1>2 DEF RestIsFree
  <2>1. /\ \A i, j \in 1..Len(given) : i # j => given[i].key # given[j].key
        /\ \A i \in (n + 1)..Len(given) : table[given[i].key] = Bulk!NoRow
    BY <1>0 DEF BulkInv, RestIsFree
  <2>2. ASSUME NEW i \in (n + 2)..Len(given)
        PROVE  table'[given[i].key] = Bulk!NoRow
    <3>1. i \in 1..Len(given) /\ i # n + 1 /\ i \in (n + 1)..Len(given)
      BY <1>2
    <3>2. given[i].key \in Keys /\ given[i].key # given[n + 1].key
      BY <1>1, <2>1, <3>1, GivenTyped
    <3> QED BY <1>1, <2>1, <3>1, <3>2
  <2> QED BY <2>1, <2>2
<1> QED BY <1>4, <1>5, <1>6, <1>8, <1>9, <1>10, <1>11 DEF BulkInv

(* What a row's field becomes.                                               *)
LEMMA Fields ==
  ASSUME Bulk!BulkWriteAssumption, NEW c \in Classes, c # "refused"
  PROVE  /\ Bulk!PgField(c) = Bulk!AsWritten(c) /\ Bulk!MySqlField(c) = Bulk!AsWritten(c)
         /\ c \notin {"one", "null"} => Bulk!Sqlite3Field(c) = Bulk!AsWritten(c)
         /\ {Bulk!AsWritten(c), Bulk!Sqlite3Field(c)} \subseteq Bulk!Contents
         /\ Bulk!Sqlite3Field(c) # Bulk!NoRow
<1>1. c \in {"long", "one", "null"}
  BY BulkConstants
<1> QED BY <1>1 DEF Bulk!PgField, Bulk!MySqlField, Bulk!Sqlite3Field, Bulk!AsWritten, Bulk!Contents, Bulk!NoRow

LEMMA Storing ==
  ASSUME Bulk!BulkWriteAssumption, BulkInv, io # <<>>, NEW v \in Bulk!Contents, Bulk!Stores(v)
  PROVE  /\ table' \in [Keys -> Bulk!Contents] /\ table'[Bulk!Row.key] = v
         /\ \A k \in Keys \ {Bulk!Row.key} : table'[k] = table[k]
<1>1. Bulk!Row.key \in Keys /\ table \in [Keys -> Bulk!Contents]
  BY NextRow, BulkParts
<1>2. table' = [table EXCEPT ![Bulk!Row.key] = v]
  BY DEF Bulk!Stores
<1> QED BY <1>1, <1>2

LEMMA LoadRowKeeps ==
  ASSUME Bulk!BulkWriteAssumption, BulkInv, Bulk!LoadRow
  PROVE  BulkInv'
<1> DEFINE row == Bulk!Row
<1>1. /\ loading /\ io # <<>> /\ io' = Tail(io)
      /\ UNCHANGED <<driver, client, given, copyIn, thrown>>
  BY DEF Bulk!LoadRow, Bulk!made
<1>2. row.key \in Keys /\ row.class \in Classes /\ table \in [Keys -> Bulk!Contents]
      /\ failing \in BOOLEAN /\ count \in Nat /\ loading = TRUE /\ (failing => driver = "pg")
  BY <1>1, NextRow, BulkParts DEF BulkInv, OnlyCopyFails
<1>3. row.class # "refused" =>
        /\ Bulk!PgField(row.class) = Bulk!AsWritten(row.class)
        /\ Bulk!MySqlField(row.class) = Bulk!AsWritten(row.class)
        /\ row.class \notin {"one", "null"} => Bulk!Sqlite3Field(row.class) = Bulk!AsWritten(row.class)
        /\ Bulk!AsWritten(row.class) \in Bulk!Contents /\ Bulk!Sqlite3Field(row.class) \in Bulk!Contents
        /\ Bulk!Sqlite3Field(row.class) # Bulk!NoRow
  BY <1>2, Fields
<1>4. CASE Bulk!PgRow
  <2>1. driver = "pg" /\ UNCHANGED <<loading, before, held, said>>
    BY <1>4 DEF Bulk!PgRow
  <2>2. CASE Bulk!Refused \/ Bulk!Taken
    <3>1. failing' = TRUE /\ table' = table /\ count' = count
      BY <1>4, <2>2 DEF Bulk!PgRow
    <3> QED BY <1>1, <1>2, <2>1, <3>1, ReadingOne
  <2>3. CASE ~(Bulk!Refused \/ Bulk!Taken)
    <3>1. /\ Bulk!Stores(Bulk!PgField(row.class)) /\ count' = count + 1 /\ failing' = failing
          /\ row.class # "refused"
      BY <1>4, <2>3 DEF Bulk!PgRow, Bulk!Refused
    <3>2. /\ table' \in [Keys -> Bulk!Contents] /\ table'[row.key] = Bulk!AsWritten(row.class)
          /\ \A k \in Keys \ {row.key} : table'[k] = table[k]
      BY <1>1, <1>3, <3>1, Storing
    <3> HIDE DEF Bulk!Stores
    <3> QED BY <1>1, <1>2, <2>1, <3>1, <3>2, ReadingOne
  <2> QED BY <2>2, <2>3
<1>5. CASE Bulk!MySqlRow
  <2>1. driver = "mysql" /\ UNCHANGED <<loading, before, failing, held, said>>
    BY <1>5 DEF Bulk!MySqlRow
  <2>2. CASE Bulk!Refused
    <3>1. table' = table /\ count' = count /\ row.class = "refused"
      BY <1>5, <2>2 DEF Bulk!MySqlRow, Bulk!Refused
    <3> QED BY <1>1, <1>2, <2>1, <3>1, ReadingOne
  <2>3. CASE ~Bulk!Refused
    <3>1. /\ Bulk!Stores(Bulk!MySqlField(row.class)) /\ row.class # "refused"
          /\ count' = count + IF table[row.key] # Bulk!NoRow THEN 2 ELSE 1
      BY <1>5, <2>3 DEF Bulk!MySqlRow, Bulk!Refused, Bulk!Changed, Bulk!Taken
    <3>2. /\ table' \in [Keys -> Bulk!Contents] /\ table'[row.key] = Bulk!AsWritten(row.class)
          /\ \A k \in Keys \ {row.key} : table'[k] = table[k]
      BY <1>1, <1>3, <3>1, Storing
    <3> QED BY <1>1, <1>2, <2>1, <3>1, <3>2, ReadingOne
  <2> QED BY <2>2, <2>3
<1>6. CASE Bulk!Sqlite3Row
  <2>1. driver = "sqlite3"
    BY <1>6 DEF Bulk!Sqlite3Row
  <2>2. CASE Bulk!Refused \/ Bulk!Taken
    <3>1. /\ loading' = FALSE /\ said' = "threw" /\ failing' = FALSE /\ count' = 0
          /\ table' = table /\ before' = table /\ held' = held - 1
      BY <1>6, <2>2 DEF Bulk!Sqlite3Row, Bulk!Throws, Bulk!CountFrom, Bulk!OnError, Bulk!Released
    <3>2. /\ io' \in Seq(Bulk!Rows) /\ IoIsRest' /\ RowsRead' = RowsRead + 1
      BY <1>1, NextRow, BulkParts DEF IoIsRest, RowsRead
    <3>3. Bulk!NoneLost'
      <4> SUFFICES ASSUME NEW i \in 1..(RowsRead + 1)
                   PROVE  given[i].class = "refused" \/ table[given[i].key] # Bulk!NoRow
        BY <1>1, <3>1, <3>2 DEF Bulk!NoneLost, RowsRead
      <4>1. CASE i = RowsRead + 1
        BY <1>1, <2>2, <4>1, NextRow DEF Bulk!Refused, Bulk!Taken
      <4>2. CASE i # RowsRead + 1
        <5>1. i \in 1..RowsRead
          BY <4>2, BulkParts
        <5> QED BY <2>1, <5>1 DEF BulkInv, Bulk!NoneLost, RowsRead
      <4> QED BY <4>1, <4>2
    <3>4. held' \in Nat /\ held' <= thrown'
      BY <1>1, <3>1, BulkParts
    <3> QED BY <1>1, <1>2, <3>1, <3>2, <3>3, <3>4, BulkParts, ThrowingKeeps
  <2>3. CASE ~(Bulk!Refused \/ Bulk!Taken)
    <3>1. /\ Bulk!Stores(Bulk!Sqlite3Field(row.class)) /\ count' = count + 1 /\ row.class # "refused"
          /\ UNCHANGED <<loading, before, failing, held, said>>
      BY <1>6, <2>3 DEF Bulk!Sqlite3Row, Bulk!Refused
    <3>2. /\ table' \in [Keys -> Bulk!Contents] /\ table'[row.key] = Bulk!Sqlite3Field(row.class)
          /\ \A k \in Keys \ {row.key} : table'[k] = table[k]
      BY <1>1, <1>3, <3>1, Storing
    <3> QED BY <1>1, <1>2, <1>3, <2>1, <3>1, <3>2, ReadingOne
  <2> QED BY <2>2, <2>3
<1> QED BY <1>4, <1>5, <1>6 DEF Bulk!LoadRow

(* The rows are all read: a failed statement is undone, another has kept all.  *)
LEMMA FinishKeeps ==
  ASSUME Bulk!BulkWriteAssumption, BulkInv, Bulk!Finish
  PROVE  BulkInv'
<1>1. /\ loading /\ io = <<>> /\ copyIn' = FALSE /\ held' = held - 1
      /\ UNCHANGED <<driver, client, io, given, thrown>>
  BY DEF Bulk!Finish, Bulk!EndErases, Bulk!Released, Bulk!made
<1>2. held' \in Nat /\ held' <= thrown'
  BY <1>1, BulkParts
<1>3. Len(io) = 0 /\ RowsRead' = RowsRead /\ IoIsRest'
  BY <1>1, EmptySeq DEF BulkInv, IoIsRest, RowsRead
<1>4. CASE failing
  <2>1. /\ loading' = FALSE /\ said' = "threw" /\ failing' = FALSE /\ count' = 0
        /\ table' = before /\ before' = before
    BY <1>4 DEF Bulk!Finish, Bulk!Throws, Bulk!CountFrom
  <2>2. driver # "sqlite3"
    BY <1>1, <1>4 DEF BulkInv, OnlyCopyFails
  <2>3. Bulk!NoneLost'
    BY <1>1, <2>2 DEF Bulk!NoneLost
  <2> QED BY <1>1, <1>2, <1>3, <2>1, <2>3, BulkParts, ThrowingKeeps
<1>5. CASE ~failing
  <2>1. /\ loading' = FALSE /\ said' = "returned" /\ table' = table /\ before' = table
        /\ UNCHANGED <<failing, count>>
    BY <1>5 DEF Bulk!Finish
  <2>2. BulkTyped'
    BY <1>1, <1>2, <2>1, BulkParts DEF BulkTyped
  <2>3. WhileLoading' /\ WhenReturned' /\ RestIsFree' /\ OnlyCopyFails'
    BY <1>1, <1>3, <1>5, <2>1 DEF WhileLoading, WhenReturned, RestIsFree, OnlyCopyFails
  <2>6. Bulk!NothingHeld'
    <3>1. held' <= thrown' + 0
      BY <1>1, <1>2, BulkParts
    <3> QED BY <2>1, <3>1 DEF Bulk!NothingHeld
  <2>5. Bulk!NoneLost'
    BY <1>1, <2>1 DEF BulkInv, Bulk!NoneLost
  <2>4. ReadAreKept' /\ CountIsTrue'
    BY <1>1, <1>3, <1>5, <2>1 DEF BulkInv, ReadAreKept, CountIsTrue, Going, RowKept, Counted
  <2> QED BY <1>3, <2>2, <2>3, <2>4, <2>5, <2>6 DEF BulkInv
<1> QED BY <1>4, <1>5

LEMMA OthersKeepBulk ==
  ASSUME Bulk!BulkWriteAssumption, BulkInv,
         Bulk!OtherCommand \/ Bulk!ForeignInfile \/ UNCHANGED Bulk!vars
  PROVE  BulkInv'
<1>1. /\ UNCHANGED <<driver, client, table, before, io, given, loading, failing, count, said>>
      /\ copyIn' \in BOOLEAN /\ held' = held /\ thrown' = thrown
  <2>1. CASE Bulk!OtherCommand
    BY <2>1, BulkParts DEF Bulk!OtherCommand, Bulk!made
  <2>2. CASE Bulk!ForeignInfile
    BY <2>2, BulkParts DEF Bulk!ForeignInfile, Bulk!Released, Bulk!NullEntered, Bulk!made
  <2>3. CASE UNCHANGED Bulk!vars
    BY <2>3, BulkParts DEF Bulk!vars, Bulk!made
  <2> QED BY <2>1, <2>2, <2>3
<1>2. BulkTyped'
  BY <1>1, BulkParts DEF BulkTyped
<1>3. RowsRead' = RowsRead /\ IoIsRest'
  BY <1>1 DEF BulkInv, IoIsRest, RowsRead
<1>4. WhileLoading' /\ WhenReturned' /\ Bulk!NothingHeld' /\ RestIsFree' /\ OnlyCopyFails'
  BY <1>1, <1>3
  DEF BulkInv, WhileLoading, WhenReturned, Bulk!NothingHeld, RestIsFree, OnlyCopyFails
<1>6. Bulk!NoneLost'
  BY <1>1 DEF BulkInv, Bulk!NoneLost
<1>5. ReadAreKept' /\ CountIsTrue'
  BY <1>1, <1>3 DEF BulkInv, ReadAreKept, CountIsTrue, Going, RowKept, Counted
<1> QED BY <1>2, <1>3, <1>4, <1>5, <1>6 DEF BulkInv

LEMMA BulkStep ==
  ASSUME Bulk!BulkWriteAssumption, BulkInv, Bulk!Next \/ UNCHANGED Bulk!vars
  PROVE  BulkInv'
  BY StartKeepsBulk, StartThrowsKeeps, LoadRowKeeps, FinishKeeps, LostKeeps, IoThrowsKeeps,
     OthersKeepBulk DEF Bulk!Next

LEMMA BulkInvariant == SpecSideBySide => []BulkInv
<1> USE LoadingAssumption
<1>1. InitSideBySide => BulkInv
  BY BulkAtFirst DEF InitSideBySide, BulkRests
<1>2. BulkInv /\ [NextSideBySide]_<<part, vars, Bulk!vars>> => BulkInv'
  <2>1. [NextSideBySide]_<<part, vars, Bulk!vars>> => Bulk!Next \/ UNCHANGED Bulk!vars
    BY DEF NextSideBySide, Bulk!vars, Bulk!made
  <2> QED BY <2>1, BulkStep
<1> QED BY <1>1, <1>2, PTL DEF SpecSideBySide

-----------------------------------------------------------------------------
(* StringIO and write() are of their types (string_io.h:5-12).                *)
THEOREM LoadingTyped == SpecSideBySide => []BothTyped
<1> USE LoadingAssumption
<1>1. BulkInv => Bulk!TypeOK
  <2> SUFFICES ASSUME BulkInv PROVE Bulk!TypeOK
    OBVIOUS
  <2>1. {io, given} \subseteq Bulk!RowSeqs
    BY BulkParts, RowSeq
  <2>2. count \in 0..(2 * MaxRows) /\ thrown \in 0..MaxThrown /\ held \in 0..(MaxThrown + 1)
    BY BulkParts
  <2> QED BY <2>1, <2>2, BulkParts DEF Bulk!TypeOK
<1>2. InitSideBySide => IInv
  BY InvHoldsAtFirst DEF InitSideBySide, BufferRests
<1>3. IInv /\ [NextSideBySide]_<<part, vars, Bulk!vars>> => IInv'
  <2>1. NextSideBySide => Next \/ UNCHANGED vars
    BY DEF NextSideBySide, vars, made
  <2>2. UNCHANGED <<part, vars, Bulk!vars>> => UNCHANGED vars
    OBVIOUS
  <2> QED BY <2>1, <2>2, StepIsQueueStep, StutterKeepsInv
<1>4. IInv /\ BulkInv => BothTyped
  BY <1>1 DEF IInv, BothTyped
<1> QED BY <1>2, <1>3, <1>4, BulkInvariant, PTL DEF SpecSideBySide

(* Every row SQLite's loop has read is in the table, or is one it refuses,     *)
(* whatever threw before (sqlite3/handle.cc:214-240).                        *)
THEOREM LoadsLoseNone == SpecSideBySide => []NoneLost
<1>1. BulkInv => NoneLost
  BY DEF BulkInv, NoneLost
<1> QED BY <1>1, BulkInvariant, PTL

(* When write() returns to a client that refills the IO object, every row it   *)
(* was given is in the table, each field as it was given, unless a later row   *)
(* has its key, MySQL has refused and dropped it (mysql/handle.cc:264-273), or *)
(* it is one of the short fields that SQLite's loop changes                   *)
(* (sqlite3/handle.cc:214-240).                                              *)
THEOREM LoadsAsGiven == SpecSideBySide => []WrittenAsGiven
<1>1. ASSUME BulkInv
      PROVE  WrittenAsGiven
  <2> SUFFICES ASSUME client.refills, said = "returned", NEW i \in DOMAIN given
               PROVE  RowKept(i, Len(given))
    BY DEF WrittenAsGiven, Bulk!WrittenAsGiven, RowKept
  <2>1. Going /\ RowsRead = Len(given)
    BY <1>1, LoadingAssumption, BulkParts DEF BulkInv, WhenReturned, Going
  <2>2. i \in 1..Len(given)
    BY <1>1, LoadingAssumption, BulkParts, LenProperties
  <2> QED BY <1>1, <2>1, <2>2 DEF BulkInv, ReadAreKept
<1> QED BY <1>1, BulkInvariant, PTL

(* The instance has a Cardinality of its own, with the same definition.       *)
LEMMA SameCardinality == \A S : Bulk!Cardinality(S) = Cardinality(S)
  BY Zenon DEF Bulk!Cardinality, Cardinality

(* The count that write() returns is the number of rows written, to a client   *)
(* that refills the IO object and writes no key that was there before         *)
(* (mysql/handle.cc:258, mysql/handle.cc:273).                               *)
THEOREM LoadCountTrue == SpecSideBySide => []CountTrue
<1>1. ASSUME BulkInv
      PROVE  CountTrue
  <2> SUFFICES ASSUME client.refills, ~client.replaces, said = "returned"
               PROVE  count = Cardinality({i \in DOMAIN given : given[i].class # "refused"})
    BY SameCardinality DEF CountTrue, Bulk!CountTrue
  <2>1. Going /\ RowsRead = Len(given)
    BY <1>1, LoadingAssumption, BulkParts DEF BulkInv, WhenReturned, Going
  <2>2. DOMAIN given = 1..Len(given)
    BY <1>1, LoadingAssumption, BulkParts, LenProperties
  <2> QED BY <1>1, <2>1, <2>2 DEF BulkInv, CountIsTrue, Counted
<1> QED BY <1>1, BulkInvariant, PTL

(* A write() leaves no entry, buffer or statement behind, unless the IO object *)
(* threw (mysql/common.cc:68-88, pg/handle.cc:322-334).                      *)
THEOREM LoadsHoldNothing == SpecSideBySide => []NothingHeld
<1>1. BulkInv => NothingHeld
  BY DEF BulkInv, NothingHeld
<1> QED BY <1>1, BulkInvariant, PTL
=============================================================================
