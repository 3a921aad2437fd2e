------------------------------- MODULE StringIO ------------------------------
(***************************************************************************)
(* StringIO, the buffer Handle::write loads rows from: an allocated block   *)
(* with a position to write and one to read at.  Offsets count from 0, as   *)
(* in the code; data[i + 1] is the byte at offset i, and what lies behind   *)
(* wpos is left out.                                                        *)
(*                                                                         *)
(* A client that ends its lines has written a newline last when it reads a  *)
(* line; one that keeps its formats short gives writef() nothing longer     *)
(* than its buffer.                                                        *)
(***************************************************************************)
EXTENDS Naturals, Sequences

CONSTANTS Byte, Newline,
          Junk,      \* a byte nobody wrote
          MaxWrite,  \* bound on the length of one write
          MaxBytes,  \* bound on wpos
          Alloc0,    \* what the constructor allocates (1024)
          Chunk,     \* the most read() returns (16384)
          Stored     \* the most vsnprintf stores for writef (65534)

StringIOAssumption ==
  /\ Newline \in Byte /\ Junk \notin Byte
  /\ {MaxWrite, MaxBytes, Alloc0, Chunk, Stored} \subseteq Nat
  /\ Chunk > 0

VARIABLES ended,  \* whether the client ends its lines
          short,  \* whether it keeps its formats short
          data, wpos, rpos, alloc,
          last    \* the last call, and the bytes it was given or returned

made == <<ended, short>>
vars == <<made, data, wpos, rpos, alloc, last>>

Call(op, bytes) == [op |-> op, bytes |-> bytes]

Bytes  == Byte \cup {Junk}
Inputs == UNION {[1..n -> Byte] : n \in 1..MaxWrite}

TypeOK ==
  /\ ended \in BOOLEAN /\ short \in BOOLEAN
  /\ data \in Seq(Bytes) /\ wpos = Len(data)
  /\ rpos \in Nat /\ alloc \in Nat

InitEmpty    == data = <<>> /\ wpos = 0 /\ alloc = Alloc0
InitUnset(v) == data = v /\ wpos = 0 /\ alloc = Len(v) * 2 + 1
InitGiven(v) == data = v /\ wpos = Len(v) /\ alloc = Len(v) * 2 + 1

(* StringIO() and StringIO(v, size).  In the variant the second forgets wpos. *)
Init ==
  /\ InitEmpty \/ \E v \in Inputs \cup {<<>>} : InitGiven(v)
  /\ rpos = 0 /\ last = Call("new", <<>>)
  /\ ended \in BOOLEAN /\ short \in BOOLEAN

-----------------------------------------------------------------------------
GrownByOne(size) == alloc + 1
Grown(size)      == alloc + size * 2 + 1

Appended(v) ==
  /\ alloc' = IF alloc < wpos + Len(v) THEN Grown(Len(v)) ELSE alloc
  /\ data' = data \o v /\ wpos' = wpos + Len(v)

Write(v) ==
  /\ wpos + Len(v) <= MaxBytes
  /\ Appended(v)
  /\ last' = Call("write", v) /\ UNCHANGED <<made, rpos>>

(* writef() writes as many bytes as the text would have had; those the        *)
(* buffer did not hold are whatever is there.                               *)
FormattedCut(v) == [i \in 1..Len(v) |-> IF i < Stored THEN v[i] ELSE Junk]
Formatted(v)    == [i \in 1..Len(v) |-> IF i <= Stored THEN v[i] ELSE Junk]

Writef(v) ==
  /\ short => Len(v) <= Stored
  /\ wpos + Len(v) <= MaxBytes
  /\ Appended(Formatted(v))
  /\ last' = Call("write", v) /\ UNCHANGED <<made, rpos>>

Bounded(size) == IF size > wpos - rpos THEN wpos - rpos ELSE size

(* read(buffer, size), and read(), which is read of a chunk.                 *)
Read(size) ==
  /\ IF rpos < wpos
     THEN /\ last' = Call("read", SubSeq(data, rpos + 1, rpos + Bounded(size)))
          /\ rpos' = rpos + Bounded(size)
     ELSE last' = Call("read", <<>>) /\ UNCHANGED rpos
  /\ UNCHANGED <<made, data, wpos, alloc>>

ReadAll == Read(Chunk)

(* The offset of the next newline, or wpos.                                  *)
LineEnd ==
  IF \E p \in rpos..(wpos - 1) : data[p + 1] = Newline
  THEN CHOOSE p \in rpos..(wpos - 1) :
         data[p + 1] = Newline /\ \A q \in rpos..(p - 1) : data[q + 1] # Newline
  ELSE wpos

BehindCrLf(pos) == pos + 2
AtLineEnd(pos)  == pos
BehindLine(pos) == pos + 1

ReadLine ==
  /\ ended /\ rpos < wpos => data[wpos] = Newline
  /\ IF rpos < wpos
     THEN /\ last' = Call("line", SubSeq(data, rpos + 1, LineEnd))
          /\ rpos' = BehindLine(LineEnd)
     ELSE last' = Call("no line", <<>>) /\ UNCHANGED rpos
  /\ UNCHANGED <<made, data, wpos, alloc>>

Truncate ==
  /\ data' = <<>> /\ wpos' = 0 /\ rpos' = 0 /\ last' = Call("truncate", <<>>)
  /\ UNCHANGED <<made, alloc>>

Next ==
  \/ \E v \in Inputs : Write(v) \/ Writef(v)
  \/ \E size \in 1..MaxWrite : Read(size)
  \/ ReadAll \/ ReadLine \/ Truncate

Spec == Init /\ [][Next]_vars

-----------------------------------------------------------------------------
(* Every copy into the block ends inside it, and reading never runs ahead of *)
(* writing: at most the newline that an unterminated last line does not have *)
(* is skipped (string_io.cc:22-30, string_io.cc:79-96).                     *)
WithinAlloc == wpos <= alloc /\ rpos <= wpos + 1

(* With a client that ends its lines and keeps its formats short the buffer  *)
(* is a queue of bytes: none is lost, repeated or made up.                  *)
Queue == INSTANCE ByteQueue WITH queue <- SubSeq(data, rpos + 1, wpos)
ImplementsQueue == Queue!Init /\ [][ended /\ short => Queue!Next]_(Queue!vars)
=============================================================================
