------------------------------ MODULE ByteQueue ------------------------------
(***************************************************************************)
(* What an IO object promises: a queue of bytes.  What is written is        *)
(* appended, what is read comes off the front, once; a line is what stands  *)
(* before the next newline, which is dropped; truncating empties the queue. *)
(***************************************************************************)
EXTENDS Naturals, Sequences

CONSTANTS Byte, Newline, MaxWrite

VARIABLES queue, \* the bytes that were written and not yet read
          last   \* the last call, and the bytes it was given or returned

vars == <<queue, last>>

Call(op, bytes) == [op |-> op, bytes |-> bytes]

Inputs == UNION {[1..n -> Byte] : n \in 1..MaxWrite}

FirstN(s, n)   == SubSeq(s, 1, n)
AfterN(s, n)   == SubSeq(s, n + 1, Len(s))
Shorter(m, n)  == IF m < n THEN m ELSE n

(* The length of the first line of s, without its newline.                  *)
LineLength(s) ==
  IF \E i \in 1..Len(s) : s[i] = Newline
  THEN (CHOOSE i \in 1..Len(s) : s[i] = Newline /\ \A j \in 1..(i - 1) : s[j] # Newline) - 1
  ELSE Len(s)

Init == queue \in Inputs \cup {<<>>} /\ last = Call("new", <<>>)

Write(v) == queue' = queue \o v /\ last' = Call("write", v)

Read(n) == last' = Call("read", FirstN(queue, n)) /\ queue' = AfterN(queue, n)

ReadLine ==
  IF queue = <<>>
  THEN last' = Call("no line", <<>>) /\ queue' = queue
  ELSE /\ last' = Call("line", FirstN(queue, LineLength(queue)))
       /\ queue' = AfterN(queue, Shorter(LineLength(queue) + 1, Len(queue)))

Truncate == queue' = <<>> /\ last' = Call("truncate", <<>>)

Next ==
  \/ \E v \in Inputs : Write(v)
  \/ \E n \in 0..Len(queue) : Read(n)
  \/ ReadLine \/ Truncate

Spec == Init /\ [][Next]_vars
=============================================================================
