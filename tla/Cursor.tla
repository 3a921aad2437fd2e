------------------------------- MODULE Cursor -------------------------------
(***************************************************************************)
(* What a result promises to its reader, as AbstractResult documents it: a *)
(* position, read() that returns the row there and moves on, read(r, c)    *)
(* that returns a field of row r, seek() and rewind().  The documentation  *)
(* leaves open where read(r, c) leaves the position and what seek() past   *)
(* the end does, and so does this module.                                  *)
(***************************************************************************)
EXTENDS Integers

CONSTANTS MaxRows,
          Nothing, End, Null   \* answers that are no row

VARIABLES rows,   \* rows of the result
          pos,    \* the row the next read() returns: tell()
          got     \* what the last call returned

cvars == <<rows, pos, got>>

Init == rows \in 0..MaxRows /\ pos = 0 /\ got = Nothing

Read ==
  \/ pos < rows  /\ got' = pos   /\ pos' = pos + 1 /\ UNCHANGED rows
  \/ pos >= rows /\ got' = End /\ UNCHANGED <<rows, pos>>

Field(r) ==
  /\ got' = IF r < rows THEN r ELSE Null
  /\ pos' \in IF r < rows THEN {pos, r, r + 1} ELSE {pos}
  /\ UNCHANGED rows

Seek(r) ==
  /\ pos' \in IF r < rows THEN {r} ELSE {r, pos}
  /\ got' = Nothing
  /\ UNCHANGED rows

Next == Read \/ \E r \in 0..MaxRows : Field(r) \/ Seek(r)

Spec == Init /\ [][Next]_cvars
=============================================================================
