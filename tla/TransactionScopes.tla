------------------------- MODULE TransactionScopes --------------------------
(***************************************************************************)
(* What nested transactions promise, with no server, driver or connection. *)
(* A stack of scopes, each remembering the work pending when it opened,    *)
(* holds back pending work; only closing the last scope makes it durable,  *)
(* all of it in one step.                                                  *)
(***************************************************************************)
EXTENDS Integers, Sequences

CONSTANT Work

VARIABLES stack,    \* for each open scope, the work it was opened on
          work,     \* work done and not yet durable
          durable   \* work that survives

svars == <<stack, work, durable>>

Init == stack = <<>> /\ work = {} /\ durable = {}

Open ==
  /\ stack' = Append(stack, work)
  /\ UNCHANGED <<work, durable>>

(* Outside any scope a write is durable at once.                           *)
Write(w) ==
  \/ stack # <<>> /\ work' = work \cup {w} /\ UNCHANGED <<stack, durable>>
  \/ stack = <<>> /\ durable' = durable \cup {w} /\ UNCHANGED <<stack, work>>

(* Closing an inner scope keeps its work for the enclosing one.            *)
Close ==
  /\ Len(stack) > 1
  /\ stack' = SubSeq(stack, 1, Len(stack) - 1)
  /\ UNCHANGED <<work, durable>>

Undo ==
  /\ Len(stack) > 1
  /\ work' = stack[Len(stack)]
  /\ stack' = SubSeq(stack, 1, Len(stack) - 1)
  /\ UNCHANGED durable

CommitAll ==
  /\ durable' = durable \cup work
  /\ stack' = <<>> /\ work' = {}

Abandon == stack' = <<>> /\ work' = {} /\ UNCHANGED durable

Next ==
  \/ Open \/ Close \/ Undo \/ CommitAll \/ Abandon
  \/ \E w \in Work : Write(w)

Spec == Init /\ [][Next]_svars
=============================================================================
