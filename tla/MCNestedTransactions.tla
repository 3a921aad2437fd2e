----------------------- MODULE MCNestedTransactions -------------------------
(* Small instances of NestedTransactions for TLC. *)
EXTENDS NestedTransactions

CONSTANTS a, b, w1, w2, w3

MCNames == {a, b}
Symmetry == Permutations({w1, w2, w3}) \cup Permutations({a, b})
=============================================================================
