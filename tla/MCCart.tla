------------------------------ MODULE MCCart ------------------------------
(* Small instances of Cart for TLC. *)
EXTENDS Cart, TLC

CONSTANTS b1, b2, v1, v2, c1, c2

TwoInStock == [v \in Variants |-> 2]
CallSymmetry == Permutations(Calls)
=============================================================================
