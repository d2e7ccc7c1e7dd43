-------------------------- MODULE MCOrderPayments --------------------------
(* Small instances of OrderPayments for TLC. *)
EXTENDS OrderPayments, TLC

CONSTANTS o1, o2, r1, r2, r3

OneOrder == {o1}
TwoOrders == {o1, o2}
TwoRequests == {r1, r2}
ThreeRequests == {r1, r2, r3}
RequestSymmetry == Permutations(Requests)
=============================================================================
