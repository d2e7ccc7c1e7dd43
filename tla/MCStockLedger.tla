--------------------------- MODULE MCStockLedger ---------------------------
(* Small instances of StockLedger for TLC. *)
EXTENDS StockLedger, TLC

CONSTANTS o1, o2, v1, v2, a1

L(v, q) == [variant |-> v, quantity |-> q]

(* Two orders that book the same two variants in opposite order. *)
CrossingLines == o1 :> <<L(v1, 1), L(v2, 1)>> @@ o2 :> <<L(v2, 2), L(v1, 1)>>
OneOrThree == v1 :> 1 @@ v2 :> 3
MoreOrLess == {1, -1}
=============================================================================
