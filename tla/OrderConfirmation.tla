------------------------- MODULE OrderConfirmation -------------------------
(***************************************************************************)
(* What OrdersService.finalizePayment promises, without its requests, its  *)
(* payment rows or its gateway: an order is confirmed at most once, by one *)
(* payment, and everything a confirmation causes (stock commit, coupon     *)
(* redemption, loyalty points, the queued notification) happens in that    *)
(* same step and never again.  OrderPayments implements this module.       *)
(***************************************************************************)
EXTENDS Naturals

CONSTANTS Orders,       \* order ids
          WithCoupon,   \* the orders placed with a coupon (couponId set)
          Customers,    \* the orders placed by a logged-in customer (userId set)
          MaxPayments   \* payment ids are 1..MaxPayments

VARIABLES confirmedBy,  \* per order: 0, or the payment whose finalisation confirmed it
          ledger        \* per order: how often each side effect was applied

vars == <<confirmedBy, ledger>>

Untouched == [commit |-> 0, redeem |-> 0, loyalty |-> 0, notify |-> 0]

(* The side effects of one confirmation; loyalty only for money received. *)
Settled(o, paid) ==
    [commit  |-> 1,
     redeem  |-> IF o \in WithCoupon THEN 1 ELSE 0,
     loyalty |-> IF o \in Customers /\ paid THEN 1 ELSE 0,
     notify  |-> 1]

Init ==
    /\ confirmedBy = [o \in Orders |-> 0]
    /\ ledger = [o \in Orders |-> Untouched]

Confirm(o, p, paid) ==
    /\ confirmedBy[o] = 0
    /\ confirmedBy' = [confirmedBy EXCEPT ![o] = p]
    /\ ledger' = [ledger EXCEPT ![o] = Settled(o, paid)]

Next == \E o \in Orders, p \in 1..MaxPayments, paid \in BOOLEAN : Confirm(o, p, paid)

Spec == Init /\ [][Next]_vars
=============================================================================
