-------------------------- MODULE MCShipmentSync ---------------------------
(* Small instances of ShipmentSync for TLC. *)
EXTENDS ShipmentSync, TLC

CONSTANTS o1, o2, o3, c1, c2

Transit == {"TRANSIT"}
Handed == {"DELIVERED"}
Attempted == {"UNDELIVERED", "DELIVERED"}   \* "UNDELIVERED" contains "DELIVERED"
Returned == {"RTO", "DELIVERED"}            \* "RTO DELIVERED"
ByCode == {"7"}                             \* no text, only the numeric status

(* A parcel moves, may be attempted in vain, and is delivered or comes back. *)
SomeLabels == {Transit, ByCode, Attempted, Returned}
Routes == New :> {Transit} @@ Transit :> {ByCode, Attempted} @@ Attempted :> {ByCode, Returned}
          @@ ByCode :> {} @@ Returned :> {}

(* An attempt in vain, then delivered. *)
AttemptLabels == {Attempted, Handed}
SecondAttempt == New :> {Attempted} @@ Attempted :> {Handed} @@ Handed :> {}

(* Straight to the customer. *)
TwoLabels == {Transit, Handed}
Straight == New :> {Transit} @@ Transit :> {Handed} @@ Handed :> {}
SlotSymmetry == Permutations(Slots)

(* Every order has its shipment, with an AWB; none was synced since.  The one *)
(* that is at the head is the one whose tracking fails.                      *)
Underway ==
    /\ parcel = [p \in ParcelIds |-> [order |-> SetToSeq(Orders)[p], scans |-> <<>>]]
    /\ order = [o \in Orders |-> "PROCESSING"]
    /\ parcels = MaxParcels
    /\ shipment = [p \in ParcelIds |-> [NoShipment EXCEPT !.awb = TRUE]]
    /\ rows = [p \in ParcelIds |-> p]
    /\ synced = rows
    /\ todo = <<>>
    /\ events = [p \in ParcelIds |-> [l \in Labels |-> 0]]
    /\ slot = [c \in AllSlots |-> Idle]
    /\ rush = [o \in Orders |-> 0] /\ touched = {}
    /\ calls = 0 /\ failures = 0

(* From outside comes one call, or else the poll stops once half way. *)
OneDisturbance == Next /\ calls' + failures' <= 1
UnderwaySpec == Underway /\ [][OneDisturbance]_vars /\ Fairness
=============================================================================
