---------------------------- MODULE ShipmentSync ----------------------------
(***************************************************************************)
(* shipping/shipping.service: pushing a confirmed order to Shiprocket,      *)
(* the AWB, the pickup, the cancellation, and the three ways tracking       *)
(* reaches the order: webhook, periodic poll, an administrator's refresh.   *)
(*                                                                         *)
(* A call is a slot with a program counter, as in OrderPayments: what it    *)
(* read may be old when it writes.  A parcel is what Shiprocket keeps for   *)
(* one order it was asked to create; its number also names the shipment     *)
(* row made for it, if that row was ever written.                           *)
(***************************************************************************)
EXTENDS StatusMap, FiniteSets, SequencesExt

CONSTANTS
    Orders,       \* order ids
    Slots,        \* calls in flight at once, the poller not counted
    Poller,       \* the slot of the polling timer
    MaxParcels,   \* bound: how many parcels Shiprocket is asked to create
    PollBatch,    \* take: 40 in the code
    Labels,       \* the labels couriers give their scans
    Follow,       \* external: which label can follow which (NEW before any)
    Unreachable,  \* parcels whose tracking Shiprocket always refuses
    AdminTargets, \* statuses an administrator sets
    MaxCalls,     \* bound on calls, those updates included; the poll is not counted
    MaxFailures   \* bound on calls that stop half way

ParcelIds == 1..MaxParcels
New == {"NEW"}     \* the label of a parcel no courier has scanned
AllSlots == Slots \cup {Poller}

ASSUME ShipmentAssumption ==
    /\ IsFiniteSet(Slots) /\ Poller \notin Slots
    /\ MaxParcels \in Nat /\ MaxCalls \in Nat /\ MaxFailures \in Nat
    /\ PollBatch \in Nat \ {0}
    /\ Follow \in [Labels \cup {New} -> SUBSET Labels]
    /\ AdminTargets \subseteq OrderStatus
    /\ \A l \in Labels : IsLabel(l)

VARIABLES
    order,      \* order[o]: its status
    parcel,     \* parcel[p]: external, what Shiprocket and the courier know
    parcels,    \* parcels asked for so far
    shipment,   \* shipment[p]: the Shipment row of parcel p
    rows,       \* the shipments in createdAt order
    synced,     \* the shipments in lastSyncedAt order
    events,     \* events[p]: how many ShipmentEvent rows there are per label
    slot,       \* calls in flight
    todo,       \* shipments the poller has still to refresh, read at its start
    rush,       \* history: rush[o]: most createShipment calls in flight at once for o
    touched,    \* history: orders whose status an administrator set
    calls, failures  \* bounded counters

vars == <<order, parcel, parcels, shipment, rows, synced, events, slot, todo,
          rush, touched, calls, failures>>

NoOrder == "none"
Parcel == [order : Orders \cup {NoOrder}, scans : Seq(Labels)]
Shipment == [status : ShipmentStatus, awb : BOOLEAN, pickup : BOOLEAN, cancelled : BOOLEAN]
NoShipment == [status |-> "LABEL_CREATED", awb |-> FALSE, pickup |-> FALSE, cancelled |-> FALSE]

Pcs == {"idle", "createRead", "createCall", "createTx", "awbRead", "awbCall", "pickupCall",
        "cancelCall", "cancelTx", "track", "apply", "setShipment", "addEvents", "setOrder"}

Slot == [pc : Pcs, order : Orders \cup {NoOrder}, parcel : 0..MaxParcels,
         status : OrderStatus,           \* the order's status when it was read
         pickup : BOOLEAN,               \* a pickup is wanted after the AWB
         label : SUBSET STRING, scans : SUBSET Labels, seen : SUBSET Labels]
Idle == [pc |-> "idle", order |-> NoOrder, parcel |-> 0, status |-> "PENDING",
         pickup |-> FALSE, label |-> {}, scans |-> {}, seen |-> {}]

Init ==
    /\ order = [o \in Orders |-> "CONFIRMED"]
    /\ parcel = [p \in ParcelIds |-> [order |-> NoOrder, scans |-> <<>>]]
    /\ parcels = 0
    /\ shipment = [p \in ParcelIds |-> NoShipment]
    /\ rows = <<>> /\ synced = <<>> /\ todo = <<>>
    /\ events = [p \in ParcelIds |-> [l \in Labels |-> 0]]
    /\ slot = [c \in AllSlots |-> Idle]
    /\ rush = [o \in Orders |-> 0] /\ touched = {}
    /\ calls = 0 /\ failures = 0

At(c, pc) == slot[c].pc = pc
Start(c, fields) == slot[c].pc = "idle" /\ slot' = [slot EXCEPT ![c] = fields]
(* A call from outside takes slot c. *)
Call(c, fields) == calls < MaxCalls /\ calls' = calls + 1 /\ Start(c, fields)
Goto(c, pc) == slot' = [slot EXCEPT ![c].pc = pc]
Done(c) == slot' = [slot EXCEPT ![c] = Idle]

Rows == ToSet(rows)
RowsOf(o) == SelectSeq(rows, LAMBDA p : parcel[p].order = o)

(* Writing lastSyncedAt moves the shipment to the end of the poll's order. *)
Sync(p) == synced' = Append(SelectSeq(synced, LAMBDA q : q # p), p)

-----------------------------------------------------------------------------
(* createShipment *)

Creating(o) == {c \in Slots : slot[c].order = o
                    /\ slot[c].pc \in {"createRead", "createCall", "createTx"}}

Most(m, n) == IF m >= n THEN m ELSE n

(* The order is read and refused when it is cancelled or not confirmed. *)
CreateShipment(c, o) ==
    /\ parcels + Cardinality({d \in Slots : slot[d].pc \in {"createRead", "createCall"}})
         < MaxParcels
    /\ order[o] \notin {"CANCELLED", "PENDING"}
    /\ Call(c, [Idle EXCEPT !.pc = "createRead", !.order = o, !.status = order[o]])
    /\ rush' = [rush EXCEPT ![o] = Most(@, Cardinality(Creating(o)) + 1)]
    /\ UNCHANGED <<order, parcel, parcels, shipment, rows, synced, events, todo, touched, failures>>

(* Mutant: only a shipment that has its AWB counts as there. *)
CreateRead_NeedsAwb(c) ==
    LET active == {p \in Rows : /\ parcel[p].order = slot[c].order
                                /\ ~shipment[p].cancelled /\ shipment[p].awb}
    IN  /\ At(c, "createRead")
        /\ IF active = {} THEN Goto(c, "createCall") ELSE Done(c)
        /\ UNCHANGED <<order, parcel, parcels, shipment, rows, synced, events, todo,
                       rush, touched, calls, failures>>

(* An active shipment is answered as it is; one without AWB may get it now. *)
CreateRead(c) ==
    LET active == {p \in Rows : parcel[p].order = slot[c].order /\ ~shipment[p].cancelled}
    IN  /\ At(c, "createRead")
        /\ \/ active = {} /\ Goto(c, "createCall")
           \/ active # {} /\ Done(c)
           \/ \E p \in active :
                /\ ~shipment[p].awb
                /\ slot' = [slot EXCEPT ![c].pc = "awbRead", ![c].parcel = p]
        /\ UNCHANGED <<order, parcel, parcels, shipment, rows, synced, events, todo,
                       rush, touched, calls, failures>>

(* External: Shiprocket creates the order and a parcel. *)
CreateCall(c) ==
    /\ At(c, "createCall")
    /\ parcels' = parcels + 1
    /\ parcel' = [parcel EXCEPT ![parcels + 1].order = slot[c].order]
    /\ slot' = [slot EXCEPT ![c].pc = "createTx", ![c].parcel = parcels + 1]
    /\ UNCHANGED <<order, shipment, rows, synced, events, todo, rush, touched, calls, failures>>

(* The row, which has its AWB if Shiprocket gave one at once, and the order's *)
(* move to PROCESSING, decided on the status read in the beginning.  The AWB  *)
(* and then the pickup follow as far as the options ask for them.             *)
CreateTx(c) ==
    LET p == slot[c].parcel
        bump == OrderRank(slot[c].status) < OrderRank("PROCESSING")
    IN  /\ At(c, "createTx")
        /\ rows' = Append(rows, p)
        /\ Sync(p)
        /\ order' = IF bump THEN [order EXCEPT ![slot[c].order] = "PROCESSING"] ELSE order
        /\ \E awb \in BOOLEAN :
             /\ shipment' = [shipment EXCEPT ![p].awb = awb]
             /\ \/ Done(c)
                \/ awb /\ Goto(c, "pickupCall")
                \/ ~awb /\ \E pickup \in BOOLEAN :
                     slot' = [slot EXCEPT ![c].pc = "awbRead", ![c].pickup = pickup]
        /\ UNCHANGED <<parcel, parcels, events, todo, rush, touched, calls, failures>>

-----------------------------------------------------------------------------
(* assignAwb, schedulePickup, cancel *)

AssignAwb(c, p) ==
    /\ p \in Rows
    /\ Call(c, [Idle EXCEPT !.pc = "awbRead", !.order = parcel[p].order, !.parcel = p])
    /\ UNCHANGED <<order, parcel, parcels, shipment, rows, synced, events, todo,
                   rush, touched, failures>>

AfterAwb(c) == IF slot[c].pickup THEN Goto(c, "pickupCall") ELSE Done(c)

AwbRead(c) ==
    /\ At(c, "awbRead")
    /\ IF shipment[slot[c].parcel].awb THEN AfterAwb(c) ELSE Goto(c, "awbCall")
    /\ UNCHANGED <<order, parcel, parcels, shipment, rows, synced, events, todo,
                   rush, touched, calls, failures>>

AwbWrite(c) ==
    /\ At(c, "awbCall")
    /\ shipment' = [shipment EXCEPT ![slot[c].parcel].awb = TRUE]
    /\ Sync(slot[c].parcel)
    /\ AfterAwb(c)
    /\ UNCHANGED <<order, parcel, parcels, rows, events, todo, rush, touched, calls, failures>>

(* No courier takes the parcel; createShipment swallows this error. *)
AwbRefused(c) ==
    /\ At(c, "awbCall")
    /\ Done(c)
    /\ UNCHANGED <<order, parcel, parcels, shipment, rows, synced, events, todo,
                   rush, touched, calls, failures>>

SchedulePickup(c, p) ==
    /\ p \in Rows
    /\ shipment[p].awb
    /\ Call(c, [Idle EXCEPT !.pc = "pickupCall", !.order = parcel[p].order, !.parcel = p])
    /\ UNCHANGED <<order, parcel, parcels, shipment, rows, synced, events, todo,
                   rush, touched, failures>>

PickupWrite(c) ==
    /\ At(c, "pickupCall")
    /\ shipment' = [shipment EXCEPT ![slot[c].parcel].pickup = TRUE]
    /\ Sync(slot[c].parcel)
    /\ Done(c)
    /\ UNCHANGED <<order, parcel, parcels, rows, events, todo, rush, touched, calls, failures>>

(* A shipment that is cancelled or delivered is left alone; Shiprocket is    *)
(* told first.  It refuses for a delivered parcel, but a refusal whose words *)
(* include "already" or "cancel" counts as done.                             *)
CancelShipment(c, p) ==
    /\ p \in Rows
    /\ ~shipment[p].cancelled
    /\ shipment[p].status # "DELIVERED"
    /\ Call(c, [Idle EXCEPT !.pc = "cancelCall", !.order = parcel[p].order, !.parcel = p])
    /\ UNCHANGED <<order, parcel, parcels, shipment, rows, synced, events, todo,
                   rush, touched, failures>>

Delivered(p) == \E i \in DOMAIN parcel[p].scans : MapStatus(parcel[p].scans[i]) = "DELIVERED"

CancelCall(c) ==
    /\ At(c, "cancelCall")
    /\ Goto(c, "cancelTx") \/ (Delivered(slot[c].parcel) /\ Done(c))
    /\ UNCHANGED <<order, parcel, parcels, shipment, rows, synced, events, todo,
                   rush, touched, calls, failures>>

(* Mutant: the shipment gets the order's word for it, not FAILED. *)
CancelTx_Cancelled(c) ==
    LET p == slot[c].parcel
    IN  /\ At(c, "cancelTx")
        /\ shipment' = [shipment EXCEPT ![p].cancelled = TRUE, ![p].status = "CANCELLED"]
        /\ Sync(p)
        /\ Done(c)
        /\ UNCHANGED <<order, parcel, parcels, rows, events, todo, rush, touched, calls, failures>>

CancelTx(c) ==
    LET p == slot[c].parcel
    IN  /\ At(c, "cancelTx")
        /\ shipment' = [shipment EXCEPT ![p].cancelled = TRUE, ![p].status = "FAILED"]
        /\ Sync(p)
        /\ Done(c)
        /\ UNCHANGED <<order, parcel, parcels, rows, events, todo, rush, touched, calls, failures>>

-----------------------------------------------------------------------------
(* Tracking *)

(* handleWebhook: one scan of parcel p is reported, with the scans up to it. *)
(* The shipment is the newest one that has the AWB or, when the body names   *)
(* the order, the newest one of that order.                                  *)
Webhook(c, p, i, namesOrder) ==
    LET matches == SelectSeq(RowsOf(parcel[p].order),
                             LAMBDA q : namesOrder \/ (q = p /\ shipment[q].awb))
    IN  /\ i \in DOMAIN parcel[p].scans
        /\ matches # <<>>
        /\ Call(c, [Idle EXCEPT !.pc = "apply", !.order = parcel[p].order,
                                 !.parcel = Last(matches), !.label = parcel[p].scans[i],
                                 !.scans = {parcel[p].scans[j] : j \in 1..i}])
        /\ UNCHANGED <<order, parcel, parcels, shipment, rows, synced, events, todo,
                       rush, touched, failures>>

(* refreshTracking, asked for by an administrator. *)
Refresh(c, p) ==
    /\ p \in Rows
    /\ Call(c, [Idle EXCEPT !.pc = "track", !.order = parcel[p].order, !.parcel = p])
    /\ UNCHANGED <<order, parcel, parcels, shipment, rows, synced, events, todo,
                   rush, touched, failures>>

(* Shiprocket answers with the parcel's scans; no scan means no status. *)
TrackAnswer(c) ==
    LET scans == parcel[slot[c].parcel].scans
    IN  /\ At(c, "track")
        /\ slot[c].parcel \notin Unreachable
        /\ slot' = [slot EXCEPT ![c].pc = "apply",
                                ![c].label = IF scans = <<>> THEN {} ELSE Last(scans),
                                ![c].scans = ToSet(scans)]
        /\ UNCHANGED <<order, parcel, parcels, shipment, rows, synced, events, todo,
                       rush, touched, calls, failures>>

(* The refresh fails: the administrator gets an error, the poll goes on. *)
TrackRefused(c) ==
    /\ At(c, "track")
    /\ slot[c].parcel \in Unreachable
    /\ Done(c)
    /\ UNCHANGED <<order, parcel, parcels, shipment, rows, synced, events, todo,
                   rush, touched, calls, failures>>

(* applyStatus reads the shipment, its events and the order's status, ...    *)
ApplyRead(c) ==
    LET p == slot[c].parcel
    IN  /\ At(c, "apply")
        /\ slot' = [slot EXCEPT ![c].pc = "setShipment", ![c].status = order[slot[c].order],
                                ![c].seen = {l \in Labels : events[p][l] > 0}]
        /\ UNCHANGED <<order, parcel, parcels, shipment, rows, synced, events, todo,
                       rush, touched, calls, failures>>

(* ... writes the shipment, whatever its status was, ...                     *)
SetShipment(c) ==
    LET p == slot[c].parcel
    IN  /\ At(c, "setShipment")
        /\ shipment' = [shipment EXCEPT ![p].status = MapStatus(slot[c].label)]
        /\ Sync(p)
        /\ Goto(c, "addEvents")
        /\ UNCHANGED <<order, parcel, parcels, rows, events, todo, rush, touched, calls, failures>>

(* ... adds the scans it has not seen, ...                                   *)
AddEvents(c) ==
    LET fresh == slot[c].scans \ slot[c].seen
    IN  /\ At(c, "addEvents")
        /\ events' = [events EXCEPT ![slot[c].parcel] =
                        [l \in Labels |-> IF l \in fresh THEN @[l] + 1 ELSE @[l]]]
        /\ slot' = [slot EXCEPT ![c].pc = "setOrder", ![c].scans = {}, ![c].seen = {}]
        /\ UNCHANGED <<order, parcel, parcels, shipment, rows, synced, todo,
                       rush, touched, calls, failures>>

(* ... and moves the order if that is forward from the status it read.       *)
Forward(from, to) == to # NoStatus /\ OrderRank(to) > OrderRank(from) /\ from # "CANCELLED"

SetOrder(c) ==
    LET to == OrderStatusFor(MapStatus(slot[c].label), slot[c].label)
    IN  /\ At(c, "setOrder")
        /\ order' = IF Forward(slot[c].status, to)
                    THEN [order EXCEPT ![slot[c].order] = to] ELSE order
        /\ Done(c)
        /\ UNCHANGED <<parcel, parcels, shipment, rows, synced, events, todo,
                       rush, touched, calls, failures>>

-----------------------------------------------------------------------------
(* The poll *)

(* Mutant: a failed attempt ends the polling too. *)
InFlight_FailedIsFinal(p) ==
    /\ ~shipment[p].cancelled
    /\ shipment[p].status \notin {"DELIVERED", "RTO", "FAILED"}
    /\ shipment[p].awb

InFlight(p) ==
    ~shipment[p].cancelled /\ shipment[p].status \notin {"DELIVERED", "RTO"} /\ shipment[p].awb

(* Every 45 minutes unless a poll is still running: the shipments in flight, *)
(* those that were synced longest ago first.                                 *)
PollBegin ==
    LET found == SelectSeq(synced, InFlight)
    IN  /\ todo = <<>> /\ At(Poller, "idle")
        /\ found # <<>>
        /\ todo' = SubSeq(found, 1, IF Len(found) < PollBatch THEN Len(found) ELSE PollBatch)
        /\ UNCHANGED <<order, parcel, parcels, shipment, rows, synced, events, slot,
                       rush, touched, calls, failures>>

(* Each is looked up by its id again. *)
PollNext ==
    /\ todo # <<>> /\ Head(todo) \in Rows
    /\ Start(Poller, [Idle EXCEPT !.pc = "track", !.order = parcel[Head(todo)].order,
                                  !.parcel = Head(todo)])
    /\ todo' = Tail(todo)
    /\ UNCHANGED <<order, parcel, parcels, shipment, rows, synced, events,
                   rush, touched, calls, failures>>

-----------------------------------------------------------------------------
(* Environment *)

(* External: the courier scans a parcel that Shiprocket has. *)
CourierScans(p, l) ==
    LET scans == parcel[p].scans
    IN  /\ p <= parcels
        /\ l \in Follow[IF scans = <<>> THEN New ELSE Last(scans)]
        /\ parcel' = [parcel EXCEPT ![p].scans = Append(scans, l)]
        /\ UNCHANGED <<order, parcels, shipment, rows, synced, events, slot, todo,
                       rush, touched, calls, failures>>

(* The write of adminSetStatus (OrderPayments has the whole of it). *)
AdminSetStatus(o, s) ==
    /\ calls < MaxCalls
    /\ calls' = calls + 1
    /\ order' = [order EXCEPT ![o] = s]
    /\ touched' = touched \cup {o}
    /\ UNCHANGED <<parcel, parcels, shipment, rows, synced, events, slot, todo,
                   rush, failures>>

(* A call ends at an await: Shiprocket or the database throws.  The webhook  *)
(* answers 200 all the same and is not repeated; the poll goes on.           *)
Stop(c) ==
    /\ slot[c].pc # "idle"
    /\ failures < MaxFailures
    /\ failures' = failures + 1
    /\ Done(c)
    /\ UNCHANGED <<order, parcel, parcels, shipment, rows, synced, events, todo,
                   rush, touched, calls>>

Create(c) == CreateRead(c) \/ CreateCall(c) \/ CreateTx(c)
Manage(c) == AwbRead(c) \/ AwbWrite(c) \/ AwbRefused(c) \/ PickupWrite(c) \/ CancelCall(c)
                 \/ CancelTx(c)
Apply(c) == ApplyRead(c) \/ SetShipment(c) \/ AddEvents(c) \/ SetOrder(c)
Continue(c) == Create(c) \/ Manage(c) \/ TrackAnswer(c) \/ TrackRefused(c) \/ Apply(c)

Arrive(c) ==
    \/ \E o \in Orders : CreateShipment(c, o)
    \/ \E p \in ParcelIds : AssignAwb(c, p) \/ SchedulePickup(c, p) \/ CancelShipment(c, p)
                              \/ Refresh(c, p)
    \/ \E p \in ParcelIds, namesOrder \in BOOLEAN :
         \E i \in DOMAIN parcel[p].scans : Webhook(c, p, i, namesOrder)

Poll == PollBegin \/ PollNext

Next ==
    \/ \E c \in Slots : Arrive(c)
    \/ \E c \in AllSlots : Continue(c) \/ Stop(c)
    \/ Poll
    \/ \E p \in ParcelIds, l \in Labels : CourierScans(p, l)
    \/ \E o \in Orders, s \in AdminTargets : AdminSetStatus(o, s)

Spec == Init /\ [][Next]_vars

(* Calls that were started go on, and the timer keeps firing. *)
Fairness == WF_vars(Poll) /\ \A c \in AllSlots : WF_vars(Continue(c))
FairSpec == Spec /\ Fairness

-----------------------------------------------------------------------------
(* Properties *)

(* Rows, slots and counters stay in their types; both orderings list each    *)
(* shipment once.                                                            *)
TypeOK ==
    /\ order \in [Orders -> OrderStatus]
    /\ \A p \in ParcelIds : parcel[p] \in Parcel
    /\ parcels \in 0..MaxParcels
    /\ shipment \in [ParcelIds -> Shipment]
    /\ Rows \subseteq 1..parcels /\ ToSet(synced) = Rows
    /\ Len(rows) = Cardinality(Rows) /\ Len(synced) = Cardinality(Rows)
    /\ \A c \in AllSlots : slot[c].pc \in Pcs /\ slot[c].status \in OrderStatus
    /\ ToSet(todo) \subseteq Rows
    /\ rush \in [Orders -> 0..Cardinality(Slots)] /\ touched \subseteq Orders

(* Scans reported to us of parcels of order o. *)
Reports(o) == UNION {ToSet(parcel[p].scans) : p \in {q \in 1..parcels : parcel[q].order = o}}

(* What a label says in plain words: an attempt in vain or a return is no    *)
(* delivery, whatever else the label holds, nor is a parcel on its way.      *)
InVain == {"UNDELIVERED", "NOT DELIVERED", "UNDELIVERABLE"}
Says(l, status) ==
    CASE status = "SHIPPED" ->
            /\ l \cap {"PICKED UP", "PICKED_UP", "PICKUP COMPLETE", "TRANSIT", "REACHED",
                       "MISROUTED", "SHIPPED", "4", "5", "6", "17", "18", "42", "43"} # {}
            /\ l \cap (InVain \cup {"RTO", "DELIVERED", "OUT FOR DELIVERY"}) = {}
      [] status = "OUT_FOR_DELIVERY" ->
            /\ l \cap {"OUT FOR DELIVERY", "OUT_FOR_DELIVERY", "19"} # {}
            /\ l \cap (InVain \cup {"RTO"}) = {}
      [] status = "DELIVERED" ->
            l \cap {"DELIVERED", "7"} # {} /\ l \cap (InVain \cup {"RTO"}) = {}
      [] status = "RETURNED" -> l \cap {"RTO", "9", "15", "16"} # {} /\ l \cap InVain = {}
      [] OTHER -> TRUE

(* An order reads SHIPPED, OUT_FOR_DELIVERY, DELIVERED or RETURNED only      *)
(* after a courier said so of one of its parcels: stale, repeated and        *)
(* misdirected reports are applied, yet an undelivered or returned parcel    *)
(* never counts as delivered.                                                *)
StatusIsReported ==
    \A o \in Orders \ touched :
        order[o] \in {"SHIPPED", "OUT_FOR_DELIVERY", "DELIVERED", "RETURNED"}
            => \E l \in Reports(o) : Says(l, order[o])

(* createShipment may be repeated, after cancellations too: an order never   *)
(* has more active shipments than calls of it were in flight at once, so one *)
(* if no two overlapped.                                                     *)
OneActiveShipment ==
    \A o \in Orders :
        Cardinality({p \in Rows : parcel[p].order = o /\ ~shipment[p].cancelled}) <= rush[o]

(* Shipments in flight whose tracking fails hold the head of the poll's      *)
(* order: they are never synced.  As many as a batch takes starve the rest.  *)
BatchIsHeld == Cardinality({q \in Rows \cap Unreachable : InFlight(q)}) >= PollBatch

(* The poll is the "backstop for the webhook": a parcel the courier has      *)
(* delivered is seen as delivered in the end, even if every webhook is lost  *)
(* or an old one set the shipment back, and though parcels in flight share   *)
(* its batch with parcels whose tracking fails; unless the shipment is       *)
(* cancelled or parcels of that kind fill the batch.                         *)
DeliveryIsSeen ==
    \A p \in ParcelIds \ Unreachable :
        (Delivered(p) /\ p \in Rows /\ shipment[p].awb)
            ~> (shipment[p].status = "DELIVERED" \/ shipment[p].cancelled \/ BatchIsHeld)

(* "refresh in-flight shipments periodically": the poll comes to every        *)
(* shipment in flight.  A batch full of shipments whose tracking fails keeps  *)
(* it from the others.                                                        *)
PollReachesAll ==
    \A p \in ParcelIds :
        (p \in Rows /\ InFlight(p)) ~> (slot[Poller].parcel = p \/ ~InFlight(p))

(* docs/SHIPROCKET.md: "Order status is advanced forward-only from shipment  *)
(* events".  Two reports applied at the same time break it.                  *)
ForwardOnly ==
    [][\A o \in Orders : OrderRank(order'[o]) >= OrderRank(order[o])]_vars
=============================================================================
