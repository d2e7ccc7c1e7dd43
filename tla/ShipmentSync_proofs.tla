------------------------ MODULE ShipmentSync_proofs ------------------------
(***************************************************************************)
(* Proofs about ShipmentSync, for any number of orders, calls, parcels and *)
(* failures: createShipment never leaves an order with more active         *)
(* shipments than calls of it were in flight at once, and the statuses     *)
(* that couriers decide come from what they said of the order's parcels.   *)
(***************************************************************************)
EXTENDS ShipmentSync, SumTheorems, FiniteSetTheorems, TLAPS

CreatePcs == {"createRead", "createCall", "createTx"}

(* The active shipments of an order, and the calls that may still ask for a  *)
(* parcel.                                                                   *)
Active(o) == {p \in Rows : parcel[p].order = o /\ ~shipment[p].cancelled}
Asking == {d \in Slots : slot[d].pc \in {"createRead", "createCall"}}

(* As much of the types as the argument needs.                               *)
SlotsShaped ==
    /\ DOMAIN slot = AllSlots
    /\ \A c \in AllSlots : {"pc", "order", "parcel"} \subseteq DOMAIN slot[c]
ParcelsShaped ==
    DOMAIN parcel = ParcelIds /\ \A p \in ParcelIds : "order" \in DOMAIN parcel[p]
ShipmentsShaped ==
    DOMAIN shipment = ParcelIds /\ \A p \in ParcelIds : "cancelled" \in DOMAIN shipment[p]
RowsShaped == parcels \in Nat /\ rows \in Seq(1..parcels)

Shapes ==
    /\ SlotsShaped /\ ParcelsShaped /\ ShipmentsShaped /\ RowsShaped
    /\ slot[Poller].pc \notin CreatePcs

(* The parcels asked for, and those that will be, have an id. *)
Room == parcels + Cardinality(Asking) <= MaxParcels

(* The calls for an order are as many as ever were in flight at once, or     *)
(* fewer; and so are its active shipments together with the calls that have  *)
(* looked and found none.  The parcel a call was given is its order's.       *)
Looked(o) ==
    {c \in Slots : slot[c].order = o /\ slot[c].pc \in {"createCall", "createTx"}}
CountedOK ==
    /\ rush \in [Orders -> Nat]
    /\ \A o \in Orders :
          /\ Cardinality(Creating(o)) <= rush[o]
          /\ Cardinality(Active(o)) + Cardinality(Looked(o)) <= rush[o]
GivenOK ==
    \A c \in Slots :
        slot[c].pc = "createTx" =>
            slot[c].parcel \in 1..parcels /\ parcel[slot[c].parcel].order = slot[c].order

IInv == Shapes /\ Room /\ CountedOK /\ GivenOK

-----------------------------------------------------------------------------
LEMMA RoomIsEnough ==
    ASSUME ShipmentAssumption, Shapes, Room
    PROVE  parcels \in 0..MaxParcels /\ IsFiniteSet(Asking) /\ Cardinality(Asking) \in Nat
           /\ 1..parcels \subseteq ParcelIds
  <1>1. IsFiniteSet(Asking)
    BY FS_Subset DEF Asking, ShipmentAssumption
  <1>2. Cardinality(Asking) \in Nat
    BY <1>1, FS_CardinalityType
  <1> QED
    BY <1>1, <1>2 DEF Room, Shapes, RowsShaped, ShipmentAssumption, ParcelIds

LEMMA RowsAreParcels ==
    ASSUME Shapes PROVE Rows \subseteq 1..parcels
  BY DEF Shapes, RowsShaped, Rows, ToSet

LEMMA Sizes ==
    ASSUME ShipmentAssumption, Shapes, NEW o
    PROVE  /\ IsFiniteSet(Creating(o)) /\ Cardinality(Creating(o)) \in Nat
           /\ IsFiniteSet(Looked(o)) /\ Cardinality(Looked(o)) \in Nat
           /\ IsFiniteSet(Active(o)) /\ Cardinality(Active(o)) \in Nat
  <1>1. IsFiniteSet(Creating(o)) /\ IsFiniteSet(Looked(o))
    <2>1. IsFiniteSet(Slots) /\ Creating(o) \subseteq Slots /\ Looked(o) \subseteq Slots
      BY DEF ShipmentAssumption, Creating, Looked
    <2> QED
      BY <2>1, FS_Subset
  <1>2. IsFiniteSet(Active(o))
    <2>1. IsFiniteSet(1..parcels) /\ Active(o) \subseteq 1..parcels
      BY RowsAreParcels, FS_Interval DEF Active, Shapes, RowsShaped
    <2> QED
      BY <2>1, FS_Subset
  <1> QED
    BY <1>1, <1>2, FS_CardinalityType

LEMMA OneMore ==
    ASSUME NEW S, NEW x, IsFiniteSet(S)
    PROVE  IsFiniteSet(S \cup {x}) /\ Cardinality(S \cup {x}) <= Cardinality(S) + 1
  <1>1. Cardinality(S) \in Nat
    BY FS_CardinalityType
  <1>2. CASE x \in S
    <2>1. PICK T : T = S \cup {x}
      OBVIOUS
    <2>2. T = S
      BY <1>2, <2>1
    <2>3. IsFiniteSet(T) /\ Cardinality(T) <= Cardinality(S) + 1
      BY <1>1, <2>2
    <2> QED
      BY <2>1, <2>3
  <1>3. CASE x \notin S
    <2>1. IsFiniteSet(S \cup {x}) /\ Cardinality(S \cup {x}) = Cardinality(S) + 1
      BY <1>3, FS_AddElement
    <2> QED
      BY <1>1, <2>1
  <1> QED
    BY <1>2, <1>3

(* Fewer shipments and fewer calls are no more than before. *)
LEMMA FewerCounted ==
    ASSUME ShipmentAssumption, Shapes, CountedOK, UNCHANGED rush,
           \A o \in Orders : /\ Active(o)' \subseteq Active(o) /\ Creating(o)' \subseteq Creating(o)
                             /\ Looked(o)' \subseteq Looked(o)
    PROVE  CountedOK'
  <1> SUFFICES ASSUME NEW o \in Orders
               PROVE  /\ Cardinality(Creating(o)') <= rush[o]
                      /\ Cardinality(Active(o)') + Cardinality(Looked(o)') <= rush[o]
    BY DEF CountedOK
  <1>1. /\ Cardinality(Creating(o)') <= Cardinality(Creating(o)) /\ Cardinality(Creating(o)') \in Nat
        /\ Cardinality(Active(o)') <= Cardinality(Active(o)) /\ Cardinality(Active(o)') \in Nat
        /\ Cardinality(Looked(o)') <= Cardinality(Looked(o)) /\ Cardinality(Looked(o)') \in Nat
    BY Sizes, FS_Subset, FS_CardinalityType
  <1>2. /\ rush[o] \in Nat /\ Cardinality(Creating(o)) <= rush[o]
        /\ Cardinality(Active(o)) + Cardinality(Looked(o)) <= rush[o]
    BY DEF CountedOK
  <1> QED
    BY <1>1, <1>2, Sizes

(* A step that creates nothing: calls only leave the creating stages, and    *)
(* shipments are only cancelled.                                             *)
Quiet ==
    /\ UNCHANGED <<parcels, rows, rush>>
    /\ \A p \in ParcelIds : /\ parcel'[p].order = parcel[p].order
                            /\ shipment[p].cancelled => shipment'[p].cancelled
    /\ \A d \in AllSlots : slot'[d].pc \in CreatePcs =>
          /\ slot'[d].pc = slot[d].pc /\ slot'[d].order = slot[d].order
          /\ slot'[d].parcel = slot[d].parcel

LEMMA QuietKeeps ==
    ASSUME ShipmentAssumption, IInv, Shapes', Quiet
    PROVE  IInv'
  <1>1. Rows' = Rows /\ Rows \subseteq ParcelIds
    BY RoomIsEnough, RowsAreParcels DEF IInv, Quiet, Rows
  <1>2. \A o : (Active(o))' \subseteq Active(o)
    BY <1>1 DEF Quiet, Active
  <1>3. Room'
    <2>1. Asking' \subseteq Asking
      BY DEF Quiet, Asking, CreatePcs, AllSlots
    <2>2. Cardinality(Asking') <= Cardinality(Asking) /\ Cardinality(Asking') \in Nat
      BY <2>1, RoomIsEnough, FS_Subset, FS_CardinalityType DEF IInv
    <2> QED
      BY <2>2, RoomIsEnough DEF IInv, Quiet, Room, ShipmentAssumption
  <1>4. CountedOK'
    <2>1. \A o : Creating(o)' \subseteq Creating(o) /\ Looked(o)' \subseteq Looked(o)
      BY DEF Quiet, Creating, Looked, CreatePcs, AllSlots
    <2> QED
      BY <1>2, <2>1, FewerCounted DEF IInv, Quiet
  <1>6. GivenOK'
    BY RoomIsEnough DEF IInv, GivenOK, Quiet, CreatePcs, AllSlots
  <1> QED
    BY <1>3, <1>4, <1>6 DEF IInv

(* What a step leaves alone when it only moves calls and their data. *)
LEMMA SlotStep ==
    ASSUME Shapes, NEW c \in AllSlots, NEW s, slot' = [slot EXCEPT ![c] = s],
           {"pc", "order", "parcel"} \subseteq DOMAIN s, s.pc \notin CreatePcs
    PROVE  /\ SlotsShaped' /\ slot'[Poller].pc \notin CreatePcs /\ slot'[c].pc \notin CreatePcs
           /\ \A d \in AllSlots : d # c => slot'[d] = slot[d]
           /\ \A d \in AllSlots : slot'[d].pc \in CreatePcs => slot'[d] = slot[d]
  BY DEF Shapes, SlotsShaped, AllSlots

LEMMA GotoStep ==
    ASSUME Shapes, NEW c \in AllSlots, NEW pc, Goto(c, pc), pc \notin CreatePcs
    PROVE  /\ SlotsShaped' /\ slot'[Poller].pc \notin CreatePcs /\ slot'[c].pc \notin CreatePcs
           /\ \A d \in AllSlots : d # c => slot'[d] = slot[d]
           /\ \A d \in AllSlots : slot'[d].pc \in CreatePcs => slot'[d] = slot[d]
  BY DEF Shapes, SlotsShaped, AllSlots, Goto

LEMMA IdleStep ==
    ASSUME Shapes, NEW c \in AllSlots, Done(c)
    PROVE  /\ SlotsShaped' /\ slot'[Poller].pc \notin CreatePcs /\ slot'[c].pc \notin CreatePcs
           /\ \A d \in AllSlots : d # c => slot'[d] = slot[d]
           /\ \A d \in AllSlots : slot'[d].pc \in CreatePcs => slot'[d] = slot[d]
  BY SlotStep DEF Done, Idle, CreatePcs

LEMMA StartStep ==
    ASSUME Shapes, NEW c \in AllSlots, NEW s, Start(c, s),
           {"pc", "order", "parcel"} \subseteq DOMAIN s, s.pc \notin CreatePcs
    PROVE  /\ SlotsShaped' /\ slot'[Poller].pc \notin CreatePcs /\ slot'[c].pc \notin CreatePcs
           /\ \A d \in AllSlots : d # c => slot'[d] = slot[d]
           /\ \A d \in AllSlots : slot'[d].pc \in CreatePcs => slot'[d] = slot[d]
  BY SlotStep DEF Start

(* Steps that leave parcels, rows and shipments as they are. *)
Rest == <<parcel, parcels, shipment, rows, rush>>

LEMMA RestIsQuiet ==
    ASSUME Shapes, UNCHANGED Rest, SlotsShaped', slot'[Poller].pc \notin CreatePcs,
           \A d \in AllSlots : slot'[d].pc \in CreatePcs => slot'[d] = slot[d]
    PROVE  Shapes' /\ Quiet
  <1>1. Shapes'
    BY DEF Rest, Shapes, ParcelsShaped, ShipmentsShaped, RowsShaped
  <1>2. Quiet
    BY DEF Rest, Quiet
  <1> QED
    BY <1>1, <1>2

LEMMA Arriving ==
    ASSUME Shapes, NEW c \in Slots, NEW p \in ParcelIds,
           \/ AssignAwb(c, p) \/ SchedulePickup(c, p) \/ CancelShipment(c, p) \/ Refresh(c, p)
           \/ \E namesOrder \in BOOLEAN, i \in DOMAIN parcel[p].scans : Webhook(c, p, i, namesOrder)
    PROVE  Shapes' /\ Quiet
  <1>1. UNCHANGED Rest
    BY DEF Rest, AssignAwb, SchedulePickup, CancelShipment, Refresh, Webhook
  <1>2. /\ Start(c, slot'[c])
        /\ {"pc", "order", "parcel"} \subseteq DOMAIN slot'[c] /\ slot'[c].pc \notin CreatePcs
    <2>1. CASE AssignAwb(c, p)
      BY <2>1 DEF AssignAwb, Call, Start, Idle, CreatePcs, Shapes, SlotsShaped, AllSlots
    <2>2. CASE SchedulePickup(c, p)
      BY <2>2 DEF SchedulePickup, Call, Start, Idle, CreatePcs, Shapes, SlotsShaped, AllSlots
    <2>3. CASE CancelShipment(c, p)
      BY <2>3 DEF CancelShipment, Call, Start, Idle, CreatePcs, Shapes, SlotsShaped, AllSlots
    <2>4. CASE Refresh(c, p)
      BY <2>4 DEF Refresh, Call, Start, Idle, CreatePcs, Shapes, SlotsShaped, AllSlots
    <2>5. CASE \E namesOrder \in BOOLEAN, i \in DOMAIN parcel[p].scans : Webhook(c, p, i, namesOrder)
      <3>1. \E q, l, scans :
               Start(c, [Idle EXCEPT !.pc = "apply", !.order = parcel[p].order, !.parcel = q,
                                     !.label = l, !.scans = scans])
        BY <2>5, Zenon DEF Webhook, Call
      <3> QED
        BY <3>1 DEF Start, Idle, CreatePcs, Shapes, SlotsShaped, AllSlots
    <2> QED
      BY <2>1, <2>2, <2>3, <2>4, <2>5
  <1> QED
    BY <1>1, <1>2, StartStep, RestIsQuiet DEF AllSlots

LEMMA Reading ==
    ASSUME Shapes, NEW c \in AllSlots,
           AwbRead(c) \/ AwbRefused(c) \/ CancelCall(c) \/ TrackAnswer(c) \/ TrackRefused(c)
           \/ ApplyRead(c) \/ AddEvents(c) \/ SetOrder(c) \/ Stop(c)
    PROVE  Shapes' /\ Quiet
  <1>1. UNCHANGED Rest
    BY DEF Rest, AwbRead, AwbRefused, CancelCall, TrackAnswer, TrackRefused, ApplyRead, AddEvents,
           SetOrder, Stop
  <1>2. CASE Done(c)
    BY <1>1, <1>2, IdleStep, RestIsQuiet
  <1>3. CASE \E pc : Goto(c, pc) /\ pc \notin CreatePcs
    BY <1>1, <1>3, GotoStep, RestIsQuiet
  <1>4. CASE TrackAnswer(c) \/ ApplyRead(c) \/ AddEvents(c)
    <2>1. /\ SlotsShaped' /\ slot'[Poller].pc \notin CreatePcs
          /\ \A d \in AllSlots : slot'[d].pc \in CreatePcs => slot'[d] = slot[d]
      BY <1>4 DEF TrackAnswer, ApplyRead, AddEvents, Shapes, SlotsShaped, CreatePcs, AllSlots
    <2> QED
      BY <1>1, <2>1, RestIsQuiet
  <1> QED
    BY <1>2, <1>3, <1>4 DEF AwbRead, AfterAwb, AwbRefused, CancelCall, TrackRefused, SetOrder, Stop,
           CreatePcs

LEMMA Polling ==
    ASSUME Shapes, Poll
    PROVE  Shapes' /\ Quiet
  <1>1. UNCHANGED Rest
    BY DEF Rest, Poll, PollBegin, PollNext
  <1>2. CASE PollBegin
    BY <1>1, <1>2, RestIsQuiet DEF PollBegin, Shapes, SlotsShaped
  <1>3. CASE PollNext
    <2>1. /\ Start(Poller, slot'[Poller])
          /\ {"pc", "order", "parcel"} \subseteq DOMAIN slot'[Poller]
          /\ slot'[Poller].pc \notin CreatePcs
      BY <1>3 DEF PollNext, Start, Idle, CreatePcs, Shapes, SlotsShaped, AllSlots
    <2> QED
      BY <1>1, <2>1, StartStep, RestIsQuiet DEF AllSlots
  <1> QED
    BY <1>2, <1>3 DEF Poll

(* Steps that write a shipment: its AWB, pickup or status, or that it is      *)
(* cancelled.                                                                 *)
LEMMA WritingShipment ==
    ASSUME ShipmentAssumption, Shapes, NEW c \in AllSlots,
           AwbWrite(c) \/ PickupWrite(c) \/ CancelTx(c) \/ SetShipment(c)
    PROVE  Shapes' /\ Quiet
  <1>1. UNCHANGED <<parcel, parcels, rows, rush>>
    BY DEF AwbWrite, PickupWrite, CancelTx, SetShipment
  <1>2. /\ ShipmentsShaped'
        /\ \A p \in ParcelIds : shipment[p].cancelled => shipment'[p].cancelled
    BY DEF AwbWrite, PickupWrite, CancelTx, SetShipment, Shapes, ShipmentsShaped
  <1>3. /\ SlotsShaped' /\ slot'[Poller].pc \notin CreatePcs
        /\ \A d \in AllSlots : slot'[d].pc \in CreatePcs => slot'[d] = slot[d]
    <2>1. Done(c) \/ (\E pc : Goto(c, pc) /\ pc \notin CreatePcs)
      BY DEF AwbWrite, AfterAwb, PickupWrite, CancelTx, SetShipment, CreatePcs
    <2> QED
      BY <2>1, IdleStep, GotoStep
  <1> QED
    BY <1>1, <1>2, <1>3 DEF Quiet, Shapes, ParcelsShaped, RowsShaped

LEMMA Elsewhere ==
    ASSUME Shapes,
           \/ \E p \in ParcelIds, l \in Labels : CourierScans(p, l)
           \/ \E o \in Orders, s \in AdminTargets : AdminSetStatus(o, s)
           \/ UNCHANGED vars
    PROVE  Shapes' /\ Quiet
  <1>1. UNCHANGED <<parcels, shipment, rows, rush, slot>>
    BY DEF CourierScans, AdminSetStatus, vars
  <1>2. ParcelsShaped' /\ \A p \in ParcelIds : parcel'[p].order = parcel[p].order
    BY DEF CourierScans, AdminSetStatus, vars, Shapes, ParcelsShaped
  <1> QED
    BY <1>1, <1>2 DEF Quiet, Shapes, SlotsShaped, ShipmentsShaped, RowsShaped

-----------------------------------------------------------------------------
(* The steps of createShipment *)

LEMMA CreateShipmentKeeps ==
    ASSUME ShipmentAssumption, IInv, NEW c \in Slots, NEW o \in Orders, CreateShipment(c, o)
    PROVE  IInv'
  <1>1. /\ UNCHANGED <<parcel, parcels, shipment, rows>>
        /\ slot[c].pc = "idle" /\ DOMAIN slot' = AllSlots
        /\ \A d \in AllSlots : d # c => slot'[d] = slot[d]
        /\ slot'[c].pc = "createRead" /\ slot'[c].order = o
        /\ {"pc", "order", "parcel"} \subseteq DOMAIN slot'[c]
    BY DEF CreateShipment, Call, Start, Idle, IInv, Shapes, SlotsShaped, AllSlots
  <1>2. Shapes'
    BY <1>1 DEF IInv, Shapes, SlotsShaped, ParcelsShaped, ShipmentsShaped, RowsShaped, AllSlots,
             ShipmentAssumption
  <1>3. Rows' = Rows /\ \A x : (Active(x))' = Active(x)
    BY <1>1 DEF Rows, Active
  <1>4. Room'
    <2>1. Asking' = Asking \cup {c} /\ c \notin Asking
      BY <1>1 DEF Asking, AllSlots
    <2>2. Cardinality(Asking') = Cardinality(Asking) + 1
      BY <2>1, RoomIsEnough, FS_AddElement DEF IInv
    <2>3. parcels + Cardinality(Asking) < MaxParcels
      BY DEF CreateShipment, Asking
    <2> QED
      BY <1>1, <2>2, <2>3, RoomIsEnough DEF IInv, Room, ShipmentAssumption
  <1>5. CountedOK'
    <2>1. /\ Creating(o)' = Creating(o) \cup {c} /\ c \notin Creating(o)
          /\ \A x : x # o => Creating(x)' = Creating(x)
          /\ \A x : Looked(x)' = Looked(x)
      BY <1>1 DEF Creating, Looked, AllSlots
    <2>2. Cardinality(Creating(o)') = Cardinality(Creating(o)) + 1
      BY <2>1, Sizes, FS_AddElement DEF IInv
    <2>3. PICK n : n = Cardinality(Creating(o)) + 1
      OBVIOUS
    <2>4. /\ rush' = [rush EXCEPT ![o] = Most(@, n)] /\ n \in Nat /\ rush \in [Orders -> Nat]
      BY <2>3, Sizes DEF CreateShipment, IInv, CountedOK
    <2>5. rush' \in [Orders -> Nat] /\ rush'[o] >= n /\ \A x \in Orders : rush'[x] >= rush[x]
      BY <2>4 DEF Most
    <2> SUFFICES ASSUME NEW x \in Orders
                 PROVE  /\ Cardinality(Creating(x)') <= rush'[x]
                        /\ Cardinality(Active(x)') + Cardinality(Looked(x)') <= rush'[x]
      BY <2>5 DEF CountedOK
    <2>6. /\ rush[x] \in Nat /\ rush'[x] \in Nat /\ Cardinality(Creating(x)) <= rush[x]
          /\ Cardinality(Active(x)) + Cardinality(Looked(x)) <= rush[x]
      BY <2>4, <2>5 DEF IInv, CountedOK
    <2>7. Active(x)' = Active(x) /\ Looked(x)' = Looked(x)
      BY <1>3, <2>1
    <2>8. Cardinality(Creating(x)') <= rush'[x]
      <3>1. CASE x = o
        BY <2>2, <2>3, <2>4, <2>5, <3>1
      <3>2. CASE x # o
        BY <2>1, <2>5, <2>6, <3>2, Sizes DEF IInv
      <3> QED
        BY <3>1, <3>2
    <2> QED
      BY <2>5, <2>6, <2>7, <2>8, Sizes DEF IInv
  <1>6. GivenOK'
    BY <1>1 DEF IInv, GivenOK, AllSlots
  <1> QED
    BY <1>2, <1>4, <1>5, <1>6 DEF IInv

LEMMA CreateReadKeeps ==
    ASSUME ShipmentAssumption, IInv, NEW c \in AllSlots, CreateRead(c)
    PROVE  IInv'
  <1>1. UNCHANGED <<parcel, parcels, shipment, rows, rush>> /\ c \in Slots
    BY DEF CreateRead, At, IInv, Shapes, CreatePcs, AllSlots
  <1>2. CASE slot'[c].pc \notin CreatePcs
    <2>1. /\ SlotsShaped' /\ slot'[Poller].pc \notin CreatePcs
          /\ \A d \in AllSlots : slot'[d].pc \in CreatePcs => slot'[d] = slot[d]
      <3>1. CASE Done(c)
        BY <3>1, IdleStep DEF IInv
      <3>2. CASE \E p : slot' = [slot EXCEPT ![c].pc = "awbRead", ![c].parcel = p]
        BY <3>2 DEF IInv, Shapes, SlotsShaped, CreatePcs, AllSlots
      <3>3. CASE Goto(c, "createCall")
        BY <1>2, <3>3 DEF Goto, IInv, Shapes, SlotsShaped, CreatePcs
      <3> QED
        BY <3>1, <3>2, <3>3 DEF CreateRead
    <2> QED
      BY <1>1, <2>1, RestIsQuiet, QuietKeeps DEF IInv, Rest
  <1>3. CASE slot'[c].pc \in CreatePcs
    <2>1. Active(slot[c].order) = {} /\ Goto(c, "createCall") /\ slot[c].pc = "createRead"
      BY <1>3 DEF CreateRead, At, Done, Idle, IInv, Shapes, SlotsShaped, CreatePcs, Active
    <2>2. /\ DOMAIN slot' = AllSlots /\ \A d \in AllSlots : d # c => slot'[d] = slot[d]
          /\ slot'[c].pc = "createCall" /\ slot'[c].order = slot[c].order
          /\ {"pc", "order", "parcel"} \subseteq DOMAIN slot'[c]
      BY <2>1 DEF Goto, IInv, Shapes, SlotsShaped
    <2>3. Shapes'
      BY <1>1, <2>2 DEF IInv, Shapes, SlotsShaped, ParcelsShaped, ShipmentsShaped, RowsShaped, AllSlots,
               ShipmentAssumption
    <2>4. Rows' = Rows /\ \A x : (Active(x))' = Active(x)
      BY <1>1 DEF Rows, Active
    <2>5. Room'
      <3>1. Asking' = Asking
        BY <2>1, <2>2 DEF Asking, AllSlots
      <3> QED
        BY <1>1, <3>1 DEF IInv, Room
    <2>6. CountedOK'
      <3> SUFFICES ASSUME NEW x \in Orders
                   PROVE  /\ Cardinality(Creating(x)') <= rush[x]
                          /\ Cardinality(Active(x)') + Cardinality(Looked(x)') <= rush[x]
        BY <1>1 DEF IInv, CountedOK
      <3>1. Creating(x)' = Creating(x) /\ Active(x)' = Active(x)
        BY <1>1, <2>1, <2>2, <2>4 DEF Creating, AllSlots
      <3>2. /\ rush[x] \in Nat /\ Cardinality(Creating(x)) <= rush[x]
            /\ Cardinality(Active(x)) + Cardinality(Looked(x)) <= rush[x]
        BY DEF IInv, CountedOK
      <3>3. CASE x = slot[c].order
        <4>1. Looked(x)' \subseteq Creating(x) /\ Active(x) = {}
          BY <1>1, <2>1, <2>2, <3>3 DEF Looked, Creating, AllSlots
        <4>2. Cardinality(Looked(x)') <= Cardinality(Creating(x)) /\ Cardinality(Looked(x)') \in Nat
          BY <4>1, Sizes, FS_Subset, FS_CardinalityType DEF IInv
        <4>3. Cardinality(Active(x)) = 0
          BY <4>1, FS_EmptySet
        <4> QED
          BY <3>1, <3>2, <4>2, <4>3, Sizes DEF IInv
      <3>4. CASE x # slot[c].order
        <4>1. Looked(x)' = Looked(x)
          BY <1>1, <2>2, <3>4 DEF Looked, AllSlots
        <4> QED
          BY <3>1, <3>2, <4>1
      <3> QED
        BY <3>3, <3>4
    <2>8. GivenOK'
      BY <1>1, <2>2, <2>4 DEF IInv, GivenOK, AllSlots
    <2> QED
      BY <2>3, <2>5, <2>6, <2>8 DEF IInv
  <1> QED
    BY <1>2, <1>3

(* A parcel with a new number: no row and no other call has it. *)
LEMMA CreateCallKeeps ==
    ASSUME ShipmentAssumption, IInv, NEW c \in AllSlots, CreateCall(c)
    PROVE  IInv'
  <1>1. /\ UNCHANGED <<shipment, rows, rush>> /\ parcels' = parcels + 1
        /\ c \in Slots /\ slot[c].pc = "createCall"
    BY DEF CreateCall, At, IInv, Shapes, CreatePcs, AllSlots
  <1>2. /\ DOMAIN slot' = AllSlots /\ \A d \in AllSlots : d # c => slot'[d] = slot[d]
        /\ slot'[c].pc = "createTx" /\ slot'[c].order = slot[c].order
        /\ slot'[c].parcel = parcels + 1
        /\ {"pc", "order", "parcel"} \subseteq DOMAIN slot'[c]
    BY DEF CreateCall, IInv, Shapes, SlotsShaped
  <1>3. Room' /\ parcels + 1 \in ParcelIds
    <2>1. Asking' = Asking \ {c} /\ c \in Asking
      BY <1>1, <1>2 DEF Asking, AllSlots
    <2>2. Cardinality(Asking') = Cardinality(Asking) - 1
      BY <2>1, RoomIsEnough, FS_RemoveElement DEF IInv
    <2>3. Cardinality(Asking') \in Nat
      BY <2>1, RoomIsEnough, FS_RemoveElement, FS_CardinalityType DEF IInv
    <2> QED
      BY <1>1, <2>2, <2>3, RoomIsEnough DEF IInv, Room, ShipmentAssumption, ParcelIds
  <1>4. /\ ParcelsShaped' /\ parcel'[parcels + 1].order = slot[c].order
        /\ \A p \in 1..parcels : parcel'[p].order = parcel[p].order
    BY <1>3, RoomIsEnough DEF CreateCall, IInv, Shapes, ParcelsShaped, ParcelIds
  <1>5. Shapes'
    <2>1. rows \in Seq(1..(parcels + 1))
      <3>1. parcels \in Nat /\ rows \in Seq(1..parcels) /\ 1..parcels \subseteq 1..(parcels + 1)
        BY DEF IInv, Shapes, RowsShaped
      <3> QED
        BY <3>1
    <2> QED
      BY <1>1, <1>2, <1>4, <2>1 DEF IInv, Shapes, SlotsShaped, ShipmentsShaped, RowsShaped, AllSlots,
               ShipmentAssumption
  <1>6. Rows' = Rows /\ \A x : (Active(x))' = Active(x)
    BY <1>1, <1>4, RowsAreParcels DEF Rows, Active, IInv
  <1>7. CountedOK'
    <2>1. \A x : Creating(x)' = Creating(x) /\ Looked(x)' = Looked(x)
      BY <1>1, <1>2 DEF Creating, Looked, AllSlots
    <2> QED
      BY <1>1, <1>6, <2>1, FewerCounted DEF IInv
  <1>9. GivenOK'
    BY <1>1, <1>2, <1>4, RoomIsEnough DEF IInv, GivenOK, AllSlots
  <1> QED
    BY <1>3, <1>5, <1>7, <1>9 DEF IInv

(* The row: an active shipment more, a call less. *)
LEMMA CreateTxKeeps ==
    ASSUME ShipmentAssumption, IInv, NEW c \in AllSlots, CreateTx(c)
    PROVE  IInv'
  <1> PICK p, o : p = slot[c].parcel /\ o = slot[c].order
    OBVIOUS
  <1>1. /\ UNCHANGED <<parcel, parcels, rush>> /\ rows' = Append(rows, p)
        /\ c \in Slots /\ slot[c].pc = "createTx"
    BY DEF CreateTx, At, IInv, Shapes, CreatePcs, AllSlots
  <1>2. p \in 1..parcels /\ p \in ParcelIds /\ parcel[p].order = o
    BY <1>1, RoomIsEnough DEF IInv, GivenOK
  <1>3. /\ SlotsShaped' /\ slot'[c].pc \notin CreatePcs /\ slot'[Poller].pc \notin CreatePcs
        /\ \A d \in AllSlots : d # c => slot'[d] = slot[d]
    <2>1. CASE Done(c)
      BY <2>1, IdleStep DEF IInv
    <2>2. CASE Goto(c, "pickupCall")
      BY <2>2, GotoStep DEF IInv, CreatePcs
    <2>3. CASE \E pickup \in BOOLEAN :
                  slot' = [slot EXCEPT ![c].pc = "awbRead", ![c].pickup = pickup]
      BY <2>3 DEF IInv, Shapes, SlotsShaped, CreatePcs, AllSlots
    <2>4. \/ Done(c) \/ Goto(c, "pickupCall")
          \/ \E pickup \in BOOLEAN :
                slot' = [slot EXCEPT ![c].pc = "awbRead", ![c].pickup = pickup]
      BY Zenon DEF CreateTx
    <2> QED
      BY <2>1, <2>2, <2>3, <2>4
  <1>4. /\ ShipmentsShaped'
        /\ \A q \in ParcelIds : shipment'[q].cancelled = shipment[q].cancelled
    BY DEF CreateTx, IInv, Shapes, ShipmentsShaped
  <1>5. Rows' = Rows \cup {p}
    <2>1. /\ Len(rows) \in Nat /\ DOMAIN rows = 1..Len(rows)
          /\ DOMAIN rows' = 1..(Len(rows) + 1)
          /\ rows'[Len(rows) + 1] = p /\ \A i \in 1..Len(rows) : rows'[i] = rows[i]
      BY <1>1, <1>2 DEF IInv, Shapes, RowsShaped
    <2> QED
      BY <2>1 DEF Rows, ToSet
  <1>6. Shapes'
    BY <1>1, <1>2, <1>3, <1>4 DEF IInv, Shapes, ParcelsShaped, RowsShaped
  <1>7. /\ \A x : x # o => (Active(x))' = Active(x)
        /\ (Active(o))' \subseteq Active(o) \cup {p}
    BY <1>1, <1>2, <1>4, <1>5, RowsAreParcels, RoomIsEnough DEF Active, IInv
  <1>8. Room'
    <2>1. Asking' = Asking
      BY <1>1, <1>3 DEF Asking, AllSlots, CreatePcs
    <2> QED
      BY <1>1, <2>1 DEF IInv, Room
  <1>9. CountedOK'
    <2> SUFFICES ASSUME NEW x \in Orders
                 PROVE  /\ Cardinality(Creating(x)') <= rush[x]
                        /\ Cardinality(Active(x)') + Cardinality(Looked(x)') <= rush[x]
      BY <1>1 DEF IInv, CountedOK
    <2>1. /\ rush[x] \in Nat /\ Cardinality(Creating(x)) <= rush[x]
          /\ Cardinality(Active(x)) + Cardinality(Looked(x)) <= rush[x]
      BY DEF IInv, CountedOK
    <2>2. Creating(x)' \subseteq Creating(x)
      BY <1>1, <1>3 DEF Creating, CreatePcs, AllSlots
    <2>3. Cardinality(Creating(x)') <= Cardinality(Creating(x)) /\ Cardinality(Creating(x)') \in Nat
      BY <2>2, Sizes, FS_Subset, FS_CardinalityType DEF IInv
    <2>4. CASE x = o
      <3>1. Looked(x)' = Looked(x) \ {c} /\ c \in Looked(x)
        BY <1>1, <1>3, <2>4 DEF Looked, CreatePcs, AllSlots
      <3>2. /\ Cardinality(Looked(x)') = Cardinality(Looked(x)) - 1
            /\ Cardinality(Looked(x)') \in Nat
        BY <3>1, Sizes, FS_RemoveElement, FS_CardinalityType DEF IInv
      <3>3. IsFiniteSet(Active(x) \cup {p}) /\ Cardinality(Active(x) \cup {p}) <= Cardinality(Active(x)) + 1
        BY Sizes, OneMore DEF IInv
      <3>4. /\ Cardinality(Active(x)') <= Cardinality(Active(x) \cup {p})
            /\ Cardinality(Active(x)') \in Nat /\ Cardinality(Active(x) \cup {p}) \in Nat
        BY <1>7, <2>4, <3>3, FS_Subset, FS_CardinalityType
      <3> QED
        BY <2>1, <2>3, <3>2, <3>3, <3>4, Sizes DEF IInv
    <2>5. CASE x # o
      <3>1. Looked(x)' = Looked(x) /\ Active(x)' = Active(x)
        BY <1>1, <1>3, <1>7, <2>5 DEF Looked, CreatePcs, AllSlots
      <3> QED
        BY <2>1, <2>3, <3>1, Sizes DEF IInv
    <2> QED
      BY <2>4, <2>5
  <1>11. GivenOK'
    BY <1>1, <1>3 DEF IInv, GivenOK, AllSlots, CreatePcs
  <1> QED
    BY <1>6, <1>8, <1>9, <1>11 DEF IInv

-----------------------------------------------------------------------------
LEMMA Starts ==
    ASSUME ShipmentAssumption, Init
    PROVE  IInv
  <1>1. Shapes /\ Rows = {} /\ \A c \in AllSlots : slot[c].pc = "idle"
    BY DEF Init, Idle, NoShipment, Shapes, SlotsShaped, ParcelsShaped, ShipmentsShaped, RowsShaped,
           AllSlots, CreatePcs, Rows, ToSet
  <1>2. Asking = {} /\ \A o : Active(o) = {}
    BY <1>1 DEF Asking, Active, AllSlots
  <1>3. Room
    BY <1>2, FS_EmptySet DEF Init, Room, ShipmentAssumption
  <1>4. CountedOK /\ GivenOK
    <2>1. rush = [o \in Orders |-> 0] /\ \A o : Creating(o) = {} /\ Looked(o) = {}
      BY <1>1 DEF Init, Creating, Looked, AllSlots
    <2> QED
      <3>1. Cardinality({}) = 0
        BY FS_EmptySet
      <3>2. \A o \in Orders : rush[o] = 0 /\ Creating(o) = {} /\ Looked(o) = {} /\ Active(o) = {}
        BY <1>2, <2>1
      <3>3. CountedOK
        BY <2>1, <3>1, <3>2 DEF CountedOK
      <3>4. GivenOK
        BY <1>1 DEF GivenOK, AllSlots
      <3> QED
        BY <3>3, <3>4
  <1> QED
    BY <1>1, <1>3, <1>4 DEF IInv

LEMMA Steps ==
    ASSUME ShipmentAssumption, IInv, [Next]_vars
    PROVE  IInv'
  <1>1. CASE \E c \in Slots : Arrive(c)
    <2>1. PICK c \in Slots : Arrive(c)
      BY <1>1
    <2>2. CASE \E o \in Orders : CreateShipment(c, o)
      BY <2>2, CreateShipmentKeeps
    <2>3. CASE ~ \E o \in Orders : CreateShipment(c, o)
      <3>1. Shapes' /\ Quiet
        BY <2>1, <2>3, Arriving DEF Arrive, IInv
      <3> QED
        BY <3>1, QuietKeeps
    <2> QED
      BY <2>2, <2>3
  <1>2. CASE \E c \in AllSlots : Continue(c) \/ Stop(c)
    <2>1. PICK c \in AllSlots : Continue(c) \/ Stop(c)
      BY <1>2
    <2>2. CASE Create(c)
      BY <2>2, CreateReadKeeps, CreateCallKeeps, CreateTxKeeps DEF Create
    <2>3. CASE ~Create(c)
      <3>1. Shapes' /\ Quiet
        BY <2>1, <2>3, Reading, WritingShipment DEF Continue, Manage, Apply, IInv
      <3> QED
        BY <3>1, QuietKeeps
    <2> QED
      BY <2>2, <2>3
  <1>3. CASE Poll
    BY <1>3, Polling, QuietKeeps DEF IInv
  <1>4. CASE \/ \E p \in ParcelIds, l \in Labels : CourierScans(p, l)
             \/ \E o \in Orders, s \in AdminTargets : AdminSetStatus(o, s)
             \/ UNCHANGED vars
    BY <1>4, Elsewhere, QuietKeeps DEF IInv
  <1> QED
    BY <1>1, <1>2, <1>3, <1>4 DEF Next

(* createShipment may be repeated by the hand-off of an order and by          *)
(* administrators: an order never has more active shipments than calls were   *)
(* in flight for it at once, so one if none overlapped, whatever is           *)
(* cancelled, tracked or stopped in between.                                  *)
THEOREM CreatesOne == Spec => []OneActiveShipment
  <1> USE ShipmentAssumption
  <1>1. Init => IInv
    BY Starts
  <1>2. IInv /\ [Next]_vars => IInv'
    BY Steps
  <1>3. IInv => OneActiveShipment
    <2> SUFFICES ASSUME IInv, NEW o \in Orders PROVE Cardinality(Active(o)) <= rush[o]
      BY DEF OneActiveShipment, Active
    <2>1. rush[o] \in Nat /\ Cardinality(Active(o)) + Cardinality(Looked(o)) <= rush[o]
      BY DEF IInv, CountedOK
    <2> QED
      BY <2>1, Sizes DEF IInv
  <1> QED
    BY <1>1, <1>2, <1>3, PTL DEF Spec

-----------------------------------------------------------------------------
(* What labels say *)

(* The first question a label answers decides. *)
LEMMA FirstQuestion ==
    ASSUME NEW l
    PROVE  \/ MapStatus(l) = "LABEL_CREATED"
           \/ \E i \in 1..13 : /\ MapStatus(l) = Questions[i].to /\ Questions[i].any \cap l # {}
                               /\ \A j \in 1..13 : j < i => Questions[j].any \cap l = {}
<1> DEFINE hits == {i \in DOMAIN Questions : Questions[i].any \cap l # {}}
           first == CHOOSE i \in hits : \A j \in hits : i <= j
<1>1. DOMAIN Questions = 1..13
  BY DEF Questions
<1>2. CASE hits = {}
  BY <1>2 DEF MapStatus
<1>3. CASE hits # {}
  <2>1. hits \in SUBSET Nat
    BY <1>1
  <2>2. \E i \in hits : \A j \in hits : i <= j
    BY <1>3, <2>1, LeastNat
  <2>3. first \in hits /\ \A j \in hits : first <= j
    BY <2>2
  <2>4. MapStatus(l) = Questions[first].to
    BY <1>3 DEF MapStatus
  <2> HIDE DEF first
  <2>5. first \in 1..13 /\ Questions[first].any \cap l # {}
    BY <1>1, <2>3
  <2>6. \A j \in 1..13 : j < first => Questions[j].any \cap l = {}
    BY <1>1, <2>3
  <2> QED BY <2>4, <2>5, <2>6
<1> QED BY <1>2, <1>3

(* A label moves an order to a status only if it says so. *)
LEMMA LabelSays ==
    ASSUME NEW l, IsLabel(l), NEW to, to = OrderStatusFor(MapStatus(l), l),
           to \in {"SHIPPED", "OUT_FOR_DELIVERY", "DELIVERED", "RETURNED"}
    PROVE  Says(l, to)
<1>1. PICK i \in 1..13 : /\ MapStatus(l) = Questions[i].to /\ Questions[i].any \cap l # {}
                         /\ \A j \in 1..13 : j < i => Questions[j].any \cap l = {}
  <2>1. MapStatus(l) # "LABEL_CREATED"
    BY DEF OrderStatusFor
  <2> QED BY <2>1, FirstQuestion
<1>2. PICK x \in Questions[i].any : x \in l
  BY <1>1
<1>3. \A n \in Numbers : n \in l => l = {n}
  <2> SUFFICES ASSUME NEW n \in Numbers, n \in l PROVE l = {n}
    OBVIOUS
  <2>1. l \cap Numbers # {}
    OBVIOUS
  <2> QED BY <2>1 DEF IsLabel
<1>4. ASSUME NEW j \in 1..13, j < i, NEW y \in Questions[j].any PROVE y \notin l
  BY <1>1, <1>4
<1>5. ASSUME i > 7, NEW y \in InVain PROVE y \notin l
  <2>1. y \in Questions[7].any
    BY DEF Questions, InVain
  <2> QED BY <1>4, <1>5, <2>1
<1>6. ASSUME i > 8 PROVE "RTO" \notin l
  <2>1. "RTO" \in Questions[8].any
    BY DEF Questions
  <2> QED BY <1>4, <1>6, <2>1
<1>7. ASSUME i > 9 PROVE "OUT FOR DELIVERY" \notin l
  <2>1. "OUT FOR DELIVERY" \in Questions[9].any
    BY DEF Questions
  <2>2. 9 \in 1..13 /\ 9 < i
    BY <1>7
  <2> QED BY <1>4, <2>1, <2>2
<1>8. ASSUME i > 10 PROVE "DELIVERED" \notin l
  <2>1. "DELIVERED" \in Questions[10].any
    BY DEF Questions
  <2> QED BY <1>4, <1>8, <2>1
<1>9. CASE i = 1
  <2>1. x \in {"7"} /\ MapStatus(l) = "DELIVERED"
    BY <1>1, <1>2, <1>9 DEF Questions
  <2>2. to = "DELIVERED"
    BY <2>1 DEF OrderStatusFor
  <2>3. l = {x}
    BY <1>2, <1>3, <2>1 DEF Numbers
  <2> QED BY <2>1, <2>2, <2>3 DEF Says, InVain
<1>10. CASE i = 2
  <2>1. x \in {"6", "17", "18", "42", "43"} /\ MapStatus(l) = "IN_TRANSIT"
    BY <1>1, <1>2, <1>10 DEF Questions
  <2>2. to = "SHIPPED"
    BY <2>1 DEF OrderStatusFor
  <2>3. l = {x}
    BY <1>2, <1>3, <2>1 DEF Numbers
  <2> QED BY <2>1, <2>2, <2>3 DEF Says, InVain
<1>11. CASE i = 3
  <2>1. x \in {"9", "15", "16"} /\ MapStatus(l) = "RTO"
    BY <1>1, <1>2, <1>11 DEF Questions
  <2>2. to = "RETURNED"
    BY <2>1 DEF OrderStatusFor
  <2>3. l = {x}
    BY <1>2, <1>3, <2>1 DEF Numbers
  <2> QED BY <2>1, <2>2, <2>3 DEF Says, InVain
<1>12. CASE i = 4
  <2>1. x \in {"19"} /\ MapStatus(l) = "OUT_FOR_DELIVERY"
    BY <1>1, <1>2, <1>12 DEF Questions
  <2>2. to = "OUT_FOR_DELIVERY"
    BY <2>1 DEF OrderStatusFor
  <2>3. l = {x}
    BY <1>2, <1>3, <2>1 DEF Numbers
  <2> QED BY <2>1, <2>2, <2>3 DEF Says, InVain
<1>13. CASE i = 6
  <2>1. x \in {"4", "5"} /\ MapStatus(l) = "PICKED_UP"
    BY <1>1, <1>2, <1>13 DEF Questions
  <2>2. to = "SHIPPED"
    BY <2>1 DEF OrderStatusFor
  <2>3. l = {x}
    BY <1>2, <1>3, <2>1 DEF Numbers
  <2> QED BY <2>1, <2>2, <2>3 DEF Says, InVain
<1>14. CASE i = 8
  <2>1. x \in {"RTO"} /\ MapStatus(l) = "RTO"
    BY <1>1, <1>2, <1>14 DEF Questions
  <2>2. to = "RETURNED"
    BY <2>1 DEF OrderStatusFor
  <2>3. l \cap {"RTO", "9", "15", "16"} # {}
    BY <1>2, <2>1
  <2>4. l \cap InVain = {}
    BY <1>5, <1>14
  <2> QED BY <2>2, <2>3, <2>4 DEF Says
<1>15. CASE i = 9
  <2>1. x \in {"OUT FOR DELIVERY", "OUT_FOR_DELIVERY"} /\ MapStatus(l) = "OUT_FOR_DELIVERY"
    BY <1>1, <1>2, <1>15 DEF Questions
  <2>2. to = "OUT_FOR_DELIVERY"
    BY <2>1 DEF OrderStatusFor
  <2>3. l \cap {"OUT FOR DELIVERY", "OUT_FOR_DELIVERY", "19"} # {}
    BY <1>2, <2>1
  <2>4. l \cap (InVain \cup {"RTO"}) = {}
    BY <1>5, <1>6, <1>15
  <2> QED BY <2>2, <2>3, <2>4 DEF Says
<1>16. CASE i = 10
  <2>1. x \in {"DELIVERED"} /\ MapStatus(l) = "DELIVERED"
    BY <1>1, <1>2, <1>16 DEF Questions
  <2>2. to = "DELIVERED"
    BY <2>1 DEF OrderStatusFor
  <2>3. l \cap {"DELIVERED", "7"} # {}
    BY <1>2, <2>1
  <2>4. l \cap (InVain \cup {"RTO"}) = {}
    BY <1>5, <1>6, <1>16
  <2> QED BY <2>2, <2>3, <2>4 DEF Says
<1>17. CASE i \in {11, 12}
  <2>1. /\ x \in {"PICKED UP", "PICKED_UP", "PICKUP COMPLETE", "TRANSIT", "REACHED", "MISROUTED",
                "SHIPPED"}
        /\ MapStatus(l) \in {"IN_TRANSIT", "PICKED_UP"}
    <3>1. CASE i = 11
      BY <1>1, <1>2, <3>1 DEF Questions
    <3>2. CASE i = 12
      BY <1>1, <1>2, <3>2 DEF Questions
    <3> QED BY <1>17, <3>1, <3>2
  <2>2. to = "SHIPPED"
    BY <2>1 DEF OrderStatusFor
  <2>3. /\ l \cap {"PICKED UP", "PICKED_UP", "PICKUP COMPLETE", "TRANSIT", "REACHED",
                   "MISROUTED", "SHIPPED", "4", "5", "6", "17", "18", "42", "43"} # {}
    BY <1>2, <2>1
  <2>4. \A y \in InVain \cup {"RTO", "DELIVERED", "OUT FOR DELIVERY"} : y \notin l
    <3>1. i > 7 /\ i > 8 /\ i > 9 /\ i > 10
      BY <1>17
    <3>2. "RTO" \notin l /\ "DELIVERED" \notin l /\ "OUT FOR DELIVERY" \notin l
      BY <1>6, <1>7, <1>8, <3>1
    <3> QED BY <1>5, <3>1, <3>2
  <2>5. l \cap (InVain \cup {"RTO", "DELIVERED", "OUT FOR DELIVERY"}) = {}
    BY <2>4
  <2> QED BY <2>2, <2>3, <2>5 DEF Says
<1>18. i \notin {5, 7, 13}
  <2>1. Questions[5].to = "FAILED" /\ Questions[7].to = "FAILED" /\ Questions[13].to = "FAILED"
    BY DEF Questions
  <2> QED BY <1>1, <2>1 DEF OrderStatusFor, NoStatus
<1> QED BY <1>9, <1>10, <1>11, <1>12, <1>13, <1>14, <1>15, <1>16, <1>17, <1>18

-----------------------------------------------------------------------------
(* What is applied to an order was reported of a parcel of that order.       *)

Tracking == {"apply", "setShipment", "addEvents", "setOrder"}
Fine(s) ==
    /\ {"pc", "order", "parcel", "label"} \subseteq DOMAIN s
    /\ s.pc = "track" => s.parcel \in 1..parcels /\ parcel[s.parcel].order = s.order
    /\ s.pc \in Tracking => s.label = {} \/ s.label \in Reports(s.order)

ScansOK ==
    \A p \in ParcelIds :
        /\ {"order", "scans"} \subseteq DOMAIN parcel[p] /\ parcel[p].scans \in Seq(Labels)
        /\ p > parcels => parcel[p].scans = <<>>

Told == DOMAIN order = Orders /\ ScansOK /\ (\A c \in AllSlots : Fine(slot[c])) /\ StatusIsReported

(* Parcels keep their orders and their scans. *)
Grows ==
    /\ parcels \in Nat /\ parcels' \in Nat /\ parcels <= parcels'
    /\ \A p \in 1..parcels : /\ parcel'[p].order = parcel[p].order
                             /\ ToSet(parcel[p].scans) \subseteq ToSet(parcel'[p].scans)

LEMMA ReportsGrow ==
    ASSUME Grows
    PROVE  /\ \A o : Reports(o) \subseteq Reports(o)'
           /\ \A s : Fine(s) => Fine(s)'
<1>1. ASSUME NEW o PROVE Reports(o) \subseteq Reports(o)'
  <2> SUFFICES ASSUME NEW l \in Reports(o) PROVE l \in Reports(o)'
    OBVIOUS
  <2>1. PICK p \in 1..parcels : parcel[p].order = o /\ l \in ToSet(parcel[p].scans)
    BY DEF Reports
  <2>2. p \in 1..parcels' /\ parcel'[p].order = o /\ l \in ToSet(parcel'[p].scans)
    BY <2>1 DEF Grows
  <2> QED BY <2>2 DEF Reports
<1>2. ASSUME NEW s, Fine(s) PROVE Fine(s)'
  <2>1. s.pc = "track" => s.parcel \in 1..parcels' /\ parcel'[s.parcel].order = s.order
    BY <1>2 DEF Fine, Grows
  <2>2. s.pc \in Tracking => s.label = {} \/ s.label \in Reports(s.order)'
    BY <1>1, <1>2 DEF Fine
  <2> QED BY <1>2, <2>1, <2>2 DEF Fine
<1> QED BY <1>1, <1>2

LEMMA LabelsOf ==
    ASSUME IInv, ShipmentAssumption, ScansOK, NEW o, NEW l \in Reports(o)
    PROVE  IsLabel(l)
<1>1. PICK p \in 1..parcels : l \in ToSet(parcel[p].scans)
  BY DEF Reports
<1>2. p \in ParcelIds
  BY RoomIsEnough DEF IInv
<1>3. parcel[p].scans \in Seq(Labels)
  BY <1>2 DEF ScansOK
<1>4. PICK i \in DOMAIN parcel[p].scans : l = parcel[p].scans[i]
  BY <1>1 DEF ToSet
<1>5. l \in Labels
  BY <1>3, <1>4
<1> QED BY <1>5 DEF ShipmentAssumption

Moved == {"SHIPPED", "OUT_FOR_DELIVERY", "DELIVERED", "RETURNED"}

(* A step by one call, to s. *)
LEMMA CallTells ==
    ASSUME IInv, Told, Grows, ScansOK', NEW c \in AllSlots, NEW s, slot' = [slot EXCEPT ![c] = s],
           Fine(s)', touched' = touched, DOMAIN order' = Orders,
           \A o \in Orders : \/ order'[o] = order[o] \/ order'[o] \notin Moved
                             \/ \E l \in Reports(o) : Says(l, order'[o])
    PROVE  Told'
<1>1. DOMAIN slot = AllSlots
  BY DEF IInv, Shapes, SlotsShaped
<1>2. slot'[c] = s /\ \A d \in AllSlots : d # c => slot'[d] = slot[d]
  BY <1>1
<1>3. ASSUME NEW d \in AllSlots PROVE Fine(slot[d])'
  <2>1. CASE d = c
    BY <1>2, <2>1 DEF Fine
  <2>2. CASE d # c
    <3>1. PICK r : r = slot[d]
      OBVIOUS
    <3>2. Fine(r)'
      BY <3>1, ReportsGrow DEF Told
    <3>3. slot'[d] = r
      BY <1>2, <2>2, <3>1
    <3> QED BY <3>2, <3>3 DEF Fine
  <2> QED BY <2>1, <2>2
<1>4. StatusIsReported'
  <2> SUFFICES ASSUME NEW o \in Orders \ touched, order'[o] \in Moved
               PROVE  \E l \in Reports(o)' : Says(l, order'[o])
    BY DEF StatusIsReported, Moved
  <2>1. \E l \in Reports(o) : Says(l, order'[o])
    BY DEF Told, StatusIsReported, Moved
  <2> QED BY <2>1, ReportsGrow
<1> QED BY <1>3, <1>4 DEF Told

LEMMA Unmoved ==
    ASSUME IInv, Told, UNCHANGED <<parcel, parcels>>
    PROVE  Grows /\ ScansOK'
  BY DEF Grows, ScansOK, Told, IInv, Shapes, RowsShaped

LEMMA GoesOn ==
    ASSUME IInv, Told, UNCHANGED <<parcel, parcels, order, touched>>, NEW c \in AllSlots, NEW s,
           slot' = [slot EXCEPT ![c] = s], Fine(s)
    PROVE  Told'
<1>1. Grows /\ ScansOK'
  BY Unmoved
<1>2. Fine(s)' /\ DOMAIN order' = Orders
  BY <1>1, ReportsGrow DEF Told
<1> QED BY <1>1, <1>2, CallTells

LEMMA IdleIsFine == Fine(Idle)
  BY DEF Fine, Idle, Tracking

(* A call with fields set that goes on where it does not track, or is where  *)
(* it was.                                                                   *)
LEMMA GoesElsewhere ==
    ASSUME NEW s, Fine(s), NEW t, DOMAIN t = DOMAIN s,
           \/ t.pc \notin Tracking \cup {"track"}
           \/ s.pc \in Tracking /\ t.pc \in Tracking /\ t.label = s.label /\ t.order = s.order
    PROVE  Fine(t)
<1>1. "track" \notin Tracking
  BY DEF Tracking
<1> QED BY <1>1 DEF Fine

LEMMA GotoTells ==
    ASSUME IInv, Told, UNCHANGED <<parcel, parcels, order, touched>>, NEW c \in AllSlots,
           \/ Done(c)
           \/ \E pc : /\ Goto(c, pc)
                      /\ pc \notin Tracking \cup {"track"} \/ {pc, slot[c].pc} \subseteq Tracking
    PROVE  Told'
<1>1. CASE Done(c)
  BY <1>1, IdleIsFine, GoesOn DEF Done
<1>2. ASSUME NEW pc, Goto(c, pc),
             pc \notin Tracking \cup {"track"} \/ {pc, slot[c].pc} \subseteq Tracking
      PROVE  Told'
  <2> DEFINE t == [slot[c] EXCEPT !.pc = pc]
  <2>1. Fine(slot[c])
    BY DEF Told
  <2>2. DOMAIN t = DOMAIN slot[c] /\ t.pc = pc /\ t.label = slot[c].label /\ t.order = slot[c].order
    BY <2>1 DEF Fine
  <2>3. slot' = [slot EXCEPT ![c] = t]
    BY <1>2 DEF Goto
  <2> HIDE DEF t
  <2>4. Fine(t)
    BY <1>2, <2>1, <2>2, GoesElsewhere
  <2> QED BY <2>3, <2>4, GoesOn
<1> QED BY <1>1, <1>2

(* A call that arrives. *)
LEMMA StartTells ==
    ASSUME IInv, Told, UNCHANGED <<parcel, parcels, order, touched>>, NEW c \in AllSlots, NEW s,
           Start(c, s), Fine(s)
    PROVE  Told'
  BY GoesOn DEF Start

LEMMA ArriveTells ==
    ASSUME ShipmentAssumption, IInv, Told, NEW c \in Slots, Arrive(c)
    PROVE  Told'
<1>1. c \in AllSlots
  BY DEF AllSlots
<1>2. UNCHANGED <<parcel, parcels, order, touched>>
  BY DEF Arrive, CreateShipment, AssignAwb, SchedulePickup, CancelShipment, Refresh, Webhook
<1>3. Rows \subseteq 1..parcels
  BY RowsAreParcels DEF IInv
<1>4. ASSUME NEW o \in Orders, CreateShipment(c, o) PROVE Told'
  <2> DEFINE s == [Idle EXCEPT !.pc = "createRead", !.order = o, !.status = order[o]]
  <2>1. Start(c, s)
    BY <1>4 DEF CreateShipment, Call
  <2>2. Fine(s)
    BY DEF Fine, Idle, Tracking
  <2> HIDE DEF s
  <2> QED BY <1>1, <1>2, <2>1, <2>2, StartTells
<1>5. ASSUME NEW p \in ParcelIds, NEW pc \in {"awbRead", "pickupCall", "cancelCall"},
             Start(c, [Idle EXCEPT !.pc = pc, !.order = parcel[p].order, !.parcel = p])
      PROVE  Told'
  <2> DEFINE s == [Idle EXCEPT !.pc = pc, !.order = parcel[p].order, !.parcel = p]
  <2>1. Fine(s)
    BY DEF Fine, Idle, Tracking
  <2> HIDE DEF s
  <2> QED BY <1>1, <1>2, <1>5, <2>1, StartTells DEF s
<1>6. ASSUME NEW p \in ParcelIds, Refresh(c, p) PROVE Told'
  <2> DEFINE s == [Idle EXCEPT !.pc = "track", !.order = parcel[p].order, !.parcel = p]
  <2>1. Start(c, s) /\ p \in 1..parcels
    BY <1>3, <1>6 DEF Refresh, Call
  <2>2. s.parcel = p /\ s.order = parcel[p].order /\ s.pc = "track"
        /\ {"pc", "order", "parcel", "label"} \subseteq DOMAIN s
    BY DEF Idle
  <2> HIDE DEF s
  <2>3. Fine(s)
    BY <2>1, <2>2 DEF Fine, Tracking
  <2> QED BY <1>1, <1>2, <2>1, <2>3, StartTells
<1>7. ASSUME NEW p \in ParcelIds, NEW namesOrder \in BOOLEAN, NEW i \in DOMAIN parcel[p].scans,
             Webhook(c, p, i, namesOrder)
      PROVE  Told'
  <2>1. PICK q, scans :
           Start(c, [Idle EXCEPT !.pc = "apply", !.order = parcel[p].order, !.parcel = q,
                                 !.label = parcel[p].scans[i], !.scans = scans])
    BY <1>7, Zenon DEF Webhook, Call
  <2> DEFINE s == [Idle EXCEPT !.pc = "apply", !.order = parcel[p].order, !.parcel = q,
                               !.label = parcel[p].scans[i], !.scans = scans]
  <2>2. /\ s.pc = "apply" /\ s.order = parcel[p].order /\ s.label = parcel[p].scans[i]
        /\ {"pc", "order", "parcel", "label"} \subseteq DOMAIN s
    BY DEF Idle
  <2>3. p \in 1..parcels
    <3>1. parcel[p].scans # <<>>
      OBVIOUS
    <3>2. ~(p > parcels)
      BY <3>1 DEF Told, ScansOK
    <3> QED BY <3>2, RoomIsEnough DEF IInv, Shapes, RowsShaped, ParcelIds, ShipmentAssumption
  <2>4. parcel[p].scans[i] \in Reports(parcel[p].order)
    BY <2>3 DEF Reports, ToSet
  <2> HIDE DEF s
  <2>5. Fine(s)
    BY <2>2, <2>4 DEF Fine, Tracking
  <2> QED BY <1>1, <1>2, <2>1, <2>5, StartTells DEF s
<1>8. ASSUME NEW p \in ParcelIds, AssignAwb(c, p) \/ SchedulePickup(c, p) \/ CancelShipment(c, p)
      PROVE  Told'
  BY <1>5, <1>8 DEF AssignAwb, SchedulePickup, CancelShipment, Call
<1> QED BY <1>4, <1>6, <1>7, <1>8 DEF Arrive

LEMMA CreateTells ==
    ASSUME ShipmentAssumption, IInv, Told, NEW c \in AllSlots, Create(c)
    PROVE  Told'
<1>0. Fine(slot[c])
  BY DEF Told
<1>1. CASE CreateRead(c)
  <2>1. UNCHANGED <<parcel, parcels, order, touched>>
    BY <1>1 DEF CreateRead
  <2>2. CASE \E p : slot' = [slot EXCEPT ![c].pc = "awbRead", ![c].parcel = p]
    <3>1. PICK p : slot' = [slot EXCEPT ![c].pc = "awbRead", ![c].parcel = p]
      BY <2>2
    <3> DEFINE s == [slot[c] EXCEPT !.pc = "awbRead", !.parcel = p]
    <3>2. slot' = [slot EXCEPT ![c] = s]
      BY <3>1 DEF IInv, Shapes, SlotsShaped
    <3>3. DOMAIN s = DOMAIN slot[c] /\ s.pc = "awbRead"
      BY <1>0 DEF Fine
    <3> HIDE DEF s
    <3>4. Fine(s)
      BY <1>0, <3>3, GoesElsewhere DEF Tracking
    <3> QED BY <2>1, <3>2, <3>4, GoesOn
  <2>3. Done(c) \/ Goto(c, "createCall") \/ \E p : slot' = [slot EXCEPT ![c].pc = "awbRead", ![c].parcel = p]
    BY <1>1 DEF CreateRead
  <2> QED BY <2>1, <2>2, <2>3, GotoTells DEF Tracking
<1>2. CASE CreateCall(c)
  <2>1. PICK n : n = parcels + 1
    OBVIOUS
  <2>2. /\ slot[c].pc = "createCall" /\ parcels' = n
        /\ parcel' = [parcel EXCEPT ![n].order = slot[c].order]
        /\ slot' = [slot EXCEPT ![c].pc = "createTx", ![c].parcel = n]
        /\ UNCHANGED <<order, touched>>
    BY <1>2, <2>1 DEF CreateCall, At
  <2>3. parcels \in Nat /\ n \notin 1..parcels /\ n > parcels /\ n \in Nat /\ 1..parcels \subseteq ParcelIds
    BY <2>1, RoomIsEnough DEF IInv, Shapes, RowsShaped
  <2>4. DOMAIN parcel = ParcelIds
    BY DEF IInv, Shapes, ParcelsShaped
  <2>5. /\ \A p \in ParcelIds : p # n => parcel'[p] = parcel[p]
        /\ n \in ParcelIds => parcel'[n] = [parcel[n] EXCEPT !.order = slot[c].order]
    BY <2>2, <2>4
  <2>6. Grows
    BY <2>2, <2>3, <2>5 DEF Grows
  <2>7. ScansOK'
    <3> SUFFICES ASSUME NEW p \in ParcelIds
                 PROVE  /\ {"order", "scans"} \subseteq DOMAIN parcel'[p]
                        /\ parcel'[p].scans \in Seq(Labels)
                        /\ p > n => parcel'[p].scans = <<>>
      BY <2>2 DEF ScansOK
    <3>1. /\ {"order", "scans"} \subseteq DOMAIN parcel[p] /\ parcel[p].scans \in Seq(Labels)
          /\ p > parcels => parcel[p].scans = <<>>
      BY DEF Told, ScansOK
    <3>2. p > n => p > parcels
      BY <2>3 DEF ParcelIds
    <3>3. parcel'[p].scans = parcel[p].scans /\ DOMAIN parcel'[p] = DOMAIN parcel[p]
      BY <2>5, <3>1
    <3> QED BY <3>1, <3>2, <3>3
  <2> DEFINE s == [slot[c] EXCEPT !.pc = "createTx", !.parcel = n]
  <2>8. slot' = [slot EXCEPT ![c] = s]
    BY <2>2 DEF IInv, Shapes, SlotsShaped
  <2>9. DOMAIN s = DOMAIN slot[c] /\ s.pc = "createTx"
    BY <1>0 DEF Fine
  <2>10. PICK r : r = s
    OBVIOUS
  <2> HIDE DEF s
  <2>11. Fine(r)
    BY <1>0, <2>9, <2>10, GoesElsewhere DEF Tracking
  <2>12. Fine(r)'
    BY <2>6, <2>11, ReportsGrow
  <2> QED BY <2>2, <2>6, <2>7, <2>8, <2>10, <2>12, CallTells DEF Told
<1>3. CASE CreateTx(c)
  <2>1. UNCHANGED <<parcel, parcels, touched>> /\ Grows /\ ScansOK'
    BY <1>3, Unmoved DEF CreateTx
  <2>2. /\ DOMAIN order' = Orders
        /\ \A o \in Orders : order'[o] = order[o] \/ order'[o] \notin Moved
    BY <1>3 DEF CreateTx, Told, Moved
  <2>3. ASSUME NEW s, slot' = [slot EXCEPT ![c] = s], Fine(s) PROVE Told'
    BY <2>1, <2>2, <2>3, ReportsGrow, CallTells
  <2>4. CASE Done(c)
    BY <2>3, <2>4, IdleIsFine DEF Done
  <2>5. CASE Goto(c, "pickupCall")
    <3> DEFINE s == [slot[c] EXCEPT !.pc = "pickupCall"]
    <3>1. slot' = [slot EXCEPT ![c] = s]
      BY <2>5 DEF Goto
    <3>2. DOMAIN s = DOMAIN slot[c] /\ s.pc = "pickupCall"
      BY <1>0 DEF Fine
    <3> HIDE DEF s
    <3> QED BY <1>0, <2>3, <3>1, <3>2, GoesElsewhere DEF Tracking
  <2>6. ASSUME NEW pickup, slot' = [slot EXCEPT ![c].pc = "awbRead", ![c].pickup = pickup]
        PROVE  Told'
    <3> DEFINE s == [slot[c] EXCEPT !.pc = "awbRead", !.pickup = pickup]
    <3>1. slot' = [slot EXCEPT ![c] = s]
      BY <2>6 DEF IInv, Shapes, SlotsShaped
    <3>2. DOMAIN s = DOMAIN slot[c] /\ s.pc = "awbRead"
      BY <1>0 DEF Fine
    <3> HIDE DEF s
    <3> QED BY <1>0, <2>3, <3>1, <3>2, GoesElsewhere DEF Tracking
  <2>7. \/ Done(c) \/ Goto(c, "pickupCall")
        \/ \E pickup \in BOOLEAN :
              slot' = [slot EXCEPT ![c].pc = "awbRead", ![c].pickup = pickup]
    BY <1>3, Zenon DEF CreateTx
  <2> QED BY <2>4, <2>5, <2>6, <2>7
<1> QED BY <1>1, <1>2, <1>3 DEF Create

LEMMA ManageTells ==
    ASSUME IInv, Told, NEW c \in AllSlots, Manage(c) \/ TrackRefused(c) \/ Stop(c) \/ SetShipment(c)
    PROVE  Told'
<1>1. UNCHANGED <<parcel, parcels, order, touched>>
  BY DEF Manage, AwbRead, AwbWrite, AwbRefused, PickupWrite, CancelCall, CancelTx, TrackRefused,
         Stop, SetShipment
<1>2. CASE SetShipment(c)
  <2>1. Goto(c, "addEvents") /\ {"addEvents", slot[c].pc} \subseteq Tracking
    BY <1>2 DEF SetShipment, At, Tracking
  <2> QED BY <1>1, <2>1, GotoTells
<1>3. CASE Done(c) \/ Goto(c, "pickupCall") \/ Goto(c, "awbCall") \/ Goto(c, "cancelTx")
  BY <1>1, <1>3, GotoTells DEF Tracking
<1> QED BY <1>2, <1>3
        DEF Manage, AwbRead, AfterAwb, AwbWrite, AwbRefused, PickupWrite, CancelCall, CancelTx,
            TrackRefused, Stop

(* The answer of Shiprocket has the parcel's own scans. *)
LEMMA TrackTells ==
    ASSUME IInv, ShipmentAssumption, Told, NEW c \in AllSlots, TrackAnswer(c)
    PROVE  Told'
<1>1. PICK p : p = slot[c].parcel
  OBVIOUS
<1> DEFINE scans == parcel[p].scans
           label == IF scans = <<>> THEN {} ELSE Last(scans)
           s == [slot[c] EXCEPT !.pc = "apply", !.label = label, !.scans = ToSet(scans)]
<1>2. /\ slot[c].pc = "track" /\ UNCHANGED <<parcel, parcels, order, touched>>
      /\ slot' = [slot EXCEPT ![c].pc = "apply", ![c].label = label, ![c].scans = ToSet(scans)]
  BY <1>1 DEF TrackAnswer, At
<1>3. slot' = [slot EXCEPT ![c] = s]
  BY <1>2 DEF IInv, Shapes, SlotsShaped
<1>4. /\ Fine(slot[c]) /\ p \in 1..parcels /\ parcel[p].order = slot[c].order /\ p \in ParcelIds
  BY <1>1, <1>2, RoomIsEnough DEF Told, Fine, IInv
<1>5. label = {} \/ label \in Reports(slot[c].order)
  <2>1. scans \in Seq(Labels)
    BY <1>4 DEF Told, ScansOK
  <2>2. scans # <<>> => Last(scans) \in ToSet(scans)
    BY <2>1 DEF Last, ToSet
  <2> QED BY <1>4, <2>2 DEF Reports
<1>6. /\ s.pc = "apply" /\ s.label = label /\ s.order = slot[c].order
      /\ {"pc", "order", "parcel", "label"} \subseteq DOMAIN s
  BY <1>4 DEF Fine
<1> HIDE DEF s, label
<1>7. Fine(s)
  BY <1>5, <1>6 DEF Fine, Tracking
<1> QED BY <1>2, <1>3, <1>7, GoesOn

LEMMA ApplyTells ==
    ASSUME IInv, ShipmentAssumption, Told, NEW c \in AllSlots,
           ApplyRead(c) \/ AddEvents(c) \/ SetOrder(c)
    PROVE  Told'
<1>0. Fine(slot[c]) /\ UNCHANGED <<parcel, parcels, touched>>
  BY DEF Told, ApplyRead, AddEvents, SetOrder
<1>1. CASE ApplyRead(c)
  <2>1. PICK status, seen :
           slot' = [slot EXCEPT ![c].pc = "setShipment", ![c].status = status, ![c].seen = seen]
    BY <1>1 DEF ApplyRead
  <2> DEFINE s == [slot[c] EXCEPT !.pc = "setShipment", !.status = status, !.seen = seen]
  <2>2. slot' = [slot EXCEPT ![c] = s]
    BY <2>1 DEF IInv, Shapes, SlotsShaped
  <2>3. /\ DOMAIN s = DOMAIN slot[c] /\ s.pc = "setShipment" /\ s.label = slot[c].label
        /\ s.order = slot[c].order
    BY <1>0 DEF Fine
  <2> HIDE DEF s
  <2>4. Fine(s)
    BY <1>0, <1>1, <2>3, GoesElsewhere DEF Tracking, ApplyRead, At
  <2> QED BY <1>0, <1>1, <2>2, <2>4, GoesOn DEF ApplyRead
<1>2. CASE AddEvents(c)
  <2> DEFINE s == [slot[c] EXCEPT !.pc = "setOrder", !.scans = {}, !.seen = {}]
  <2>1. slot' = [slot EXCEPT ![c] = s]
    BY <1>2 DEF AddEvents, IInv, Shapes, SlotsShaped
  <2>2. /\ DOMAIN s = DOMAIN slot[c] /\ s.pc = "setOrder" /\ s.label = slot[c].label
        /\ s.order = slot[c].order
    BY <1>0 DEF Fine
  <2> HIDE DEF s
  <2>3. Fine(s)
    BY <1>0, <1>2, <2>2, GoesElsewhere DEF Tracking, AddEvents, At
  <2> QED BY <1>0, <1>2, <2>1, <2>3, GoesOn DEF AddEvents
<1>3. CASE SetOrder(c)
  <2>1. PICK l, to, at : l = slot[c].label /\ to = OrderStatusFor(MapStatus(l), l) /\ at = slot[c].order
    OBVIOUS
  <2>2. /\ slot' = [slot EXCEPT ![c] = Idle] /\ slot[c].pc = "setOrder"
        /\ order' = order \/ order' = [order EXCEPT ![at] = to]
    BY <1>3, <2>1 DEF SetOrder, Done, At
  <2>3. Grows /\ ScansOK' /\ Fine(Idle)'
    <3>1. PICK s : s = Idle
      OBVIOUS
    <3>2. Grows /\ ScansOK'
      BY <1>0, Unmoved
    <3>3. Fine(s)'
      BY <3>1, <3>2, IdleIsFine, ReportsGrow
    <3> QED BY <3>1, <3>2, <3>3 DEF Fine
  <2>4. to \in Moved => l \in Reports(at) /\ Says(l, to)
    <3>1. to \in Moved => l # {}
      <4>1. MapStatus({}) = "LABEL_CREATED"
        BY DEF MapStatus
      <4> QED BY <2>1, <4>1 DEF OrderStatusFor, Moved
    <3>2. l = {} \/ l \in Reports(at)
      BY <1>0, <2>1, <2>2 DEF Fine, Tracking
    <3>3. l \in Reports(at) => IsLabel(l)
      BY LabelsOf DEF Told
    <3> QED BY <2>1, <3>1, <3>2, <3>3, LabelSays DEF Moved
  <2>5. /\ DOMAIN order' = Orders
        /\ \A o \in Orders : \/ order'[o] = order[o] \/ order'[o] \notin Moved
                             \/ \E k \in Reports(o) : Says(k, order'[o])
    <3>1. DOMAIN order = Orders
      BY DEF Told
    <3>2. CASE order' = order
      BY <3>1, <3>2
    <3>3. CASE order' = [order EXCEPT ![at] = to]
      <4>1. DOMAIN order' = Orders /\ \A o \in Orders : order'[o] = IF o = at THEN to ELSE order[o]
        BY <3>1, <3>3
      <4> QED BY <2>4, <4>1
    <3> QED BY <2>2, <3>2, <3>3
  <2> QED BY <1>0, <2>2, <2>3, <2>5, CallTells
<1> QED BY <1>1, <1>2, <1>3

LEMMA PollTells ==
    ASSUME ShipmentAssumption, IInv, Told, Poll
    PROVE  Told'
<1>1. UNCHANGED <<parcel, parcels, order, touched>>
  BY DEF Poll, PollBegin, PollNext
<1>2. CASE PollBegin
  <2>1. slot' = slot /\ Grows /\ ScansOK'
    BY <1>1, <1>2, Unmoved DEF PollBegin
  <2>2. ASSUME NEW d \in AllSlots PROVE Fine(slot[d])'
    <3>1. PICK r : r = slot[d]
      OBVIOUS
    <3>2. Fine(r)'
      BY <2>1, <3>1, ReportsGrow DEF Told
    <3> QED BY <2>1, <3>1, <3>2 DEF Fine
  <2>3. StatusIsReported'
    BY <1>1 DEF Told, StatusIsReported, Reports
  <2> QED BY <1>1, <2>1, <2>2, <2>3 DEF Told
<1>3. CASE PollNext
  <2>1. PICK p : p = Head(todo)
    OBVIOUS
  <2> DEFINE s == [Idle EXCEPT !.pc = "track", !.order = parcel[p].order, !.parcel = p]
  <2>2. Start(Poller, s) /\ p \in 1..parcels /\ Poller \in AllSlots
    BY <1>3, <2>1, RowsAreParcels DEF IInv, PollNext, AllSlots
  <2>3. /\ s.parcel = p /\ s.order = parcel[p].order /\ s.pc = "track"
        /\ {"pc", "order", "parcel", "label"} \subseteq DOMAIN s
    BY DEF Idle
  <2> HIDE DEF s
  <2>4. Fine(s)
    BY <2>2, <2>3 DEF Fine, Tracking
  <2> QED BY <1>1, <2>2, <2>4, StartTells
<1> QED BY <1>2, <1>3 DEF Poll

(* The steps that are no call's. *)
LEMMA OthersTell ==
    ASSUME IInv, Told, slot' = slot, Grows, ScansOK', DOMAIN order' = Orders,
           \A o \in Orders \ touched' : o \notin touched /\ order'[o] = order[o]
    PROVE  Told'
<1>1. ASSUME NEW d \in AllSlots PROVE Fine(slot[d])'
  <2>1. PICK r : r = slot[d]
    OBVIOUS
  <2>2. Fine(r)'
    BY <2>1, ReportsGrow DEF Told
  <2> QED BY <2>1, <2>2 DEF Fine
<1>2. StatusIsReported'
  <2> SUFFICES ASSUME NEW o \in Orders \ touched', order'[o] \in Moved
               PROVE  \E l \in Reports(o)' : Says(l, order'[o])
    BY DEF StatusIsReported, Moved
  <2>1. o \in Orders \ touched /\ order'[o] = order[o]
    OBVIOUS
  <2>2. \E l \in Reports(o) : Says(l, order[o])
    BY <2>1 DEF Told, StatusIsReported, Moved
  <2> QED BY <2>1, <2>2, ReportsGrow
<1> QED BY <1>1, <1>2 DEF Told

LEMMA ScanTells ==
    ASSUME ShipmentAssumption, IInv, Told, NEW p \in ParcelIds, NEW l \in Labels, CourierScans(p, l)
    PROVE  Told'
<1>1. /\ p <= parcels /\ parcel' = [parcel EXCEPT ![p].scans = Append(parcel[p].scans, l)]
      /\ UNCHANGED <<parcels, order, slot, touched>>
  BY DEF CourierScans
<1>2. DOMAIN parcel = ParcelIds /\ parcels \in Nat /\ 1..parcels \subseteq ParcelIds
  BY RoomIsEnough DEF IInv, Shapes, ParcelsShaped, RowsShaped
<1>3. {"order", "scans"} \subseteq DOMAIN parcel[p] /\ parcel[p].scans \in Seq(Labels)
  BY DEF Told, ScansOK
<1>4. /\ \A q \in ParcelIds : q # p => parcel'[q] = parcel[q]
      /\ parcel'[p] = [parcel[p] EXCEPT !.scans = Append(parcel[p].scans, l)]
  BY <1>1, <1>2
<1>5. /\ DOMAIN parcel'[p] = DOMAIN parcel[p] /\ parcel'[p].order = parcel[p].order
      /\ parcel'[p].scans = Append(parcel[p].scans, l)
  BY <1>3, <1>4
<1>6. ToSet(parcel[p].scans) \subseteq ToSet(parcel'[p].scans)
  BY <1>3, <1>5 DEF ToSet
<1>7. Grows
  BY <1>1, <1>2, <1>4, <1>5, <1>6 DEF Grows
<1>8. ScansOK'
  <2> SUFFICES ASSUME NEW q \in ParcelIds
               PROVE  /\ {"order", "scans"} \subseteq DOMAIN parcel'[q]
                      /\ parcel'[q].scans \in Seq(Labels)
                      /\ q > parcels => parcel'[q].scans = <<>>
    BY <1>1 DEF ScansOK
  <2>1. CASE q = p
    BY <1>1, <1>2, <1>3, <1>5, <2>1 DEF ParcelIds
  <2>2. CASE q # p
    BY <1>4, <2>2 DEF Told, ScansOK
  <2> QED BY <2>1, <2>2
<1> QED BY <1>1, <1>7, <1>8, OthersTell DEF Told

LEMMA ToldStarts == ShipmentAssumption /\ Init => Told
<1> SUFFICES ASSUME ShipmentAssumption, Init PROVE Told
  OBVIOUS
<1>1. \A c \in AllSlots : Fine(slot[c])
  BY IdleIsFine DEF Init
<1>2. ScansOK
  <2>1. <<>> \in Seq(Labels)
    OBVIOUS
  <2>2. parcel = [p \in ParcelIds |-> [order |-> NoOrder, scans |-> <<>>]]
    BY DEF Init
  <2> SUFFICES ASSUME NEW p \in ParcelIds
               PROVE  /\ {"order", "scans"} \subseteq DOMAIN parcel[p]
                      /\ parcel[p].scans \in Seq(Labels) /\ parcel[p].scans = <<>>
    BY DEF ScansOK
  <2>3. parcel[p] = [order |-> NoOrder, scans |-> <<>>]
    BY <2>2
  <2> QED BY <2>1, <2>3
<1>3. StatusIsReported
  BY DEF Init, StatusIsReported
<1> QED BY <1>1, <1>2, <1>3 DEF Told, Init

LEMMA ToldSteps == ShipmentAssumption /\ IInv /\ Told /\ [Next]_vars => Told'
<1> SUFFICES ASSUME ShipmentAssumption, IInv, Told, [Next]_vars PROVE Told'
  OBVIOUS
<1>1. ASSUME NEW c \in Slots, Arrive(c) PROVE Told'
  BY <1>1, ArriveTells
<1>2. ASSUME NEW c \in AllSlots, Continue(c) \/ Stop(c) PROVE Told'
  BY <1>2, CreateTells, ManageTells, TrackTells, ApplyTells DEF Continue, Apply
<1>3. ASSUME NEW p \in ParcelIds, NEW l \in Labels, CourierScans(p, l) PROVE Told'
  BY <1>3, ScanTells
<1>4. ASSUME NEW o \in Orders, NEW s \in AdminTargets, AdminSetStatus(o, s) PROVE Told'
  <2>1. UNCHANGED <<parcel, parcels, slot>> /\ Grows /\ ScansOK'
    BY <1>4, Unmoved DEF AdminSetStatus
  <2>2. DOMAIN order' = Orders /\ \A q \in Orders \ touched' : q \notin touched /\ order'[q] = order[q]
    BY <1>4 DEF AdminSetStatus, Told
  <2> QED BY <2>1, <2>2, OthersTell
<1>5. CASE UNCHANGED vars
  <2>1. UNCHANGED <<parcel, parcels, slot, order, touched>> /\ Grows /\ ScansOK'
    BY <1>5, Unmoved DEF vars
  <2> QED BY <2>1, OthersTell DEF Told
<1> QED BY <1>1, <1>2, <1>3, <1>4, <1>5, PollTells DEF Next

(* shipping.service: a status that only a courier's report can give an order *)
(* comes from a report of one of its own parcels that says so, whatever      *)
(* calls run at once and however old the reports are that they apply.        *)
THEOREM ReportsDecide == Spec => []StatusIsReported
<1> USE ShipmentAssumption
<1>1. Told => StatusIsReported
  BY DEF Told
<1>2. IInv /\ Told /\ [Next]_vars => IInv' /\ Told'
  BY Steps, ToldSteps
<1> QED BY <1>1, <1>2, Starts, ToldStarts, PTL DEF Spec
=============================================================================
