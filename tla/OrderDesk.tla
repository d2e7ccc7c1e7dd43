------------------------------ MODULE OrderDesk ------------------------------
(***************************************************************************)
(* The page of one order in the administration (admin: orders/[id]/page,   *)
(* ShipmentPanel): a copy of the order, loaded anew after each request that *)
(* succeeded, the status that is chosen, and buttons that depend on the     *)
(* copy while the order changes behind it (ShippingAdminController,         *)
(* AdminController).                                                        *)
(*                                                                          *)
(* A handler is one step here: how handlers interleave is in ShipmentSync   *)
(* and OrderPayments.  Weights, couriers and addresses are left out.        *)
(***************************************************************************)
EXTENDS Integers, Sequences, FiniteSets

CONSTANTS
    DeskStatuses,     \* statuses that are chosen on the page
    MaxPresses,       \* bound on requests and page loads of the desk
    MaxUpsets         \* bound on changes behind the page, answers that are lost and errors

ASSUME DeskAssumption ==
    /\ DeskStatuses \subseteq {"CONFIRMED", "PROCESSING", "DELIVERED", "CANCELLED"}
    /\ {MaxPresses, MaxUpsets} \subseteq Nat

VARIABLES
    onServer,       \* the order: [status, parcels, version]; a version for each change
    copy,           \* what the page shows of it, or NoCopy
    nextStatus, failed,
    savingStatus, deskBusy,  \* the two flags: of the status, of the parcel's buttons
    shipping,       \* what /admin/shipping/status answered: "unknown", "yes", "no"
    deskCalls,      \* requests in flight
    loads,          \* loads of the order in flight
    presses, upsets,
    ownVersion,     \* history: the order after the desk's last request that succeeded
    outrun       \* history: the last load was sent while another was in flight

deskVars == <<onServer, copy, nextStatus, failed, savingStatus, deskBusy, shipping, deskCalls, loads,
              presses, upsets, ownVersion, outrun>>
shownOrder == <<copy, nextStatus, failed>>
deskHistory == <<ownVersion, outrun>>

NoCopy == [version |-> -1]
Rank == [CONFIRMED |-> 1, PROCESSING |-> 2, DELIVERED |-> 6, CANCELLED |-> 6]
ParcelShown == [awb : BOOLEAN, pickup : BOOLEAN, cancelled : BOOLEAN, delivered : BOOLEAN]

DeskInit ==
    /\ onServer = [status |-> "CONFIRMED", parcels |-> << >>, version |-> 0]
    /\ copy = NoCopy /\ nextStatus = "" /\ failed = FALSE
    /\ savingStatus = FALSE /\ deskBusy = "no" /\ shipping = "unknown"
    /\ deskCalls = {} /\ loads = {[n |-> 1, order |-> NoCopy]}
    /\ presses = 1 /\ upsets = 0
    /\ ownVersion = 0 /\ outrun = FALSE

Loaded == copy # NoCopy /\ ~failed

(* The parcel that is shown: one that is not cancelled, or the first; 0 for none. *)
ShownParcel ==
    LET open == {i \in DOMAIN copy.parcels : ~copy.parcels[i].cancelled}
    IN  IF open # {} THEN CHOOSE i \in open : \A j \in open : i <= j
        ELSE IF copy.parcels = << >> THEN 0 ELSE 1

-----------------------------------------------------------------------------
(* The page's copy *)

(* Nothing cancels a load that is still in flight. *)
load ==
    /\ presses' = presses + 1
    /\ loads' = loads \cup {[n |-> presses + 1, order |-> NoCopy]}
    /\ outrun' = (loads # {})

(* adminGet. *)
ReadOrder(l) ==
    /\ l.order = NoCopy
    /\ loads' = (loads \ {l}) \cup {[l EXCEPT !.order = onServer]}
    /\ UNCHANGED <<onServer, shownOrder, savingStatus, deskBusy, shipping, deskCalls, presses, upsets, deskHistory>>

(* The answers arrive in any order, and each sets the chosen status back. *)
LoadShown(l) ==
    /\ l.order # NoCopy
    /\ copy' = l.order /\ nextStatus' = l.order.status
    /\ loads' = loads \ {l}
    /\ UNCHANGED <<onServer, failed, savingStatus, deskBusy, shipping, deskCalls, presses, upsets, deskHistory>>

(* An error is shown in place of the page. *)
LoadBreaks(l) ==
    /\ upsets < MaxUpsets /\ upsets' = upsets + 1
    /\ failed' = TRUE
    /\ loads' = loads \ {l}
    /\ UNCHANGED <<onServer, copy, nextStatus, savingStatus, deskBusy, shipping, deskCalls, presses, deskHistory>>

(* /admin/shipping/status: an error counts as not configured. *)
ShippingKnown(ok) ==
    /\ shipping = "unknown"
    /\ IF ok THEN UNCHANGED upsets
       ELSE upsets < MaxUpsets /\ upsets' = upsets + 1
    /\ shipping' = IF ok THEN "yes" ELSE "no"
    /\ UNCHANGED <<onServer, shownOrder, savingStatus, deskBusy, deskCalls, loads, presses, deskHistory>>

(* The page is opened anew: the answers to what it asked are not heard. *)
OpenDesk ==
    /\ copy # NoCopy \/ failed
    /\ presses < MaxPresses /\ presses' = presses + 1
    /\ copy' = NoCopy /\ nextStatus' = "" /\ failed' = FALSE
    /\ savingStatus' = FALSE /\ deskBusy' = "no" /\ shipping' = "unknown"
    /\ deskCalls' = {[c EXCEPT !.heard = FALSE] : c \in deskCalls}
    /\ loads' = {[n |-> presses + 1, order |-> NoCopy]} /\ outrun' = FALSE
    /\ UNCHANGED <<onServer, upsets, ownVersion>>

-----------------------------------------------------------------------------
(* Requests *)

AskServer(key, id, status) ==
    /\ presses < MaxPresses /\ presses' = presses + 1
    /\ deskCalls' = deskCalls \cup {[n |-> presses + 1, key |-> key, id |-> id, status |-> status,
                                    at |-> "sent", version |-> 0, heard |-> TRUE]}

ChooseStatus(x) ==
    /\ Loaded /\ x # nextStatus
    /\ nextStatus' = x
    /\ UNCHANGED <<onServer, copy, failed, savingStatus, deskBusy, shipping, deskCalls, loads, presses,
                   upsets, deskHistory>>

(* Mutant: the button is not disabled while a status is being sent. *)
CanUpdate_WhileSaving == nextStatus # copy.status
CanUpdate == ~savingStatus /\ nextStatus # copy.status

updateStatus ==
    /\ Loaded /\ CanUpdate
    /\ savingStatus' = TRUE
    /\ AskServer("status", 0, nextStatus)
    /\ UNCHANGED <<onServer, shownOrder, deskBusy, shipping, loads, upsets, deskHistory>>

(* The buttons for the parcel that is shown; a cancelled one has none. *)
Buttons ==
    LET p == copy.parcels[ShownParcel]
    IN  IF ShownParcel = 0 THEN {"couriers", "create"}
        ELSE IF p.cancelled THEN {}
        ELSE {"invoice", "track"}
             \cup (IF p.awb THEN {"label"} ELSE {"awb"})
             \cup (IF p.awb /\ ~p.pickup THEN {"pickup"} ELSE {})
             \cup (IF p.delivered THEN {} ELSE {"cancel"})

run(key) ==
    /\ Loaded /\ shipping # "no" /\ deskBusy = "no"
    /\ key \in Buttons
    /\ deskBusy' = key
    /\ AskServer(key, ShownParcel, "")
    /\ UNCHANGED <<onServer, shownOrder, savingStatus, shipping, loads, upsets, deskHistory>>

-----------------------------------------------------------------------------
(* The server *)

OpenParcels == {i \in DOMAIN onServer.parcels : ~onServer.parcels[i].cancelled}

(* What a handler refuses by itself. *)
Refuses(c) ==
    \/ c.key = "create" /\ onServer.status = "CANCELLED"
    \/ c.key \in {"pickup", "label"} /\ ~onServer.parcels[c.id].awb
    \/ /\ c.key = "cancel" /\ onServer.parcels[c.id].delivered
       /\ ~onServer.parcels[c.id].cancelled

Raised(status, to) == IF Rank[to] > Rank[status] THEN to ELSE status

(* createShipment: the open parcel, or a new one, with or without an AWB. *)
Created ==
    IF OpenParcels # {} THEN {onServer}
    ELSE {[onServer EXCEPT !.parcels = Append(@, [awb |-> b, pickup |-> FALSE, cancelled |-> FALSE,
                                                  delivered |-> FALSE]),
                           !.status = Raised(@, "PROCESSING")] : b \in BOOLEAN}

(* refreshTracking: on its way, or delivered. *)
Tracked(i) ==
    {onServer, [onServer EXCEPT !.parcels[i].delivered = TRUE, !.status = Raised(@, "DELIVERED")]}

Outcomes(c) ==
    CASE c.key = "status" -> {[onServer EXCEPT !.status = c.status]}
      [] c.key = "create" -> Created
      [] c.key = "awb" -> {[onServer EXCEPT !.parcels[c.id].awb = TRUE]}
      [] c.key = "pickup" -> {[onServer EXCEPT !.parcels[c.id].pickup = TRUE]}
      [] c.key = "cancel" -> {[onServer EXCEPT !.parcels[c.id].cancelled = TRUE]}
      [] c.key = "track" -> Tracked(c.id)
      [] c.key \in {"couriers", "label", "invoice"} -> {onServer}

Becomes(order) ==
    onServer' = IF order = onServer THEN onServer ELSE [order EXCEPT !.version = @ + 1]

ServeDesk(c) ==
    /\ c.at = "sent"
    /\ IF Refuses(c)
         THEN /\ deskCalls' = (deskCalls \ {c}) \cup {[c EXCEPT !.at = "error"]}
              /\ UNCHANGED onServer
         ELSE /\ \E order \in Outcomes(c) : Becomes(order)
              /\ deskCalls' = (deskCalls \ {c}) \cup {[c EXCEPT !.at = "ok", !.version = onServer'.version]}
    /\ UNCHANGED <<shownOrder, savingStatus, deskBusy, shipping, loads, presses, upsets,
                   deskHistory>>

(* Shiprocket's reports, another administrator, the creation by the order's *)
(* confirmation.                                                            *)
ChangesElsewhere ==
    /\ upsets < MaxUpsets /\ upsets' = upsets + 1
    /\ \E order \in {[onServer EXCEPT !.status = x] : x \in DeskStatuses} \cup Created
                      \cup UNION {Tracked(i) \cup {[onServer EXCEPT !.parcels[i].cancelled = TRUE]} : i \in OpenParcels} :
          order # onServer /\ Becomes(order)
    /\ UNCHANGED <<shownOrder, savingStatus, deskBusy, shipping, deskCalls, loads, presses, deskHistory>>

-----------------------------------------------------------------------------
(* Answers *)

Released(c) ==
    IF c.key = "status" THEN savingStatus' = FALSE /\ UNCHANGED deskBusy
    ELSE deskBusy' = "no" /\ UNCHANGED savingStatus

(* Mutant: only a new status is followed by a load. *)
LoadsAfter_Status(c) == c.key = "status"
(* Mutant: only the buttons are. *)
LoadsAfter_Run(c) == c.key # "status"
LoadsAfter(c) == TRUE

(* The button is free again before the load that follows is answered. *)
DeskAnswered(c) ==
    /\ c.heard /\ c.at = "ok"
    /\ deskCalls' = deskCalls \ {c}
    /\ IF LoadsAfter(c) THEN load ELSE UNCHANGED <<presses, loads, outrun>>
    /\ ownVersion' = IF c.version > ownVersion THEN c.version ELSE ownVersion
    /\ Released(c)
    /\ UNCHANGED <<onServer, shownOrder, shipping, upsets>>

(* A refusal, or an answer that does not come; a status that failed takes   *)
(* the whole page away.                                                     *)
DeskErrs(c) ==
    /\ c.heard
    /\ IF c.at = "error" THEN deskCalls' = deskCalls \ {c} /\ UNCHANGED upsets
       ELSE /\ upsets < MaxUpsets /\ upsets' = upsets + 1
            /\ deskCalls' = (deskCalls \ {c}) \cup {[c EXCEPT !.heard = FALSE]}
    /\ failed' = (failed \/ c.key = "status")
    /\ Released(c)
    /\ UNCHANGED <<onServer, copy, nextStatus, shipping, loads, presses, deskHistory>>

Unheard(c) ==
    /\ ~c.heard /\ c.at # "sent"
    /\ deskCalls' = deskCalls \ {c}
    /\ UNCHANGED <<onServer, shownOrder, savingStatus, deskBusy, shipping, loads, presses, upsets, deskHistory>>

DeskNext ==
    \/ \E l \in loads : ReadOrder(l) \/ LoadShown(l) \/ LoadBreaks(l)
    \/ \E ok \in BOOLEAN : ShippingKnown(ok)
    \/ \E x \in DeskStatuses : ChooseStatus(x)
    \/ \E key \in {"couriers", "create", "awb", "pickup", "label", "invoice", "track", "cancel"} : run(key)
    \/ \E c \in deskCalls : ServeDesk(c) \/ DeskAnswered(c) \/ DeskErrs(c) \/ Unheard(c)
    \/ updateStatus \/ OpenDesk \/ ChangesElsewhere

DeskSpec == DeskInit /\ [][DeskNext]_deskVars
-----------------------------------------------------------------------------
(* Properties *)

(* The order, its copies and the flags keep their types. *)
DeskTypeOK ==
    /\ onServer.status \in DOMAIN Rank /\ \A i \in DOMAIN onServer.parcels : onServer.parcels[i] \in ParcelShown
    /\ copy # NoCopy => copy.version \in 0 .. onServer.version /\ nextStatus \in DOMAIN Rank
    /\ shipping \in {"unknown", "yes", "no"} /\ savingStatus \in BOOLEAN /\ failed \in BOOLEAN

(* Once its loads are answered, the page shows what its last requests that  *)
(* succeeded have done, so that a status is not sent a second time nor a     *)
(* button offered for what is done, unless two loads overtook each other;    *)
(* and each flag stands for one request in flight                            *)
(* (orders/[id]/page.tsx:116-153, 253, 331-342).                             *)
DeskIsTrue ==
    LET Heard(Is(_)) == {c \in deskCalls : c.heard /\ Is(c.key)}
    IN  /\ Loaded /\ loads = {} /\ ~outrun => copy.version >= ownVersion
        /\ Cardinality(Heard(LAMBDA k : k = "status")) = IF savingStatus THEN 1 ELSE 0
        /\ Cardinality(Heard(LAMBDA k : k # "status")) = IF deskBusy = "no" THEN 0 ELSE 1
=============================================================================
