----------------------------- MODULE StatusMap -----------------------------
(***************************************************************************)
(* shipping/status-map: from what Shiprocket says about a parcel to the    *)
(* shipment's status, and from there to the status of the order.           *)
(*                                                                         *)
(* A label is a free-form text of which the code only asks which phrases   *)
(* it contains; here it is the set of those phrases.  Several labels hold  *)
(* more than one ("RTO DELIVERED", "UNDELIVERED"), so the order of the     *)
(* questions decides.                                                      *)
(***************************************************************************)
EXTENDS Integers, Sequences

OrderStatus == {"PENDING", "CONFIRMED", "PROCESSING", "PACKED", "SHIPPED",
                "OUT_FOR_DELIVERY", "DELIVERED", "CANCELLED", "RETURNED", "REFUNDED"}
ShipmentStatus == {"LABEL_CREATED", "PICKED_UP", "IN_TRANSIT", "OUT_FOR_DELIVERY",
                   "DELIVERED", "FAILED", "RTO"}

(* Mutant: DELIVERED is asked for first. *)
Questions_DeliveredFirst == <<
    [any |-> {"7", "DELIVERED"}, to |-> "DELIVERED"], [any |-> {"RTO"}, to |-> "RTO"],
    [any |-> {"TRANSIT"}, to |-> "IN_TRANSIT"]>>

(* The questions of mapShiprocketStatus in the order they are asked.  A label *)
(* may be a number instead (current_status_id), which is compared as a whole. *)
Questions == <<
    [any |-> {"7"},                                                  to |-> "DELIVERED"],
    [any |-> {"6", "17", "18", "42", "43"},                          to |-> "IN_TRANSIT"],
    [any |-> {"9", "15", "16"},                                      to |-> "RTO"],
    [any |-> {"19"},                                                 to |-> "OUT_FOR_DELIVERY"],
    [any |-> {"8"},                                                  to |-> "FAILED"],
    [any |-> {"4", "5"},                                             to |-> "PICKED_UP"],
    [any |-> {"UNDELIVERED", "NOT DELIVERED", "UNDELIVERABLE"},      to |-> "FAILED"],
    [any |-> {"RTO"},                                                to |-> "RTO"],
    [any |-> {"OUT FOR DELIVERY", "OUT_FOR_DELIVERY"},               to |-> "OUT_FOR_DELIVERY"],
    [any |-> {"DELIVERED"},                                          to |-> "DELIVERED"],
    [any |-> {"TRANSIT", "REACHED", "MISROUTED", "SHIPPED"},         to |-> "IN_TRANSIT"],
    [any |-> {"PICKED UP", "PICKED_UP", "PICKUP COMPLETE"},          to |-> "PICKED_UP"],
    [any |-> {"CANCEL", "LOST", "DAMAGED", "EXCEPTION", "FAILED"},   to |-> "FAILED"]>>

(* A number is a label's whole text. *)
Numbers == {"4", "5", "6", "7", "8", "9", "15", "16", "17", "18", "19", "42", "43"}
IsLabel(label) == label \cap Numbers # {} => \E n \in Numbers : label = {n}

(* No phrase asked for (an empty label among them): the label is printed. *)
MapStatus(label) ==
    LET hits == {i \in DOMAIN Questions : Questions[i].any \cap label # {}}
    IN  IF hits = {} THEN "LABEL_CREATED"
        ELSE Questions[CHOOSE i \in hits : \A j \in hits : i <= j].to

NoStatus == "none"

(* orderStatusForShipment: the status an order moves forward to, if any. *)
OrderStatusFor(status, label) ==
    CASE status = "LABEL_CREATED" ->
            IF label \cap {"PICKUP", "READY TO SHIP", "MANIFEST"} # {}
            THEN "PACKED" ELSE "PROCESSING"
      [] status \in {"PICKED_UP", "IN_TRANSIT"} -> "SHIPPED"
      [] status = "OUT_FOR_DELIVERY" -> "OUT_FOR_DELIVERY"
      [] status = "DELIVERED" -> "DELIVERED"
      [] status = "RTO" -> "RETURNED"
      [] OTHER -> NoStatus

OrderRank(status) ==
    CASE status = "PENDING" -> 0
      [] status = "CONFIRMED" -> 1
      [] status = "PROCESSING" -> 2
      [] status = "PACKED" -> 3
      [] status = "SHIPPED" -> 4
      [] status = "OUT_FOR_DELIVERY" -> 5
      [] status \in {"DELIVERED", "RETURNED", "CANCELLED"} -> 6
      [] status = "REFUNDED" -> 7
      [] OTHER -> 0
=============================================================================
