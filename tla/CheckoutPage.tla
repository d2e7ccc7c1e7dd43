---------------------------- MODULE CheckoutPage ----------------------------
(***************************************************************************)
(* The checkout page of the shop (web: app/checkout/page.tsx) with what it  *)
(* asks of the API: the summary, the lookup of a PIN code, the re-quote and *)
(* the order, and then the payment window.                                  *)
(*                                                                          *)
(* Every request answers when it likes, in any order, or fails.  PIN codes  *)
(* are model values, each with a town of its own; a total is the price of   *)
(* the bag, with or without the discount of a code.  Prices and stock stand *)
(* still here: Cart and Checkout move them.                                 *)
(***************************************************************************)
EXTENDS Integers, Sequences, FiniteSets

CONSTANTS
    Pins,          \* PIN codes of the right form
    Price,         \* what the bag costs
    Discount,      \* what the code takes off
    MaxTyped,      \* bound on changes of the form
    MaxVerified,   \* bound on clicks on Retry
    MaxPlaced,     \* bound on orders, and on visits of the page
    MaxPageFailures    \* bound on requests and scripts that fail

ASSUME CheckoutPageAssumption ==
    /\ Price \in Nat /\ Discount \in 1 .. Price
    /\ {MaxTyped, MaxVerified, MaxPlaced, MaxPageFailures} \subseteq Nat

VARIABLES
    page,        \* what the browser shows
    field,       \* the PIN code field
    debounce,    \* the timer of 250 ms runs
    pinReqId,    \* number of the latest check
    pinChecks,     \* checks in flight
    pin,         \* what the page says of the PIN code
    paymentMethod,
    total,       \* the amount on the button
    quotes,      \* re-quotes in flight
    placing,     \* the click on "Place order"
    script,      \* the payment script in the document
    bag,         \* the cart is open and has lines
    coded,        \* a coupon is applied to it
    area,        \* what the API knows of a PIN code
    placed,      \* orders
    typed, retried, visits, pageFailures,
    quoted       \* history: the amount on the button came from a re-quote

pageVars == <<page, field, debounce, pinReqId, pinChecks, pin, paymentMethod, total, quotes,
              placing, script, bag, coded, area, placed, typed, retried, visits, pageFailures, quoted>>

NoTown == "noTown"
PinStatus == {"idle", "checking", "ok", "invalid", "unserviceable", "error"}
PinMethods == {"COD", "ONLINE"}
Fields == Pins \cup {"empty", "partial", "malformed"}
Areas == {"serviceable", "unserviceable", "unknown"}
Click == [at : {"no", "sent", "ordered", "script", "window"}, pin : Pins, town : Pins,
          method : PinMethods, total : Nat, quoted : BOOLEAN]
NotPlacing == [at |-> "no"]
PlacedOrder == [pin : Pins, town : Pins, charged : Nat, button : Nat, quoted : BOOLEAN,
                code : BOOLEAN]

NotChecked == [status |-> "idle", geo |-> NoTown]

PageInit ==
    /\ page = "loading" /\ field = "empty" /\ debounce = FALSE /\ pinReqId = 0 /\ pinChecks = {}
    /\ pin = NotChecked /\ paymentMethod = "COD" /\ total = 0 /\ quotes = 0
    /\ placing = NotPlacing /\ script = "absent" /\ bag = TRUE /\ coded \in BOOLEAN
    /\ area \in [Pins -> Areas] /\ placed = <<>>
    /\ typed = 0 /\ retried = 0 /\ visits = 1 /\ pageFailures = 0 /\ quoted = FALSE

formParts == <<field, debounce, pinReqId, pinChecks, pin, paymentMethod>>
totalParts == <<total, quotes, quoted>>
shopParts == <<bag, coded, area, placed>>
pageBounds == <<typed, retried, visits>>

(* The cart's totals count the code on the cart; the quote and the order     *)
(* count the code they are sent.                                            *)
QuotedTotal(withCode) == IF withCode THEN Price - Discount ELSE Price

Fails == pageFailures < MaxPageFailures /\ pageFailures' = pageFailures + 1

-----------------------------------------------------------------------------
(* The summary. *)

(* The method and the delivery rate are chosen with it, so the re-quote     *)
(* effect runs.                                                             *)
Load ==
    /\ page = "loading"
    /\ IF bag
         THEN page' = "form" /\ total' = QuotedTotal(coded) /\ quotes' = 1 /\ quoted' = FALSE
         ELSE page' = "emptyBag" /\ UNCHANGED totalParts
    /\ UNCHANGED <<formParts, placing, script, shopParts, pageBounds, pageFailures>>

LoadFails ==
    /\ page = "loading" /\ Fails
    /\ page' = "failed"
    /\ UNCHANGED <<formParts, totalParts, placing, script, shopParts, pageBounds>>

-----------------------------------------------------------------------------
(* The PIN code. *)

(* A code of the right form only starts the timer: what the page says stays *)
(* until the check begins.  Another input outdates the checks in flight.    *)
TypePin(f) ==
    /\ page = "form" /\ typed < MaxTyped /\ f # field
    /\ field' = f /\ debounce' = (f \in Pins)
    /\ IF f \in Pins
         THEN UNCHANGED <<pinReqId, pin>>
         ELSE /\ pinReqId' = pinReqId + 1
              /\ pin' = [status |-> CASE f = "malformed" -> "invalid"
                                      [] f = "partial" -> "checking"
                                      [] f = "empty" -> "idle",
                         geo |-> NoTown]
    /\ quotes' = quotes + 1
    /\ typed' = typed + 1
    /\ UNCHANGED <<page, pinChecks, paymentMethod, total, quoted, placing, script, shopParts,
                   retried, visits, pageFailures>>

verifyPin ==
    /\ pinReqId' = pinReqId + 1
    /\ pinChecks' = pinChecks \cup {[id |-> pinReqId + 1, pin |-> field]}
    /\ pin' = [status |-> "checking", geo |-> NoTown]

DebounceEnds ==
    /\ page = "form" /\ debounce
    /\ debounce' = FALSE
    /\ verifyPin
    /\ UNCHANGED <<page, field, paymentMethod, totalParts, placing, script, shopParts,
                   pageBounds, pageFailures>>

VerifyAgain ==
    /\ page = "form" /\ pin.status = "error" /\ field \in Pins /\ retried < MaxVerified
    /\ retried' = retried + 1
    /\ verifyPin
    /\ UNCHANGED <<page, field, debounce, paymentMethod, totalParts, placing, script, shopParts,
                   typed, visits, pageFailures>>

(* Only the latest check speaks. *)
IsLatestLookup_Any(l) == TRUE
IsLatestLookup(l) == l.id = pinReqId

LookupAnswered(l) ==
    /\ page = "form"
    /\ pinChecks' = pinChecks \ {l}
    /\ pin' = IF ~IsLatestLookup(l) THEN pin
              ELSE CASE area[l.pin] = "serviceable" -> [status |-> "ok", geo |-> l.pin]
                     [] area[l.pin] = "unserviceable" -> [status |-> "unserviceable", geo |-> l.pin]
                     [] area[l.pin] = "unknown" -> [status |-> "invalid", geo |-> NoTown]
    /\ UNCHANGED <<page, field, debounce, pinReqId, paymentMethod, totalParts, placing, script,
                   shopParts, pageBounds, pageFailures>>

LookupFails(l) ==
    /\ page = "form" /\ Fails
    /\ pinChecks' = pinChecks \ {l}
    /\ pin' = IF IsLatestLookup(l) THEN [status |-> "error", geo |-> NoTown] ELSE pin
    /\ UNCHANGED <<page, field, debounce, pinReqId, paymentMethod, totalParts, placing, script,
                   shopParts, pageBounds>>

-----------------------------------------------------------------------------
(* The amount. *)

ChooseMethod(m) ==
    /\ page = "form" /\ typed < MaxTyped /\ m # paymentMethod
    /\ paymentMethod' = m
    /\ quotes' = quotes + 1
    /\ typed' = typed + 1
    /\ UNCHANGED <<page, field, debounce, pinReqId, pinChecks, pin, total, quoted, placing, script,
                   shopParts, retried, visits, pageFailures>>

(* The page sends no code with a quote. *)
QuoteSends_CartCode == QuotedTotal(coded)
QuoteSends == QuotedTotal(FALSE)

QuoteAnswered ==
    /\ page = "form" /\ quotes > 0
    /\ quotes' = quotes - 1 /\ total' = QuoteSends /\ quoted' = TRUE
    /\ UNCHANGED <<page, formParts, placing, script, shopParts, pageBounds, pageFailures>>

QuoteFails ==
    /\ page = "form" /\ quotes > 0 /\ Fails
    /\ quotes' = quotes - 1
    /\ UNCHANGED <<page, formParts, total, quoted, placing, script, shopParts, pageBounds>>

-----------------------------------------------------------------------------
(* The order. *)

placeOrder ==
    /\ page = "form" /\ placing.at = "no" /\ Len(placed) < MaxPlaced
    /\ field \in Pins /\ pin.status = "ok" /\ pin.geo # NoTown
    /\ placing' = [at |-> "sent", pin |-> field, town |-> pin.geo, method |-> paymentMethod,
                   total |-> total, quoted |-> quoted]
    /\ UNCHANGED <<page, formParts, totalParts, script, shopParts, pageBounds, pageFailures>>

(* The API takes the order only for a served PIN code and for the town of   *)
(* that code. *)
Delivered_AnyTown(o) == area[o.pin] = "serviceable"
Delivered(o) == area[o.pin] = "serviceable" /\ o.town = o.pin

Accept ==
    /\ bag /\ Delivered(placing)
    /\ placed' = Append(placed, [pin |-> placing.pin, town |-> placing.town,
                                 charged |-> QuotedTotal(FALSE), button |-> placing.total,
                                 quoted |-> placing.quoted, code |-> coded])
    /\ bag' = (placing.method = "ONLINE")
    /\ coded' = (coded /\ placing.method = "ONLINE")

OrderAccepted ==
    /\ placing.at = "sent" /\ Accept
    /\ placing' = [placing EXCEPT !.at = "ordered"]
    /\ UNCHANGED <<page, formParts, totalParts, script, area, pageBounds, pageFailures>>

(* Refused (a line out of stock, the minimum, the method), or the answer is *)
(* lost, with the order or without. *)
OrderRefused ==
    /\ placing.at = "sent"
    /\ placing' = NotPlacing
    /\ \/ UNCHANGED <<shopParts, pageFailures>>
       \/ Fails /\ Accept /\ UNCHANGED area
    /\ UNCHANGED <<page, formParts, totalParts, script, pageBounds>>

(* Cash on delivery, or the payment window. *)
AfterOrder ==
    /\ placing.at = "ordered"
    /\ IF placing.method = "COD"
         THEN page' = "order" /\ placing' = NotPlacing /\ UNCHANGED script
         ELSE /\ UNCHANGED page
              /\ CASE script = "absent" ->
                        script' = "loading" /\ placing' = [placing EXCEPT !.at = "script"]
                   [] script = "loaded" ->
                        placing' = [placing EXCEPT !.at = "window"] /\ UNCHANGED script
                   [] script \in {"failed", "loading"} -> placing' = NotPlacing /\ UNCHANGED script
    /\ UNCHANGED <<formParts, totalParts, shopParts, pageBounds, pageFailures>>

(* A script that fails stays in the document, and is not asked for again.   *)
ScriptEnds ==
    /\ placing.at = "script"
    /\ \/ script' = "loaded" /\ placing' = [placing EXCEPT !.at = "window"] /\ UNCHANGED pageFailures
       \/ Fails /\ script' = "failed" /\ placing' = NotPlacing
    /\ UNCHANGED <<page, formParts, totalParts, shopParts, pageBounds>>

(* Paid and verified, paid and not verified, or dismissed. *)
WindowEnds(paid) ==
    /\ placing.at = "window"
    /\ page' = "order" /\ placing' = NotPlacing
    /\ bag' = (bag /\ ~paid) /\ coded' = (coded /\ ~paid)
    /\ UNCHANGED <<formParts, totalParts, script, area, placed, pageBounds, pageFailures>>

(* The shopper comes back, by a link, which keeps the script, or anew.      *)
Visit ==
    /\ page # "loading" /\ placing.at = "no" /\ visits < MaxPlaced
    /\ page' = "loading" /\ visits' = visits + 1
    /\ field' = "empty" /\ debounce' = FALSE /\ pinReqId' = 0 /\ pinChecks' = {} /\ pin' = NotChecked
    /\ paymentMethod' = "COD" /\ total' = 0 /\ quotes' = 0 /\ quoted' = FALSE
    /\ script' \in {script, "absent"}
    /\ UNCHANGED <<placing, shopParts, typed, retried, pageFailures>>

-----------------------------------------------------------------------------
PageNext ==
    \/ Load \/ LoadFails \/ DebounceEnds \/ VerifyAgain \/ QuoteAnswered \/ QuoteFails
    \/ placeOrder \/ OrderAccepted \/ OrderRefused \/ AfterOrder \/ ScriptEnds \/ Visit
    \/ \E f \in Fields : TypePin(f)
    \/ \E m \in PinMethods : ChooseMethod(m)
    \/ \E l \in pinChecks : LookupAnswered(l) \/ LookupFails(l)
    \/ \E paid \in BOOLEAN : WindowEnds(paid)

PageSpec == PageInit /\ [][PageNext]_pageVars

-----------------------------------------------------------------------------
PageTypeOK ==
    /\ page \in {"loading", "form", "emptyBag", "failed", "order"}
    /\ field \in Fields /\ debounce \in BOOLEAN /\ pinReqId \in Nat
    /\ pinChecks \subseteq [id : Nat, pin : Pins]
    /\ pin \in [status : PinStatus, geo : Pins \cup {NoTown}]
    /\ paymentMethod \in PinMethods /\ total \in Nat /\ quotes \in Nat /\ quoted \in BOOLEAN
    /\ placing \in Click \cup {NotPlacing}
    /\ script \in {"absent", "loading", "loaded", "failed"}
    /\ bag \in BOOLEAN /\ coded \in BOOLEAN /\ area \in [Pins -> Areas]
    /\ placed \in Seq(PlacedOrder)

(* Once the timer has run and the latest check has answered, a PIN code the *)
(* page calls verified is the one in the field, however the answers crossed *)
(* and whatever was typed meanwhile (checkout/page.tsx:72-118).             *)
VerifiedIsTyped ==
    page = "form" /\ ~debounce /\ pin.status = "ok" => pin.geo = field

(* An order goes to a served PIN code and to its own town, although the     *)
(* page may send the town of the code that was typed before                 *)
(* (orders.service.ts:84-96).                                               *)
OrdersAreDeliverable ==
    \A o \in DOMAIN placed : area[placed[o].pin] = "serviceable" /\ placed[o].town = placed[o].pin

(* The button's amount, once a re-quote has set it, is what the order costs *)
(* (checkout/page.tsx:121-133, 416).                                        *)
ButtonIsCharged ==
    \A o \in DOMAIN placed : placed[o].quoted => placed[o].charged = placed[o].button

(* What the checkout page tells and sends is so. *)
PageIsTrue == VerifiedIsTyped /\ OrdersAreDeliverable /\ ButtonIsCharged
=============================================================================
