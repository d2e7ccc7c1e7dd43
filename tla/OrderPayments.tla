--------------------------- MODULE OrderPayments ---------------------------
(***************************************************************************)
(* The payment life cycle of an order (apps/api/src/orders/orders.service  *)
(* and apps/api/src/payments): placing, retrying and verifying a payment,  *)
(* the gateway's webhooks, and the status an administrator sets.           *)
(*                                                                         *)
(* Every HTTP call is a request slot with a program counter and the values *)
(* it has read so far.  Between two awaits of a handler any other request  *)
(* may run, so a value that was read is stale when it is used.  A database *)
(* transaction that only writes rows it has not read is one step: its row  *)
(* locks are held to the commit.  The stock arithmetic inside these        *)
(* transactions reads before it writes and is the subject of StockLedger;  *)
(* here a stock movement is a counter.                                     *)
(***************************************************************************)
EXTENDS Integers, FiniteSets

CONSTANTS
    Orders,        \* order ids
    NoOrder,       \* a value outside Orders
    WithCoupon,    \* orders placed with a coupon (order.couponId is set)
    Customers,     \* orders of a logged-in customer whose total earns points
    MaxPayments,   \* bound: payment ids are 1..MaxPayments in creation order
    Requests,      \* request slots: how many calls can be in flight at once
    AdminTargets,  \* the statuses an administrator chooses from
    MaxCancels,    \* bound on CANCELLED updates per order
    MaxFailures    \* bound on handlers that stop half way

OrderStatus == {"PENDING", "CONFIRMED", "PROCESSING", "PACKED", "SHIPPED",
                "OUT_FOR_DELIVERY", "DELIVERED", "CANCELLED", "RETURNED", "REFUNDED"}
PaymentStatus == {"PENDING", "PAID", "FAILED"}
Methods == {"ONLINE", "COD"}
PaymentIds == 1..MaxPayments

ASSUME ConstantsAssumption ==
    /\ NoOrder \notin Orders
    /\ MaxPayments \in Nat
    /\ MaxCancels \in Nat
    /\ MaxFailures \in Nat
    /\ AdminTargets \subseteq OrderStatus

VARIABLES
    order,     \* Order rows; confirmedAt is 0 for null, else the payment whose
               \* finalisation set it
    payment,   \* Payment rows, by id; order = NoOrder while the id is unused
    created,   \* how many payments exist: ids are given out in createdAt order
    gateway,   \* external: what happened to the payment at Razorpay
    ledger,    \* side effects of confirmation, per order
    restock,   \* stock movements of cancellations, per order
    handovers, \* calls of shipping.autoCreateForOrder, per order
    req,       \* request slots
    failures   \* handlers that stopped half way so far

vars == <<order, payment, created, gateway, ledger, restock, handovers, req, failures>>

OC == INSTANCE OrderConfirmation
        WITH confirmedBy <- [o \in Orders |-> order[o].confirmedAt]

-----------------------------------------------------------------------------
(* Rows and requests *)

OrderRow == [placed: BOOLEAN, status: OrderStatus, paymentStatus: PaymentStatus,
             confirmedAt: 0..MaxPayments]
PaymentRow == [order: Orders \cup {NoOrder}, method: Methods, status: PaymentStatus,
               gatewayOrder: BOOLEAN]
GatewayEvents == {"failed", "authorised", "captured"}
Ledger == [commit: Nat, redeem: Nat, loyalty: Nat, notify: Nat]
Restock == [release: Nat, return: Nat]

Pcs == {"idle", "retryCreate", "initiate", "recordInit", "finalizeRead", "finalizeTx",
        "handOff", "failRead", "failPayment", "failOrder", "verify", "adminTx"}

Request == [pc: Pcs,
            order: Orders \cup {NoOrder},
            payment: 0..MaxPayments,
            method: Methods,
            codPending: BOOLEAN,        \* the finaliser's argument, resolved
            paymentStatus: PaymentStatus, \* order.paymentStatus when it was read
            target: OrderStatus]        \* the status an administrator asked for

Idle == [pc |-> "idle", order |-> NoOrder, payment |-> 0, method |-> "ONLINE",
         codPending |-> FALSE, paymentStatus |-> "PENDING", target |-> "PENDING"]

Unplaced == [placed |-> FALSE, status |-> "PENDING", paymentStatus |-> "PENDING",
             confirmedAt |-> 0]
NoPayment == [order |-> NoOrder, method |-> "ONLINE", status |-> "PENDING",
              gatewayOrder |-> FALSE]

Init ==
    /\ order = [o \in Orders |-> Unplaced]
    /\ payment = [p \in PaymentIds |-> NoPayment]
    /\ created = 0
    /\ gateway = [p \in PaymentIds |-> {}]
    /\ ledger = [o \in Orders |-> OC!Untouched]
    /\ restock = [o \in Orders |-> [release |-> 0, return |-> 0]]
    /\ handovers = [o \in Orders |-> 0]
    /\ req = [r \in Requests |-> Idle]
    /\ failures = 0

PaymentsOf(o) == {p \in 1..created : payment[p].order = o}
IsLatest(p, o) == p \in PaymentsOf(o) /\ \A q \in PaymentsOf(o) : q <= p

(* Request r starts, or moves on, with these fields; Done(r) frees its slot. *)
Start(r, fields) == req[r].pc = "idle" /\ req' = [req EXCEPT ![r] = fields]
At(r, pc) == req[r].pc = pc
Goto(r, pc) == req' = [req EXCEPT ![r].pc = pc]
Done(r) == req' = [req EXCEPT ![r] = Idle]

-----------------------------------------------------------------------------
(* Placing an order and retrying its payment *)

(* The bound on payments, counting the retries that have still to create one. *)
PaymentIdLeft ==
    created + Cardinality({r \in Requests : req[r].pc = "retryCreate"}) < MaxPayments

(* payment.create of placeOrder and of retryPayment. *)
CreatePayment(o, m) ==
    /\ created < MaxPayments
    /\ created' = created + 1
    /\ payment' = [payment EXCEPT ![created + 1] =
                     [order |-> o, method |-> m, status |-> "PENDING", gatewayOrder |-> FALSE]]

(* placeOrder's transaction: the order row and its first payment. *)
PlaceOrder(r, o, m) ==
    /\ PaymentIdLeft
    /\ ~order[o].placed
    /\ order' = [order EXCEPT ![o].placed = TRUE]
    /\ CreatePayment(o, m)
    /\ Start(r, [Idle EXCEPT !.pc = "initiate", !.order = o, !.payment = created + 1,
                             !.method = m, !.codPending = (m = "COD")])
    /\ UNCHANGED <<gateway, ledger, restock, handovers, failures>>

(* retryPayment reads the order and refuses one that is paid or not PENDING. *)
RetryPayment(r, o, m) ==
    /\ PaymentIdLeft
    /\ order[o].placed
    /\ order[o].paymentStatus # "PAID"
    /\ order[o].status = "PENDING"
    /\ Start(r, [Idle EXCEPT !.pc = "retryCreate", !.order = o, !.method = m,
                             !.codPending = (m = "COD")])
    /\ UNCHANGED <<order, payment, created, gateway, ledger, restock, handovers, failures>>

RetryCreate(r) ==
    /\ At(r, "retryCreate")
    /\ CreatePayment(req[r].order, req[r].method)
    /\ req' = [req EXCEPT ![r].pc = "initiate", ![r].payment = created + 1]
    /\ UNCHANGED <<order, gateway, ledger, restock, handovers, failures>>

(* payments.initiate answers; when it throws the request stops (see Stop). *)
Initiate(r) ==
    /\ At(r, "initiate")
    /\ Goto(r, "recordInit")
    /\ UNCHANGED <<order, payment, created, gateway, ledger, restock, handovers, failures>>

(* The gateway order is stored; a method without a client action (COD) goes *)
(* straight on to finalizePayment.                                          *)
RecordInit(r) ==
    /\ At(r, "recordInit")
    /\ payment' = [payment EXCEPT ![req[r].payment].gatewayOrder = (req[r].method = "ONLINE")]
    /\ IF req[r].method = "COD" THEN Goto(r, "finalizeRead") ELSE Done(r)
    /\ UNCHANGED <<order, created, gateway, ledger, restock, handovers, failures>>

-----------------------------------------------------------------------------
(* finalizePayment and failPayment *)

(* Mutant: a payment that failed once counts as finished. *)
FinalizeRead_FailedIsFinal(r) ==
    /\ At(r, "finalizeRead")
    /\ IF payment[req[r].payment].status \in {"PAID", "FAILED"}
       THEN Done(r) ELSE Goto(r, "finalizeTx")
    /\ UNCHANGED <<order, payment, created, gateway, ledger, restock, handovers, failures>>

(* A payment that is already PAID ends the call; otherwise the transaction *)
(* follows with what was read.                                             *)
FinalizeRead(r) ==
    /\ At(r, "finalizeRead")
    /\ IF payment[req[r].payment].status = "PAID" THEN Done(r) ELSE Goto(r, "finalizeTx")
    /\ UNCHANGED <<order, payment, created, gateway, ledger, restock, handovers, failures>>

(* commitStock, the coupon's redemption, loyalty points (only a customer's, *)
(* only for money received) and the notification, on top of what is there.  *)
Apply(o, paid, l) ==
    [commit  |-> l.commit + 1,
     redeem  |-> IF o \in WithCoupon THEN l.redeem + 1 ELSE l.redeem,
     loyalty |-> IF o \in Customers /\ paid THEN l.loyalty + 1 ELSE l.loyalty,
     notify  |-> l.notify + 1]

(* Mutant: the early return after a lost claim is missing. *)
FinalizeLost_GoesOn(r) ==
    LET o == req[r].order
    IN  /\ At(r, "finalizeTx")
        /\ order[o].confirmedAt # 0
        /\ ledger' = [ledger EXCEPT ![o] = Apply(o, ~req[r].codPending, @)]
        /\ Goto(r, "handOff")
        /\ UNCHANGED <<order, payment, created, gateway, restock, handovers, failures>>

(* The claim on confirmedAt = null: a transaction that matches no row changes *)
(* nothing.                                                                   *)
FinalizeLost(r) ==
    /\ At(r, "finalizeTx")
    /\ order[req[r].order].confirmedAt # 0
    /\ Done(r)
    /\ UNCHANGED <<order, payment, created, gateway, ledger, restock, handovers, failures>>

FinalizeClaimed(r) ==
    LET o == req[r].order
        p == req[r].payment
        settled == IF req[r].codPending THEN "PENDING" ELSE "PAID"
    IN  /\ At(r, "finalizeTx")
        /\ order[o].confirmedAt = 0
        /\ order' = [order EXCEPT ![o].status = "CONFIRMED",
                                  ![o].paymentStatus = settled,
                                  ![o].confirmedAt = p]
        /\ payment' = [payment EXCEPT ![p].status = settled]
        /\ ledger' = [ledger EXCEPT ![o] = Apply(o, ~req[r].codPending, @)]
        /\ Goto(r, "handOff")
        /\ UNCHANGED <<created, gateway, restock, handovers, failures>>

(* The winner, and only the winner, hands the order to shipping. *)
HandOff(r) ==
    /\ At(r, "handOff")
    /\ handovers' = [handovers EXCEPT ![req[r].order] = @ + 1]
    /\ Done(r)
    /\ UNCHANGED <<order, payment, created, gateway, ledger, restock, failures>>

FailRead(r) ==
    /\ At(r, "failRead")
    /\ IF payment[req[r].payment].status \in {"PAID", "FAILED"}
       THEN Done(r) ELSE Goto(r, "failPayment")
    /\ UNCHANGED <<order, payment, created, gateway, ledger, restock, handovers, failures>>

FailPayment(r) ==
    /\ At(r, "failPayment")
    /\ payment' = [payment EXCEPT ![req[r].payment].status = "FAILED"]
    /\ Goto(r, "failOrder")
    /\ UNCHANGED <<order, created, gateway, ledger, restock, handovers, failures>>

(* Mutant: the failure is written to the order's status, not its paymentStatus. *)
FailOrder_WritesStatus(r) ==
    /\ At(r, "failOrder")
    /\ order' = [order EXCEPT ![req[r].order].status = "FAILED"]
    /\ Done(r)
    /\ UNCHANGED <<payment, created, gateway, ledger, restock, handovers, failures>>

FailOrder(r) ==
    /\ At(r, "failOrder")
    /\ order' = [order EXCEPT ![req[r].order].paymentStatus = "FAILED"]
    /\ Done(r)
    /\ UNCHANGED <<payment, created, gateway, ledger, restock, handovers, failures>>

-----------------------------------------------------------------------------
(* The two ways a payment outcome arrives *)

(* Mutant: the refusal of COD payments is missing. *)
VerifyFromClient_EvenCod(r, o) ==
    \E p \in PaymentsOf(o) :
        /\ IsLatest(p, o)
        /\ payment[p].status # "PAID"
        /\ Start(r, [Idle EXCEPT !.pc = "verify", !.order = o, !.payment = p])
        /\ UNCHANGED <<order, payment, created, gateway, ledger, restock, handovers, failures>>

(* verifyFromClient looks only at the latest payment of the order, answers *)
(* at once for a PAID one and refuses COD.                                 *)
VerifyFromClient(r, o) ==
    \E p \in PaymentsOf(o) :
        /\ IsLatest(p, o)
        /\ payment[p].status # "PAID"
        /\ payment[p].method # "COD"
        /\ Start(r, [Idle EXCEPT !.pc = "verify", !.order = o, !.payment = p])
        /\ UNCHANGED <<order, payment, created, gateway, ledger, restock, handovers, failures>>

(* Mutant: the signature is not compared. *)
VerifyAccepted_AnySignature(r) ==
    /\ At(r, "verify")
    /\ Goto(r, "finalizeRead")
    /\ UNCHANGED <<order, payment, created, gateway, ledger, restock, handovers, failures>>

(* A genuine signature exists once the gateway authorised the payment. A    *)
(* lookup that answers "captured", or that is unavailable, accepts it.      *)
VerifyAccepted(r) ==
    /\ At(r, "verify")
    /\ "authorised" \in gateway[req[r].payment]
    /\ Goto(r, "finalizeRead")
    /\ UNCHANGED <<order, payment, created, gateway, ledger, restock, handovers, failures>>

(* Missing fields, a signature that does not match, not captured yet. *)
VerifyRejected(r) ==
    /\ At(r, "verify")
    /\ Goto(r, "failRead")
    /\ UNCHANGED <<order, payment, created, gateway, ledger, restock, handovers, failures>>

(* Webhooks are delivered at least once, in any order and arbitrarily late. *)
WebhookPaid(r, p) ==
    /\ "captured" \in gateway[p]
    /\ Start(r, [Idle EXCEPT !.pc = "finalizeRead", !.order = payment[p].order, !.payment = p,
                             !.codPending = (payment[p].method = "COD")])
    /\ UNCHANGED <<order, payment, created, gateway, ledger, restock, handovers, failures>>

WebhookFailed(r, p) ==
    /\ "failed" \in gateway[p]
    /\ Start(r, [Idle EXCEPT !.pc = "failRead", !.order = payment[p].order, !.payment = p])
    /\ UNCHANGED <<order, payment, created, gateway, ledger, restock, handovers, failures>>

-----------------------------------------------------------------------------
(* External: the customer and the gateway *)

(* A declined attempt, then possibly another one on the same gateway order. *)
GatewayDeclines(p) ==
    /\ payment[p].gatewayOrder
    /\ "authorised" \notin gateway[p]
    /\ gateway' = [gateway EXCEPT ![p] = @ \cup {"failed"}]
    /\ UNCHANGED <<order, payment, created, ledger, restock, handovers, req, failures>>

GatewayAuthorises(p) ==
    /\ payment[p].gatewayOrder
    /\ gateway' = [gateway EXCEPT ![p] = @ \cup {"authorised"}]
    /\ UNCHANGED <<order, payment, created, ledger, restock, handovers, req, failures>>

GatewayCaptures(p) ==
    /\ "authorised" \in gateway[p]
    /\ gateway' = [gateway EXCEPT ![p] = @ \cup {"captured"}]
    /\ UNCHANGED <<order, payment, created, ledger, restock, handovers, req, failures>>

-----------------------------------------------------------------------------
(* The administrator *)

(* adminSetStatus reads the order first and decides on that copy. *)
AdminSetStatus(r, o, s) ==
    /\ order[o].placed
    /\ s = "CANCELLED" => restock[o].release + restock[o].return < MaxCancels
    /\ Start(r, [Idle EXCEPT !.pc = "adminTx", !.order = o, !.target = s,
                             !.paymentStatus = order[o].paymentStatus])
    /\ UNCHANGED <<order, payment, created, gateway, ledger, restock, handovers, failures>>

(* Mutant: everything but a PENDING payment counts as paid. *)
AdminTx_ReturnsFailed(r) ==
    LET o == req[r].order
    IN  /\ At(r, "adminTx")
        /\ order' = [order EXCEPT ![o].status = req[r].target]
        /\ restock' =
             IF req[r].target # "CANCELLED" THEN restock
             ELSE IF req[r].paymentStatus # "PENDING"
                  THEN [restock EXCEPT ![o].return = @ + 1]
                  ELSE [restock EXCEPT ![o].release = @ + 1]
        /\ Done(r)
        /\ UNCHANGED <<payment, created, gateway, ledger, handovers, failures>>

(* Its transaction; a cancellation returns stock when the copy it read said *)
(* PAID and releases the reservation otherwise.                             *)
AdminTx(r) ==
    LET o == req[r].order
    IN  /\ At(r, "adminTx")
        /\ order' = [order EXCEPT ![o].status = req[r].target]
        /\ restock' =
             IF req[r].target # "CANCELLED" THEN restock
             ELSE IF req[r].paymentStatus = "PAID"
                  THEN [restock EXCEPT ![o].return = @ + 1]
                  ELSE [restock EXCEPT ![o].release = @ + 1]
        /\ Done(r)
        /\ UNCHANGED <<payment, created, gateway, ledger, handovers, failures>>

-----------------------------------------------------------------------------
(* A handler stops at an await: the gateway or the database throws, or the *)
(* process exits.  Steps already committed stay.                           *)
Stop(r) ==
    /\ req[r].pc # "idle"
    /\ failures < MaxFailures
    /\ failures' = failures + 1
    /\ Done(r)
    /\ UNCHANGED <<order, payment, created, gateway, ledger, restock, handovers>>

Finalize(r) == FinalizeRead(r) \/ FinalizeLost(r) \/ FinalizeClaimed(r) \/ HandOff(r)
Fail(r) == FailRead(r) \/ FailPayment(r) \/ FailOrder(r)
Place(r) == RetryCreate(r) \/ Initiate(r) \/ RecordInit(r)
Verify(r) == VerifyAccepted(r) \/ VerifyRejected(r)

(* One more step of a request that is under way. *)
Continue(r) == Place(r) \/ Finalize(r) \/ Fail(r) \/ Verify(r) \/ AdminTx(r)

Arrive(r) ==
    \/ \E o \in Orders, m \in Methods : PlaceOrder(r, o, m) \/ RetryPayment(r, o, m)
    \/ \E o \in Orders : VerifyFromClient(r, o)
    \/ \E p \in PaymentIds : WebhookPaid(r, p) \/ WebhookFailed(r, p)
    \/ \E o \in Orders, s \in AdminTargets : AdminSetStatus(r, o, s)

GatewayStep(p) == GatewayDeclines(p) \/ GatewayAuthorises(p) \/ GatewayCaptures(p)

Next ==
    \/ \E r \in Requests : Arrive(r) \/ Continue(r) \/ Stop(r)
    \/ \E p \in PaymentIds : GatewayStep(p)

Spec == Init /\ [][Next]_vars
-----------------------------------------------------------------------------
(* Fairness: a handler that was started keeps running, and Razorpay repeats  *)
(* a payment.captured webhook until an attempt is taken; slots are busy now  *)
(* and then, hence strong fairness.  Customers, administrators and the       *)
(* gateway's own decisions are never forced.                                 *)
Redelivery(p) == \E r \in Requests : WebhookPaid(r, p)

Fairness ==
    /\ \A r \in Requests : WF_vars(Continue(r))
    /\ \A p \in PaymentIds : SF_vars(Redelivery(p))

FairSpec == Spec /\ Fairness

-----------------------------------------------------------------------------
(* Properties *)

(* Every row, counter and request slot stays within its type; payment ids   *)
(* up to `created` belong to a placed order and the others to none.         *)
TypeOK ==
    /\ order \in [Orders -> OrderRow]
    /\ payment \in [PaymentIds -> PaymentRow]
    /\ created \in 0..MaxPayments
    /\ gateway \in [PaymentIds -> SUBSET GatewayEvents]
    /\ ledger \in [Orders -> Ledger]
    /\ restock \in [Orders -> Restock]
    /\ handovers \in [Orders -> Nat]
    /\ req \in [Requests -> Request]
    /\ failures \in 0..MaxFailures

(* finalizePayment's claim ("stock, coupon and loyalty side effects run     *)
(* exactly once"): whatever client callbacks, webhooks, retries and COD      *)
(* placements race, an unconfirmed order shows no side effect and a          *)
(* confirmed one each exactly once, loyalty only when the payment that       *)
(* confirmed it was an online one.                                           *)
SideEffectsExactlyOnce ==
    \A o \in Orders :
        LET p == order[o].confirmedAt
        IN  ledger[o] = IF p = 0 THEN OC!Untouched
                        ELSE OC!Settled(o, payment[p].method = "ONLINE")

(* A COD payment is money collected at the door: no verify call, webhook or *)
(* retry of another payment ever marks it PAID or FAILED.                    *)
CodStaysPending ==
    \A p \in 1..created : payment[p].method = "COD" => payment[p].status = "PENDING"

(* A payment reads PAID only if the gateway authorised it and it is the very *)
(* payment that confirmed its order; so no order has two PAID payments.      *)
PaidIsBackedAndConfirmed ==
    \A p \in 1..created :
        payment[p].status = "PAID" =>
            "authorised" \in gateway[p] /\ order[payment[p].order].confirmedAt = p

(* An order is handed to shipping at most once, and only after it was        *)
(* confirmed, although two requests may finalise it at the same time.        *)
HandedOverOnce ==
    \A o \in Orders : handovers[o] <= (IF order[o].confirmedAt = 0 THEN 0 ELSE 1)

(* Stock is only ever put back on hand for an order whose stock was taken:   *)
(* the paymentStatus adminSetStatus read before its transaction may be old,  *)
(* but PAID was never premature.                                             *)
ReturnsOnlySoldStock ==
    \A o \in Orders : restock[o].return > 0 => ledger[o].commit = 1

(* OrderPayments implements OrderConfirmation: every step either confirms an *)
(* order with all its side effects at once or changes none of them.          *)
ImplementsConfirmation == OC!Spec

(* finalizePayment is "safe to call from the client callback AND the         *)
(* webhook": money captured at the gateway confirms its order in the end,    *)
(* whichever calls fail, race or come twice.                                 *)
CapturedIsConfirmed ==
    \A p \in PaymentIds :
        "captured" \in gateway[p] ~> \E o \in Orders :
            order[o].confirmedAt # 0 /\ payment[p].order = o

(* docs/ROADMAP.md: the webhook is the "source of truth" for a payment.  Once *)
(* nothing is in flight, an order confirmed by a payment that was captured,  *)
(* and of which the gateway never reported a failure, reads PAID.            *)
(* failPayment's unguarded updates break it.                                 *)
CapturedOrderReadsPaid ==
    \A o \in Orders :
        LET p == order[o].confirmedAt
        IN  (/\ p # 0
             /\ "captured" \in gateway[p]
             /\ \A q \in PaymentsOf(o) : "failed" \notin gateway[q]
             /\ \A r \in Requests : req[r].pc = "idle")
            => order[o].paymentStatus = "PAID"

(* "Not-yet-paid: just release the reservation. Paid: return sold stock.":   *)
(* once an order whose stock was sold has been cancelled, and nothing is in  *)
(* flight, the sold stock is back.                                           *)
CancelReturnsSoldStock ==
    \A o \in Orders :
        (/\ order[o].status = "CANCELLED"
         /\ \A r \in Requests : req[r].pc = "idle")
            => restock[o].return >= ledger[o].commit
=============================================================================
