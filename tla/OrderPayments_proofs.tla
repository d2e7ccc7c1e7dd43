----------------------- MODULE OrderPayments_proofs -----------------------
(***************************************************************************)
(* Proofs about OrderPayments, for any number of orders, payments, request *)
(* slots and failures.                                                     *)
(***************************************************************************)
EXTENDS OrderPayments, TLAPS

(* A request that works on a payment, or only on an order. *)
OnPayment == {"initiate", "recordInit", "finalizeRead", "finalizeTx", "handOff",
              "failRead", "failPayment", "failOrder", "verify"}
Finalizing == {"finalizeRead", "finalizeTx"}
Failing == {"verify", "failRead", "failPayment", "failOrder"}

(* Ids beyond `created` are unused; the others belong to an order. *)
PaymentRowsOK ==
    \A p \in PaymentIds :
        /\ p > created => payment[p] = NoPayment
        /\ p <= created => payment[p].order \in Orders
        /\ payment[p].gatewayOrder => payment[p].method = "ONLINE" /\ p <= created

(* The gateway only knows online payments it was told of, and captures only *)
(* what it authorised.                                                      *)
GatewayOK ==
    \A p \in PaymentIds :
        /\ gateway[p] # {} => p <= created /\ payment[p].method = "ONLINE"
        /\ "captured" \in gateway[p] => "authorised" \in gateway[p]

(* What a request carries agrees with the rows it will write. *)
RequestOK(r) ==
    /\ req[r].pc # "idle" => req[r].order \in Orders
    /\ req[r].pc \in OnPayment =>
         /\ req[r].payment \in 1..created
         /\ payment[req[r].payment].order = req[r].order
    /\ req[r].pc = "retryCreate" => req[r].codPending = (req[r].method = "COD")
    /\ req[r].pc \in {"initiate", "recordInit"} =>
         /\ req[r].method = payment[req[r].payment].method
         /\ req[r].codPending = (req[r].method = "COD")
    /\ req[r].pc \in Finalizing =>
         /\ req[r].codPending = (payment[req[r].payment].method = "COD")
         /\ ~req[r].codPending => "authorised" \in gateway[req[r].payment]
    /\ req[r].pc \in Failing => payment[req[r].payment].method = "ONLINE"
    /\ req[r].pc = "verify" => ~req[r].codPending
    /\ req[r].pc = "adminTx" /\ req[r].paymentStatus = "PAID"
         => order[req[r].order].confirmedAt # 0

RequestsOK == \A r \in Requests : RequestOK(r)

(* The winner of the claim is alone in handing its order over. *)
HandOffOK ==
    \A r \in Requests : req[r].pc = "handOff" =>
        /\ order[req[r].order].confirmedAt # 0
        /\ handovers[req[r].order] = 0
        /\ \A q \in Requests : q # r /\ req[q].pc = "handOff" => req[q].order # req[r].order

(* PAID on the order is never premature; a confirmation names one of the    *)
(* order's own payments.                                                    *)
OrdersOK ==
    \A o \in Orders :
        /\ order[o].paymentStatus = "PAID" => order[o].confirmedAt # 0
        /\ order[o].confirmedAt # 0 =>
             order[o].confirmedAt <= created /\ payment[order[o].confirmedAt].order = o

(* The parts that do not look at requests. *)
RowsOK ==
    /\ PaymentRowsOK
    /\ GatewayOK
    /\ OrdersOK
    /\ SideEffectsExactlyOnce
    /\ CodStaysPending
    /\ PaidIsBackedAndConfirmed
    /\ HandedOverOnce
    /\ ReturnsOnlySoldStock

IInv == TypeOK /\ RowsOK /\ RequestsOK /\ HandOffOK

(* What no step undoes: payments keep their order and method, the gateway    *)
(* keeps its events, a confirmation stays.                                   *)
Grows ==
    /\ created' \in created..MaxPayments
    /\ \A p \in 1..created :
          /\ payment'[p].order = payment[p].order
          /\ payment'[p].method = payment[p].method
          /\ gateway[p] \subseteq gateway'[p]
    /\ \A o \in Orders : order[o].confirmedAt # 0 => order'[o].confirmedAt # 0

-----------------------------------------------------------------------------
(* Types of the records a step builds *)

LEMMA PcsAre ==
  /\ "idle" \in Pcs /\ "retryCreate" \in Pcs /\ "initiate" \in Pcs /\ "recordInit" \in Pcs
  /\ "finalizeRead" \in Pcs /\ "finalizeTx" \in Pcs /\ "handOff" \in Pcs /\ "failRead" \in Pcs
  /\ "failPayment" \in Pcs /\ "failOrder" \in Pcs /\ "verify" \in Pcs /\ "adminTx" \in Pcs
  BY DEF Pcs

LEMMA StatusesAre ==
  /\ "PENDING" \in PaymentStatus /\ "PAID" \in PaymentStatus /\ "FAILED" \in PaymentStatus
  /\ "PENDING" \in OrderStatus /\ "CONFIRMED" \in OrderStatus
  /\ "ONLINE" \in Methods /\ "COD" \in Methods
  BY DEF PaymentStatus, OrderStatus, Methods

LEMMA IdleIsRequest == Idle \in Request
  BY PcsAre, StatusesAre, ConstantsAssumption DEF Idle, Request

LEMMA GotoType ==
  ASSUME req \in [Requests -> Request], NEW r \in Requests, NEW pc \in Pcs, Goto(r, pc)
  PROVE  req' \in [Requests -> Request]
  BY DEF Goto, Request

LEMMA DoneType ==
  ASSUME req \in [Requests -> Request], NEW r \in Requests, Done(r)
  PROVE  req' \in [Requests -> Request]
  BY IdleIsRequest DEF Done

LEMMA StartType ==
  ASSUME req \in [Requests -> Request], NEW r \in Requests, NEW f \in Request, Start(r, f)
  PROVE  req' \in [Requests -> Request]
  BY DEF Start

LEMMA CreatePaymentType ==
  ASSUME TypeOK, NEW o \in Orders \cup {NoOrder}, NEW m \in Methods, CreatePayment(o, m)
  PROVE  /\ created + 1 \in PaymentIds
         /\ created + 1 \in 0..MaxPayments
         /\ created' \in 0..MaxPayments
         /\ payment' \in [PaymentIds -> PaymentRow]
<1>1. created + 1 \in PaymentIds /\ created + 1 \in 0..MaxPayments /\ created' = created + 1
  BY ConstantsAssumption DEF TypeOK, CreatePayment, PaymentIds
<1>2. [order |-> o, method |-> m, status |-> "PENDING", gatewayOrder |-> FALSE] \in PaymentRow
  BY StatusesAre DEF PaymentRow
<1> QED
  BY <1>1, <1>2 DEF TypeOK, CreatePayment

LEMMA PaymentRowType ==
  ASSUME TypeOK, NEW p \in PaymentIds
  PROVE  /\ p \in 0..MaxPayments
         /\ payment[p].order \in Orders \cup {NoOrder}
         /\ payment[p].method \in Methods
         /\ payment[p].status \in PaymentStatus
         /\ payment[p].gatewayOrder \in BOOLEAN
  BY ConstantsAssumption DEF TypeOK, PaymentRow, PaymentIds

LEMMA OrderRowType ==
  ASSUME TypeOK, NEW o \in Orders
  PROVE  /\ order[o].placed \in BOOLEAN
         /\ order[o].status \in OrderStatus
         /\ order[o].paymentStatus \in PaymentStatus
         /\ order[o].confirmedAt \in 0..MaxPayments
  BY DEF TypeOK, OrderRow

LEMMA RequestType ==
  ASSUME TypeOK, NEW r \in Requests
  PROVE  /\ req[r].pc \in Pcs
         /\ req[r].order \in Orders \cup {NoOrder}
         /\ req[r].payment \in 0..MaxPayments
         /\ req[r].method \in Methods
         /\ req[r].codPending \in BOOLEAN
         /\ req[r].paymentStatus \in PaymentStatus
         /\ req[r].target \in OrderStatus
  BY DEF TypeOK, Request
-----------------------------------------------------------------------------
(* Type correctness is inductive by itself: no step needs more than the     *)
(* types of the rows and of the request that takes it.                      *)
LEMMA TypeInit == Init => TypeOK
  BY ConstantsAssumption, IdleIsRequest, StatusesAre
  DEF Init, TypeOK, OrderRow, PaymentRow, Ledger, Restock, NoPayment, Unplaced,
      GatewayEvents, OC!Untouched

LEMMA TypeStep == TypeOK /\ [Next]_vars => TypeOK'
<1> SUFFICES ASSUME TypeOK, [Next]_vars PROVE TypeOK'
  OBVIOUS
<1> USE ConstantsAssumption
<1>1. ASSUME NEW r \in Requests, NEW o \in Orders, NEW m \in Methods, PlaceOrder(r, o, m)
     PROVE TypeOK'
  <2>1. [Idle EXCEPT !.pc = "initiate", !.order = o, !.payment = created + 1,
                          !.method = m, !.codPending = (m = "COD")] \in Request
    BY <1>1, IdleIsRequest, PcsAre, CreatePaymentType, PaymentRowType, OrderRowType 
       DEF Request, PlaceOrder
  <2>2. req' \in [Requests -> Request]
    BY <1>1, <2>1, StartType DEF PlaceOrder, TypeOK
  <2>4. payment' \in [PaymentIds -> PaymentRow] /\ created' \in 0..MaxPayments
    BY <1>1, CreatePaymentType, RequestType DEF PlaceOrder
  <2>5. order' \in [Orders -> OrderRow]
    BY <1>1, StatusesAre DEF PlaceOrder, TypeOK, OrderRow, Request
  <2> QED
    BY <1>1, <2>1, <2>2, <2>4, <2>5 DEF PlaceOrder, TypeOK
<1>2. ASSUME NEW r \in Requests, NEW o \in Orders, NEW m \in Methods, RetryPayment(r, o,
     m) PROVE TypeOK'
  <2>1. [Idle EXCEPT !.pc = "retryCreate", !.order = o, !.method = m,
                          !.codPending = (m = "COD")] \in Request
    BY <1>2, IdleIsRequest, PcsAre, CreatePaymentType, PaymentRowType, OrderRowType 
       DEF Request, RetryPayment
  <2>2. req' \in [Requests -> Request]
    BY <1>2, <2>1, StartType DEF RetryPayment, TypeOK
  <2> QED
    BY <1>2, <2>1, <2>2 DEF RetryPayment, TypeOK
<1>3. ASSUME NEW r \in Requests, NEW o \in Orders, VerifyFromClient(r, o) PROVE TypeOK'
  <2>1. PICK q \in PaymentsOf(o) :
          Start(r, [Idle EXCEPT !.pc = "verify", !.order = o, !.payment = q])
    BY <1>3 DEF VerifyFromClient
  <2>2. [Idle EXCEPT !.pc = "verify", !.order = o, !.payment = q] \in Request
    <3>1. q \in 0..MaxPayments
      BY DEF PaymentsOf, TypeOK
    <3> QED
      BY <3>1, IdleIsRequest, PcsAre DEF Request
  <2>3. req' \in [Requests -> Request]
    BY <2>1, <2>2, StartType DEF TypeOK
  <2> QED
    BY <1>3, <2>1, <2>2, <2>3 DEF VerifyFromClient, TypeOK
<1>4. ASSUME NEW r \in Requests, NEW p \in PaymentIds, WebhookPaid(r, p) PROVE TypeOK'
  <2>1. [Idle EXCEPT !.pc = "finalizeRead", !.order = payment[p].order, !.payment = p,
                          !.codPending = (payment[p].method = "COD")] \in Request
    BY <1>4, IdleIsRequest, PcsAre, CreatePaymentType, PaymentRowType, OrderRowType 
       DEF Request, WebhookPaid
  <2>2. req' \in [Requests -> Request]
    BY <1>4, <2>1, StartType DEF WebhookPaid, TypeOK
  <2> QED
    BY <1>4, <2>1, <2>2 DEF WebhookPaid, TypeOK
<1>5. ASSUME NEW r \in Requests, NEW p \in PaymentIds, WebhookFailed(r, p) PROVE TypeOK'
  <2>1. [Idle EXCEPT !.pc = "failRead", !.order = payment[p].order, !.payment = p] \in
       Request
    BY <1>5, IdleIsRequest, PcsAre, CreatePaymentType, PaymentRowType, OrderRowType 
       DEF Request, WebhookFailed
  <2>2. req' \in [Requests -> Request]
    BY <1>5, <2>1, StartType DEF WebhookFailed, TypeOK
  <2> QED
    BY <1>5, <2>1, <2>2 DEF WebhookFailed, TypeOK
<1>6. ASSUME NEW r \in Requests, NEW o \in Orders, NEW s \in AdminTargets,
     AdminSetStatus(r, o, s) PROVE TypeOK'
  <2>1. [Idle EXCEPT !.pc = "adminTx", !.order = o, !.target = s,
                          !.paymentStatus = order[o].paymentStatus] \in Request
    BY <1>6, IdleIsRequest, PcsAre, CreatePaymentType, PaymentRowType, OrderRowType 
       DEF Request, AdminSetStatus
  <2>2. req' \in [Requests -> Request]
    BY <1>6, <2>1, StartType DEF AdminSetStatus, TypeOK
  <2> QED
    BY <1>6, <2>1, <2>2 DEF AdminSetStatus, TypeOK
<1>7. ASSUME NEW r \in Requests, RetryCreate(r) PROVE TypeOK'
  <2>1. [req[r] EXCEPT !.pc = "initiate", !.payment = created + 1] \in Request
    BY <1>7, PcsAre, RequestType, CreatePaymentType DEF RetryCreate, TypeOK, Request
  <2>2. req' \in [Requests -> Request]
    BY <1>7, <2>1 DEF RetryCreate, TypeOK
  <2>4. payment' \in [PaymentIds -> PaymentRow] /\ created' \in 0..MaxPayments
    BY <1>7, CreatePaymentType, RequestType DEF RetryCreate
  <2> QED
    BY <1>7, <2>2, <2>4 DEF RetryCreate, TypeOK
<1>8. ASSUME NEW r \in Requests, Initiate(r) PROVE TypeOK'
  <2>2. req' \in [Requests -> Request]
    BY <1>8, GotoType, DoneType, PcsAre DEF Initiate, TypeOK
  <2> QED
    BY <1>8, <2>2 DEF Initiate, TypeOK
<1>9. ASSUME NEW r \in Requests, RecordInit(r) PROVE TypeOK'
  <2>2. req' \in [Requests -> Request]
    BY <1>9, GotoType, DoneType, PcsAre DEF RecordInit, TypeOK
  <2>4. payment' \in [PaymentIds -> PaymentRow]
    <3>1. PICK b \in BOOLEAN : payment' = [payment EXCEPT ![req[r].payment].gatewayOrder = b]
      BY <1>9 DEF RecordInit
    <3> QED
      BY <3>1 DEF TypeOK, PaymentRow
  <2> QED
    BY <1>9, <2>2, <2>4 DEF RecordInit, TypeOK
<1>10. ASSUME NEW r \in Requests, FinalizeRead(r) PROVE TypeOK'
  <2>2. req' \in [Requests -> Request]
    BY <1>10, GotoType, DoneType, PcsAre DEF FinalizeRead, TypeOK
  <2> QED
    BY <1>10, <2>2 DEF FinalizeRead, TypeOK
<1>11. ASSUME NEW r \in Requests, FinalizeLost(r) PROVE TypeOK'
  <2>2. req' \in [Requests -> Request]
    BY <1>11, GotoType, DoneType, PcsAre DEF FinalizeLost, TypeOK
  <2> QED
    BY <1>11, <2>2 DEF FinalizeLost, TypeOK
<1>12. ASSUME NEW r \in Requests, FinalizeClaimed(r) PROVE TypeOK'
  <2>2. req' \in [Requests -> Request]
    BY <1>12, GotoType, DoneType, PcsAre DEF FinalizeClaimed, TypeOK
  <2>4. payment' \in [PaymentIds -> PaymentRow]
    BY <1>12, StatusesAre DEF FinalizeClaimed, TypeOK, PaymentRow
  <2>5. order' \in [Orders -> OrderRow]
    <3>1. PICK s \in PaymentStatus, c \in 0..MaxPayments :
             order' = [order EXCEPT ![req[r].order].status = "CONFIRMED",
                                    ![req[r].order].paymentStatus = s,
                                    ![req[r].order].confirmedAt = c]
      BY <1>12, StatusesAre, RequestType DEF FinalizeClaimed
    <3>2. ASSUME NEW o \in Orders
          PROVE  [order[o] EXCEPT !.status = "CONFIRMED", !.paymentStatus = s,
                                  !.confirmedAt = c] \in OrderRow
      BY StatusesAre, OrderRowType DEF OrderRow, TypeOK
    <3> QED
      BY <3>1, <3>2 DEF TypeOK
  <2>6. ledger' \in [Orders -> Ledger]
    <3>1. PICK paid \in BOOLEAN :
             ledger' = [ledger EXCEPT ![req[r].order] = Apply(req[r].order, paid, @)]
      BY <1>12, RequestType DEF FinalizeClaimed
    <3>2. ASSUME NEW o \in Orders PROVE Apply(o, paid, ledger[o]) \in Ledger
      BY DEF Apply, TypeOK, Ledger
    <3> QED
      BY <3>1, <3>2 DEF TypeOK
  <2> QED
    BY <1>12, <2>2, <2>4, <2>5, <2>6 DEF FinalizeClaimed, TypeOK
<1>13. ASSUME NEW r \in Requests, HandOff(r) PROVE TypeOK'
  <2>2. req' \in [Requests -> Request]
    BY <1>13, GotoType, DoneType, PcsAre DEF HandOff, TypeOK
  <2>3. handovers' \in [Orders -> Nat]
    <3>1. \A o \in Orders : handovers[o] + 1 \in Nat
      BY DEF TypeOK
    <3>2. PICK x : handovers' = [handovers EXCEPT ![x] = handovers[x] + 1]
      BY <1>13 DEF HandOff
    <3>3. CASE x \in Orders
      BY <3>1, <3>2, <3>3 DEF TypeOK
    <3>4. CASE x \notin Orders
      BY <3>2, <3>4 DEF TypeOK
    <3> QED
      BY <3>3, <3>4
  <2> QED
    BY <1>13, <2>2, <2>3 DEF HandOff, TypeOK
<1>14. ASSUME NEW r \in Requests, FailRead(r) PROVE TypeOK'
  <2>2. req' \in [Requests -> Request]
    BY <1>14, GotoType, DoneType, PcsAre DEF FailRead, TypeOK
  <2> QED
    BY <1>14, <2>2 DEF FailRead, TypeOK
<1>15. ASSUME NEW r \in Requests, FailPayment(r) PROVE TypeOK'
  <2>2. req' \in [Requests -> Request]
    BY <1>15, GotoType, DoneType, PcsAre DEF FailPayment, TypeOK
  <2>4. payment' \in [PaymentIds -> PaymentRow]
    BY <1>15, StatusesAre DEF FailPayment, TypeOK, PaymentRow
  <2> QED
    BY <1>15, <2>2, <2>4 DEF FailPayment, TypeOK
<1>16. ASSUME NEW r \in Requests, FailOrder(r) PROVE TypeOK'
  <2>2. req' \in [Requests -> Request]
    BY <1>16, GotoType, DoneType, PcsAre DEF FailOrder, TypeOK
  <2>5. order' \in [Orders -> OrderRow]
    BY <1>16, StatusesAre DEF FailOrder, TypeOK, OrderRow, Request
  <2> QED
    BY <1>16, <2>2, <2>5 DEF FailOrder, TypeOK
<1>17. ASSUME NEW r \in Requests, VerifyAccepted(r) PROVE TypeOK'
  <2>2. req' \in [Requests -> Request]
    BY <1>17, GotoType, DoneType, PcsAre DEF VerifyAccepted, TypeOK
  <2> QED
    BY <1>17, <2>2 DEF VerifyAccepted, TypeOK
<1>18. ASSUME NEW r \in Requests, VerifyRejected(r) PROVE TypeOK'
  <2>2. req' \in [Requests -> Request]
    BY <1>18, GotoType, DoneType, PcsAre DEF VerifyRejected, TypeOK
  <2> QED
    BY <1>18, <2>2 DEF VerifyRejected, TypeOK
<1>19. ASSUME NEW r \in Requests, AdminTx(r) PROVE TypeOK'
  <2>2. req' \in [Requests -> Request]
    BY <1>19, GotoType, DoneType, PcsAre DEF AdminTx, TypeOK
  <2>5. order' \in [Orders -> OrderRow]
    BY <1>19, StatusesAre DEF AdminTx, TypeOK, OrderRow, Request
  <2>6. restock' \in [Orders -> Restock]
    <3>1. \A o \in Orders : restock[o].return + 1 \in Nat /\ restock[o].release + 1 \in Nat
      BY DEF TypeOK, Restock
    <3>2. \/ restock' = restock
          \/ restock' = [restock EXCEPT ![req[r].order].return = @ + 1]
          \/ restock' = [restock EXCEPT ![req[r].order].release = @ + 1]
      BY <1>19 DEF AdminTx
    <3> QED
      BY <3>1, <3>2 DEF TypeOK, Restock
  <2> QED
    BY <1>19, <2>2, <2>5, <2>6 DEF AdminTx, TypeOK
<1>20. ASSUME NEW r \in Requests, Stop(r) PROVE TypeOK'
  <2>2. req' \in [Requests -> Request]
    BY <1>20, GotoType, DoneType, PcsAre DEF Stop, TypeOK
  <2> QED
    BY <1>20, <2>2 DEF Stop, TypeOK
<1>21. ASSUME NEW p \in PaymentIds, GatewayDeclines(p) PROVE TypeOK'
  <2> QED
    BY <1>21 DEF GatewayDeclines, TypeOK, GatewayEvents
<1>22. ASSUME NEW p \in PaymentIds, GatewayAuthorises(p) PROVE TypeOK'
  <2> QED
    BY <1>22 DEF GatewayAuthorises, TypeOK, GatewayEvents
<1>23. ASSUME NEW p \in PaymentIds, GatewayCaptures(p) PROVE TypeOK'
  <2> QED
    BY <1>23 DEF GatewayCaptures, TypeOK, GatewayEvents
<1>24. CASE UNCHANGED vars
  BY <1>24 DEF vars, TypeOK
<1> QED
  BY <1>1, <1>2, <1>3, <1>4, <1>5, <1>6, <1>7, <1>8, <1>9, <1>10, <1>11, <1>12, <1>13,
       <1>14, <1>15, <1>16, <1>17, <1>18, <1>19, <1>20, <1>21, <1>22, <1>23, <1>24
  DEF Next, Arrive, Continue, Place, Finalize, Fail, Verify, GatewayStep

(* Every reachable state is well typed, for any number of orders, payments, *)
(* requests in flight, cancellations and failures.                           *)
THEOREM TypeCorrect == Spec => []TypeOK
  BY TypeInit, TypeStep, PTL DEF Spec
-----------------------------------------------------------------------------
(* The inductive invariant *)

LEMMA InvInit == Init => IInv
<1> SUFFICES ASSUME Init PROVE IInv
  OBVIOUS
<1> USE ConstantsAssumption
<1>1. TypeOK
  BY TypeInit
<1>2. RowsOK
  BY <1>1 DEF Init, RowsOK, PaymentRowsOK, GatewayOK, OrdersOK, SideEffectsExactlyOnce,
       CodStaysPending, PaidIsBackedAndConfirmed, HandedOverOnce, ReturnsOnlySoldStock,
       Unplaced, NoPayment, PaymentIds
<1>3. RequestsOK /\ HandOffOK
  BY DEF Init, RequestsOK, RequestOK, HandOffOK, Idle, OnPayment, Finalizing, Failing
<1> QED
  BY <1>1, <1>2, <1>3 DEF IInv

(* A request that is not stepped stays consistent while the rows grow. *)
LEMMA OthersKeep ==
  ASSUME IInv, Grows, NEW q \in Requests, req'[q] = req[q]
  PROVE  RequestOK(q)'
<1>1. RequestOK(q) /\ created \in Nat /\ created' \in Nat /\ created <= created'
  BY ConstantsAssumption DEF IInv, RequestsOK, Grows, TypeOK
<1>2. req[q].pc \in OnPayment => req[q].payment \in 1..created /\ req[q].payment \in 1..created'
  BY <1>1 DEF RequestOK
<1>3. req[q].pc \in Finalizing \cup Failing \cup {"initiate", "recordInit"} => req[q].pc \in OnPayment
  BY DEF Finalizing, Failing, OnPayment
<1> QED
  BY <1>1, <1>2, <1>3 DEF RequestOK, Grows

(* The shape of every step of a request that writes no row. *)
LEMMA ReadStep ==
  ASSUME IInv, TypeOK', NEW r \in Requests,
         UNCHANGED <<order, payment, created, gateway, ledger, restock, handovers>>,
         \A q \in Requests \ {r} : req'[q] = req[q],
         RequestOK(r)', req'[r].pc # "handOff"
  PROVE  IInv'
<1>1. Grows
  BY ConstantsAssumption DEF Grows, IInv, TypeOK
<1>2. RequestsOK'
  BY <1>1, OthersKeep DEF RequestsOK
<1>3. HandOffOK'
  BY DEF HandOffOK, IInv
<1>4. RowsOK'
  BY DEF IInv, RowsOK, PaymentRowsOK, GatewayOK, OrdersOK, SideEffectsExactlyOnce,
       CodStaysPending, PaidIsBackedAndConfirmed, HandedOverOnce, ReturnsOnlySoldStock,
       PaymentIds
<1> QED
  BY <1>2, <1>3, <1>4 DEF IInv
-----------------------------------------------------------------------------
(* Steps that only read, one by one *)

LEMMA ReadActions ==
  ASSUME IInv, TypeOK', NEW r \in Requests
  PROVE  /\ \A o \in Orders, m \in Methods : RetryPayment(r, o, m) => IInv'
         /\ \A o \in Orders : VerifyFromClient(r, o) => IInv'
         /\ \A p \in PaymentIds : WebhookPaid(r, p) \/ WebhookFailed(r, p) => IInv'
         /\ \A o \in Orders, s \in AdminTargets : AdminSetStatus(r, o, s) => IInv'
         /\ Initiate(r) \/ FinalizeRead(r) \/ FinalizeLost(r) \/ FailRead(r) => IInv'
         /\ VerifyAccepted(r) \/ VerifyRejected(r) \/ Stop(r) => IInv'
<1> USE ConstantsAssumption DEF IInv
<1>r. RequestOK(r) /\ req \in [Requests -> Request]
  BY DEF RequestsOK, TypeOK
<1>1. ASSUME NEW o \in Orders, NEW m \in Methods, RetryPayment(r, o, m) PROVE IInv'
  <2>1. req' = [req EXCEPT ![r] =
                  [Idle EXCEPT !.pc = "retryCreate", !.order = o, !.method = m,
                                   !.codPending = (m = "COD")]]
    BY <1>1 DEF RetryPayment, Start
  <2>2. RequestOK(r)'
    BY <1>1, <1>r, <2>1 DEF RetryPayment, RequestOK, Idle, OnPayment, Finalizing, Failing, RowsOK,
       PaymentRowsOK, GatewayOK, OrdersOK, PaymentIds, TypeOK
  <2>3. req'[r].pc # "handOff" /\ \A q \in Requests \ {r} : req'[q] = req[q]
    BY <1>r, <2>1 DEF Idle
  <2> QED
    BY <1>1, <2>2, <2>3, ReadStep DEF RetryPayment
<1>2. ASSUME NEW p \in PaymentIds, WebhookPaid(r, p) PROVE IInv'
  <2>1. req' = [req EXCEPT ![r] =
                  [Idle EXCEPT !.pc = "finalizeRead", !.order = payment[p].order,
                                   !.payment = p, !.codPending = (payment[p].method = "COD")]]
    BY <1>2 DEF WebhookPaid, Start
  <2>2. RequestOK(r)'
    BY <1>2, <1>r, <2>1 DEF WebhookPaid, RequestOK, Idle, OnPayment, Finalizing, Failing, RowsOK,
       PaymentRowsOK, GatewayOK, OrdersOK, PaymentIds, TypeOK
  <2>3. req'[r].pc # "handOff" /\ \A q \in Requests \ {r} : req'[q] = req[q]
    BY <1>r, <2>1 DEF Idle
  <2> QED
    BY <1>2, <2>2, <2>3, ReadStep DEF WebhookPaid
<1>3. ASSUME NEW p \in PaymentIds, WebhookFailed(r, p) PROVE IInv'
  <2>1. req' = [req EXCEPT ![r] =
                  [Idle EXCEPT !.pc = "failRead", !.order = payment[p].order,
                                   !.payment = p]]
    BY <1>3 DEF WebhookFailed, Start
  <2>2. RequestOK(r)'
    BY <1>3, <1>r, <2>1 DEF WebhookFailed, RequestOK, Idle, OnPayment, Finalizing, Failing, RowsOK,
       PaymentRowsOK, GatewayOK, OrdersOK, PaymentIds, TypeOK
  <2>3. req'[r].pc # "handOff" /\ \A q \in Requests \ {r} : req'[q] = req[q]
    BY <1>r, <2>1 DEF Idle
  <2> QED
    BY <1>3, <2>2, <2>3, ReadStep DEF WebhookFailed
<1>4. ASSUME NEW o \in Orders, NEW s \in AdminTargets, AdminSetStatus(r, o, s) PROVE IInv'
  <2>1. req' = [req EXCEPT ![r] =
                  [Idle EXCEPT !.pc = "adminTx", !.order = o, !.target = s,
                                   !.paymentStatus = order[o].paymentStatus]]
    BY <1>4 DEF AdminSetStatus, Start
  <2>2. RequestOK(r)'
    BY <1>4, <1>r, <2>1 DEF AdminSetStatus, RequestOK, Idle, OnPayment, Finalizing, Failing, RowsOK,
       PaymentRowsOK, GatewayOK, OrdersOK, PaymentIds, TypeOK
  <2>3. req'[r].pc # "handOff" /\ \A q \in Requests \ {r} : req'[q] = req[q]
    BY <1>r, <2>1 DEF Idle
  <2> QED
    BY <1>4, <2>2, <2>3, ReadStep DEF AdminSetStatus
<1>5. ASSUME NEW o \in Orders, VerifyFromClient(r, o) PROVE IInv'
  <2>1. PICK p \in PaymentsOf(o) :
          /\ payment[p].method # "COD"
          /\ req' = [req EXCEPT ![r] = [Idle EXCEPT !.pc = "verify", !.order = o, !.payment = p]]
    BY <1>5 DEF VerifyFromClient, Start
  <2>2. p \in 1..created /\ payment[p].order = o /\ payment[p].method = "ONLINE"
    BY <2>1, PaymentRowType DEF PaymentsOf, TypeOK, PaymentIds, Methods
  <2>3. RequestOK(r)'
    BY <1>5, <1>r, <2>1, <2>2 DEF VerifyFromClient, RequestOK, Idle, OnPayment, Finalizing, Failing
  <2>4. req'[r].pc # "handOff" /\ \A q \in Requests \ {r} : req'[q] = req[q]
    BY <1>r, <2>1 DEF Idle
  <2> QED
    BY <1>5, <2>3, <2>4, ReadStep DEF VerifyFromClient
<1>6. ASSUME Initiate(r) PROVE IInv'
  <2>1. RequestOK(r)'
    BY <1>6, <1>r DEF Initiate, RequestOK, At, Goto, Done, Idle, Request, OnPayment, Finalizing, Failing
  <2>2. req'[r].pc # "handOff" /\ \A q \in Requests \ {r} : req'[q] = req[q]
    BY <1>6, <1>r DEF Initiate, Goto, Done, Idle, Request
  <2> QED
    BY <1>6, <2>1, <2>2, ReadStep DEF Initiate
<1>7. ASSUME FinalizeRead(r) PROVE IInv'
  <2>1. RequestOK(r)'
    BY <1>7, <1>r DEF FinalizeRead, RequestOK, At, Goto, Done, Idle, Request, OnPayment, Finalizing, Failing
  <2>2. req'[r].pc # "handOff" /\ \A q \in Requests \ {r} : req'[q] = req[q]
    BY <1>7, <1>r DEF FinalizeRead, Goto, Done, Idle, Request
  <2> QED
    BY <1>7, <2>1, <2>2, ReadStep DEF FinalizeRead
<1>8. ASSUME FinalizeLost(r) PROVE IInv'
  <2>1. RequestOK(r)'
    BY <1>8, <1>r DEF FinalizeLost, RequestOK, At, Goto, Done, Idle, Request, OnPayment, Finalizing, Failing
  <2>2. req'[r].pc # "handOff" /\ \A q \in Requests \ {r} : req'[q] = req[q]
    BY <1>8, <1>r DEF FinalizeLost, Goto, Done, Idle, Request
  <2> QED
    BY <1>8, <2>1, <2>2, ReadStep DEF FinalizeLost
<1>9. ASSUME FailRead(r) PROVE IInv'
  <2>1. RequestOK(r)'
    BY <1>9, <1>r DEF FailRead, RequestOK, At, Goto, Done, Idle, Request, OnPayment, Finalizing, Failing
  <2>2. req'[r].pc # "handOff" /\ \A q \in Requests \ {r} : req'[q] = req[q]
    BY <1>9, <1>r DEF FailRead, Goto, Done, Idle, Request
  <2> QED
    BY <1>9, <2>1, <2>2, ReadStep DEF FailRead
<1>10. ASSUME VerifyAccepted(r) PROVE IInv'
  <2>1. RequestOK(r)'
    BY <1>10, <1>r DEF VerifyAccepted, RequestOK, At, Goto, Done, Idle, Request, OnPayment, Finalizing, Failing
  <2>2. req'[r].pc # "handOff" /\ \A q \in Requests \ {r} : req'[q] = req[q]
    BY <1>10, <1>r DEF VerifyAccepted, Goto, Done, Idle, Request
  <2> QED
    BY <1>10, <2>1, <2>2, ReadStep DEF VerifyAccepted
<1>11. ASSUME VerifyRejected(r) PROVE IInv'
  <2>1. RequestOK(r)'
    BY <1>11, <1>r DEF VerifyRejected, RequestOK, At, Goto, Done, Idle, Request, OnPayment, Finalizing, Failing
  <2>2. req'[r].pc # "handOff" /\ \A q \in Requests \ {r} : req'[q] = req[q]
    BY <1>11, <1>r DEF VerifyRejected, Goto, Done, Idle, Request
  <2> QED
    BY <1>11, <2>1, <2>2, ReadStep DEF VerifyRejected
<1>12. ASSUME Stop(r) PROVE IInv'
  <2>1. RequestOK(r)'
    BY <1>12, <1>r DEF Stop, RequestOK, At, Goto, Done, Idle, Request, OnPayment, Finalizing, Failing
  <2>2. req'[r].pc # "handOff" /\ \A q \in Requests \ {r} : req'[q] = req[q]
    BY <1>12, <1>r DEF Stop, Goto, Done, Idle, Request
  <2> QED
    BY <1>12, <2>1, <2>2, ReadStep DEF Stop
<1> QED
  BY <1>1, <1>2, <1>3, <1>4, <1>5, <1>6, <1>7, <1>8, <1>9, <1>10, <1>11, <1>12

-----------------------------------------------------------------------------
(* Steps that write rows, one by one *)

(* A new payment row, whoever creates it. *)
LEMMA CreateStep ==
  ASSUME IInv, TypeOK', NEW o \in Orders, NEW m \in Methods, CreatePayment(o, m),
         \A x \in Orders : /\ order'[x].confirmedAt = order[x].confirmedAt
                           /\ order'[x].paymentStatus = order[x].paymentStatus,
         UNCHANGED <<gateway, ledger, restock, handovers>>
  PROVE  Grows /\ RowsOK'
<1> USE ConstantsAssumption DEF IInv
<1>1. /\ created \in Nat /\ created' = created + 1 /\ created + 1 \in PaymentIds
      /\ payment \in [PaymentIds -> PaymentRow]
  BY CreatePaymentType DEF CreatePayment, TypeOK
<1>2. /\ payment'[created + 1] = [order |-> o, method |-> m, status |-> "PENDING",
                                  gatewayOrder |-> FALSE]
      /\ \A p \in PaymentIds : p # created + 1 => payment'[p] = payment[p]
  BY <1>1 DEF CreatePayment
<1>3. \A p \in PaymentIds : p <= created' => p <= created \/ p = created + 1
  BY <1>1 DEF PaymentIds
<1>4. Grows
  BY <1>1, <1>2 DEF Grows, PaymentIds, TypeOK
<1>5. PaymentRowsOK'
  BY <1>1, <1>2, <1>3 DEF RowsOK, PaymentRowsOK, PaymentIds
<1>6. GatewayOK'
  BY <1>1, <1>2 DEF RowsOK, GatewayOK, PaymentIds
<1>7. OrdersOK'
  BY <1>1, <1>2 DEF RowsOK, OrdersOK, PaymentIds, TypeOK, OrderRow
<1>8. SideEffectsExactlyOnce'
  BY <1>1, <1>2 DEF RowsOK, OrdersOK, SideEffectsExactlyOnce, PaymentIds, TypeOK, OrderRow
<1>9. CodStaysPending'
  BY <1>1, <1>2 DEF RowsOK, CodStaysPending, PaymentIds
<1>10. PaidIsBackedAndConfirmed'
  BY <1>1, <1>2 DEF RowsOK, PaidIsBackedAndConfirmed, PaymentRowsOK, PaymentIds
<1>11. HandedOverOnce' /\ ReturnsOnlySoldStock'
  BY DEF RowsOK, HandedOverOnce, ReturnsOnlySoldStock
<1> QED
  BY <1>4, <1>5, <1>6, <1>7, <1>8, <1>9, <1>10, <1>11 DEF RowsOK

(* Requests other than r keep their place; r itself does not hand over. *)
LEMMA WriteStep ==
  ASSUME IInv, TypeOK', Grows, RowsOK', NEW r \in Requests, RequestOK(r)',
         req'[r].pc # "handOff",
         \A q \in Requests \ {r} : req'[q] = req[q],
         \A q \in Requests \ {r} : req[q].pc = "handOff" =>
             handovers'[req[q].order] = handovers[req[q].order]
  PROVE  IInv'
<1>1. RequestsOK'
  BY OthersKeep DEF RequestsOK
<1>2. \A q \in Requests : req[q].pc = "handOff" => req[q].order \in Orders
  BY DEF IInv, RequestsOK, RequestOK
<1>3. HandOffOK'
  BY <1>2 DEF HandOffOK, IInv, Grows
<1> QED
  BY <1>1, <1>3 DEF IInv

LEMMA PlaceOrderKeeps ==
  ASSUME IInv, TypeOK', NEW r \in Requests, NEW o \in Orders, NEW m \in Methods,
         PlaceOrder(r, o, m)
  PROVE  IInv'
<1>1. \A x \in Orders : /\ order'[x].confirmedAt = order[x].confirmedAt
                        /\ order'[x].paymentStatus = order[x].paymentStatus
  BY DEF PlaceOrder, IInv, TypeOK, OrderRow
<1>2. Grows /\ RowsOK'
  BY <1>1, CreateStep DEF PlaceOrder
<1>3. req' = [req EXCEPT ![r] =
                [Idle EXCEPT !.pc = "initiate", !.order = o, !.payment = created + 1,
                             !.method = m, !.codPending = (m = "COD")]]
  BY DEF PlaceOrder, Start
<1>4. /\ created + 1 \in 1..created'
      /\ payment'[created + 1].order = o /\ payment'[created + 1].method = m
  BY CreatePaymentType DEF PlaceOrder, CreatePayment, IInv, TypeOK, PaymentIds
<1>5. RequestOK(r)'
  BY <1>3, <1>4 DEF RequestOK, Idle, OnPayment, Finalizing, Failing, IInv, TypeOK
<1>6. req'[r].pc # "handOff" /\ \A q \in Requests \ {r} : req'[q] = req[q]
  BY <1>3 DEF Idle, IInv, TypeOK
<1> QED
  BY <1>2, <1>5, <1>6, WriteStep DEF PlaceOrder

LEMMA RetryCreateKeeps ==
  ASSUME IInv, TypeOK', NEW r \in Requests, RetryCreate(r)
  PROVE  IInv'
<1> DEFINE o == req[r].order
           m == req[r].method
<1>1. RequestOK(r) /\ o \in Orders /\ m \in Methods
  BY RequestType DEF IInv, RequestsOK, RequestOK, RetryCreate, At
<1>2. Grows /\ RowsOK'
  BY <1>1, CreateStep DEF RetryCreate
<1>3. req'[r] = [req[r] EXCEPT !.pc = "initiate", !.payment = created + 1]
  BY DEF RetryCreate, IInv, TypeOK, Request
<1>4. /\ created + 1 \in 1..created'
      /\ payment'[created + 1].order = o /\ payment'[created + 1].method = m
  BY <1>1, CreatePaymentType DEF RetryCreate, CreatePayment, IInv, TypeOK, PaymentIds
<1>5. req[r] \in Request
  BY DEF IInv, TypeOK
<1>6. RequestOK(r)'
  <2>1. /\ req'[r].pc = "initiate" /\ req'[r].payment = created + 1
        /\ req'[r].order = o /\ req'[r].method = m
        /\ req'[r].codPending = req[r].codPending
    BY <1>3, <1>5 DEF Request
  <2>2. req[r].codPending = (m = "COD")
    BY <1>1 DEF RequestOK, RetryCreate, At
  <2> HIDE DEF o, m
  <2> QED
    BY <1>1, <1>4, <2>1, <2>2 DEF RequestOK, OnPayment, Finalizing, Failing
<1>7. req'[r].pc # "handOff" /\ \A q \in Requests \ {r} : req'[q] = req[q]
  BY <1>3, <1>5 DEF RetryCreate, Request, IInv, TypeOK
<1> QED
  BY <1>2, <1>6, <1>7, WriteStep DEF RetryCreate

LEMMA RecordInitKeeps ==
  ASSUME IInv, TypeOK', NEW r \in Requests, RecordInit(r)
  PROVE  IInv'
<1> DEFINE p == req[r].payment
<1> USE ConstantsAssumption DEF IInv
<1>1. /\ RequestOK(r) /\ created \in Nat /\ p \in 1..created /\ p \in PaymentIds
      /\ payment \in [PaymentIds -> PaymentRow] /\ payment[p].method = req[r].method
  BY DEF RequestsOK, RequestOK, RecordInit, At, OnPayment, TypeOK, PaymentIds
<1>2. PICK b \in BOOLEAN : /\ payment' = [payment EXCEPT ![p].gatewayOrder = b]
                           /\ b => payment[p].method = "ONLINE"
  BY <1>1 DEF RecordInit
<1>3. \A q \in PaymentIds : /\ payment'[q].order = payment[q].order
                            /\ payment'[q].method = payment[q].method
                            /\ payment'[q].status = payment[q].status
                            /\ q # p => payment'[q] = payment[q]
                            /\ q = p => payment'[q].gatewayOrder = b
  BY <1>1, <1>2 DEF PaymentRow
<1> HIDE DEF p
<1>4. Grows
  BY <1>3 DEF Grows, RecordInit, TypeOK, PaymentIds
<1>5. RowsOK'
  <2>1. PaymentRowsOK'
    <3> SUFFICES ASSUME NEW q \in PaymentIds
                 PROVE  /\ q > created => payment'[q] = NoPayment
                        /\ q <= created => payment'[q].order \in Orders
                        /\ payment'[q].gatewayOrder => payment'[q].method = "ONLINE" /\ q <= created
      BY DEF PaymentRowsOK, RecordInit
    <3>1. CASE q = p
      BY <1>1, <1>2, <1>3, <3>1 DEF RowsOK, PaymentRowsOK
    <3>2. CASE q # p
      BY <1>3, <3>2 DEF RowsOK, PaymentRowsOK
    <3> QED
      BY <3>1, <3>2
  <2>2. GatewayOK' /\ OrdersOK' /\ HandedOverOnce' /\ ReturnsOnlySoldStock'
    BY <1>3 DEF RowsOK, GatewayOK, OrdersOK, HandedOverOnce, ReturnsOnlySoldStock, RecordInit,
         PaymentIds, TypeOK, OrderRow
  <2>3. SideEffectsExactlyOnce' /\ CodStaysPending' /\ PaidIsBackedAndConfirmed'
    BY <1>3 DEF RowsOK, SideEffectsExactlyOnce, CodStaysPending, PaidIsBackedAndConfirmed,
         RecordInit, PaymentIds, TypeOK, OrderRow, OrdersOK
  <2> QED
    BY <2>1, <2>2, <2>3 DEF RowsOK
<1>6. RequestOK(r)'
  <2>1. CASE req[r].method = "COD"
    <3>1. req'[r] = [req[r] EXCEPT !.pc = "finalizeRead"] /\ req[r] \in Request
      BY <2>1 DEF RecordInit, Goto, TypeOK
    <3>2. /\ req'[r].pc = "finalizeRead" /\ req'[r].payment = p
          /\ req'[r].order = req[r].order /\ req'[r].codPending = req[r].codPending
      BY <3>1 DEF Request, p
    <3>3. req[r].codPending /\ payment[p].order = req[r].order /\ req[r].order \in Orders
      BY <1>1, <2>1 DEF RequestOK, RecordInit, At, OnPayment, p
    <3> QED
      BY <1>1, <1>3, <2>1, <3>2, <3>3 DEF RequestOK, OnPayment, Finalizing, Failing, RecordInit
  <2>2. CASE req[r].method # "COD"
    BY <2>2 DEF RecordInit, Done, RequestOK, Idle, OnPayment, Finalizing, Failing, TypeOK
  <2> QED
    BY <2>1, <2>2
<1>7. req'[r].pc # "handOff" /\ \A q \in Requests \ {r} : req'[q] = req[q]
  BY DEF RecordInit, Goto, Done, Idle, Request, TypeOK
<1> QED
  BY <1>4, <1>5, <1>6, <1>7, WriteStep DEF RecordInit

LEMMA FailPaymentKeeps ==
  ASSUME IInv, TypeOK', NEW r \in Requests, FailPayment(r)
  PROVE  IInv'
<1> DEFINE p == req[r].payment
<1> USE ConstantsAssumption DEF IInv
<1>1. /\ RequestOK(r) /\ created \in Nat /\ p \in 1..created /\ p \in PaymentIds
      /\ payment \in [PaymentIds -> PaymentRow] /\ payment[p].method = "ONLINE"
  BY DEF RequestsOK, RequestOK, FailPayment, At, OnPayment, Failing, TypeOK, PaymentIds
<1>2. payment' = [payment EXCEPT ![p].status = "FAILED"]
  BY DEF FailPayment
<1>3. \A q \in PaymentIds : /\ payment'[q].order = payment[q].order
                            /\ payment'[q].method = payment[q].method
                            /\ payment'[q].gatewayOrder = payment[q].gatewayOrder
                            /\ q # p => payment'[q] = payment[q]
                            /\ q = p => payment'[q].status = "FAILED"
  BY <1>1, <1>2 DEF PaymentRow
<1> HIDE DEF p
<1>4. Grows
  BY <1>3 DEF Grows, FailPayment, TypeOK, PaymentIds
<1>5. RowsOK'
  <2>1. PaymentRowsOK'
    BY <1>1, <1>3 DEF RowsOK, PaymentRowsOK, FailPayment, PaymentIds
  <2>2. GatewayOK' /\ OrdersOK' /\ HandedOverOnce' /\ ReturnsOnlySoldStock'
    BY <1>3 DEF RowsOK, GatewayOK, OrdersOK, HandedOverOnce, ReturnsOnlySoldStock, FailPayment,
         PaymentIds, TypeOK, OrderRow
  <2>3. SideEffectsExactlyOnce'
    BY <1>3 DEF RowsOK, SideEffectsExactlyOnce, FailPayment, PaymentIds, TypeOK, OrderRow,
         OrdersOK
  <2>4. CodStaysPending'
    <3> SUFFICES ASSUME NEW q \in 1..created, payment'[q].method = "COD"
                 PROVE  payment'[q].status = "PENDING"
      BY DEF CodStaysPending, FailPayment
    <3>1. q \in PaymentIds
      BY DEF TypeOK, PaymentIds
    <3>2. payment[q].method = "COD" /\ q # p
      BY <1>1, <1>3, <3>1
    <3> QED
      BY <1>3, <3>1, <3>2 DEF RowsOK, CodStaysPending
  <2>5. PaidIsBackedAndConfirmed'
    BY <1>1, <1>3 DEF RowsOK, PaidIsBackedAndConfirmed, FailPayment, PaymentIds
  <2> QED
    BY <2>1, <2>2, <2>3, <2>4, <2>5 DEF RowsOK
<1>6. RequestOK(r)'
  <2>1. /\ req'[r].pc = "failOrder" /\ req'[r].payment = p /\ req'[r].order = req[r].order
    BY DEF FailPayment, Goto, TypeOK, Request, p
  <2>2. payment[p].order = req[r].order /\ req[r].order \in Orders
    BY <1>1 DEF RequestOK, FailPayment, At, OnPayment, p
  <2> QED
    BY <1>1, <1>3, <2>1, <2>2 DEF RequestOK, OnPayment, Finalizing, Failing, FailPayment
<1>7. req'[r].pc # "handOff" /\ \A q \in Requests \ {r} : req'[q] = req[q]
  BY DEF FailPayment, Goto, Request, TypeOK
<1> QED
  BY <1>4, <1>5, <1>6, <1>7, WriteStep DEF FailPayment

LEMMA FailOrderKeeps ==
  ASSUME IInv, TypeOK', NEW r \in Requests, FailOrder(r)
  PROVE  IInv'
<1> USE ConstantsAssumption DEF IInv
<1>1. \A o \in Orders : /\ order'[o].confirmedAt = order[o].confirmedAt
                        /\ order'[o].paymentStatus \in {order[o].paymentStatus, "FAILED"}
  BY DEF FailOrder, TypeOK, OrderRow
<1>2. Grows
  BY <1>1 DEF Grows, FailOrder, TypeOK
<1>3. PaymentRowsOK' /\ GatewayOK' /\ CodStaysPending' /\ ReturnsOnlySoldStock'
  BY DEF RowsOK, PaymentRowsOK, GatewayOK, CodStaysPending, ReturnsOnlySoldStock, FailOrder,
       PaymentIds
<1>4. OrdersOK' /\ SideEffectsExactlyOnce' /\ HandedOverOnce'
  BY <1>1 DEF RowsOK, OrdersOK, SideEffectsExactlyOnce, HandedOverOnce, FailOrder
<1>5. PaidIsBackedAndConfirmed'
  BY <1>1 DEF RowsOK, PaidIsBackedAndConfirmed, PaymentRowsOK, FailOrder, PaymentIds, TypeOK
<1>6. RequestOK(r)'
  BY DEF FailOrder, Done, RequestOK, Idle, OnPayment, Finalizing, Failing, TypeOK
<1>7. req'[r].pc # "handOff" /\ \A q \in Requests \ {r} : req'[q] = req[q]
  BY DEF FailOrder, Done, Idle, TypeOK
<1> QED
  BY <1>2, <1>3, <1>4, <1>5, <1>6, <1>7, WriteStep DEF FailOrder, RowsOK

LEMMA AdminTxKeeps ==
  ASSUME IInv, TypeOK', NEW r \in Requests, AdminTx(r)
  PROVE  IInv'
<1> USE ConstantsAssumption DEF IInv
<1>1. \A o \in Orders : /\ order'[o].confirmedAt = order[o].confirmedAt
                        /\ order'[o].paymentStatus = order[o].paymentStatus
  BY DEF AdminTx, TypeOK, OrderRow
<1>2. Grows
  BY <1>1 DEF Grows, AdminTx, TypeOK
<1>3. PaymentRowsOK' /\ GatewayOK' /\ CodStaysPending'
  BY DEF RowsOK, PaymentRowsOK, GatewayOK, CodStaysPending, AdminTx, PaymentIds
<1>4. OrdersOK' /\ SideEffectsExactlyOnce' /\ HandedOverOnce'
  BY <1>1 DEF RowsOK, OrdersOK, SideEffectsExactlyOnce, HandedOverOnce, AdminTx
<1>5. PaidIsBackedAndConfirmed'
  BY <1>1 DEF RowsOK, PaidIsBackedAndConfirmed, PaymentRowsOK, AdminTx, PaymentIds, TypeOK
<1>6. ReturnsOnlySoldStock'
  <2>1. SUFFICES ASSUME NEW o \in Orders, restock'[o].return > 0
                 PROVE  ledger[o].commit = 1
    BY DEF ReturnsOnlySoldStock, AdminTx
  <2>2. CASE restock'[o].return = restock[o].return
    BY <2>1, <2>2 DEF RowsOK, ReturnsOnlySoldStock
  <2>3. CASE restock'[o].return # restock[o].return
    <3>1. req[r].order = o /\ req[r].paymentStatus = "PAID"
      BY <2>3 DEF AdminTx, TypeOK, Restock
    <3>2. order[o].confirmedAt # 0
      BY <3>1 DEF AdminTx, At, RequestsOK, RequestOK
    <3>3. ledger[o] = OC!Settled(o, payment[order[o].confirmedAt].method = "ONLINE")
      BY <3>2 DEF RowsOK, SideEffectsExactlyOnce
    <3> QED
      BY <3>3 DEF OC!Settled
  <2> QED
    BY <2>2, <2>3
<1>7. RequestOK(r)'
  BY DEF AdminTx, Done, RequestOK, Idle, OnPayment, Finalizing, Failing, TypeOK
<1>8. req'[r].pc # "handOff" /\ \A q \in Requests \ {r} : req'[q] = req[q]
  BY DEF AdminTx, Done, Idle, TypeOK
<1> QED
  BY <1>2, <1>3, <1>4, <1>5, <1>6, <1>7, <1>8, WriteStep DEF AdminTx, RowsOK

(* The claim: only here do side effects happen, and only on an order that *)
(* showed none.                                                           *)
LEMMA FinalizeClaimedKeeps ==
  ASSUME IInv, TypeOK', NEW r \in Requests, FinalizeClaimed(r)
  PROVE  IInv'
<1> DEFINE o == req[r].order
           p == req[r].payment
           paid == ~req[r].codPending
<1> USE ConstantsAssumption DEF IInv
<1>1. /\ created \in Nat /\ o \in Orders /\ p \in 1..created /\ p \in PaymentIds
      /\ payment[p].order = o /\ payment \in [PaymentIds -> PaymentRow]
      /\ paid \in BOOLEAN
      /\ paid <=> payment[p].method = "ONLINE"
      /\ paid => "authorised" \in gateway[p]
  <2>1. RequestOK(r) /\ req[r].pc = "finalizeTx" /\ created \in 0..MaxPayments
    BY DEF RequestsOK, FinalizeClaimed, At, TypeOK
  <2>2. o \in Orders /\ p \in 1..created /\ payment[p].order = o
    BY <2>1 DEF RequestOK, OnPayment
  <2>3. p \in PaymentIds /\ payment[p].method \in {"ONLINE", "COD"}
    BY <2>1, <2>2, PaymentRowType DEF PaymentIds, Methods
  <2>4. req[r].codPending = (payment[p].method = "COD") /\ (paid => "authorised" \in gateway[p])
    BY <2>1 DEF RequestOK, Finalizing
  <2>5. req[r].codPending \in BOOLEAN
    BY RequestType
  <2>6. paid <=> payment[p].method = "ONLINE"
    BY <2>3, <2>4, <2>5
  <2>7. created \in Nat /\ payment \in [PaymentIds -> PaymentRow]
    BY DEF TypeOK
  <2> QED
    BY <2>2, <2>3, <2>4, <2>5, <2>6, <2>7
<1>2. order[o].confirmedAt = 0 /\ ledger[o] = OC!Untouched /\ handovers[o] = 0
  <2>1. order[o].confirmedAt = 0
    BY DEF FinalizeClaimed
  <2> QED
    BY <1>1, <2>1 DEF RowsOK, SideEffectsExactlyOnce, HandedOverOnce, TypeOK
<1>3. /\ order'[o].confirmedAt = p /\ order'[o].paymentStatus = (IF paid THEN "PAID" ELSE "PENDING")
      /\ \A x \in Orders \ {o} : order'[x] = order[x]
  BY <1>1 DEF FinalizeClaimed, TypeOK, OrderRow
<1>4. \A q \in PaymentIds :
        /\ payment'[q].order = payment[q].order /\ payment'[q].method = payment[q].method
        /\ payment'[q].gatewayOrder = payment[q].gatewayOrder
        /\ q # p => payment'[q] = payment[q]
        /\ q = p => payment'[q].status = (IF paid THEN "PAID" ELSE "PENDING")
  BY <1>1 DEF FinalizeClaimed, PaymentRow
<1>5. /\ ledger'[o] = OC!Settled(o, paid)
      /\ \A x \in Orders \ {o} : ledger'[x] = ledger[x]
  <2>1. ledger' = [ledger EXCEPT ![o] = Apply(o, paid, ledger[o])]
    BY DEF FinalizeClaimed
  <2>2. Apply(o, paid, OC!Untouched) = OC!Settled(o, paid)
    BY DEF Apply, OC!Untouched, OC!Settled
  <2> QED
    BY <1>1, <1>2, <2>1, <2>2 DEF TypeOK
<1>6. /\ req'[r].pc = "handOff" /\ req'[r].order = o /\ req'[r].payment = p
      /\ \A q \in Requests \ {r} : req'[q] = req[q]
  BY DEF FinalizeClaimed, Goto, TypeOK, Request
<1>7. UNCHANGED <<created, gateway, restock, handovers>>
  BY DEF FinalizeClaimed
<1> HIDE DEF o, p, paid
<1>8. Grows
  <2>1. created' \in created..MaxPayments
    BY <1>7 DEF TypeOK
  <2>2. \A q \in 1..created : q \in PaymentIds
    BY DEF TypeOK, PaymentIds
  <2>3. \A x \in Orders : order[x].confirmedAt # 0 => order'[x].confirmedAt # 0
    BY <1>2, <1>3
  <2> QED
    BY <1>4, <1>7, <2>1, <2>2, <2>3 DEF Grows
<1>9. RowsOK'
  <2>1. PaymentRowsOK' /\ GatewayOK'
    BY <1>1, <1>4, <1>7 DEF RowsOK, PaymentRowsOK, GatewayOK, PaymentIds
  <2>2. OrdersOK'
    <3> SUFFICES ASSUME NEW x \in Orders
                 PROVE  /\ order'[x].paymentStatus = "PAID" => order'[x].confirmedAt # 0
                        /\ order'[x].confirmedAt # 0 =>
                             /\ order'[x].confirmedAt <= created
                             /\ payment'[order'[x].confirmedAt].order = x
      BY <1>7 DEF OrdersOK
    <3>1. CASE x = o
      BY <1>1, <1>3, <1>4, <3>1
    <3>2. CASE x # o
      <4>1. order[x].confirmedAt # 0 => order[x].confirmedAt \in PaymentIds
        BY OrderRowType DEF PaymentIds
      <4> QED
        BY <1>3, <1>4, <3>2, <4>1 DEF RowsOK, OrdersOK
    <3> QED
      BY <3>1, <3>2
  <2>3. SideEffectsExactlyOnce'
    <3>1. ASSUME NEW x \in Orders, x # o
          PROVE  ledger'[x] = IF order'[x].confirmedAt = 0 THEN OC!Untouched
                              ELSE OC!Settled(x, payment'[order'[x].confirmedAt].method = "ONLINE")
      <4>1. order[x].confirmedAt # 0 => order[x].confirmedAt \in PaymentIds
        BY <3>1 DEF TypeOK, OrderRow, PaymentIds
      <4> QED
        BY <1>3, <1>4, <1>5, <3>1, <4>1 DEF RowsOK, SideEffectsExactlyOnce
    <3>2. paid = (payment'[p].method = "ONLINE") /\ p # 0
      BY <1>1, <1>4
    <3>3. ledger'[o] = OC!Settled(o, payment'[p].method = "ONLINE")
      BY <1>5, <3>2
    <3> QED
      BY <1>3, <3>1, <3>2, <3>3 DEF SideEffectsExactlyOnce
  <2>4. CodStaysPending'
    <3> SUFFICES ASSUME NEW q \in 1..created, payment'[q].method = "COD"
                 PROVE  payment'[q].status = "PENDING"
      BY <1>7 DEF CodStaysPending
    <3>1. q \in PaymentIds /\ payment[q].method = "COD"
      BY <1>4 DEF TypeOK, PaymentIds
    <3>2. CASE q = p
      BY <1>1, <1>4, <3>1, <3>2
    <3>3. CASE q # p
      BY <1>4, <3>1, <3>3 DEF RowsOK, CodStaysPending
    <3> QED
      BY <3>2, <3>3
  <2>5. PaidIsBackedAndConfirmed'
    <3> SUFFICES ASSUME NEW q \in 1..created, payment'[q].status = "PAID"
                 PROVE  "authorised" \in gateway[q] /\ order'[payment'[q].order].confirmedAt = q
      BY <1>7 DEF PaidIsBackedAndConfirmed
    <3>1. q \in PaymentIds /\ payment[q].order \in Orders
      BY <1>1 DEF TypeOK, PaymentIds, RowsOK, PaymentRowsOK
    <3>2. CASE q = p
      BY <1>1, <1>3, <1>4, <3>2
    <3>3. CASE q # p
      <4>1. "authorised" \in gateway[q] /\ order[payment[q].order].confirmedAt = q
        BY <1>4, <3>1, <3>3 DEF RowsOK, PaidIsBackedAndConfirmed
      <4>2. payment[q].order # o
        BY <1>1, <1>2, <4>1
      <4> QED
        BY <1>3, <1>4, <3>1, <3>3, <4>1, <4>2
    <3> QED
      BY <3>2, <3>3
  <2>6. HandedOverOnce' /\ ReturnsOnlySoldStock'
    BY <1>1, <1>2, <1>3, <1>5, <1>7
    DEF RowsOK, HandedOverOnce, ReturnsOnlySoldStock, OC!Settled
  <2> QED
    BY <2>1, <2>2, <2>3, <2>4, <2>5, <2>6 DEF RowsOK
<1>10. RequestsOK'
  <2>1. RequestOK(r)'
    BY <1>1, <1>4, <1>6, <1>7 DEF RequestOK, OnPayment, Finalizing, Failing
  <2> QED
    BY <1>6, <1>8, <2>1, OthersKeep DEF RequestsOK
<1>11. HandOffOK'
  <2>1. \A q \in Requests \ {r} : req[q].pc = "handOff" => req[q].order # o
    BY <1>2 DEF HandOffOK
  <2>2. \A q \in Requests : req[q].pc = "handOff" => req[q].order \in Orders
    BY DEF RequestsOK, RequestOK
  <2> QED
    BY <1>1, <1>2, <1>3, <1>6, <1>7, <2>1, <2>2 DEF HandOffOK
<1> QED
  BY <1>9, <1>10, <1>11

LEMMA HandOffKeeps ==
  ASSUME IInv, TypeOK', NEW r \in Requests, HandOff(r)
  PROVE  IInv'
<1> DEFINE o == req[r].order
<1> USE ConstantsAssumption DEF IInv
<1>1. /\ o \in Orders /\ order[o].confirmedAt # 0 /\ handovers[o] = 0
      /\ \A q \in Requests \ {r} : req[q].pc = "handOff" => req[q].order # o
  BY DEF HandOff, At, RequestsOK, RequestOK, HandOffOK
<1>2. handovers'[o] = 1 /\ \A x \in Orders \ {o} : handovers'[x] = handovers[x]
  BY <1>1 DEF HandOff, TypeOK
<1>3. Grows
  BY DEF Grows, HandOff, TypeOK
<1>4. RowsOK'
  <2>1. HandedOverOnce'
    BY <1>1, <1>2 DEF RowsOK, HandedOverOnce, HandOff
  <2> QED
    BY <2>1 DEF RowsOK, PaymentRowsOK, GatewayOK, OrdersOK, SideEffectsExactlyOnce,
         CodStaysPending, PaidIsBackedAndConfirmed, ReturnsOnlySoldStock, HandOff, PaymentIds
<1>5. RequestOK(r)'
  BY DEF HandOff, Done, RequestOK, Idle, OnPayment, Finalizing, Failing, TypeOK
<1>6. req'[r].pc # "handOff" /\ \A q \in Requests \ {r} : req'[q] = req[q]
  BY DEF HandOff, Done, Idle, TypeOK
<1>7. \A q \in Requests \ {r} : req[q].pc = "handOff" =>
          handovers'[req[q].order] = handovers[req[q].order]
  BY <1>1, <1>2 DEF RequestsOK, RequestOK
<1> QED
  BY <1>3, <1>4, <1>5, <1>6, <1>7, WriteStep

LEMMA GatewayKeeps ==
  ASSUME IInv, TypeOK', NEW p \in PaymentIds, GatewayStep(p)
  PROVE  IInv'
<1> USE ConstantsAssumption DEF IInv
<1>1. PICK e \in GatewayEvents :
        /\ gateway' = [gateway EXCEPT ![p] = @ \cup {e}]
        /\ payment[p].method = "ONLINE" /\ p <= created
        /\ e = "captured" => "authorised" \in gateway[p]
  <2>1. payment[p].gatewayOrder => payment[p].method = "ONLINE" /\ p <= created
    BY DEF RowsOK, PaymentRowsOK
  <2>2. gateway[p] # {} => payment[p].method = "ONLINE" /\ p <= created
    BY DEF RowsOK, GatewayOK
  <2> QED
    BY <2>1, <2>2 DEF GatewayStep, GatewayDeclines, GatewayAuthorises, GatewayCaptures,
         GatewayEvents
<1>2. UNCHANGED <<order, payment, created, ledger, restock, handovers, req>>
  BY DEF GatewayStep, GatewayDeclines, GatewayAuthorises, GatewayCaptures
<1>3. gateway'[p] = gateway[p] \cup {e} /\ \A q \in PaymentIds \ {p} : gateway'[q] = gateway[q]
  BY <1>1 DEF TypeOK
<1>4. Grows
  BY <1>2, <1>3 DEF Grows, TypeOK, PaymentIds
<1>5. GatewayOK'
  BY <1>1, <1>2, <1>3 DEF RowsOK, GatewayOK
<1>6. PaidIsBackedAndConfirmed'
  BY <1>2, <1>3 DEF RowsOK, PaidIsBackedAndConfirmed, TypeOK, PaymentIds
<1>7. RowsOK'
  BY <1>2, <1>5, <1>6 DEF RowsOK, PaymentRowsOK, OrdersOK, SideEffectsExactlyOnce,
       CodStaysPending, HandedOverOnce, ReturnsOnlySoldStock, PaymentIds
<1>8. RequestsOK'
  BY <1>2, <1>4, OthersKeep DEF RequestsOK
<1>9. HandOffOK'
  BY <1>2 DEF HandOffOK
<1> QED
  BY <1>7, <1>8, <1>9

LEMMA InvStep == IInv /\ [Next]_vars => IInv'
<1> SUFFICES ASSUME IInv, [Next]_vars PROVE IInv'
  OBVIOUS
<1>1. TypeOK'
  BY TypeStep DEF IInv
<1>2. ASSUME NEW r \in Requests, Arrive(r) PROVE IInv'
  BY <1>1, <1>2, PlaceOrderKeeps, ReadActions DEF Arrive
<1>3. ASSUME NEW r \in Requests, Continue(r) PROVE IInv'
  BY <1>1, <1>3, ReadActions, RetryCreateKeeps, RecordInitKeeps, FinalizeClaimedKeeps,
     HandOffKeeps, FailPaymentKeeps, FailOrderKeeps, AdminTxKeeps
  DEF Continue, Place, Finalize, Fail, Verify
<1>4. ASSUME NEW r \in Requests, Stop(r) PROVE IInv'
  BY <1>1, <1>4, ReadActions
<1>5. ASSUME NEW p \in PaymentIds, GatewayStep(p) PROVE IInv'
  BY <1>1, <1>5, GatewayKeeps
<1>6. CASE UNCHANGED vars
  BY <1>6, ConstantsAssumption
  DEF vars, IInv, TypeOK, RowsOK, PaymentRowsOK, GatewayOK, OrdersOK, SideEffectsExactlyOnce,
      CodStaysPending, PaidIsBackedAndConfirmed, HandedOverOnce, ReturnsOnlySoldStock,
      RequestsOK, RequestOK, HandOffOK
<1> QED
  BY <1>2, <1>3, <1>4, <1>5, <1>6 DEF Next

(* Rows, calls and hand-overs are consistent with one another in every state. *)
THEOREM InvHolds == Spec => []IInv
  BY InvInit, InvStep, PTL DEF Spec

(* The comment on finalizePayment's claim, for any number of racing calls:  *)
(* stock commit, redemption, loyalty and notification happen once per       *)
(* confirmed order and never for another one.                                *)
THEOREM SideEffectsOnce == Spec => []SideEffectsExactlyOnce
<1>1. IInv => SideEffectsExactlyOnce
  BY DEF IInv, RowsOK
<1> QED
  BY <1>1, InvHolds, PTL

(* No verify call, webhook or retry ever settles a cash-on-delivery payment. *)
THEOREM CodNeverSettled == Spec => []CodStaysPending
<1>1. IInv => CodStaysPending
  BY DEF IInv, RowsOK
<1> QED
  BY <1>1, InvHolds, PTL

(* Every PAID payment was authorised at the gateway and is the one payment   *)
(* that confirmed its order.                                                 *)
THEOREM PaidIsBacked == Spec => []PaidIsBackedAndConfirmed
<1>1. IInv => PaidIsBackedAndConfirmed
  BY DEF IInv, RowsOK
<1> QED
  BY <1>1, InvHolds, PTL

(* Shipping is told of an order at most once, and only of a confirmed one.   *)
THEOREM HandedOver == Spec => []HandedOverOnce
<1>1. IInv => HandedOverOnce
  BY DEF IInv, RowsOK
<1> QED
  BY <1>1, InvHolds, PTL

(* adminSetStatus's copy of paymentStatus may be stale, yet it never returns *)
(* stock that was not sold.                                                  *)
THEOREM ReturnsOnlySold == Spec => []ReturnsOnlySoldStock
<1>1. IInv => ReturnsOnlySoldStock
  BY DEF IInv, RowsOK
<1> QED
  BY <1>1, InvHolds, PTL

-----------------------------------------------------------------------------
(* The refinement: only the claim moves the abstract state. *)

LEMMA ClaimRefines ==
  ASSUME IInv, NEW r \in Requests, FinalizeClaimed(r)
  PROVE  OC!Next
<1> DEFINE o == req[r].order
           p == req[r].payment
           paid == ~req[r].codPending
<1>1. o \in Orders /\ p \in 1..MaxPayments
  <2>1. RequestOK(r) /\ req[r].pc = "finalizeTx" /\ created \in 0..MaxPayments
    BY DEF IInv, RequestsOK, FinalizeClaimed, At, TypeOK
  <2>2. o \in Orders /\ p \in 1..created
    BY <2>1 DEF RequestOK, OnPayment
  <2> QED
    BY <2>1, <2>2, ConstantsAssumption
<1>2. order[o].confirmedAt = 0 /\ ledger[o] = OC!Untouched
  BY <1>1 DEF FinalizeClaimed, IInv, RowsOK, SideEffectsExactlyOnce
<1>3. [x \in Orders |-> order'[x].confirmedAt] =
        [[x \in Orders |-> order[x].confirmedAt] EXCEPT ![o] = p]
  BY <1>1 DEF FinalizeClaimed, IInv, TypeOK, OrderRow
<1>4. ledger' = [ledger EXCEPT ![o] = OC!Settled(o, paid)]
  <2>1. ledger' = [ledger EXCEPT ![o] = Apply(o, paid, ledger[o])]
    BY DEF FinalizeClaimed
  <2>2. Apply(o, paid, OC!Untouched) = OC!Settled(o, paid)
    BY DEF Apply, OC!Untouched, OC!Settled
  <2> QED
    BY <1>2, <2>1, <2>2
<1>5. paid \in BOOLEAN
  BY RequestType DEF IInv
<1>6. OC!Confirm(o, p, paid)
  <2>1. [x \in Orders |-> order[x].confirmedAt][o] = 0
    BY <1>1, <1>2
  <2> HIDE DEF o, p, paid
  <2> QED
    BY <1>3, <1>4, <2>1 DEF OC!Confirm
<1>7. \E y \in 1..MaxPayments, z \in BOOLEAN : OC!Confirm(o, y, z)
  BY <1>1, <1>5, <1>6 DEF OC!Confirm
<1>8. \E x \in Orders, y \in 1..MaxPayments, z \in BOOLEAN : OC!Confirm(x, y, z)
  <2> HIDE DEF o, p, paid
  <2> QED
    BY <1>1, <1>7, Zenon
<1> QED
  BY <1>8 DEF OC!Next

(* Every other step of the program is a stutter of OrderConfirmation. *)
LEMMA OtherStepsStutter ==
  ASSUME IInv, Next, ~\E r \in Requests : FinalizeClaimed(r)
  PROVE  UNCHANGED OC!vars
<1>1. ledger' = ledger
  BY DEF Next, Arrive, Continue, Place, Finalize, Fail, Verify, GatewayStep, PlaceOrder,
       RetryPayment, VerifyFromClient, WebhookPaid, WebhookFailed, AdminSetStatus, RetryCreate,
       Initiate, RecordInit, FinalizeRead, FinalizeLost, HandOff, FailRead, FailPayment,
       FailOrder, VerifyAccepted, VerifyRejected, AdminTx, Stop, GatewayDeclines,
       GatewayAuthorises, GatewayCaptures
<1>2. \/ order' = order
      \/ \E o \in Orders : order' = [order EXCEPT ![o].placed = TRUE]
      \/ \E r \in Requests : FailOrder(r) \/ AdminTx(r)
  BY DEF Next, Arrive, Continue, Place, Finalize, Fail, Verify, GatewayStep, PlaceOrder,
       RetryPayment, VerifyFromClient, WebhookPaid, WebhookFailed, AdminSetStatus, RetryCreate,
       Initiate, RecordInit, FinalizeRead, FinalizeLost, HandOff, FailRead, FailPayment,
       VerifyAccepted, VerifyRejected, Stop, GatewayDeclines, GatewayAuthorises,
       GatewayCaptures
<1>3. \A x \in Orders : order'[x].confirmedAt = order[x].confirmedAt
  <2> SUFFICES ASSUME NEW x \in Orders PROVE order'[x].confirmedAt = order[x].confirmedAt
    OBVIOUS
  <2>1. order \in [Orders -> OrderRow] /\ order[x] \in OrderRow
    BY DEF IInv, TypeOK
  <2>2. CASE order' = order
    BY <2>2
  <2>3. ASSUME NEW o \in Orders, order' = [order EXCEPT ![o].placed = TRUE]
        PROVE  order'[x].confirmedAt = order[x].confirmedAt
    BY <2>1, <2>3 DEF OrderRow
  <2>4. ASSUME NEW r \in Requests, FailOrder(r)
        PROVE  order'[x].confirmedAt = order[x].confirmedAt
    <3>1. order' = [order EXCEPT ![req[r].order].paymentStatus = "FAILED"]
      BY <2>4 DEF FailOrder
    <3> QED
      BY <2>1, <3>1 DEF OrderRow
  <2>5. ASSUME NEW r \in Requests, AdminTx(r)
        PROVE  order'[x].confirmedAt = order[x].confirmedAt
    <3>1. order' = [order EXCEPT ![req[r].order].status = req[r].target]
      BY <2>5 DEF AdminTx
    <3> QED
      BY <2>1, <3>1 DEF OrderRow
  <2> QED
    BY <1>2, <2>2, <2>3, <2>4, <2>5
<1>4. [x \in Orders |-> order'[x].confirmedAt] = [x \in Orders |-> order[x].confirmedAt]
  BY <1>3
<1> QED
  BY <1>1, <1>4 DEF OC!vars

(* The whole payment protocol, with its races, retries and failures,        *)
(* implements the specification of finalizePayment's promise.               *)
THEOREM Implements == Spec => ImplementsConfirmation
<1>1. Init => OC!Init
  BY DEF Init, OC!Init, Unplaced
<1>2. IInv /\ [Next]_vars => [OC!Next]_(OC!vars)
  <2> SUFFICES ASSUME IInv, [Next]_vars PROVE OC!Next \/ UNCHANGED OC!vars
    OBVIOUS
  <2>1. CASE \E r \in Requests : FinalizeClaimed(r)
    BY <2>1, ClaimRefines
  <2>2. CASE Next /\ ~\E r \in Requests : FinalizeClaimed(r)
    BY <2>2, OtherStepsStutter
  <2>3. CASE UNCHANGED vars
    BY <2>3 DEF vars, OC!vars
  <2> QED
    BY <2>1, <2>2, <2>3
<1> QED
  BY <1>1, <1>2, InvHolds, PTL DEF Spec, ImplementsConfirmation, OC!Spec
=============================================================================
