-------------------------- MODULE Checkout_proofs --------------------------
(***************************************************************************)
(* Proofs about buying: a customer's open cart and the limit of the stock  *)
(* (Cart), orders placed and confirmed among the calls, their numbers, the *)
(* coupon's limits and what was asked for (Checkout), the bag of a tab     *)
(* (BagView), the choice of a variant (VariantPicker), the checkout page   *)
(* (CheckoutPage), PIN codes (PincodeCache) and what an order costs        *)
(* (OrderTotals); for any number of browsers, calls, carts, variants,      *)
(* orders, clicks, look-ups and failures, and for any products, baskets    *)
(* and coupons.                                                            *)
(***************************************************************************)
EXTENDS MCCheckout, SumTheorems

-----------------------------------------------------------------------------
(* Once its cart is resolved, a call has one. *)
WithCart == {"mergeRead", "mergeLine", "mergeClose", "readItem", "writeItem", "findItem",
             "setItem", "deleteItem", "checkout"}

(* What call k may hold while there are n carts: ids of carts that exist,    *)
(* and, about to write, a quantity that was compared with the stock.         *)
CallFine(k, n) ==
    /\ k \in Call
    /\ k.token <= n /\ k.cart <= n
    /\ k.pc \in WithCart => k.cart # NoCart
    /\ k.pc = "writeItem" => k.read + k.quantity <= InStock[k.variant]
    /\ k.pc = "setItem" => k.quantity <= InStock[k.variant]

CallsFine == DOMAIN call = Calls /\ \A c \in Calls : CallFine(call[c], carts)

(* A customer's calls that found no cart found none together with the others *)
(* that are about to create one: with the carts these have made meanwhile    *)
(* they are no more than there were at one time.                             *)
OwnOK == Cardinality(OwnCarts) + Cardinality(Creating) <= rush

CartInv == TypeOK /\ CallsFine /\ OwnOK /\ WithinStock

-----------------------------------------------------------------------------
(* Calls *)

LEMMA IdleIsFine == \A n \in Nat : CallFine(Idle, n)
<1>1. Idle \in Call
  BY CartAssumption DEF CartAssumption, Idle, Call, Pcs, Ops, NoCart, NoItems, Items
<1>2. Idle.token = 0 /\ Idle.cart = 0 /\ Idle.pc = "idle"
  BY DEF Idle, NoCart
<1> QED BY <1>1, <1>2 DEF CallFine, WithCart

(* A call that goes on to a place where it is not about to write. *)
LEMMA GoesOn ==
    ASSUME NEW n \in Nat, NEW k, CallFine(k, n), NEW pc \in Pcs \ {"writeItem", "setItem"},
           pc \in WithCart => k.cart # NoCart
    PROVE  /\ CallFine([k EXCEPT !.pc = pc], n)
           /\ [k EXCEPT !.pc = pc].pc = pc
           /\ [k EXCEPT !.pc = pc].signedIn = k.signedIn
<1> DEFINE m == [k EXCEPT !.pc = pc]
<1>1. k \in Call
  BY DEF CallFine
<1>2. m \in Call
  BY <1>1 DEF Call
<1>3. m.pc = pc /\ m.signedIn = k.signedIn /\ m.token = k.token /\ m.cart = k.cart
  BY <1>1 DEF Call
<1> HIDE DEF m
<1>4. CallFine(m, n)
  BY <1>2, <1>3 DEF CallFine
<1> QED BY <1>3, <1>4 DEF m

LEMMA FirstSteps ==
    ASSUME NEW op \in Ops
    PROVE  FirstStep[op] \in {"answer", "readItem", "findItem", "deleteItem", "checkout"}
  BY DEF FirstStep, Ops

(* A call that has found cart j. *)
LEMMA HasFound ==
    ASSUME NEW n \in Nat, NEW c \in Calls, CallFine(call[c], n), NEW j \in 1..n, n <= MaxCarts
    PROVE  LET k == [call[c] EXCEPT !.cart = j, !.pc = AfterCart(c, j)]
           IN  CallFine(k, n) /\ k.pc # "create"
<1> DEFINE m == [call[c] EXCEPT !.cart = j]
           k == [call[c] EXCEPT !.cart = j, !.pc = AfterCart(c, j)]
<1>1. call[c] \in Call
  BY DEF CallFine
<1>2. AfterCart(c, j) \in {"mergeRead", "answer", "readItem", "findItem", "deleteItem", "checkout"}
  <2>1. call[c].op \in Ops
    BY <1>1 DEF Call
  <2> QED BY <2>1, FirstSteps DEF AfterCart
<1>3. j \in CartIds /\ j # NoCart
  BY CartAssumption DEF CartAssumption, CartIds, NoCart
<1>4. k \in Call
  BY <1>1, <1>2, <1>3 DEF Call, Pcs
<1>5. k.pc = AfterCart(c, j) /\ k.cart = j /\ k.token = call[c].token
  BY <1>1 DEF Call
<1> HIDE DEF k
<1>6. CallFine(k, n) /\ k.pc # "create"
  BY <1>2, <1>3, <1>4, <1>5 DEF CallFine
<1> QED BY <1>6 DEF k

LEMMA MoreCarts ==
    ASSUME NEW k, NEW n \in Nat, NEW m \in Nat, n <= m, CallFine(k, n)
    PROVE  CallFine(k, m)
<1>1. k.token \in Int /\ k.cart \in Int
  BY CartAssumption DEF CartAssumption, CallFine, Call, CartIds, NoCart
<1> QED BY <1>1 DEF CallFine

(* One call's step to k leaves every call fine. *)
LEMMA OneCall ==
    ASSUME CallsFine, carts \in Nat, carts' \in Nat, carts <= carts', NEW c \in Calls, NEW k,
           call' = [call EXCEPT ![c] = k], CallFine(k, carts')
    PROVE  /\ CallsFine'
           /\ call'[c] = k
           /\ \A d \in Calls : d # c => call'[d] = call[d]
<1>1. DOMAIN call' = Calls /\ call'[c] = k /\ \A d \in Calls : d # c => call'[d] = call[d]
  BY DEF CallsFine
<1>2. \A d \in Calls : CallFine(call'[d], carts')
  BY <1>1, MoreCarts DEF CallsFine
<1> QED BY <1>1, <1>2 DEF CallsFine, CallFine

LEMMA Rest ==
    ASSUME CartInv
    PROVE  /\ carts \in Nat /\ carts <= MaxCarts /\ MaxCarts \in Nat
           /\ \A k \in CartIds : cart[k] \in Row
           /\ \A c \in Calls : call[c] \in Call /\ CallFine(call[c], carts)
  BY CartAssumption DEF CartAssumption, CartInv, TypeOK, CallsFine

-----------------------------------------------------------------------------
(* Steps of one call, by what they change *)

LEMMA OwnSizes ==
    ASSUME CartInv
    PROVE  /\ IsFiniteSet(OwnCarts) /\ Cardinality(OwnCarts) \in Nat
           /\ IsFiniteSet(Creating) /\ Cardinality(Creating) \in Nat
           /\ rush \in Nat
<1>1. IsFiniteSet(1..carts)
  BY Rest, FS_Interval
<1>2. OwnCarts \subseteq 1..carts /\ Creating \subseteq Calls
  BY DEF OwnCarts, Creating
<1>3. IsFiniteSet(OwnCarts) /\ IsFiniteSet(Creating)
  BY <1>1, <1>2, FS_Subset, CartAssumption DEF CartAssumption
<1> QED BY <1>3, FS_CardinalityType DEF CartInv, TypeOK

LEMMA NoMore ==
    ASSUME NEW S, NEW T, T \subseteq S, IsFiniteSet(S)
    PROVE  Cardinality(T) <= Cardinality(S) /\ Cardinality(T) \in Nat /\ Cardinality(S) \in Nat
  BY FS_Subset, FS_CardinalityType

(* No more own carts than before and nobody new who creates one. *)
LEMMA OwnKept ==
    ASSUME CartInv, OwnCarts' \subseteq OwnCarts, rush' = rush, Creating' \subseteq Creating
    PROVE  OwnOK'
<1>1. OwnOK
  BY DEF CartInv
<1>2. /\ Cardinality(OwnCarts') <= Cardinality(OwnCarts) /\ Cardinality(OwnCarts') \in Nat
      /\ Cardinality(Creating') <= Cardinality(Creating) /\ Cardinality(Creating') \in Nat
  BY OwnSizes, NoMore
<1> QED BY <1>1, <1>2, OwnSizes DEF OwnOK

(* A step that leaves the carts alone. *)
LEMMA CallStep ==
    ASSUME CartInv, NEW c \in Calls, NEW k, call' = [call EXCEPT ![c] = k],
           CallFine(k, carts), k.pc = "create" => ~k.signedIn,
           UNCHANGED <<cart, carts, asked, mergedInto, rush>>,
           browser' \in [Browsers -> [token : 0..carts, signedIn : BOOLEAN]],
           raced' \subseteq Variants
    PROVE  CartInv'
<1>1. CallsFine' /\ call'[c] = k /\ \A d \in Calls : d # c => call'[d] = call[d]
  <2>1. carts' = carts /\ carts \in Nat /\ CallFine(k, carts') /\ CallsFine
    BY Rest DEF CallFine, CartInv
  <2>2. carts' \in Nat /\ carts <= carts'
    BY <2>1
  <2> QED BY <2>1, <2>2, OneCall
<1>2. TypeOK'
  BY <1>1 DEF CartInv, TypeOK, CallsFine, CallFine
<1>3. Creating' \subseteq Creating
  BY <1>1 DEF Creating, At
<1>4. OwnCarts' = OwnCarts
  BY DEF OwnCarts, Open
<1>5. OwnOK'
  BY <1>3, <1>4, OwnKept
<1>6. WithinStock'
  BY DEF CartInv, WithinStock
<1> QED BY <1>1, <1>2, <1>5, <1>6 DEF CartInv

(* A step that makes the line of v in cart k n units: within the stock, or   *)
(* the cart is known to have received a merge.                               *)
LEMMA LineStep ==
    ASSUME CartInv, NEW c \in Calls, NEW m, call' = [call EXCEPT ![c] = m],
           CallFine(m, carts), m.pc # "create",
           NEW j \in CartIds, NEW v \in Variants, NEW n \in Nat,
           cart' = [cart EXCEPT ![j].items[v] = n],
           j \in mergedInto' \/ n <= InStock[v],
           mergedInto \subseteq mergedInto', mergedInto' \subseteq CartIds,
           asked' \in [Variants -> Int], raced' \subseteq Variants,
           UNCHANGED <<carts, browser, rush>>
    PROVE  CartInv'
<1>1. CallsFine' /\ call'[c] = m /\ \A d \in Calls : d # c => call'[d] = call[d]
  <2>1. carts' = carts /\ carts \in Nat /\ CallFine(m, carts') /\ CallsFine
    BY Rest DEF CallFine, CartInv
  <2>2. carts' \in Nat /\ carts <= carts'
    BY <2>1
  <2> QED BY <2>1, <2>2, OneCall
<1>2. cart \in [CartIds -> Row]
  BY DEF CartInv, TypeOK
<1>3. cart[j].items \in [Variants -> Nat]
  BY <1>2 DEF Row, Items
<1>4. /\ cart'[j] = [cart[j] EXCEPT !.items = [cart[j].items EXCEPT ![v] = n]]
      /\ \A i \in CartIds : i # j => cart'[i] = cart[i]
      /\ DOMAIN cart' = CartIds
  BY <1>2
<1>5. /\ cart'[j] \in Row
      /\ cart'[j].owned = cart[j].owned /\ cart'[j].status = cart[j].status
      /\ cart'[j].items = [cart[j].items EXCEPT ![v] = n]
  <2>1. [cart[j].items EXCEPT ![v] = n] \in Items /\ cart[j] \in Row
    BY <1>2, <1>3 DEF Items
  <2> QED BY <1>4, <2>1 DEF Row
<1>6. cart' \in [CartIds -> Row]
  BY <1>2, <1>4, <1>5
<1>7. TypeOK'
  BY <1>1, <1>6 DEF CartInv, TypeOK, CallsFine, CallFine
<1>8. OwnCarts' = OwnCarts
  <2>1. 1..carts \subseteq CartIds
    BY Rest DEF CartIds
  <2> QED BY <1>4, <1>5, <2>1 DEF OwnCarts, Open
<1>9. OwnOK'
  <2>1. Creating' \subseteq Creating
    BY <1>1 DEF Creating, At
  <2> QED BY <1>8, <2>1, OwnKept
<1>10. WithinStock'
  <2> SUFFICES ASSUME NEW i \in CartIds \ mergedInto', NEW w \in Variants
               PROVE  cart'[i].items[w] <= InStock[w]
    BY DEF WithinStock
  <2>1. cart[i].items[w] <= InStock[w]
    BY DEF CartInv, WithinStock
  <2> QED BY <1>3, <1>4, <1>5, <2>1
<1> QED BY <1>1, <1>7, <1>9, <1>10 DEF CartInv

-----------------------------------------------------------------------------
(* The browser *)

LEMMA Sends ==
    ASSUME CartInv, NEW c \in Calls, NEW b \in Browsers, NEW op \in Ops, NEW v \in Variants,
           NEW q \in Nat, Send(c, b, op, v, q)
    PROVE  CartInv'
<1> DEFINE k == [Idle EXCEPT !.pc = "resolve", !.op = op, !.browser = b,
                             !.signedIn = browser[b].signedIn, !.token = browser[b].token,
                             !.variant = v, !.quantity = q, !.page = browser[b].token]
<1>1. /\ call' = [call EXCEPT ![c] = k]
      /\ UNCHANGED <<cart, carts, browser, asked, raced, rush, mergedInto>>
  BY DEF Send
<1>2. browser[b].token \in 0..carts /\ browser[b].signedIn \in BOOLEAN
  BY DEF CartInv, TypeOK
<1>3. browser[b].token \in CartIds \cup {NoCart}
  BY <1>2, Rest DEF CartIds, NoCart
<1>4. Idle \in Call /\ Idle.cart = 0
  BY IdleIsFine, Rest DEF CallFine, Idle, NoCart
<1>5. k \in Call
  BY <1>2, <1>3, <1>4 DEF Call, Pcs
<1>6. k.pc = "resolve" /\ k.token <= carts /\ k.cart <= carts
  BY <1>2, <1>4, Rest DEF Call
<1> HIDE DEF k
<1>7. CallFine(k, carts)
  BY <1>5, <1>6 DEF CallFine, WithCart
<1> QED BY <1>1, <1>6, <1>7, CallStep DEF CartInv, TypeOK

LEMMA Shops ==
    ASSUME CartInv, NEW c \in Calls, NEW b \in Browsers, Shop(c, b)
    PROVE  CartInv'
<1> USE DEF Ops
<1>1. Idle.variant \in Variants
  BY IdleIsFine, Rest DEF CallFine, Call
<1>2. CASE SendView(c, b)
  BY <1>1, <1>2, Sends DEF SendView
<1>3. CASE SendAdd(c, b)
  BY <1>3, Sends, CartAssumption DEF SendAdd, CartAssumption
<1>4. CASE SendUpdate(c, b)
  BY <1>4, Sends, CartAssumption DEF SendUpdate, CartAssumption
<1>5. CASE SendRemove(c, b)
  BY <1>5, Sends DEF SendRemove
<1> QED BY <1>2, <1>3, <1>4, <1>5 DEF Shop

LEMMA SignsInOrOut ==
    ASSUME CartInv, NEW b \in Browsers, SignInOrOut(b)
    PROVE  CartInv'
<1>1. /\ browser' = [browser EXCEPT ![b].signedIn = ~@]
      /\ UNCHANGED <<cart, carts, call, asked, raced, rush, mergedInto>>
  BY DEF SignInOrOut
<1>2. browser' \in [Browsers -> [token : 0..carts, signedIn : BOOLEAN]]
  BY <1>1 DEF CartInv, TypeOK
<1>3. TypeOK' /\ CallsFine'
  BY <1>1, <1>2 DEF CartInv, TypeOK, CallsFine
<1>4. OwnOK' /\ WithinStock'
  BY <1>1 DEF CartInv, OwnOK, OwnCarts, Open, Creating, At, WithinStock
<1> QED BY <1>3, <1>4 DEF CartInv

LEMMA Commits ==
    ASSUME CartInv, NEW c \in Calls, Commit(c)
    PROVE  CartInv'
<1>1. /\ browser' = IF call[c].op = "summary" THEN browser
                    ELSE [browser EXCEPT ![call[c].browser].token = call[c].cart]
      /\ call' = [call EXCEPT ![c] = Idle]
      /\ UNCHANGED <<cart, carts, asked, raced, rush, mergedInto>>
  BY DEF Commit, Done
<1>2. call[c].cart \in 0..carts
  BY Rest DEF CallFine, Call, CartIds, NoCart
<1>3. browser' \in [Browsers -> [token : 0..carts, signedIn : BOOLEAN]]
  BY <1>1, <1>2 DEF CartInv, TypeOK
<1>4. CallFine(Idle, carts) /\ Idle.pc # "create"
  BY IdleIsFine, Rest DEF Idle
<1> QED BY <1>1, <1>3, <1>4, CallStep DEF CartInv, TypeOK

LEMMA Stops ==
    ASSUME CartInv, NEW c \in Calls, Stop(c)
    PROVE  CartInv'
<1>1. /\ call' = [call EXCEPT ![c] = Idle]
      /\ UNCHANGED <<cart, carts, browser, asked, rush, mergedInto>>
      /\ raced' \subseteq raced \cup Variants
  BY DEF Stop, Done
<1>2. CallFine(Idle, carts) /\ Idle.pc # "create"
  BY IdleIsFine, Rest DEF Idle
<1> QED BY <1>1, <1>2, CallStep DEF CartInv, TypeOK

-----------------------------------------------------------------------------
(* resolveCart *)

LEMMA ResolvesGuest ==
    ASSUME CartInv, NEW c \in Calls, ResolveGuest(c)
    PROVE  CartInv'
<1>1. /\ ~call[c].signedIn
      /\ UNCHANGED <<cart, carts, browser, asked, raced, rush, mergedInto>>
  BY DEF ResolveGuest
<1>2. call[c] \in Call /\ CallFine(call[c], carts) /\ carts \in Nat /\ carts <= MaxCarts
  BY Rest
<1>3. CASE Open(call[c].token)
  <2>1. call[c].token \in 1..carts /\ Found(c, call[c].token)
    BY <1>3 DEF ResolveGuest, Open
  <2> DEFINE k == [call[c] EXCEPT !.cart = call[c].token, !.pc = AfterCart(c, call[c].token)]
  <2>2. CallFine(k, carts) /\ k.pc # "create"
    BY <1>2, <2>1, HasFound
  <2>3. call' = [call EXCEPT ![c] = k]
    BY <2>1 DEF Found
  <2> HIDE DEF k
  <2> QED BY <1>1, <2>2, <2>3, CallStep DEF CartInv, TypeOK
<1>4. CASE ~Open(call[c].token)
  <2>1. NotFound(c)
    BY <1>4 DEF ResolveGuest
  <2>2. CASE \E pc \in {"create", "answer"} : Goto(c, pc)
    <3>1. PICK pc \in {"create", "answer"} : Goto(c, pc)
      BY <2>2
    <3> DEFINE k == [call[c] EXCEPT !.pc = pc]
    <3>2. CallFine(k, carts) /\ ~k.signedIn
      BY <1>1, <1>2, GoesOn DEF Pcs, WithCart
    <3>3. call' = [call EXCEPT ![c] = k]
      BY <3>1 DEF Goto
    <3> HIDE DEF k
    <3> QED BY <1>1, <3>2, <3>3, CallStep DEF CartInv, TypeOK
  <2>3. CASE Done(c)
    <3>1. CallFine(Idle, carts) /\ Idle.pc # "create"
      BY <1>2, IdleIsFine DEF Idle
    <3> QED BY <1>1, <2>3, <3>1, CallStep DEF CartInv, TypeOK, Done
  <2> QED BY <2>1, <2>2, <2>3 DEF NotFound
<1> QED BY <1>3, <1>4

LEMMA ResolvesOwn ==
    ASSUME CartInv, NEW c \in Calls, ResolveOwn(c)
    PROVE  CartInv'
<1>1. /\ UNCHANGED <<cart, carts, browser, asked, raced, mergedInto>>
      /\ rush' = Most(rush, Cardinality(Creating'))
      /\ At(c, "resolve")
  BY DEF ResolveOwn
<1>2. call[c] \in Call /\ CallFine(call[c], carts) /\ carts \in Nat /\ carts <= MaxCarts
  BY Rest
<1>3. PICK k : /\ call' = [call EXCEPT ![c] = k] /\ CallFine(k, carts)
               /\ OwnCarts # {} => k.pc # "create"
  <2>1. CASE OwnCarts # {}
    <3>1. PICK j \in OwnCarts : Found(c, j)
      BY <2>1 DEF ResolveOwn
    <3>2. j \in 1..carts
      BY DEF OwnCarts
    <3> DEFINE k == [call[c] EXCEPT !.cart = j, !.pc = AfterCart(c, j)]
    <3>3. CallFine(k, carts) /\ k.pc # "create"
      BY <1>2, <3>2, HasFound
    <3>4. call' = [call EXCEPT ![c] = k]
      BY <3>1 DEF Found
    <3> HIDE DEF k
    <3> QED BY <3>3, <3>4
  <2>2. CASE OwnCarts = {}
    <3>1. NotFound(c)
      BY <2>2 DEF ResolveOwn
    <3>2. CASE \E pc \in {"create", "answer"} : Goto(c, pc)
      <4>1. PICK pc \in {"create", "answer"} : Goto(c, pc)
        BY <3>2
      <4>2. CallFine([call[c] EXCEPT !.pc = pc], carts)
        BY <1>2, GoesOn DEF Pcs, WithCart
      <4> QED BY <2>2, <4>1, <4>2 DEF Goto
    <3>3. CASE Done(c)
      BY <1>2, <2>2, <3>3, IdleIsFine DEF Done
    <3> QED BY <3>1, <3>2, <3>3 DEF NotFound
  <2> QED BY <2>1, <2>2
<1>4. carts' = carts /\ CallFine(k, carts') /\ CallsFine /\ carts' \in Nat /\ carts <= carts'
  BY <1>1, <1>2, <1>3 DEF CartInv
<1>5. CallsFine' /\ call'[c] = k /\ \A d \in Calls : d # c => call'[d] = call[d]
  BY <1>2, <1>3, <1>4, OneCall
<1>6. IsFiniteSet(Creating') /\ Cardinality(Creating') \in Nat
  <2>1. Creating' \subseteq Calls
    BY DEF Creating
  <2> QED BY <2>1, NoMore, FS_Subset, CartAssumption DEF CartAssumption
<1>7. rush' \in Nat /\ rush <= rush' /\ Cardinality(Creating') <= rush'
  BY <1>1, <1>6, OwnSizes DEF Most
<1>8. TypeOK'
  BY <1>1, <1>5, <1>7 DEF CartInv, TypeOK, CallsFine, CallFine
<1>9. OwnCarts' = OwnCarts
  BY <1>1 DEF OwnCarts, Open
<1>10. OwnOK'
  <2>1. CASE OwnCarts = {}
    BY <1>6, <1>7, <1>9, <2>1, FS_EmptySet DEF OwnOK
  <2>2. CASE OwnCarts # {}
    <3>1. Creating' \subseteq Creating
      BY <1>3, <1>5, <2>2 DEF Creating, At
    <3>2. Cardinality(Creating') <= Cardinality(Creating)
      BY <3>1, NoMore, OwnSizes
    <3>3. OwnOK
      BY DEF CartInv
    <3> QED BY <1>6, <1>7, <1>9, <3>2, <3>3, OwnSizes DEF OwnOK
  <2> QED BY <2>1, <2>2
<1>11. WithinStock'
  BY <1>1 DEF CartInv, WithinStock
<1> QED BY <1>5, <1>8, <1>10, <1>11 DEF CartInv

(* The new cart takes the place of its call among those about to create one. *)
LEMMA Creates ==
    ASSUME CartInv, NEW c \in Calls, Create(c)
    PROVE  CartInv'
<1> DEFINE n == carts + 1
           k == [call[c] EXCEPT !.cart = n, !.pc = AfterCart(c, n)]
<1>1. /\ At(c, "create") /\ carts < MaxCarts /\ carts' = n
      /\ cart' = [cart EXCEPT ![n].owned = call[c].signedIn]
      /\ call' = [call EXCEPT ![c] = k]
      /\ UNCHANGED <<browser, asked, raced, rush, mergedInto>>
  BY DEF Create, Found
<1>2. call[c] \in Call /\ CallFine(call[c], carts) /\ carts \in Nat /\ MaxCarts \in Nat
  BY Rest
<1>3. n \in Nat /\ n \in 1..n /\ n <= MaxCarts /\ n \in CartIds /\ carts <= n
  BY <1>1, <1>2 DEF CartIds
<1>4. CallFine(k, n) /\ k.pc # "create"
  <2>1. CallFine(call[c], n)
    BY <1>2, <1>3, MoreCarts
  <2> HIDE DEF n
  <2> QED BY <1>3, <2>1, HasFound
<1> HIDE DEF k, n
<1>5. CallsFine' /\ call'[c] = k /\ \A d \in Calls : d # c => call'[d] = call[d]
  <2>1. CallFine(k, carts') /\ CallsFine /\ carts' \in Nat /\ carts <= carts'
    BY <1>1, <1>3, <1>4 DEF CartInv
  <2> QED BY <1>1, <1>2, <2>1, OneCall
<1>6. /\ cart'[n] = [cart[n] EXCEPT !.owned = call[c].signedIn] /\ cart[n] \in Row
      /\ \A i \in CartIds : i # n => cart'[i] = cart[i]
      /\ DOMAIN cart' = CartIds
  BY <1>1, <1>3 DEF CartInv, TypeOK
<1>7. /\ cart'[n] \in Row /\ cart'[n].items = cart[n].items /\ cart'[n].status = cart[n].status
      /\ cart'[n].owned = call[c].signedIn
  BY <1>2, <1>6 DEF Row, Call
<1>8. TypeOK'
  <2>1. cart' \in [CartIds -> Row]
    BY <1>6, <1>7, <1>1 DEF CartInv, TypeOK
  <2>2. 0..carts \subseteq 0..carts' /\ carts' \in 0..MaxCarts
    BY <1>1, <1>2, <1>3
  <2>3. browser' \in [Browsers -> [token : 0..carts', signedIn : BOOLEAN]]
    BY <1>1, <2>2 DEF CartInv, TypeOK
  <2>4. \A d \in Calls : call'[d] \in Call
    BY <1>5 DEF CallsFine, CallFine
  <2> QED BY <1>1, <2>1, <2>2, <2>3, <2>4 DEF CartInv, TypeOK
<1>9. OwnOK'
  <2>1. Creating' \subseteq Creating \ {c}
    BY <1>4, <1>5 DEF Creating, At
  <2>2. \A i \in 1..carts' : i = n \/ (i \in 1..carts /\ i # n)
    BY <1>1, <1>2 DEF n
  <2>3. 1..carts \subseteq CartIds /\ n \notin 1..carts
    BY <1>2, <1>3 DEF CartIds, n
  <2>4. CASE call[c].signedIn
    <3>1. c \in Creating
      BY <1>1, <2>4 DEF Creating, At
    <3>2. Cardinality(Creating') <= Cardinality(Creating) - 1 /\ Cardinality(Creating') \in Nat
      <4>1. /\ IsFiniteSet(Creating \ {c})
            /\ Cardinality(Creating \ {c}) = Cardinality(Creating) - 1
        BY <3>1, OwnSizes, FS_RemoveElement
      <4> QED BY <2>1, <4>1, NoMore
    <3>3. OwnCarts' \subseteq OwnCarts \cup {n}
      BY <1>6, <2>2, <2>3 DEF OwnCarts, Open
    <3>4. Cardinality(OwnCarts') <= Cardinality(OwnCarts) + 1 /\ Cardinality(OwnCarts') \in Nat
      <4>1. /\ IsFiniteSet(OwnCarts \cup {n})
            /\ Cardinality(OwnCarts \cup {n}) <= Cardinality(OwnCarts) + 1
        BY OwnSizes, FS_AddElement
      <4> QED BY <3>3, <4>1, NoMore, OwnSizes
    <3>5. OwnOK /\ rush' = rush
      BY <1>1 DEF CartInv
    <3> QED BY <3>2, <3>4, <3>5, OwnSizes DEF OwnOK
  <2>5. CASE ~call[c].signedIn
    <3>1. OwnCarts' \subseteq OwnCarts
      BY <1>6, <1>7, <2>2, <2>3, <2>5 DEF OwnCarts, Open
    <3> QED BY <1>1, <2>1, <3>1, OwnKept
  <2> QED BY <2>4, <2>5
<1>10. WithinStock'
  <2>1. \A i \in CartIds : cart'[i].items = cart[i].items
    BY <1>6, <1>7
  <2> QED BY <1>1, <2>1 DEF CartInv, WithinStock
<1> QED BY <1>5, <1>8, <1>9, <1>10 DEF CartInv

-----------------------------------------------------------------------------
(* mergeGuestCart *)

LEMMA MergesRead ==
    ASSUME CartInv, NEW c \in Calls, MergeRead(c)
    PROVE  CartInv'
<1> DEFINE g == call[c].token
           items == cart[g].items
           lines == {v \in Variants : items[v] > 0}
<1>1. /\ At(c, "mergeRead")
      /\ UNCHANGED <<cart, carts, browser, asked, raced, rush, mergedInto>>
  BY DEF MergeRead
<1>2. /\ call[c] \in Call /\ CallFine(call[c], carts) /\ carts \in Nat /\ carts <= MaxCarts
      /\ call[c].cart # NoCart
  BY <1>1, Rest DEF CallFine, WithCart, At
<1>3. CASE ~Open(g)
  <2> DEFINE k == [call[c] EXCEPT !.pc = FirstStep[call[c].op]]
  <2>1. call' = [call EXCEPT ![c] = k]
    BY <1>3 DEF MergeRead, Goto
  <2>2. FirstStep[call[c].op] \in {"answer", "readItem", "findItem", "deleteItem", "checkout"}
    BY <1>2, FirstSteps DEF Call
  <2>3. CallFine(k, carts) /\ k.pc # "create"
    BY <1>2, <2>2, GoesOn DEF Pcs
  <2> HIDE DEF k
  <2> QED BY <1>1, <2>1, <2>3, CallStep DEF CartInv, TypeOK
<1>4. CASE Open(g)
  <2> DEFINE pc == IF lines = {} THEN "mergeClose" ELSE "mergeLine"
             k == [call[c] EXCEPT !.lines = items, !.left = lines, !.pc = pc]
  <2>1. call' = [call EXCEPT ![c] = k]
    BY <1>4 DEF MergeRead
  <2>2. items \in Items /\ lines \in SUBSET Variants
    <3>1. g \in CartIds
      BY <1>2, <1>4 DEF Open, Call, NoCart
    <3> QED BY <3>1, Rest DEF Row
  <2>3. pc \in {"mergeClose", "mergeLine"}
    OBVIOUS
  <2> HIDE DEF pc, items, lines
  <2>4. k \in Call
    BY <1>2, <2>2, <2>3 DEF Call, Pcs
  <2>5. k.pc = pc /\ k.token = call[c].token /\ k.cart = call[c].cart
    BY <1>2 DEF Call
  <2> HIDE DEF k
  <2>6. CallFine(k, carts) /\ k.pc # "create"
    BY <1>2, <2>3, <2>4, <2>5 DEF CallFine
  <2> QED BY <1>1, <2>1, <2>6, CallStep DEF CartInv, TypeOK
<1> QED BY <1>3, <1>4

LEMMA MergesLine ==
    ASSUME CartInv, NEW c \in Calls, MergeLine(c)
    PROVE  CartInv'
<1> DEFINE j == call[c].cart
<1>1. PICK v \in call[c].left :
         /\ At(c, "mergeLine")
         /\ cart' = [cart EXCEPT ![j].items[v] = @ + call[c].lines[v]]
         /\ call' = [call EXCEPT ![c].left = @ \ {v},
                                 ![c].pc = IF call[c].left = {v} THEN "mergeClose" ELSE @]
         /\ mergedInto' = mergedInto \cup {j}
         /\ raced' = IF Open(j) THEN raced ELSE raced \cup {v}
         /\ UNCHANGED <<carts, browser, asked, rush>>
  BY DEF MergeLine
<1>2. call[c] \in Call /\ CallFine(call[c], carts) /\ call[c].pc = "mergeLine"
  BY <1>1, Rest DEF At
<1>3. v \in Variants /\ call[c].lines[v] \in Nat /\ j \in CartIds
  BY <1>2 DEF Call, CallFine, WithCart, Items
<1> DEFINE pc == IF call[c].left = {v} THEN "mergeClose" ELSE call[c].pc
           k == [call[c] EXCEPT !.left = @ \ {v}, !.pc = pc]
           n == cart[j].items[v] + call[c].lines[v]
<1>4. call' = [call EXCEPT ![c] = k]
  BY <1>1
<1>5. pc \in {"mergeLine", "mergeClose"}
  BY <1>2
<1> HIDE DEF pc
<1>6. k \in Call /\ k.pc = pc /\ k.token = call[c].token /\ k.cart = call[c].cart
  <2>1. call[c].left \ {v} \in SUBSET Variants
    BY <1>2 DEF Call
  <2> QED BY <1>2, <1>5, <2>1 DEF Call, Pcs
<1> HIDE DEF k
<1>7. CallFine(k, carts) /\ k.pc # "create"
  BY <1>2, <1>5, <1>6 DEF CallFine, WithCart
<1>8. n \in Nat
  BY <1>3, Rest DEF Row, Items
<1>9. cart' = [cart EXCEPT ![j].items[v] = n]
  BY <1>1
<1>10. /\ mergedInto \subseteq mergedInto' /\ mergedInto' \subseteq CartIds /\ j \in mergedInto'
       /\ raced' \subseteq Variants /\ asked' \in [Variants -> Int]
  BY <1>1, <1>3 DEF CartInv, TypeOK
<1> HIDE DEF n, j
<1> QED BY <1>1, <1>3, <1>4, <1>7, <1>8, <1>9, <1>10, LineStep

LEMMA MergesClose ==
    ASSUME CartInv, NEW c \in Calls, MergeClose(c)
    PROVE  CartInv'
<1> DEFINE g == call[c].token
           k == [call[c] EXCEPT !.pc = FirstStep[call[c].op]]
<1>1. /\ At(c, "mergeClose")
      /\ cart' = [cart EXCEPT ![g].status = "MERGED"]
      /\ raced' = raced \cup Overtaken(c)
      /\ call' = [call EXCEPT ![c] = k]
      /\ UNCHANGED <<carts, browser, asked, rush, mergedInto>>
  BY DEF MergeClose, Goto
<1>2. call[c] \in Call /\ CallFine(call[c], carts) /\ call[c].cart # NoCart /\ carts \in Nat
  BY <1>1, Rest DEF CallFine, WithCart, At
<1>3. CallFine(k, carts) /\ k.pc # "create"
  <2>1. FirstStep[call[c].op] \in {"answer", "readItem", "findItem", "deleteItem", "checkout"}
    BY <1>2, FirstSteps DEF Call
  <2> QED BY <1>2, <2>1, GoesOn DEF Pcs
<1> HIDE DEF k
<1>4. CallsFine' /\ call'[c] = k /\ \A d \in Calls : d # c => call'[d] = call[d]
  <2>1. carts' = carts /\ CallFine(k, carts') /\ CallsFine /\ carts' \in Nat /\ carts <= carts'
    BY <1>1, <1>2, <1>3 DEF CartInv
  <2> QED BY <1>1, <1>2, <2>1, OneCall
<1>5. /\ DOMAIN cart' = CartIds
      /\ \A i \in CartIds : /\ cart'[i] = cart[i] \/ cart'[i] = [cart[i] EXCEPT !.status = "MERGED"]
                            /\ cart[i] \in Row
  BY <1>1 DEF CartInv, TypeOK
<1>6. \A i \in CartIds : /\ cart'[i] \in Row /\ cart'[i].items = cart[i].items
                         /\ cart'[i].owned = cart[i].owned
                         /\ cart'[i].status \in {cart[i].status, "MERGED"}
  BY <1>5 DEF Row, CartStatus
<1>7. TypeOK'
  <2>1. cart' \in [CartIds -> Row]
    BY <1>1, <1>5, <1>6 DEF CartInv, TypeOK
  <2>2. raced' \subseteq Variants
    BY <1>1 DEF CartInv, TypeOK, Overtaken
  <2>3. \A d \in Calls : call'[d] \in Call
    BY <1>4 DEF CallsFine, CallFine
  <2> QED BY <1>1, <2>1, <2>2, <2>3 DEF CartInv, TypeOK
<1>8. OwnOK'
  <2>1. 1..carts \subseteq CartIds
    BY Rest DEF CartIds
  <2>2. OwnCarts' \subseteq OwnCarts
    BY <1>1, <1>6, <2>1 DEF OwnCarts, Open
  <2>3. Creating' \subseteq Creating
    BY <1>3, <1>4 DEF Creating, At
  <2> QED BY <1>1, <2>2, <2>3, OwnKept
<1>9. WithinStock'
  BY <1>1, <1>6 DEF CartInv, WithinStock
<1> QED BY <1>4, <1>7, <1>8, <1>9 DEF CartInv

-----------------------------------------------------------------------------
(* addItem, updateItem, removeItem *)

LEMMA ReadsItem ==
    ASSUME CartInv, NEW c \in Calls, ReadItem(c)
    PROVE  CartInv'
<1> DEFINE read == cart[call[c].cart].items[call[c].variant]
           k == [call[c] EXCEPT !.read = read, !.pc = "writeItem"]
<1>1. /\ At(c, "readItem")
      /\ UNCHANGED <<cart, carts, browser, asked, raced, rush, mergedInto>>
      /\ Done(c) \/ (call' = [call EXCEPT ![c] = k]
                      /\ ~(read + call[c].quantity > InStock[call[c].variant]))
  BY DEF ReadItem
<1>2. call[c] \in Call /\ CallFine(call[c], carts) /\ carts \in Nat /\ call[c].cart # NoCart
  BY <1>1, Rest DEF CallFine, WithCart, At
<1>3. CASE Done(c)
  <2>1. CallFine(Idle, carts) /\ Idle.pc # "create"
    BY <1>2, IdleIsFine DEF Idle
  <2> QED BY <1>1, <1>3, <2>1, CallStep DEF CartInv, TypeOK, Done
<1>4. CASE /\ call' = [call EXCEPT ![c] = k]
           /\ ~(read + call[c].quantity > InStock[call[c].variant])
  <2>1. read \in Nat /\ call[c].quantity \in Nat /\ InStock[call[c].variant] \in Nat
    BY <1>2, Rest, CartAssumption DEF CartAssumption, Call, Row, Items
  <2>2. read + call[c].quantity <= InStock[call[c].variant]
    BY <1>4, <2>1
  <2> HIDE DEF read
  <2>3. /\ k \in Call /\ k.pc = "writeItem" /\ k.token = call[c].token /\ k.cart = call[c].cart
        /\ k.read = read /\ k.quantity = call[c].quantity /\ k.variant = call[c].variant
    BY <1>2, <2>1 DEF Call, Pcs
  <2> HIDE DEF k
  <2>4. CallFine(k, carts) /\ k.pc # "create"
    BY <1>2, <2>2, <2>3 DEF CallFine
  <2> QED BY <1>1, <1>4, <2>4, CallStep DEF CartInv, TypeOK
<1> QED BY <1>1, <1>3, <1>4

(* What is written was compared, the sum as well as the quantity alone. *)
LEMMA WritesItem ==
    ASSUME CartInv, NEW c \in Calls, WriteItem(c)
    PROVE  CartInv'
<1> DEFINE j == call[c].cart
           v == call[c].variant
           n == IF cart[j].items[v] = 0 THEN call[c].quantity ELSE call[c].read + call[c].quantity
           k == [call[c] EXCEPT !.pc = "answer"]
<1>1. /\ At(c, "writeItem")
      /\ cart' = [cart EXCEPT ![j].items[v] = n]
      /\ asked' = [asked EXCEPT ![v] = @ + call[c].quantity]
      /\ raced' \in {raced, raced \cup {v}}
      /\ call' = [call EXCEPT ![c] = k]
      /\ UNCHANGED <<carts, browser, rush, mergedInto>>
  BY DEF WriteItem, Goto
<1>2. call[c] \in Call /\ CallFine(call[c], carts) /\ carts \in Nat /\ call[c].pc = "writeItem"
  BY <1>1, Rest DEF At
<1>3. /\ j \in CartIds /\ v \in Variants /\ call[c].quantity \in Nat /\ call[c].read \in Nat
      /\ InStock[v] \in Nat
  BY <1>2, CartAssumption DEF CartAssumption, Call, CallFine, WithCart
<1>4. n \in Nat /\ n <= InStock[v]
  BY <1>2, <1>3 DEF CallFine
<1>5. CallFine(k, carts) /\ k.pc # "create"
  BY <1>2, GoesOn DEF Pcs, WithCart
<1>6. asked' \in [Variants -> Int] /\ raced' \subseteq Variants
  BY <1>1, <1>3 DEF CartInv, TypeOK
<1>7. mergedInto' = mergedInto /\ mergedInto' \subseteq CartIds
  BY <1>1 DEF CartInv, TypeOK
<1> HIDE DEF j, v, n, k
<1> QED BY <1>1, <1>3, <1>4, <1>5, <1>6, <1>7, LineStep

LEMMA FindsItem ==
    ASSUME CartInv, NEW c \in Calls, FindItem(c)
    PROVE  CartInv'
<1> DEFINE k == [call[c] EXCEPT !.pc = "setItem"]
<1>1. /\ At(c, "findItem")
      /\ UNCHANGED <<cart, carts, browser, asked, raced, rush, mergedInto>>
      /\ Done(c) \/ (call' = [call EXCEPT ![c] = k]
                      /\ call[c].quantity <= InStock[call[c].variant])
  BY DEF FindItem, Goto
<1>2. call[c] \in Call /\ CallFine(call[c], carts) /\ carts \in Nat /\ call[c].cart # NoCart
  BY <1>1, Rest DEF CallFine, WithCart, At
<1>3. CASE Done(c)
  <2>1. CallFine(Idle, carts) /\ Idle.pc # "create"
    BY <1>2, IdleIsFine DEF Idle
  <2> QED BY <1>1, <1>3, <2>1, CallStep DEF CartInv, TypeOK, Done
<1>4. CASE call' = [call EXCEPT ![c] = k] /\ call[c].quantity <= InStock[call[c].variant]
  <2>1. /\ k \in Call /\ k.pc = "setItem" /\ k.token = call[c].token /\ k.cart = call[c].cart
        /\ k.quantity = call[c].quantity /\ k.variant = call[c].variant
    BY <1>2 DEF Call, Pcs
  <2> HIDE DEF k
  <2>2. CallFine(k, carts) /\ k.pc # "create"
    BY <1>2, <1>4, <2>1 DEF CallFine
  <2> QED BY <1>1, <1>4, <2>2, CallStep DEF CartInv, TypeOK
<1> QED BY <1>1, <1>3, <1>4

LEMMA SetsLine ==
    ASSUME CartInv, NEW c \in Calls, call[c].pc \in WithCart, NEW n \in Nat,
           n <= InStock[call[c].variant], SetLine(call[c].cart, call[c].variant, n),
           Goto(c, "answer"), UNCHANGED <<carts, browser, raced, rush, mergedInto>>
    PROVE  CartInv'
<1> DEFINE j == call[c].cart
           v == call[c].variant
           k == [call[c] EXCEPT !.pc = "answer"]
<1>1. /\ cart' = [cart EXCEPT ![j].items[v] = n]
      /\ asked' = [asked EXCEPT ![v] = IF Open(j) THEN @ + n - cart[j].items[v] ELSE @]
      /\ call' = [call EXCEPT ![c] = k]
  BY DEF SetLine, Goto
<1>2. call[c] \in Call /\ CallFine(call[c], carts) /\ carts \in Nat
  BY Rest
<1>3. j \in CartIds /\ v \in Variants
  BY <1>2 DEF Call, CallFine
<1>4. CallFine(k, carts) /\ k.pc # "create"
  BY <1>2, GoesOn DEF Pcs, WithCart
<1>5. asked' \in [Variants -> Int]
  <2>1. cart[j].items[v] \in Nat
    BY <1>3, Rest DEF Row, Items
  <2> QED BY <1>1, <1>3, <2>1 DEF CartInv, TypeOK
<1>6. /\ mergedInto' = mergedInto /\ mergedInto' \subseteq CartIds /\ raced' \subseteq Variants
      /\ UNCHANGED <<carts, browser, rush>>
  BY DEF CartInv, TypeOK
<1>7. n <= InStock[v]
  OBVIOUS
<1> HIDE DEF j, v, k
<1> QED BY <1>1, <1>3, <1>4, <1>5, <1>6, <1>7, LineStep

LEMMA SetsItem ==
    ASSUME CartInv, NEW c \in Calls, SetItem(c)
    PROVE  CartInv'
<1>1. /\ At(c, "setItem")
      /\ UNCHANGED <<carts, browser, raced, rush, mergedInto>>
      /\ \/ Done(c) /\ UNCHANGED <<cart, asked>>
         \/ SetLine(call[c].cart, call[c].variant, call[c].quantity) /\ Goto(c, "answer")
  BY DEF SetItem
<1>2. call[c] \in Call /\ CallFine(call[c], carts) /\ carts \in Nat /\ call[c].pc = "setItem"
  BY <1>1, Rest DEF At
<1>3. CASE Done(c) /\ UNCHANGED <<cart, asked>>
  <2>1. CallFine(Idle, carts) /\ Idle.pc # "create"
    BY <1>2, IdleIsFine DEF Idle
  <2> QED BY <1>1, <1>3, <2>1, CallStep DEF CartInv, TypeOK, Done
<1>4. CASE SetLine(call[c].cart, call[c].variant, call[c].quantity) /\ Goto(c, "answer")
  <2>1. call[c].quantity \in Nat /\ call[c].quantity <= InStock[call[c].variant]
    BY <1>2 DEF CallFine, Call
  <2> QED BY <1>1, <1>2, <1>4, <2>1, SetsLine DEF WithCart
<1> QED BY <1>1, <1>3, <1>4

LEMMA DeletesItem ==
    ASSUME CartInv, NEW c \in Calls, DeleteItem(c)
    PROVE  CartInv'
<1>1. /\ At(c, "deleteItem") /\ Goto(c, "answer")
      /\ UNCHANGED <<carts, browser, raced, rush, mergedInto>>
      /\ SetLine(call[c].cart, call[c].variant, 0) \/ UNCHANGED <<cart, asked>>
  BY DEF DeleteItem
<1>2. call[c] \in Call /\ CallFine(call[c], carts) /\ carts \in Nat /\ call[c].pc = "deleteItem"
  BY <1>1, Rest DEF At
<1>3. CASE SetLine(call[c].cart, call[c].variant, 0)
  <2>1. 0 <= InStock[call[c].variant]
    BY <1>2, CartAssumption DEF CartAssumption, Call
  <2> QED BY <1>1, <1>2, <1>3, <2>1, SetsLine DEF WithCart
<1>4. CASE UNCHANGED <<cart, asked>>
  <2> DEFINE k == [call[c] EXCEPT !.pc = "answer"]
  <2>1. CallFine(k, carts) /\ k.pc # "create"
    BY <1>2, GoesOn DEF Pcs, WithCart
  <2>2. call' = [call EXCEPT ![c] = k]
    BY <1>1 DEF Goto
  <2> HIDE DEF k
  <2> QED BY <1>1, <1>4, <2>1, <2>2, CallStep DEF CartInv, TypeOK
<1> QED BY <1>1, <1>3, <1>4

-----------------------------------------------------------------------------
LEMMA CartStarts == Init => CartInv
<1> SUFFICES ASSUME Init PROVE CartInv
  OBVIOUS
<1>1. \A c \in Calls : call[c] = Idle
  BY DEF Init
<1>2. CallsFine
  BY <1>1, IdleIsFine DEF CallsFine, Init
<1>3. NoItems \in Items
  BY DEF NoItems, Items
<1>4. TypeOK
  <2>1. cart \in [CartIds -> Row] /\ asked \in [Variants -> Int]
    BY <1>3 DEF Init, Row, CartStatus, NoItems
  <2>2. browser \in [Browsers -> [token : 0..carts, signedIn : BOOLEAN]] /\ carts \in 0..MaxCarts
    BY CartAssumption DEF CartAssumption, Init, NoCart
  <2>3. \A c \in Calls : call[c] \in Call
    BY <1>2 DEF CallsFine, CallFine
  <2> QED BY <2>1, <2>2, <2>3 DEF Init, TypeOK
<1>5. OwnOK
  <2>1. OwnCarts = {}
    BY DEF OwnCarts, Init
  <2>2. Creating = {}
    <3>1. Idle.pc # "create"
      BY DEF Idle
    <3> QED BY <1>1, <3>1 DEF Creating, At
  <2> QED BY <2>1, <2>2, FS_EmptySet DEF OwnOK, Init
<1>6. WithinStock
  BY CartAssumption DEF CartAssumption, WithinStock, Init, NoItems
<1> QED BY <1>2, <1>4, <1>5, <1>6 DEF CartInv

LEMMA CartStutters == CartInv /\ UNCHANGED vars => CartInv'
  BY DEF vars, CartInv, TypeOK, CallsFine, OwnOK, OwnCarts, Open, Creating, At, WithinStock

LEMMA CartSteps == CartInv /\ [Next]_vars => CartInv'
<1> SUFFICES ASSUME CartInv, Next PROVE CartInv'
  BY CartStutters
<1>1. ASSUME NEW c \in Calls, NEW b \in Browsers, Shop(c, b) PROVE CartInv'
  BY <1>1, Shops
<1>2. ASSUME NEW b \in Browsers, SignInOrOut(b) PROVE CartInv'
  BY <1>2, SignsInOrOut
<1>3. ASSUME NEW c \in Calls, Resolve(c) PROVE CartInv'
  BY <1>3, ResolvesOwn, ResolvesGuest, Creates DEF Resolve
<1>4. ASSUME NEW c \in Calls, Merge(c) PROVE CartInv'
  BY <1>4, MergesRead, MergesLine, MergesClose DEF Merge
<1>5. ASSUME NEW c \in Calls, Change(c) PROVE CartInv'
  BY <1>5, ReadsItem, WritesItem, FindsItem, SetsItem, DeletesItem DEF Change
<1>6. ASSUME NEW c \in Calls, Commit(c) \/ Stop(c) PROVE CartInv'
  BY <1>6, Commits, Stops
<1> QED BY <1>1, <1>2, <1>3, <1>4, <1>5, <1>6 DEF Next

LEMMA RushIsEnough == CartInv => OneOpenCart
<1> SUFFICES ASSUME CartInv PROVE Cardinality(OwnCarts) <= rush
  BY DEF OneOpenCart
<1>1. OwnOK
  BY DEF CartInv
<1> QED BY <1>1, OwnSizes DEF OwnOK

(* Rows, browsers and calls keep their types: a browser's token names a cart *)
(* that exists.                                                              *)
THEOREM CartTypes == Spec => []TypeOK
<1>1. CartInv => TypeOK
  BY DEF CartInv
<1> QED BY <1>1, CartStarts, CartSteps, PTL DEF Spec

(* A customer has no more open carts of their own than calls that found none *)
(* were about to create one at the same time.                                *)
THEOREM OneCart == Spec => []OneOpenCart
  BY RushIsEnough, CartStarts, CartSteps, PTL DEF Spec

(* No cart holds more than the stock, but for carts a merge has reached:     *)
(* additions and changes that race write what they compared.                 *)
THEOREM StockIsKept == Spec => []WithinStock
<1>1. CartInv => WithinStock
  BY DEF CartInv
<1> QED BY <1>1, CartStarts, CartSteps, PTL DEF Spec

-----------------------------------------------------------------------------
(* A placement belongs to a call in flight. *)
PlacingOK == \A c \in Calls : place[c].step # "none" => call[c].pc # "idle"

(* The number of a placement was made with no more than n orders there, and  *)
(* is the next one, or of an order, while none that was looked up was taken. *)
Counted == {"lookup", "tx"}
NumberFine(p, n, jump) ==
    /\ p.looked <= n /\ (p.step # "tx" => p.looked = 0)
    /\ p.step \in Counted => p.number <= n + 1 + MaxJump
    /\ ~jump => p.attempt = 0 /\ (p.step \in Counted => p.number \in 1..n + 1)

NumberOK == \A c \in Calls : NumberFine(place[c], orders, jumped)

(* Uses of the coupon under way, by placements P and orders O, when n were   *)
(* redeemed: the last of them was let in below the limit, while no more than *)
(* h, itself included, were under way.                                       *)
UsesFit(P, O, n, limit, h) ==
    /\ Cardinality(P) + Cardinality(O) <= h
    /\ n + Cardinality(P) + Cardinality(O) < limit + h

PlacedByUser == {c \in PlacedWith : call[c].signedIn}
OrderedByUser == {o \in OrderedWith : order[o].signedIn}

CouponOK ==
    /\ UsesFit(PlacedWith, OrderedWith, coupon.used, UsageLimit, crowd)
    /\ UsesFit(PlacedByUser, OrderedByUser, coupon.redeemed, UserLimit, crowd)

Inv == CartInv /\ CheckoutTypeOK /\ PlacingOK /\ NumberOK /\ NumbersFollowCount /\ CouponOK

-----------------------------------------------------------------------------
(* Uses of the coupon *)

LEMMA FewerUses ==
    ASSUME NEW P, NEW O, NEW Q, NEW R, IsFiniteSet(P), IsFiniteSet(O), Q \subseteq P,
           R \subseteq O, NEW n \in Nat, NEW limit \in Nat, NEW h \in Nat, NEW k \in Nat,
           h <= k, UsesFit(P, O, n, limit, h)
    PROVE  UsesFit(Q, R, n, limit, k)
<1>1. /\ Cardinality(Q) <= Cardinality(P) /\ Cardinality(Q) \in Nat /\ Cardinality(P) \in Nat
      /\ Cardinality(R) <= Cardinality(O) /\ Cardinality(R) \in Nat /\ Cardinality(O) \in Nat
  BY NoMore
<1> QED BY <1>1 DEF UsesFit

(* A placement's use becomes its order's. *)
LEMMA UseMoves ==
    ASSUME NEW P, NEW O, IsFiniteSet(P), IsFiniteSet(O), NEW c \in P, NEW o,
           NEW n \in Nat, NEW limit \in Nat, NEW h \in Nat, UsesFit(P, O, n, limit, h)
    PROVE  UsesFit(P \ {c}, O \cup {o}, n, limit, h)
<1>1. /\ Cardinality(P \ {c}) = Cardinality(P) - 1
      /\ Cardinality(O \cup {o}) <= Cardinality(O) + 1
      /\ Cardinality(P) \in Nat /\ Cardinality(O) \in Nat
      /\ Cardinality(P \ {c}) \in Nat /\ Cardinality(O \cup {o}) \in Nat
  <2>1. IsFiniteSet(P \ {c}) /\ Cardinality(P \ {c}) = Cardinality(P) - 1
    BY FS_RemoveElement
  <2>2. /\ IsFiniteSet(O \cup {o})
        /\ Cardinality(O \cup {o}) = IF o \in O THEN Cardinality(O) ELSE Cardinality(O) + 1
    BY FS_AddElement
  <2>3. /\ Cardinality(P) \in Nat /\ Cardinality(O) \in Nat
        /\ Cardinality(P \ {c}) \in Nat /\ Cardinality(O \cup {o}) \in Nat
    BY <2>1, <2>2, FS_CardinalityType
  <2> QED BY <2>1, <2>2, <2>3
<1> QED BY <1>1 DEF UsesFit

(* An order's use is redeemed. *)
LEMMA UseIsPaid ==
    ASSUME NEW P, NEW O, IsFiniteSet(P), IsFiniteSet(O), NEW o \in O,
           NEW n \in Nat, NEW limit \in Nat, NEW h \in Nat, UsesFit(P, O, n, limit, h)
    PROVE  UsesFit(P, O \ {o}, n + 1, limit, h)
<1>1. /\ Cardinality(O \ {o}) = Cardinality(O) - 1
      /\ Cardinality(P) \in Nat /\ Cardinality(O) \in Nat /\ Cardinality(O \ {o}) \in Nat
  BY FS_RemoveElement, FS_CardinalityType
<1> QED BY <1>1 DEF UsesFit

-----------------------------------------------------------------------------
LEMMA NoPlacementType == NoPlacement \in Placement
  BY CheckoutAssumption DEF CheckoutAssumption, NoPlacement, Placement, NoItems, Items

LEMMA Bounds ==
    ASSUME Inv
    PROVE  /\ MaxOrders \in Nat /\ orders \in Nat /\ orders <= MaxOrders
           /\ \A o \in OrderIds : order[o] \in Order
           /\ \A c \in Calls : place[c] \in Placement
           /\ place \in [Calls -> Placement]
           /\ crowd \in Nat /\ jumped \in BOOLEAN /\ MaxJump \in Nat
           /\ coupon.used \in Nat /\ coupon.redeemed \in Nat
           /\ UsageLimit \in Nat \ {0} /\ UserLimit \in Nat \ {0}
  BY CheckoutAssumption DEF CheckoutAssumption, Inv, CheckoutTypeOK

LEMMA NoPlacementFine ==
    /\ NoPlacement.step = "none" /\ NoPlacement.looked = 0
    /\ \A n \in Nat, j \in BOOLEAN : NumberFine(NoPlacement, n, j)
<1>1. /\ NoPlacement.step = "none" /\ NoPlacement.looked = 0 /\ NoPlacement.attempt = 0
      /\ NoPlacement.step \notin Counted
  BY DEF NoPlacement, Counted
<1>2. \A n \in Nat, j \in BOOLEAN : NumberFine(NoPlacement, n, j)
  BY <1>1 DEF NumberFine
<1> QED BY <1>1, <1>2

LEMMA UsesFinite ==
    ASSUME Inv
    PROVE  /\ IsFiniteSet(PlacedWith) /\ IsFiniteSet(OrderedWith)
           /\ IsFiniteSet(PlacedByUser) /\ IsFiniteSet(OrderedByUser)
<1>1. IsFiniteSet(Calls) /\ IsFiniteSet(1..orders)
  BY Bounds, FS_Interval, CartAssumption DEF CartAssumption
<1>2. PlacedWith \subseteq Calls /\ OrderedWith \subseteq 1..orders
  BY DEF PlacedWith, OrderedWith
<1>3. PlacedByUser \subseteq PlacedWith /\ OrderedByUser \subseteq OrderedWith
  BY DEF PlacedByUser, OrderedByUser
<1> QED BY <1>1, <1>2, <1>3, FS_Subset

(* What the orders' numbers say, when orders and look-ups that ended stay.   *)
LEMMA NumbersStay ==
    ASSUME Inv, UNCHANGED <<order, orders>>, jumped' \in BOOLEAN, jumped => jumped',
           \A c \in Calls : \/ place'[c].step # "tx"
                           \/ place'[c] = place[c]
                           \/ \A o \in 1..place'[c].looked : order[o].number # place'[c].number
    PROVE  NumbersFollowCount'
<1>1. NumbersFollowCount
  BY DEF Inv
<1>2. ~jumped' => ~jumped
  OBVIOUS
<1> QED BY <1>1, <1>2 DEF NumbersFollowCount

(* A call in flight keeps the sign-in it was sent with. *)
LEMMA SignInIsKept ==
    ASSUME CartInv, NEW c \in Calls,
           \/ \E b \in Browsers : Shop(c, b)
           \/ Resolve(c) \/ Merge(c) \/ Change(c) \/ Commit(c) \/ Stop(c)
    PROVE  \A d \in Calls : call[d].pc # "idle" /\ call'[d].pc # "idle"
                                => call'[d].signedIn = call[d].signedIn
<1> DEFINE Kept == \A d \in Calls : call[d].pc # "idle" /\ call'[d].pc # "idle"
                                => call'[d].signedIn = call[d].signedIn
<1> USE DEF At, Goto, Done, Found, NotFound
<1>1. DOMAIN call = Calls /\ \A d \in Calls : call[d] \in Call
  BY Rest DEF CartInv, CallsFine
<1>2. call[c] \in Call
  BY <1>1
<1>3. Idle.pc = "idle"
  BY DEF Idle
<1>4. ASSUME NEW b \in Browsers, Shop(c, b) PROVE Kept
  BY <1>1, <1>4 DEF Shop, SendView, SendAdd, SendUpdate, SendRemove, Send
<1>5. CASE ResolveOwn(c)
  <2>1. CASE \E j : Found(c, j)
    <3>1. PICK j : call' = [call EXCEPT ![c].cart = j, ![c].pc = AfterCart(c, j)]
      BY <2>1
    <3> QED BY <1>1, <1>2, <3>1 DEF Call
  <2>2. CASE NotFound(c)
    BY <1>1, <1>2, <1>3, <2>2 DEF Call
  <2>3. (\E j : Found(c, j)) \/ NotFound(c)
    BY <1>5 DEF ResolveOwn
  <2> QED BY <2>1, <2>2, <2>3
<1>6. CASE ResolveGuest(c)
  BY <1>1, <1>2, <1>3, <1>6 DEF ResolveGuest, Call
<1>7. CASE Create(c)
  BY <1>1, <1>2, <1>7 DEF Create, Call
<1>8. CASE MergeRead(c)
  <2>1. CASE ~Open(call[c].token)
    BY <1>1, <1>2, <1>8, <2>1 DEF MergeRead, Call
  <2>2. CASE Open(call[c].token)
    <3> DEFINE items == cart[call[c].token].items
               lines == {v \in Variants : items[v] > 0}
               pc == IF lines = {} THEN "mergeClose" ELSE "mergeLine"
               k == [call[c] EXCEPT !.lines = items, !.left = lines, !.pc = pc]
    <3>1. call' = [call EXCEPT ![c] = k]
      BY <1>8, <2>2 DEF MergeRead
    <3> HIDE DEF items, lines, pc
    <3>2. k.signedIn = call[c].signedIn
      BY <1>2 DEF Call
    <3> HIDE DEF k
    <3> QED BY <1>1, <3>1, <3>2
  <2> QED BY <2>1, <2>2
<1>9. CASE MergeLine(c)
  BY <1>1, <1>2, <1>9 DEF MergeLine, Call
<1>10. CASE MergeClose(c)
  BY <1>1, <1>2, <1>10 DEF MergeClose, Call
<1>11. CASE Change(c)
  BY <1>1, <1>2, <1>3, <1>11 DEF Change, ReadItem, WriteItem, FindItem, SetItem, DeleteItem, Call
<1>12. CASE Commit(c) \/ Stop(c)
  BY <1>1, <1>3, <1>12 DEF Commit, Stop
<1> QED BY <1>4, <1>5, <1>6, <1>7, <1>8, <1>9, <1>10, <1>11, <1>12 DEF Resolve, Merge

(* The carts' part of a step that ends one call, or none, and writes no cart. *)
LEMMA EndsCall ==
    ASSUME CartInv, NEW c \in Calls, CartUnchanged, Done(c) \/ UNCHANGED call
    PROVE  CartInv'
<1>1. CASE Done(c)
  <2>1. CallFine(Idle, carts) /\ Idle.pc # "create"
    BY IdleIsFine, Rest DEF Idle
  <2> QED BY <1>1, <2>1, CallStep DEF CartInv, TypeOK, Done, CartUnchanged
<1>2. CASE UNCHANGED call
  BY <1>2, CartStutters DEF CartUnchanged, vars
<1> QED BY <1>1, <1>2

-----------------------------------------------------------------------------
(* Placements come and go: fewer uses of the coupon than before, by the same *)
(* calls and orders.                                                         *)
LEMMA UsesKept ==
    ASSUME Inv, UNCHANGED <<coupon, crowd, order, orders>>,
           PlacedWith' \subseteq PlacedWith,
           \A c \in PlacedWith' : call'[c].signedIn = call[c].signedIn
    PROVE  CouponOK'
<1>1. OrderedWith' = OrderedWith
  BY DEF OrderedWith
<1>2. OrderedByUser' = OrderedByUser
  BY <1>1 DEF OrderedByUser
<1>3. PlacedByUser' \subseteq PlacedByUser
  BY DEF PlacedByUser
<1>4. UsesFit(PlacedWith', OrderedWith', coupon.used, UsageLimit, crowd)
  BY <1>1, UsesFinite, FewerUses, Bounds DEF Inv, CouponOK
<1>5. UsesFit(PlacedByUser', OrderedByUser', coupon.redeemed, UserLimit, crowd)
  BY <1>2, <1>3, UsesFinite, FewerUses, Bounds DEF Inv, CouponOK
<1> QED BY <1>4, <1>5 DEF CouponOK, UsesFit

(* A step after which every placement is as it was or has ended. *)
LEMMA PlacementsEnd ==
    ASSUME Inv, CartInv', UNCHANGED <<order, orders, converts, coupon, crowd, jumped>>,
           place' \in [Calls -> Placement],
           \A c \in Calls : place'[c] = NoPlacement \/ place'[c] = place[c],
           \A c \in Calls : place'[c].step # "none" =>
               call'[c].pc # "idle" /\ call'[c].signedIn = call[c].signedIn
    PROVE  Inv'
<1>1. NoPlacement.step = "none"
  BY DEF NoPlacement
<1>2. CheckoutTypeOK'
  BY DEF Inv, CartInv, CheckoutTypeOK
<1>3. PlacingOK'
  BY DEF PlacingOK
<1>4. NumberOK' /\ NumbersFollowCount'
  <2>1. NumberOK'
    BY NoPlacementFine, Bounds DEF Inv, NumberOK
  <2> QED BY <1>1, <2>1, NumbersStay, Bounds
<1>5. PlacedWith' \subseteq PlacedWith
  BY <1>1 DEF PlacedWith
<1>6. \A c \in PlacedWith' : call'[c].signedIn = call[c].signedIn
  BY DEF PlacedWith
<1>7. CouponOK'
  BY <1>5, <1>6, UsesKept
<1> QED BY <1>2, <1>3, <1>4, <1>7 DEF Inv

LEMMA CartStepKeeps == Inv /\ CartStep => Inv'
<1> SUFFICES ASSUME Inv, CartStep PROVE Inv'
  OBVIOUS
<1>1. /\ place' = [c \in Calls |-> IF call'[c].pc = "idle" THEN NoPlacement ELSE place[c]]
      /\ UNCHANGED <<order, orders, converts, coupon, crowd, jumped, placements>>
  BY DEF CartStep
<1>2. /\ CartInv'
      /\ \A d \in Calls : call[d].pc # "idle" /\ call'[d].pc # "idle"
                             => call'[d].signedIn = call[d].signedIn
  <2>1. CartInv
    BY DEF Inv
  <2>2. Next
    BY DEF CartStep, Next
  <2>3. CASE \E c \in Calls, b \in Browsers : Shop(c, b)
    BY <2>1, <2>2, <2>3, CartSteps, SignInIsKept
  <2>4. CASE \E b \in Browsers : SignInOrOut(b)
    BY <2>1, <2>2, <2>4, CartSteps DEF SignInOrOut
  <2>5. CASE \E c \in Calls : Resolve(c) \/ Merge(c) \/ Change(c) \/ Commit(c) \/ Stop(c)
    BY <2>1, <2>2, <2>5, CartSteps, SignInIsKept
  <2> QED BY <2>3, <2>4, <2>5 DEF CartStep
<1>3. place' \in [Calls -> Placement]
  BY <1>1, NoPlacementType, Bounds
<1>4. ASSUME NEW c \in Calls, place'[c].step # "none"
      PROVE  call'[c].pc # "idle" /\ call'[c].signedIn = call[c].signedIn
  <2>1. NoPlacement.step = "none"
    BY DEF NoPlacement
  <2>2. place'[c] = place[c] /\ call'[c].pc # "idle"
    BY <1>1, <1>4, <2>1
  <2>3. call[c].pc # "idle"
    BY <1>4, <2>2 DEF Inv, PlacingOK
  <2> QED BY <1>2, <2>2, <2>3
<1> QED BY <1>1, <1>2, <1>3, <1>4, PlacementsEnd

LEMMA SendsPlace ==
    ASSUME Inv, NEW c \in Calls, NEW b \in Browsers, NEW withCode \in BOOLEAN, SendPlace(c, b, withCode)
    PROVE  Inv'
<1> DEFINE p == [NoPlacement EXCEPT !.step = "lines", !.coupon = withCode]
<1>1. /\ Send(c, b, "place", Idle.variant, 0)
      /\ place' = [place EXCEPT ![c] = p]
      /\ UNCHANGED <<order, orders, converts, coupon, crowd, jumped>>
  BY DEF SendPlace, Proceed
<1>2. CartInv'
  <2>1. Idle.variant \in Variants /\ "place" \in Ops
    BY IdleIsFine, Rest DEF CallFine, Call, Ops, Inv
  <2> QED BY <1>1, <2>1, Sends DEF Inv
<1>3. /\ p \in Placement /\ p.step = "lines" /\ NumberFine(p, orders, jumped)
  <2>1. /\ p \in Placement /\ p.step = "lines"
        /\ p.looked = NoPlacement.looked /\ p.attempt = NoPlacement.attempt
    BY NoPlacementType DEF Placement
  <2>2. NoPlacement.looked = 0 /\ NoPlacement.attempt = 0
    BY DEF NoPlacement
  <2> HIDE DEF p
  <2> QED BY <2>1, <2>2, Bounds DEF NumberFine, Counted
<1> HIDE DEF p
<1>4. /\ place' \in [Calls -> Placement] /\ place'[c] = p
      /\ \A d \in Calls : d # c => place'[d] = place[d]
  BY <1>1, <1>3, Bounds
<1>5. call'[c].pc # "idle" /\ \A d \in Calls : d # c => call'[d] = call[d]
  <2>1. DOMAIN call = Calls
    BY DEF Inv, CartInv, CallsFine
  <2>2. Idle \in Call
    BY IdleIsFine, Rest DEF CallFine, Inv
  <2> QED BY <1>1, <2>1, <2>2 DEF Send, Call
<1>6. CheckoutTypeOK'
  BY <1>1, <1>2, <1>4 DEF Inv, CartInv, CheckoutTypeOK
<1>7. PlacingOK' /\ NumberOK' /\ NumbersFollowCount'
  <2>1. PlacingOK' /\ NumberOK'
    BY <1>1, <1>3, <1>4, <1>5 DEF Inv, PlacingOK, NumberOK
  <2> QED BY <1>1, <1>3, <1>4, <2>1, NumbersStay, Bounds
<1>8. CouponOK'
  <2>1. PlacedWith' \subseteq PlacedWith /\ c \notin PlacedWith'
    BY <1>3, <1>4 DEF PlacedWith
  <2>2. \A d \in PlacedWith' : call'[d].signedIn = call[d].signedIn
    BY <1>5, <2>1 DEF PlacedWith
  <2> QED BY <1>1, <2>1, <2>2, UsesKept
<1> QED BY <1>2, <1>6, <1>7, <1>8 DEF Inv

(* The end of a placement without an order. *)
LEMMA EndsPlacement ==
    ASSUME Inv, NEW c \in Calls, EndPlacement(c), CartUnchanged,
           UNCHANGED <<order, orders, converts, coupon, crowd, jumped>>
    PROVE  Inv'
<1>1. /\ call' = [call EXCEPT ![c] = Idle] /\ place' = [place EXCEPT ![c] = NoPlacement]
      /\ Done(c)
  BY DEF EndPlacement, Done, Proceed
<1>2. CartInv'
  BY <1>1, EndsCall DEF Inv
<1>3. /\ place' \in [Calls -> Placement] /\ place'[c] = NoPlacement
      /\ \A d \in Calls : d # c => place'[d] = place[d]
  BY <1>1, NoPlacementType, Bounds
<1>4. \A d \in Calls : d # c => call'[d] = call[d]
  BY <1>1 DEF Inv, CartInv, CallsFine
<1>5. \A d \in Calls : place'[d].step # "none" =>
         call'[d].pc # "idle" /\ call'[d].signedIn = call[d].signedIn
  <2>1. NoPlacement.step = "none"
    BY DEF NoPlacement
  <2> QED BY <1>3, <1>4, <2>1 DEF Inv, PlacingOK
<1> QED BY <1>2, <1>3, <1>5, PlacementsEnd

(* A placement that goes on at another step.                                 *)
LEMMA GoesOnPlacing ==
    ASSUME Inv, NEW c \in Calls, NEW p \in Placement, place[c].step # "none",
           Proceed(c, p), CartUnchanged, UNCHANGED <<call, order, orders, converts, coupon>>,
           crowd' \in Nat, jumped' \in BOOLEAN, jumped => jumped',
           NumberFine(p, orders, jumped'),
           p.step = "tx" => \A o \in 1..p.looked : order[o].number # p.number
    PROVE  /\ CartInv' /\ CheckoutTypeOK' /\ PlacingOK' /\ NumberOK' /\ NumbersFollowCount'
           /\ place'[c] = p /\ \A d \in Calls : d # c => place'[d] = place[d]
<1>1. place' = [place EXCEPT ![c] = p]
  BY DEF Proceed
<1>2. /\ place' \in [Calls -> Placement] /\ place'[c] = p
      /\ \A d \in Calls : d # c => place'[d] = place[d]
  BY <1>1, Bounds
<1>3. CartInv'
  BY EndsCall DEF Inv
<1>4. CheckoutTypeOK'
  BY <1>2, <1>3 DEF Inv, CartInv, CheckoutTypeOK
<1>5. PlacingOK'
  BY <1>2 DEF Inv, PlacingOK
<1>6. NumberOK'
  <2>1. \A d \in Calls : NumberFine(place[d], orders, jumped')
    BY DEF Inv, NumberOK, NumberFine
  <2> QED BY <1>2, <2>1 DEF NumberOK
<1>7. NumbersFollowCount'
  BY <1>2, NumbersStay
<1> QED BY <1>2, <1>3, <1>4, <1>5, <1>6, <1>7

-----------------------------------------------------------------------------
(* placeOrder, and the payment's confirmation *)

LEMMA PlacesLines ==
    ASSUME Inv, NEW c \in Calls, PlaceLines(c)
    PROVE  Inv'
<1> DEFINE lines == cart[call[c].cart].items
           p == [place[c] EXCEPT !.lines = lines, !.step = "coupon"]
<1>1. /\ Placing(c, "lines") /\ CartUnchanged
      /\ UNCHANGED <<order, orders, converts, coupon, crowd, jumped>>
      /\ EndPlacement(c) \/ (Proceed(c, p) /\ UNCHANGED call)
  BY DEF PlaceLines
<1>2. CASE EndPlacement(c)
  BY <1>1, <1>2, EndsPlacement
<1>3. CASE Proceed(c, p) /\ UNCHANGED call
  <2>1. lines \in Items
    <3>1. call[c].cart \in CartIds
      BY <1>1, Rest DEF Placing, At, CallFine, Call, WithCart, Inv
    <3> QED BY <3>1, Rest DEF Row, Inv
  <2> HIDE DEF lines
  <2>2. p \in Placement /\ p.step = "coupon" /\ NumberFine(p, orders, jumped)
    <3>1. /\ p \in Placement /\ p.step = "coupon"
          /\ p.looked = place[c].looked /\ p.attempt = place[c].attempt
      BY <2>1, Bounds DEF Placement
    <3> HIDE DEF p
    <3> QED BY <1>1, <3>1 DEF Inv, NumberOK, NumberFine, Counted, Placing
  <2> HIDE DEF p
  <2>3. /\ CartInv' /\ CheckoutTypeOK' /\ PlacingOK' /\ NumberOK' /\ NumbersFollowCount'
        /\ place'[c] = p /\ \A d \in Calls : d # c => place'[d] = place[d]
    <3>1. place[c].step # "none"
      BY <1>1 DEF Placing
    <3> QED BY <1>1, <1>3, <2>2, <3>1, GoesOnPlacing, Bounds
  <2>4. PlacedWith' \subseteq PlacedWith
    BY <2>2, <2>3 DEF PlacedWith
  <2>5. CouponOK'
    BY <1>1, <1>3, <2>4, UsesKept DEF Inv
  <2> QED BY <2>3, <2>5 DEF Inv
<1> QED BY <1>1, <1>2, <1>3

(* A use that is accepted was below the limit, and is counted with those     *)
(* under way.                                                                *)
LEMMA PlacesCoupon ==
    ASSUME Inv, NEW c \in Calls, PlaceCoupon(c)
    PROVE  Inv'
<1> DEFINE uses == place[c].coupon /\ CouponAccepted(c)
           p == [place[c] EXCEPT !.coupon = uses, !.step = "number"]
<1>1. /\ Placing(c, "coupon") /\ Proceed(c, p) /\ CartUnchanged
      /\ crowd' = Most(crowd, Cardinality(PlacedWith') + Cardinality(OrderedWith))
      /\ UNCHANGED <<call, order, orders, converts, coupon, jumped>>
  BY DEF PlaceCoupon
<1>2. uses => CouponAccepted(c)
  OBVIOUS
<1>3. uses \in BOOLEAN
  BY Bounds DEF Placement
<1> HIDE DEF uses
<1>4. /\ p \in Placement /\ p.step = "number" /\ p.coupon = uses
      /\ NumberFine(p, orders, jumped)
  <2>1. /\ p \in Placement /\ p.step = "number" /\ p.coupon = uses
        /\ p.looked = place[c].looked /\ p.attempt = place[c].attempt
    BY <1>3, Bounds DEF Placement
  <2> HIDE DEF p
  <2> QED BY <1>1, <2>1 DEF Inv, NumberOK, NumberFine, Counted, Placing
<1> HIDE DEF p
<1>5. /\ IsFiniteSet(PlacedWith') /\ Cardinality(PlacedWith') \in Nat
      /\ Cardinality(OrderedWith) \in Nat
  <2>1. PlacedWith' \subseteq Calls
    BY DEF PlacedWith
  <2> QED BY <2>1, FS_Subset, FS_CardinalityType, UsesFinite, CartAssumption DEF CartAssumption
<1>6. /\ crowd' \in Nat /\ crowd <= crowd'
      /\ Cardinality(PlacedWith') + Cardinality(OrderedWith) <= crowd'
  BY <1>1, <1>5, Bounds DEF Most
<1>7. /\ CartInv' /\ CheckoutTypeOK' /\ PlacingOK' /\ NumberOK' /\ NumbersFollowCount'
      /\ place'[c] = p /\ \A d \in Calls : d # c => place'[d] = place[d]
  <2>1. place[c].step # "none"
    BY <1>1 DEF Placing
  <2> QED BY <1>1, <1>4, <1>6, <2>1, GoesOnPlacing, Bounds
<1>8. OrderedWith' = OrderedWith /\ OrderedByUser' = OrderedByUser
  <2>1. OrderedWith' = OrderedWith
    BY <1>1 DEF OrderedWith
  <2> QED BY <1>1, <2>1 DEF OrderedByUser
<1>9. UsesFit(PlacedWith', OrderedWith, coupon.used, UsageLimit, crowd')
  <2>1. CASE uses
    <3>1. coupon.used < UsageLimit
      BY <1>2, <2>1 DEF CouponAccepted
    <3> QED BY <1>5, <1>6, <3>1, Bounds DEF UsesFit
  <2>2. CASE ~uses
    <3>1. PlacedWith' \subseteq PlacedWith
      BY <1>4, <1>7, <2>2 DEF PlacedWith
    <3> QED BY <1>6, <3>1, UsesFinite, FewerUses, Bounds DEF Inv, CouponOK
  <2> QED BY <2>1, <2>2
<1>10. UsesFit(PlacedByUser', OrderedByUser, coupon.redeemed, UserLimit, crowd')
  <2>1. CASE uses /\ call[c].signedIn
    <3>1. coupon.redeemed < UserLimit
      BY <1>2, <2>1 DEF CouponAccepted
    <3>2. PlacedByUser' \subseteq PlacedWith' /\ OrderedByUser \subseteq OrderedWith
      BY DEF PlacedByUser, OrderedByUser
    <3>3. /\ Cardinality(PlacedByUser') <= Cardinality(PlacedWith')
          /\ Cardinality(PlacedByUser') \in Nat
          /\ Cardinality(OrderedByUser) <= Cardinality(OrderedWith)
          /\ Cardinality(OrderedByUser) \in Nat
      BY <1>5, <3>2, NoMore, UsesFinite
    <3> QED BY <1>5, <1>6, <3>1, <3>3, Bounds DEF UsesFit
  <2>2. CASE ~(uses /\ call[c].signedIn)
    <3>1. PlacedByUser' \subseteq PlacedByUser
      BY <1>1, <1>4, <1>7, <2>2 DEF PlacedByUser, PlacedWith
    <3> QED BY <1>6, <3>1, UsesFinite, FewerUses, Bounds DEF Inv, CouponOK
  <2> QED BY <2>1, <2>2
<1>11. CouponOK'
  BY <1>1, <1>8, <1>9, <1>10 DEF CouponOK, UsesFit
<1> QED BY <1>7, <1>11 DEF Inv

(* A number that is counted is the next one, or ahead of it by a jump.       *)
LEMMA CountsOrders ==
    ASSUME Inv, NEW c \in Calls, CountOrders(c)
    PROVE  Inv'
<1>1. PICK jump \in Jumps(c) :
         /\ Placing(c, "number") /\ CartUnchanged
         /\ Proceed(c, [place[c] EXCEPT !.number = orders + 1 + jump, !.step = "lookup"])
         /\ UNCHANGED <<call, order, orders, converts, coupon, crowd, jumped>>
  BY DEF CountOrders
<1> DEFINE n == orders + 1 + jump
           p == [place[c] EXCEPT !.number = n, !.step = "lookup"]
<1>2. /\ jump \in Nat /\ jump <= MaxJump /\ n \in Int /\ n <= orders + 1 + MaxJump
      /\ place[c].attempt = 0 => n \in 1..orders + 1
  <2>1. jump \in Nat /\ jump <= MaxJump /\ (place[c].attempt = 0 => jump = 0)
    BY Bounds DEF Jumps
  <2> QED BY <2>1, Bounds
<1> HIDE DEF n
<1>3. /\ p \in Placement /\ p.step = "lookup" /\ p.coupon = place[c].coupon /\ p.number = n
      /\ p.looked = place[c].looked /\ p.attempt = place[c].attempt
  BY <1>2, Bounds DEF Placement
<1> HIDE DEF p
<1>4. NumberFine(p, orders, jumped)
  <2>1. NumberFine(place[c], orders, jumped)
    BY DEF Inv, NumberOK
  <2> QED BY <1>1, <1>2, <1>3, <2>1 DEF NumberFine, Placing
<1>5. Proceed(c, p)
  BY <1>1 DEF p, n
<1>6. /\ CartInv' /\ CheckoutTypeOK' /\ PlacingOK' /\ NumberOK' /\ NumbersFollowCount'
      /\ place'[c] = p /\ \A d \in Calls : d # c => place'[d] = place[d]
  <2>1. place[c].step # "none"
    BY <1>1 DEF Placing
  <2> QED BY <1>1, <1>3, <1>4, <1>5, <2>1, GoesOnPlacing, Bounds
<1>7. PlacedWith' \subseteq PlacedWith
  BY <1>1, <1>3, <1>6 DEF PlacedWith, Placing
<1>8. CouponOK'
  BY <1>1, <1>7, UsesKept
<1> QED BY <1>6, <1>8 DEF Inv

(* A number that no order has is kept; one that is taken is noted.           *)
LEMMA LooksUpNumber ==
    ASSUME Inv, NEW c \in Calls, LookUpNumber(c)
    PROVE  Inv'
<1>1. /\ Placing(c, "lookup") /\ CartUnchanged
      /\ jumped' = (jumped \/ Given(place[c].number))
      /\ UNCHANGED <<call, order, orders, converts, coupon, crowd>>
  BY DEF LookUpNumber
<1>2. NumberFine(place[c], orders, jumped) /\ place[c] \in Placement /\ place[c].step = "lookup"
  BY <1>1, Bounds DEF Inv, NumberOK, Placing
<1>3. /\ jumped' \in BOOLEAN /\ (jumped => jumped')
      /\ Given(place[c].number) => jumped'
  BY <1>1 DEF Given
<1>4. PICK p \in Placement : /\ Proceed(c, p) /\ NumberFine(p, orders, jumped')
                             /\ p.coupon = place[c].coupon
                             /\ p.step = "tx" => \A o \in 1..p.looked : order[o].number # p.number
  <2>1. CASE /\ ~Given(place[c].number)
             /\ Proceed(c, [place[c] EXCEPT !.step = "tx", !.looked = orders])
    <3> DEFINE p == [place[c] EXCEPT !.step = "tx", !.looked = orders]
    <3>1. /\ p \in Placement /\ p.step = "tx" /\ p.looked = orders
          /\ p.number = place[c].number /\ p.attempt = place[c].attempt
          /\ p.coupon = place[c].coupon
      BY <1>2, Bounds DEF Placement
    <3>2. Proceed(c, p)
      BY <2>1
    <3> HIDE DEF p
    <3>3. NumberFine(p, orders, jumped')
      <4>1. /\ place[c].number <= orders + 1 + MaxJump
            /\ ~jumped => place[c].attempt = 0 /\ place[c].number \in 1..orders + 1
        BY <1>2 DEF NumberFine, Counted
      <4>2. p.looked <= orders
        BY <3>1, Bounds
      <4> QED BY <1>3, <3>1, <4>1, <4>2 DEF NumberFine
    <3>4. \A o \in 1..p.looked : order[o].number # p.number
      BY <2>1, <3>1 DEF Given
    <3> QED BY <3>1, <3>2, <3>3, <3>4
  <2>2. CASE /\ Given(place[c].number)
             /\ Proceed(c, [place[c] EXCEPT !.step = "number", !.number = 0, !.attempt = @ + 1])
    <3>1. PICK n \in Nat : n = place[c].attempt + 1
      BY <1>2 DEF Placement
    <3> DEFINE q == [place[c] EXCEPT !.step = "number", !.number = 0]
               p == [q EXCEPT !.attempt = n]
    <3>2. Proceed(c, p)
      BY <2>2, <3>1
    <3>3. q \in Placement /\ q.step = "number" /\ q.looked = place[c].looked /\ q.coupon = place[c].coupon
      <4> DEFINE r == [place[c] EXCEPT !.step = "number"]
      <4>1. r \in Placement /\ r.step = "number" /\ r.looked = place[c].looked /\ r.coupon = place[c].coupon
        BY <1>2 DEF Placement
      <4> HIDE DEF r
      <4>2. [r EXCEPT !.number = 0] \in Placement
        BY <4>1 DEF Placement
      <4>3. /\ [r EXCEPT !.number = 0].step = "number" /\ [r EXCEPT !.number = 0].looked = r.looked
            /\ [r EXCEPT !.number = 0].coupon = r.coupon
        BY <4>1 DEF Placement
      <4> QED BY <4>1, <4>2, <4>3 DEF r
    <3> HIDE DEF q
    <3>4. /\ p \in Placement /\ p.step = "number" /\ p.looked = place[c].looked
          /\ p.coupon = place[c].coupon
      BY <3>1, <3>3 DEF Placement
    <3> HIDE DEF p
    <3>5. NumberFine(p, orders, jumped')
      BY <1>2, <1>3, <2>2, <3>4 DEF NumberFine, Counted
    <3> QED BY <3>4, <3>2, <3>5
  <2>3. ASSUME Given(place[c].number), NEW t \in 1..MaxStamps,
               Proceed(c, [place[c] EXCEPT !.step = "tx", !.number = -t])
        PROVE  \E p \in Placement :
                  /\ Proceed(c, p) /\ NumberFine(p, orders, jumped')
                  /\ p.coupon = place[c].coupon
                  /\ p.step = "tx" => \A o \in 1..p.looked : order[o].number # p.number
    <3>0. t \in Nat /\ -t \in Int /\ -t <= 0
      BY CheckoutAssumption DEF CheckoutAssumption
    <3> DEFINE p == [place[c] EXCEPT !.step = "tx", !.number = -t]
    <3>1. /\ p \in Placement /\ p.step = "tx" /\ p.looked = place[c].looked
          /\ p.coupon = place[c].coupon /\ p.number = -t
      BY <1>2, <3>0 DEF Placement
    <3>2. Proceed(c, p)
      BY <2>3
    <3> HIDE DEF p
    <3>3. NumberFine(p, orders, jumped')
      BY <1>2, <1>3, <2>3, <3>0, <3>1, Bounds DEF NumberFine, Counted
    <3>4. \A o \in 1..p.looked : order[o].number # p.number
      BY <1>2, <3>1 DEF NumberFine
    <3> QED BY <3>1, <3>2, <3>3, <3>4
  <2> QED BY <2>1, <2>2, <2>3 DEF LookUpNumber
<1>5. /\ CartInv' /\ CheckoutTypeOK' /\ PlacingOK' /\ NumberOK' /\ NumbersFollowCount'
      /\ place'[c] = p /\ \A d \in Calls : d # c => place'[d] = place[d]
  <2>1. place[c].step # "none"
    BY <1>1 DEF Placing
  <2> QED BY <1>1, <1>3, <1>4, <2>1, GoesOnPlacing, Bounds
<1>6. PlacedWith' \subseteq PlacedWith
  BY <1>2, <1>4, <1>5 DEF PlacedWith
<1>7. CouponOK'
  BY <1>1, <1>6, UsesKept
<1> QED BY <1>5, <1>7 DEF Inv

(* The number is one that no order has: ahead by a jump at most, and of those *)
(* up to the next it is the next.                                             *)
LEMMA PlacesOrder ==
    ASSUME Inv, NEW c \in Calls, PlaceTx(c)
    PROVE  Inv'
<1> DEFINE p == place[c]
           n == orders + 1
           new == [number |-> p.number, signedIn |-> call[c].signedIn, lines |-> p.lines,
                   coupon |-> p.coupon, confirmed |-> FALSE]
<1>1. /\ Placing(c, "tx") /\ orders < MaxOrders
      /\ ~Given(p.number)
      /\ orders' = n /\ order' = [order EXCEPT ![n] = new]
      /\ converts' = [converts EXCEPT ![call[c].cart] = n]
      /\ call' = [call EXCEPT ![c] = Idle] /\ place' = [place EXCEPT ![c] = NoPlacement]
      /\ Done(c)
      /\ CartUnchanged /\ UNCHANGED <<coupon, crowd, jumped>>
  BY DEF PlaceTx, EndPlacement, Done, Proceed
<1>2. /\ orders \in Nat /\ MaxOrders \in Nat /\ n \in OrderIds /\ n \notin 1..orders
      /\ 1..n = 1..orders \cup {n} /\ 1..n \subseteq OrderIds /\ n <= MaxOrders
  BY <1>1, Bounds DEF OrderIds
<1>3. p \in Placement /\ call[c] \in Call
  BY Bounds, Rest DEF Inv
<1>4. /\ p.number \in Int /\ p.number <= n + MaxJump
      /\ ~jumped => p.number = n
  <2>1. NumberFine(p, orders, jumped) /\ p.step = "tx"
    BY <1>1 DEF Inv, NumberOK, Placing
  <2>2. p.number \notin {order[o].number : o \in 1..orders}
    BY <1>1 DEF Given
  <2>3. ~jumped => {order[o].number : o \in 1..orders} = 1..orders
    BY DEF Inv, NumbersFollowCount
  <2> QED BY <1>2, <1>3, <2>1, <2>2, <2>3 DEF NumberFine, Counted, Placement
<1>5. new \in Order
  BY <1>2, <1>3, <1>4 DEF Order, Placement, Call
<1>6. /\ new.number = p.number /\ new.signedIn = call[c].signedIn /\ new.coupon = p.coupon
      /\ new.confirmed = FALSE
  BY <1>4
<1> HIDE DEF new, n
<1>7. /\ order'[n] = new /\ \A o \in OrderIds : o # n => order'[o] = order[o]
      /\ order' \in [OrderIds -> Order]
  BY <1>1, <1>2, <1>5 DEF Inv, CheckoutTypeOK
<1>8. CartInv'
  BY <1>1, EndsCall DEF Inv
<1>9. /\ place' \in [Calls -> Placement] /\ place'[c] = NoPlacement
      /\ \A d \in Calls : d # c => place'[d] = place[d] /\ call'[d] = call[d]
  BY <1>1, NoPlacementType, Bounds DEF Inv, CartInv, CallsFine
<1>10. NoPlacement.step = "none"
  BY DEF NoPlacement
<1>11. CheckoutTypeOK'
  <2>1. 0..orders \subseteq 0..n /\ n \in 0..n /\ n \in 0..MaxOrders
    BY <1>2 DEF n
  <2>2. converts' \in [CartIds -> 0..orders']
    BY <1>1, <2>1 DEF Inv, CheckoutTypeOK
  <2> QED BY <1>1, <1>7, <1>8, <1>9, <2>1, <2>2 DEF Inv, CartInv, CheckoutTypeOK
<1>12. PlacingOK'
  BY <1>9, <1>10 DEF Inv, PlacingOK
<1>13. NumberOK'
  <2>1. \A q \in Placement : NumberFine(q, orders, jumped) => NumberFine(q, n, jumped)
    <3> SUFFICES ASSUME NEW q \in Placement, NumberFine(q, orders, jumped)
                 PROVE  NumberFine(q, n, jumped)
      OBVIOUS
    <3>1. q.looked \in Nat /\ q.number \in Int
      BY DEF Placement
    <3> QED BY <1>2, <3>1, Bounds DEF n, NumberFine
  <2>2. \A d \in Calls : NumberFine(place[d], n, jumped)
    BY <2>1, Bounds DEF Inv, NumberOK
  <2>3. NumberFine(NoPlacement, n, jumped)
    BY <1>2, NoPlacementFine, Bounds DEF n
  <2> QED BY <1>1, <1>9, <2>2, <2>3 DEF NumberOK
<1>14. NumbersFollowCount'
  <2>1. NumbersFollowCount
    BY DEF Inv
  <2>2. \A o \in 1..orders : order'[o] = order[o]
    BY <1>2, <1>7
  <2>3. \A o \in 1..n : order'[o].number <= o + MaxJump
    BY <1>2, <1>4, <1>6, <1>7, <2>1, <2>2 DEF NumbersFollowCount
  <2>4. ASSUME ~jumped PROVE {order'[o].number : o \in 1..n} = 1..n
    <3>1. {order'[o].number : o \in 1..n} = {order[o].number : o \in 1..orders} \cup {n}
      BY <1>2, <1>4, <1>6, <1>7, <2>2, <2>4
    <3> QED BY <1>2, <2>1, <2>4, <3>1 DEF NumbersFollowCount
  <2>5. ASSUME NEW d \in Calls, NEW o \in 1..place'[d].looked, place'[d].step = "tx"
        PROVE  order'[o].number # place'[d].number
    <3>1. place'[d] = place[d]
      BY <1>9, <1>10, <2>5
    <3>2. place[d].looked <= orders /\ place[d].looked \in Nat
      BY Bounds DEF Inv, NumberOK, NumberFine, Placement
    <3>3. o \in 1..orders
      BY <1>2, <3>1, <3>2
    <3> QED BY <2>1, <2>2, <2>5, <3>1, <3>3 DEF NumbersFollowCount
  <2> QED BY <1>1, <2>3, <2>4, <2>5 DEF NumbersFollowCount
<1>15. CouponOK'
  <2>1. PlacedWith' = PlacedWith \ {c}
    BY <1>9, <1>10 DEF PlacedWith
  <2>2. PlacedByUser' = PlacedByUser \ {c}
    BY <1>9, <2>1 DEF PlacedByUser, PlacedWith
  <2>3. OrderedWith' = OrderedWith \cup (IF p.coupon THEN {n} ELSE {})
    BY <1>1, <1>2, <1>6, <1>7 DEF OrderedWith
  <2>4. \A o \in OrderedWith : order'[o] = order[o]
    BY <1>2, <1>7 DEF OrderedWith
  <2>5. OrderedByUser' = OrderedByUser \cup (IF p.coupon /\ call[c].signedIn THEN {n} ELSE {})
    BY <1>6, <1>7, <2>3, <2>4 DEF OrderedByUser
  <2>6. p.coupon => c \in PlacedWith
    BY <1>1 DEF PlacedWith, Placing
  <2>7. UsesFit(PlacedWith', OrderedWith', coupon.used, UsageLimit, crowd)
    <3>1. CASE p.coupon
      BY <2>1, <2>3, <2>6, <3>1, UseMoves, UsesFinite, Bounds DEF Inv, CouponOK
    <3>2. CASE ~p.coupon
      BY <2>1, <2>3, <3>2, FewerUses, UsesFinite, Bounds DEF Inv, CouponOK
    <3> QED BY <3>1, <3>2
  <2>8. UsesFit(PlacedByUser', OrderedByUser', coupon.redeemed, UserLimit, crowd)
    <3>1. CASE p.coupon /\ call[c].signedIn
      <4>1. c \in PlacedByUser
        BY <2>6, <3>1 DEF PlacedByUser
      <4> QED BY <2>2, <2>5, <3>1, <4>1, UseMoves, UsesFinite, Bounds DEF Inv, CouponOK
    <3>2. CASE ~(p.coupon /\ call[c].signedIn)
      BY <2>2, <2>5, <3>2, FewerUses, UsesFinite, Bounds DEF Inv, CouponOK
    <3> QED BY <3>1, <3>2
  <2> QED BY <1>1, <2>7, <2>8 DEF CouponOK, UsesFit
<1> QED BY <1>8, <1>11, <1>12, <1>13, <1>14, <1>15 DEF Inv

LEMMA Confirms ==
    ASSUME Inv, NEW o \in OrderIds, Confirm(o)
    PROVE  Inv'
<1>1. /\ o <= orders /\ ~order[o].confirmed
      /\ order' = [order EXCEPT ![o].confirmed = TRUE]
      /\ cart' = [k \in CartIds |->
                    IF converts[k] = o
                    THEN [cart[k] EXCEPT !.status = "CONVERTED", !.items = NoItems] ELSE cart[k]]
      /\ raced' = raced \cup Mismatched(o)
      /\ Redeem(o)
      /\ UNCHANGED <<carts, browser, call, asked, rush, mergedInto, orders, converts,
                     place, crowd, jumped>>
  BY DEF Confirm
<1>2. /\ order[o] \in Order /\ o \in 1..orders
      /\ orders \in Nat /\ orders <= MaxOrders /\ MaxOrders \in Nat
  <2>1. /\ orders \in Nat /\ orders <= MaxOrders /\ MaxOrders \in Nat
        /\ order[o] \in Order
    BY Bounds
  <2>2. o \in 1..orders
    <3>1. o <= orders /\ o \in 1..MaxOrders
      BY <1>1 DEF OrderIds
    <3> QED BY <2>1, <3>1
  <2> QED BY <1>1, <2>1, <2>2
<1>3. order'[o] = [order[o] EXCEPT !.confirmed = TRUE] /\ order' \in [OrderIds -> Order]
  <2>1. order \in [OrderIds -> Order]
    BY DEF Inv, CheckoutTypeOK
  <2>2. [order[o] EXCEPT !.confirmed = TRUE] \in Order
    BY <1>2 DEF Order
  <2> QED BY <1>1, <2>1, <2>2
<1>4. /\ order'[o].confirmed /\ order'[o].number = order[o].number
      /\ \A p \in OrderIds : p # o => order'[p] = order[p]
  BY <1>1, <1>2, <1>3 DEF Order, Inv, CheckoutTypeOK
<1>5. CartInv'
  <2>1. /\ \A k \in CartIds : cart[k] \in Row
        /\ NoItems \in Items /\ \A v \in Variants : NoItems[v] = 0
    BY Rest DEF Inv, NoItems, Items
  <2>2. \A k \in CartIds :
           /\ cart'[k] \in Row /\ cart'[k].owned = cart[k].owned
           /\ cart'[k].status \in {cart[k].status, "CONVERTED"}
           /\ cart'[k].items \in {cart[k].items, NoItems}
    BY <1>1, <2>1 DEF Row, CartStatus
  <2>3. TypeOK'
    <3>1. cart' \in [CartIds -> Row]
      BY <1>1, <2>2
    <3>2. raced' \subseteq Variants
      BY <1>1 DEF Mismatched, Inv, CartInv, TypeOK
    <3> QED BY <1>1, <3>1, <3>2 DEF Inv, CartInv, TypeOK
  <2>4. CallsFine'
    BY <1>1 DEF Inv, CartInv, CallsFine
  <2>5. OwnOK'
    <3>1. 1..carts \subseteq CartIds
      BY Rest DEF CartIds, Inv
    <3>2. OwnCarts' \subseteq OwnCarts
      BY <1>1, <2>2, <3>1 DEF OwnCarts, Open
    <3>3. Creating' \subseteq Creating
      BY <1>1 DEF Creating, At
    <3> QED BY <1>1, <3>2, <3>3, OwnKept DEF Inv
  <2>6. WithinStock'
    <3>1. \A v \in Variants : 0 <= InStock[v]
      BY CartAssumption DEF CartAssumption
    <3> QED BY <1>1, <2>1, <2>2, <3>1 DEF Inv, CartInv, WithinStock
  <2> QED BY <2>3, <2>4, <2>5, <2>6 DEF CartInv
<1>6. CheckoutTypeOK'
  <2>1. coupon' \in [used : Nat, redeemed : Nat]
    <3>1. coupon.used \in Nat /\ coupon.redeemed \in Nat /\ coupon \in [used : Nat, redeemed : Nat]
      BY DEF Inv, CheckoutTypeOK
    <3>2. CASE order[o].coupon
      <4> DEFINE more == IF order[o].signedIn THEN 1 ELSE 0
      <4>1. coupon' = [used |-> coupon.used + 1, redeemed |-> coupon.redeemed + more]
        BY <1>1, <3>2 DEF Redeem
      <4>2. more \in Nat
        OBVIOUS
      <4> HIDE DEF more
      <4> QED BY <3>1, <4>1, <4>2
    <3>3. CASE ~order[o].coupon
      BY <1>1, <3>1, <3>3 DEF Redeem
    <3> QED BY <3>2, <3>3
  <2> QED BY <1>1, <1>3, <1>5, <2>1 DEF Inv, CartInv, CheckoutTypeOK
<1>7. PlacingOK' /\ NumberOK'
  BY <1>1 DEF Inv, PlacingOK, NumberOK
<1>8. NumbersFollowCount'
  <2>1. 1..orders \subseteq OrderIds
    BY <1>2 DEF OrderIds
  <2>2. \A p \in 1..orders : order'[p].number = order[p].number
    BY <1>4, <2>1
  <2>3. \A d \in Calls : 1..place[d].looked \subseteq 1..orders
    <3> TAKE d \in Calls
    <3>1. place[d] \in Placement /\ NumberFine(place[d], orders, jumped)
      BY Bounds DEF Inv, NumberOK
    <3>2. place[d].looked <= orders /\ place[d].looked \in Nat /\ orders \in Nat
      BY <3>1, Bounds DEF NumberFine, Placement
    <3> QED BY <3>2
  <2>4. orders' = orders /\ place' = place /\ jumped' = jumped
    BY <1>1
  <2>5. {order'[p].number : p \in 1..orders} = {order[p].number : p \in 1..orders}
    BY <2>2
  <2>6. \A d \in Calls : \A p \in 1..place[d].looked : order'[p].number = order[p].number
    BY <2>2, <2>3
  <2> QED BY <2>2, <2>4, <2>5, <2>6 DEF Inv, NumbersFollowCount
<1>9. CouponOK'
  <2>1. OrderedWith' = OrderedWith \ {o} /\ \A p \in OrderedWith' : order'[p] = order[p]
    <3>1. 1..orders \subseteq OrderIds
      BY <1>2 DEF OrderIds
    <3> QED BY <1>1, <1>4, <3>1 DEF OrderedWith
  <2>2. OrderedByUser' = OrderedByUser \ {o}
    BY <2>1 DEF OrderedByUser
  <2>3. PlacedWith' = PlacedWith /\ PlacedByUser' = PlacedByUser
    <3>1. PlacedWith' = PlacedWith
      BY <1>1 DEF PlacedWith
    <3> QED BY <1>1, <3>1 DEF PlacedByUser
  <2>4. CASE order[o].coupon
    <3>1. o \in OrderedWith
      BY <1>1, <1>2, <2>4 DEF OrderedWith
    <3>2. /\ coupon'.used = coupon.used + 1
          /\ coupon'.redeemed = coupon.redeemed + IF order[o].signedIn THEN 1 ELSE 0
      BY <1>1, <2>4 DEF Redeem
    <3>3. UsesFit(PlacedWith, OrderedWith', coupon'.used, UsageLimit, crowd)
      BY <2>1, <3>1, <3>2, UseIsPaid, UsesFinite, Bounds DEF Inv, CouponOK
    <3>4. UsesFit(PlacedByUser, OrderedByUser', coupon'.redeemed, UserLimit, crowd)
      <4>1. CASE order[o].signedIn
        <5>1. o \in OrderedByUser /\ coupon'.redeemed = coupon.redeemed + 1
          BY <3>1, <3>2, <4>1 DEF OrderedByUser
        <5> QED BY <2>2, <5>1, UseIsPaid, UsesFinite, Bounds DEF Inv, CouponOK
      <4>2. CASE ~order[o].signedIn
        <5>1. coupon'.redeemed = coupon.redeemed
          BY <3>2, <4>2, Bounds
        <5> QED BY <2>2, <5>1, FewerUses, UsesFinite, Bounds DEF Inv, CouponOK
      <4> QED BY <4>1, <4>2
    <3> QED BY <1>1, <2>3, <3>3, <3>4 DEF CouponOK, UsesFit
  <2>5. CASE ~order[o].coupon
    <3>1. coupon' = coupon
      BY <1>1, <2>5 DEF Redeem
    <3>2. UsesFit(PlacedWith, OrderedWith', coupon.used, UsageLimit, crowd)
      BY <2>1, FewerUses, UsesFinite, Bounds DEF Inv, CouponOK
    <3>3. UsesFit(PlacedByUser, OrderedByUser', coupon.redeemed, UserLimit, crowd)
      BY <2>2, FewerUses, UsesFinite, Bounds DEF Inv, CouponOK
    <3> QED BY <1>1, <2>3, <3>1, <3>2, <3>3 DEF CouponOK, UsesFit
  <2> QED BY <2>4, <2>5
<1> QED BY <1>5, <1>6, <1>7, <1>8, <1>9 DEF Inv

-----------------------------------------------------------------------------
LEMMA InvStarts == Init /\ CheckoutInit => Inv
<1> SUFFICES ASSUME Init, CheckoutInit PROVE Inv
  OBVIOUS
<1>1. CartInv
  BY CartStarts
<1>2. Unplaced \in Order
  BY CheckoutAssumption DEF CheckoutAssumption, Unplaced, Order, NoItems, Items
<1>3. CheckoutTypeOK
  <2>1. order \in [OrderIds -> Order] /\ place \in [Calls -> Placement]
    BY <1>2, NoPlacementType DEF CheckoutInit
  <2>2. orders \in 0..MaxOrders /\ converts \in [CartIds -> 0..orders]
    BY CheckoutAssumption DEF CheckoutAssumption, CheckoutInit, NoOrder
  <2> QED BY <1>1, <2>1, <2>2 DEF CheckoutInit, CheckoutTypeOK, CartInv
<1>4. \A c \in Calls : place[c] = NoPlacement /\ NoPlacement.step = "none"
  BY DEF CheckoutInit, NoPlacement
<1>5. orders = 0 /\ 1..orders = {} /\ jumped = FALSE
  BY DEF CheckoutInit
<1>6. PlacingOK /\ NumberOK
  <2>1. PlacingOK
    BY <1>4 DEF PlacingOK
  <2>2. NumberFine(NoPlacement, orders, jumped)
    BY <1>5 DEF NumberFine, NoPlacement, Counted
  <2> QED BY <1>4, <2>1, <2>2 DEF NumberOK
<1>7. NumbersFollowCount
  BY <1>4, <1>5 DEF NumbersFollowCount
<1>8. CouponOK
  <2>1. PlacedWith = {} /\ OrderedWith = {} /\ PlacedByUser = {} /\ OrderedByUser = {}
    BY <1>4, <1>5 DEF PlacedWith, OrderedWith, PlacedByUser, OrderedByUser
  <2>2. coupon.used = 0 /\ coupon.redeemed = 0 /\ crowd = 0
    BY DEF CheckoutInit
  <2> QED BY <2>1, <2>2, FS_EmptySet, CheckoutAssumption
          DEF CheckoutAssumption, CouponOK, UsesFit
<1> QED BY <1>1, <1>3, <1>6, <1>7, <1>8 DEF Inv

LEMMA InvSteps == Inv /\ [CheckoutNext]_allVars => Inv'
<1> SUFFICES ASSUME Inv, [CheckoutNext]_allVars PROVE Inv'
  OBVIOUS
<1>1. CASE CartStep
  BY <1>1, CartStepKeeps
<1>2. ASSUME NEW c \in Calls, NEW b \in Browsers, NEW withCode \in BOOLEAN, SendPlace(c, b, withCode)
      PROVE  Inv'
  BY <1>2, SendsPlace
<1>3. ASSUME NEW c \in Calls, Place(c) PROVE Inv'
  <2>1. CASE PlaceClash(c)
    BY <2>1, EndsPlacement DEF PlaceClash
  <2> QED BY <1>3, <2>1, PlacesLines, PlacesCoupon, CountsOrders, LooksUpNumber,
         PlacesOrder DEF Place
<1>4. ASSUME NEW o \in OrderIds, Confirm(o) PROVE Inv'
  BY <1>4, Confirms
<1>5. CASE UNCHANGED allVars
  <2>1. UNCHANGED vars /\ UNCHANGED checkoutVars
    BY <1>5 DEF allVars
  <2>2. CartInv'
    BY <2>1, CartStutters DEF Inv
  <2> QED BY <2>1, <2>2
          DEF vars, checkoutVars, Inv, CartInv, CheckoutTypeOK, PlacingOK, NumberOK,
              NumbersFollowCount, CouponOK, PlacedWith, OrderedWith, PlacedByUser, OrderedByUser
<1> QED BY <1>1, <1>2, <1>3, <1>4, <1>5 DEF CheckoutNext

(* Orders, marks and placements keep their types. *)
THEOREM CheckoutTypes == CheckoutSpec => []CheckoutTypeOK
<1>1. Inv => CheckoutTypeOK
  BY DEF Inv
<1> QED BY <1>1, InvStarts, InvSteps, PTL DEF CheckoutSpec

(* "order-number series": a number is ahead of the order's place by a jump   *)
(* at most; without a clash at a look-up the numbers are 1, 2, ... without a *)
(* gap; and no order has a number that a placement has looked up and goes to *)
(* use, but for orders placed since.                                         *)
THEOREM Numbers == CheckoutSpec => []NumbersFollowCount
<1>1. Inv => NumbersFollowCount
  BY DEF Inv
<1> QED BY <1>1, InvStarts, InvSteps, PTL DEF CheckoutSpec

(* Uses of a coupon are beyond a limit, in total or per customer, by fewer   *)
(* than were under way at one time: not at all if one was.                   *)
THEOREM CouponIsLimited == CheckoutSpec => []CouponWithinLimits
<1>1. ASSUME Inv PROVE CouponWithinLimits
  <2>1. /\ Cardinality(PlacedWith) \in Nat /\ Cardinality(OrderedWith) \in Nat
        /\ Cardinality(PlacedByUser) \in Nat /\ Cardinality(OrderedByUser) \in Nat
    BY <1>1, UsesFinite, FS_CardinalityType
  <2> QED BY <1>1, <2>1, Bounds DEF Inv, CouponOK, UsesFit, CouponWithinLimits
<1> QED BY <1>1, InvStarts, InvSteps, PTL DEF CheckoutSpec

(* Placing and confirming orders among a customer's calls leave them one     *)
(* open cart, and no cart with more than the stock, as far as Cart goes.     *)
THEOREM CartsWhileBuying == CheckoutSpec => [](OneOpenCart /\ WithinStock)
<1>1. Inv => OneOpenCart /\ WithinStock
  BY RushIsEnough DEF Inv, CartInv
<1> QED BY <1>1, InvStarts, InvSteps, PTL DEF CheckoutSpec

-----------------------------------------------------------------------------
(* What was asked for.  A merge under way has its lines in two carts, the    *)
(* guest's and the customer's, until it closes the guest's.                  *)

Mergers == {c \in Calls : call[c].pc \in {"mergeLine", "mergeClose"}}
Doubled(v) ==
    SumFunctionOnSet([c \in Calls |-> call[c].lines[v]], {c \in Mergers : v \notin call[c].left})

(* A cart is created empty, and a merge closes the guest's cart when no line *)
(* is left.                                                                  *)
Fresh == \A k \in CartIds : k > carts => cart[k].items = NoItems
MergersOK == \A c \in Mergers : call[c].pc = "mergeClose" => call[c].left = {}

BooksOK == \A v \in Variants \ raced : InOpenCarts(v) + Bought(v) = asked[v] + Doubled(v)

Books == Fresh /\ IsFiniteSet(Mergers) /\ MergersOK /\ BooksOK

(* The part of one cart and of one merge. *)
InCart(k, v) == IF k \in CartIds /\ Open(k) THEN cart[k].items[v] ELSE 0
InMerge(c, v) == IF c \in Mergers /\ v \notin call[c].left THEN call[c].lines[v] ELSE 0

(* A step in which no other cart, or call, changes. *)
OtherCartsStay(k) == \A j \in CartIds \ {k} : Open(j)' = Open(j) /\ cart'[j].items = cart[j].items
OtherCallsStay(c) == \A d \in Calls \ {c} : call'[d] = call[d]

-----------------------------------------------------------------------------
(* One cart and one call at a time *)

LEMMA UnitTypes ==
    ASSUME TypeOK, NEW v \in Variants
    PROVE  /\ IsFiniteSet(CartIds)
           /\ \A k \in CartIds : cart[k].items[v] \in Int
           /\ \A c \in Calls : call[c].lines[v] \in Int
           /\ InOpenCarts(v) \in Int
           /\ \A k : InCart(k, v) \in Int
           /\ \A c : InMerge(c, v) \in Int
<1>1. IsFiniteSet(CartIds)
  BY FS_Interval, CartAssumption DEF CartAssumption, CartIds
<1>2. \A k \in CartIds : cart[k].items[v] \in Nat
  BY DEF TypeOK, Row, Items
<1>3. \A c \in Calls : call[c].lines[v] \in Nat
  BY DEF TypeOK, Call, Items
<1>4. InOpenCarts(v) \in Int
  <2> DEFINE f == [k \in CartIds |-> cart[k].items[v]]
             S == {k \in CartIds : Open(k)}
  <2>1. IsFiniteSet(S) /\ \A k \in S : f[k] \in Int
    BY <1>1, <1>2, FS_Subset
  <2> HIDE DEF f, S
  <2>2. SumFunctionOnSet(f, S) \in Int
    BY <2>1, SumIsInt
  <2> QED BY <2>2 DEF f, S, InOpenCarts
<1> QED BY <1>1, <1>2, <1>3, <1>4 DEF InCart, InMerge, Mergers

LEMMA CartChanges ==
    ASSUME TypeOK, TypeOK', NEW k, NEW v \in Variants, OtherCartsStay(k)
    PROVE  InOpenCarts(v)' = InOpenCarts(v) - InCart(k, v) + InCart(k, v)'
<1> DEFINE f == [j \in CartIds |-> cart[j].items[v]]
           g == [j \in CartIds |-> cart'[j].items[v]]
           S == {j \in CartIds : Open(j)}
           T == {j \in CartIds : Open(j)'}
<1>1. IsFiniteSet(S)
  BY UnitTypes, FS_Subset
<1>2. S \ {k} = T \ {k}
  BY DEF OtherCartsStay
<1>3. \A j \in S : f[j] \in Int
  BY UnitTypes
<1>4. \A j \in T : g[j] \in Int
  <2>1. \A j \in CartIds : cart'[j].items[v] \in Int
    BY DEF TypeOK, Row, Items
  <2> QED BY <2>1
<1>5. \A j \in S \ {k} : f[j] = g[j]
  BY DEF OtherCartsStay
<1>6. /\ (IF k \in S THEN f[k] ELSE 0) = InCart(k, v)
      /\ (IF k \in T THEN g[k] ELSE 0) = InCart(k, v)'
  BY DEF InCart
<1>7. InOpenCarts(v) = SumFunctionOnSet(f, S) /\ InOpenCarts(v)' = SumFunctionOnSet(g, T)
  BY DEF InOpenCarts
<1>8. AgreeBut(k, f, S, g, T)
  BY <1>1, <1>2, <1>3, <1>4, <1>5 DEF AgreeBut
<1> HIDE DEF f, g, S, T
<1> QED BY <1>6, <1>7, <1>8, SumChanges

LEMMA MergeChanges ==
    ASSUME TypeOK, TypeOK', IsFiniteSet(Mergers), NEW c, NEW v \in Variants, OtherCallsStay(c)
    PROVE  /\ IsFiniteSet(Mergers')
           /\ Doubled(v) \in Int
           /\ Doubled(v)' = Doubled(v) - InMerge(c, v) + InMerge(c, v)'
<1> DEFINE f == [d \in Calls |-> call[d].lines[v]]
           g == [d \in Calls |-> call'[d].lines[v]]
           S == {d \in Mergers : v \notin call[d].left}
           T == {d \in Mergers' : v \notin call'[d].left}
<1>1. IsFiniteSet(Mergers')
  <2>1. Mergers' \subseteq Mergers \cup {c} /\ IsFiniteSet(Mergers \cup {c})
    BY FS_AddElement DEF Mergers, OtherCallsStay
  <2> QED BY <2>1, FS_Subset
<1>2. IsFiniteSet(S) /\ S \ {c} = T \ {c}
  BY FS_Subset DEF Mergers, OtherCallsStay
<1>3. \A d \in S : f[d] \in Int
  BY UnitTypes DEF Mergers
<1>9. \A d \in S \ {c} : f[d] = g[d]
  BY DEF Mergers, OtherCallsStay
<1>4. \A d \in T : g[d] \in Int
  <2>1. \A d \in Calls : call'[d].lines[v] \in Int
    BY DEF TypeOK, Call, Items
  <2> QED BY <2>1 DEF Mergers
<1>5. /\ (IF c \in S THEN f[c] ELSE 0) = InMerge(c, v)
      /\ (IF c \in T THEN g[c] ELSE 0) = InMerge(c, v)'
  BY DEF InMerge, Mergers
<1>6. Doubled(v) = SumFunctionOnSet(f, S) /\ Doubled(v)' = SumFunctionOnSet(g, T)
  BY DEF Doubled
<1>7. AgreeBut(c, f, S, g, T)
  BY <1>2, <1>3, <1>4, <1>9 DEF AgreeBut
<1> HIDE DEF f, g, S, T
<1>8. SumFunctionOnSet(f, S) \in Int
  BY <1>2, <1>3, SumIsInt
<1> QED BY <1>1, <1>5, <1>6, <1>7, <1>8, SumChanges

LEMMA BoughtType ==
    ASSUME CheckoutTypeOK, NEW v \in Variants
    PROVE  /\ IsFiniteSet({o \in 1..orders : order[o].confirmed})
           /\ 1..orders \subseteq OrderIds
           /\ \A o \in OrderIds : order[o].lines[v] \in Int
           /\ Bought(v) \in Int
<1> DEFINE f == [o \in OrderIds |-> order[o].lines[v]]
           S == {o \in 1..orders : order[o].confirmed}
<1>1. orders \in Nat /\ 1..orders \subseteq OrderIds
  BY CheckoutAssumption DEF CheckoutAssumption, CheckoutTypeOK, OrderIds
<1>2. IsFiniteSet(S)
  BY <1>1, FS_Interval, FS_Subset
<1>3. \A o \in OrderIds : order[o].lines[v] \in Int
  BY DEF CheckoutTypeOK, Order, Items
<1>4. \A o \in S : f[o] \in Int
  BY <1>1, <1>3
<1>5. SumFunctionOnSet(f, S) \in Int
  <2> HIDE DEF f, S
  <2> QED BY <1>2, <1>4, SumIsInt
<1> QED BY <1>1, <1>2, <1>3, <1>5 DEF Bought

(* A step of one call that changes one cart keeps the books when the cart    *)
(* and the merge change by what was asked for.                               *)
LEMMA BooksMove ==
    ASSUME Inv, Inv', Books, NEW c, NEW k, OtherCallsStay(c), OtherCartsStay(k),
           UNCHANGED <<order, orders>>, raced \subseteq raced', Fresh', MergersOK',
           \A v \in Variants \ raced' :
              InCart(k, v)' - InCart(k, v) = asked'[v] - asked[v] + InMerge(c, v)' - InMerge(c, v)
    PROVE  Books'
<1>1. /\ TypeOK /\ TypeOK' /\ CheckoutTypeOK
      /\ IsFiniteSet(Mergers) /\ BooksOK
  BY DEF Inv, CartInv, Books
<1>2. IsFiniteSet(Mergers')
  <2>1. Mergers' \subseteq Mergers \cup {c} /\ IsFiniteSet(Mergers \cup {c})
    BY <1>1, FS_AddElement DEF Mergers, OtherCallsStay
  <2> QED BY <2>1, FS_Subset
<1>3. BooksOK'
  <2> SUFFICES ASSUME NEW v \in Variants, v \notin raced'
               PROVE  InOpenCarts(v)' + Bought(v)' = asked'[v] + Doubled(v)'
    BY DEF BooksOK
  <2>1. InOpenCarts(v) + Bought(v) = asked[v] + Doubled(v)
    BY <1>1 DEF BooksOK
  <2>2. InOpenCarts(v)' = InOpenCarts(v) - InCart(k, v) + InCart(k, v)'
    BY <1>1, CartChanges
  <2>3. Doubled(v)' = Doubled(v) - InMerge(c, v) + InMerge(c, v)' /\ Doubled(v) \in Int
    BY <1>1, MergeChanges
  <2>4. Bought(v)' = Bought(v) /\ Bought(v) \in Int
    BY <1>1, BoughtType DEF Bought
  <2>5. InOpenCarts(v) \in Int /\ InCart(k, v) \in Int /\ InMerge(c, v) \in Int
    BY <1>1, UnitTypes
  <2>6. InCart(k, v)' \in Int /\ InMerge(c, v)' \in Int
    <3>1. /\ \A j \in CartIds : cart'[j].items[v] \in Int
          /\ \A d \in Calls : call'[d].lines[v] \in Int
      BY <1>1 DEF TypeOK, Row, Call, Items
    <3> QED BY <3>1 DEF InCart, InMerge, Mergers
  <2>7. asked[v] \in Int /\ asked'[v] \in Int
    BY <1>1 DEF TypeOK
  <2>8. InCart(k, v)' - InCart(k, v) = asked'[v] - asked[v] + InMerge(c, v)' - InMerge(c, v)
    OBVIOUS
  <2> QED BY <2>1, <2>2, <2>3, <2>4, <2>5, <2>6, <2>7, <2>8
<1> QED BY <1>2, <1>3 DEF Books

(* A step of a call that does not merge, and changes no cart. *)
LEMMA BooksRest ==
    ASSUME Inv, Inv', Books, NEW c, OtherCallsStay(c),
           c \notin Mergers, c \notin Mergers',
           UNCHANGED <<cart, carts, asked, raced, order, orders>>
    PROVE  Books'
<1>1. Fresh' /\ MergersOK'
  BY DEF Books, Fresh, MergersOK, Mergers, OtherCallsStay
<1>2. ASSUME NEW v \in Variants
      PROVE  InCart(0, v)' - InCart(0, v) = asked'[v] - asked[v] + InMerge(c, v)' - InMerge(c, v)
  <2>1. InCart(0, v)' = InCart(0, v) /\ InMerge(c, v) = 0 /\ InMerge(c, v)' = 0
    BY DEF InCart, Open, InMerge
  <2>2. InCart(0, v) \in Int /\ asked[v] \in Int
    BY UnitTypes DEF Inv, CartInv, TypeOK
  <2> QED BY <2>1, <2>2
<1>3. OtherCartsStay(0)
  BY DEF OtherCartsStay, Open
<1> QED BY <1>1, <1>2, <1>3, BooksMove

(* A step that makes the line of v in cart k n units. *)
LEMMA BooksLine ==
    ASSUME Inv, Inv', Books, NEW c, NEW k \in CartIds, k <= carts, NEW v \in Variants, NEW n \in Nat,
           cart' = [cart EXCEPT ![k].items[v] = n],
           OtherCallsStay(c), UNCHANGED <<carts, order, orders>>, raced \subseteq raced', MergersOK',
           \A w \in Variants \ raced' : w # v =>
              asked'[w] = asked[w] /\ InMerge(c, w)' = InMerge(c, w),
           v \notin raced' =>
              (IF Open(k) THEN n - cart[k].items[v] ELSE 0)
                 = asked'[v] - asked[v] + InMerge(c, v)' - InMerge(c, v)
    PROVE  Books'
<1>1. cart \in [CartIds -> Row] /\ TypeOK /\ carts \in Nat
  BY Rest DEF Inv, CartInv, TypeOK
<1>2. cart[k] \in Row /\ cart[k].items \in [Variants -> Nat]
  BY <1>1 DEF Row, Items
<1>3. /\ cart'[k] = [cart[k] EXCEPT !.items = [cart[k].items EXCEPT ![v] = n]]
      /\ \A j \in CartIds : j # k => cart'[j] = cart[j]
  BY <1>1
<1>4. /\ cart'[k].status = cart[k].status
      /\ cart'[k].items = [cart[k].items EXCEPT ![v] = n]
  BY <1>2, <1>3 DEF Row
<1>5. \A j \in CartIds : Open(j)' = Open(j)
  BY <1>3, <1>4 DEF Open
<1>6. Fresh'
  <2>1. ~(k > carts)
    BY <1>1 DEF CartIds
  <2> QED BY <1>3, <2>1 DEF Books, Fresh
<1>7. ASSUME NEW w \in Variants \ raced'
      PROVE  InCart(k, w)' - InCart(k, w) = asked'[w] - asked[w] + InMerge(c, w)' - InMerge(c, w)
  <2>1. InCart(k, w) = (IF Open(k) THEN cart[k].items[w] ELSE 0)
    BY DEF InCart
  <2>2. InCart(k, w)' = (IF Open(k) THEN (IF w = v THEN n ELSE cart[k].items[w]) ELSE 0)
    BY <1>2, <1>4, <1>5 DEF InCart
  <2>3. cart[k].items[w] \in Nat /\ asked[w] \in Int /\ InMerge(c, w) \in Int
    BY <1>1, <1>2, UnitTypes DEF TypeOK
  <2>4. CASE w = v
    BY <2>1, <2>2, <2>3, <2>4
  <2>5. CASE w # v
    BY <2>1, <2>2, <2>3, <2>5
  <2> QED BY <2>4, <2>5
<1>8. OtherCartsStay(k)
  BY <1>3, <1>5 DEF OtherCartsStay
<1> QED BY <1>6, <1>7, <1>8, BooksMove

-----------------------------------------------------------------------------
(* The steps of Cart *)

MergePcs == {"mergeLine", "mergeClose"}

LEMMA OneCallMoves ==
    ASSUME Inv, NEW c \in Calls, NEW x, call' = [call EXCEPT ![c] = x]
    PROVE  /\ OtherCallsStay(c) /\ call'[c] = x
           /\ c \in Mergers <=> call[c].pc \in MergePcs
           /\ c \in Mergers' <=> x.pc \in MergePcs
<1>1. DOMAIN call = Calls
  BY DEF Inv, CartInv, CallsFine
<1>2. call'[c] = x /\ \A d \in Calls : d # c => call'[d] = call[d]
  BY <1>1
<1> QED BY <1>2 DEF OtherCallsStay, Mergers, MergePcs

(* A call that does not merge goes on to x, which does not either. *)
LEMMA BooksQuiet ==
    ASSUME Inv, Inv', Books, NEW c \in Calls, NEW x, call' = [call EXCEPT ![c] = x],
           call[c].pc \notin MergePcs, x.pc \notin MergePcs,
           UNCHANGED <<cart, carts, asked, raced, order, orders>>
    PROVE  Books'
<1>1. OtherCallsStay(c) /\ c \notin Mergers /\ c \notin Mergers'
  BY OneCallMoves
<1> QED BY <1>1, BooksRest

LEMMA BooksStay ==
    ASSUME Inv, Books,
           UNCHANGED <<cart, carts, call, asked, raced, order, orders>>
    PROVE  Books'
<1>1. Mergers' = Mergers
  BY DEF Mergers
<1>2. ASSUME NEW v \in Variants
      PROVE  InOpenCarts(v)' = InOpenCarts(v) /\ Bought(v)' = Bought(v) /\ Doubled(v)' = Doubled(v)
  <2>1. Doubled(v)' = Doubled(v)
    BY <1>1 DEF Doubled
  <2> QED BY <2>1 DEF InOpenCarts, Open, Bought
<1> QED BY <1>1, <1>2 DEF Books, Fresh, MergersOK, BooksOK

LEMMA SendBooks ==
    ASSUME Inv, Inv', Books, UNCHANGED <<order, orders>>,
           NEW c \in Calls, NEW b, NEW op, NEW v, NEW q, Send(c, b, op, v, q)
    PROVE  Books'
<1> DEFINE x == [Idle EXCEPT !.pc = "resolve", !.op = op, !.browser = b,
                             !.signedIn = browser[b].signedIn, !.token = browser[b].token,
                             !.variant = v, !.quantity = q, !.page = browser[b].token]
<1>1. x.pc = "resolve"
  BY DEF Idle
<1>2. call' = [call EXCEPT ![c] = x] /\ call[c].pc = "idle"
  BY DEF Send, At
<1>3. UNCHANGED <<cart, carts, asked, raced>>
  BY DEF Send
<1> HIDE DEF x
<1> QED BY <1>1, <1>2, <1>3, BooksQuiet DEF MergePcs

LEMMA ShopBooks ==
    ASSUME Inv, Inv', Books, UNCHANGED <<order, orders>>, NEW c \in Calls, NEW b \in Browsers,
           Shop(c, b)
    PROVE  Books'
  BY SendBooks DEF Shop, SendView, SendAdd, SendUpdate, SendRemove

(* A call that ends, or goes on where it does not merge. *)
LEMMA GoesOnQuietly ==
    ASSUME Inv, Inv', Books, UNCHANGED <<order, orders>>, NEW c \in Calls,
           call[c].pc \notin MergePcs, UNCHANGED <<cart, carts, asked, raced>>,
           \/ Done(c)
           \/ \E pc : pc \notin MergePcs /\ Goto(c, pc)
           \/ \E j : Found(c, j)
           \/ NotFound(c)
           \/ \E n : call' = [call EXCEPT ![c].read = n, ![c].pc = "writeItem"]
    PROVE  Books'
<1>1. call[c] \in Call
  BY Rest DEF Inv
<1>2. CASE Done(c)
  <2>1. Idle.pc = "idle"
    BY DEF Idle
  <2> QED BY <1>2, <2>1, BooksQuiet DEF Done, MergePcs
<1>3. ASSUME NEW pc, pc \notin MergePcs, Goto(c, pc) PROVE Books'
  <2> DEFINE x == [call[c] EXCEPT !.pc = pc]
  <2>1. call' = [call EXCEPT ![c] = x] /\ x.pc = pc
    BY <1>1, <1>3 DEF Goto, Call
  <2> HIDE DEF x
  <2> QED BY <1>3, <2>1, BooksQuiet
<1>4. CASE \E j : Found(c, j)
  <2>1. PICK j : Found(c, j)
    BY <1>4
  <2> DEFINE x == [call[c] EXCEPT !.cart = j, !.pc = AfterCart(c, j)]
  <2>2. AfterCart(c, j) \notin MergePcs
    <3>1. FirstStep[call[c].op] \in {"answer", "readItem", "findItem", "deleteItem", "checkout"}
      BY <1>1, FirstSteps DEF Call
    <3> QED BY <3>1 DEF AfterCart, MergePcs
  <2>3. call' = [call EXCEPT ![c] = x]
    BY <2>1 DEF Found
  <2>4. x.pc = AfterCart(c, j)
    BY <1>1 DEF Call
  <2> HIDE DEF x
  <2> QED BY <2>2, <2>3, <2>4, BooksQuiet
<1>5. CASE NotFound(c)
  <2>1. Done(c) \/ Goto(c, "create") \/ Goto(c, "answer")
    BY <1>5 DEF NotFound
  <2> QED BY <1>2, <1>3, <2>1 DEF MergePcs
<1>6. ASSUME NEW n, call' = [call EXCEPT ![c].read = n, ![c].pc = "writeItem"] PROVE Books'
  <2> DEFINE x == [call[c] EXCEPT !.read = n, !.pc = "writeItem"]
  <2>1. call' = [call EXCEPT ![c] = x] /\ x.pc = "writeItem"
    BY <1>1, <1>6 DEF Call
  <2> HIDE DEF x
  <2> QED BY <2>1, BooksQuiet DEF MergePcs
<1> QED BY <1>2, <1>3, <1>4, <1>5, <1>6

LEMMA QuietBooks ==
    ASSUME Inv, Inv', Books, UNCHANGED <<order, orders>>, NEW c \in Calls,
           ResolveOwn(c) \/ ResolveGuest(c) \/ Commit(c) \/ ReadItem(c) \/ FindItem(c)
    PROVE  Books'
<1>1. CASE ResolveOwn(c)
  BY <1>1, GoesOnQuietly DEF ResolveOwn, At, MergePcs
<1>2. CASE ResolveGuest(c)
  BY <1>2, GoesOnQuietly DEF ResolveGuest, At, MergePcs
<1>3. CASE Commit(c)
  BY <1>3, GoesOnQuietly DEF Commit, At, MergePcs
<1>4. CASE ReadItem(c)
  BY <1>4, GoesOnQuietly DEF ReadItem, At, MergePcs
<1>5. CASE FindItem(c)
  BY <1>5, GoesOnQuietly DEF FindItem, At, MergePcs
<1> QED BY <1>1, <1>2, <1>3, <1>4, <1>5

(* A new cart has no items. *)
LEMMA CreateBooks ==
    ASSUME Inv, Inv', Books, UNCHANGED <<order, orders>>, NEW c \in Calls, Create(c)
    PROVE  Books'
<1>0. PICK k : k = carts + 1
  OBVIOUS
<1> DEFINE x == [call[c] EXCEPT !.cart = k, !.pc = AfterCart(c, k)]
<1>1. /\ call[c].pc = "create" /\ carts < MaxCarts /\ carts' = k
      /\ cart' = [cart EXCEPT ![k].owned = call[c].signedIn]
      /\ call' = [call EXCEPT ![c] = x]
      /\ UNCHANGED <<asked, raced>>
  BY <1>0 DEF Create, Found, At
<1>2. /\ carts \in Nat /\ MaxCarts \in Nat /\ k \in CartIds /\ k > carts /\ k \notin 1..carts
      /\ 1..k = 1..carts \cup {k} /\ k \in Nat
  <2>1. carts \in Nat /\ MaxCarts \in Nat
    BY Rest DEF Inv
  <2> QED BY <1>0, <1>1, <2>1 DEF CartIds
<1>3. call[c] \in Call /\ cart \in [CartIds -> Row] /\ cart[k] \in Row
  BY <1>2, Rest DEF Inv, CartInv, TypeOK
<1>4. x.pc \notin MergePcs
  <2>1. FirstStep[call[c].op] \in {"answer", "readItem", "findItem", "deleteItem", "checkout"}
    BY <1>3, FirstSteps DEF Call
  <2>2. AfterCart(c, k) \notin MergePcs
    BY <2>1 DEF AfterCart, MergePcs
  <2>3. x.pc = AfterCart(c, k)
    BY <1>3 DEF Call
  <2> QED BY <2>2, <2>3
<1> HIDE DEF x
<1>5. OtherCallsStay(c) /\ c \notin Mergers /\ c \notin Mergers'
  BY <1>1, <1>4, OneCallMoves DEF MergePcs
<1>6. /\ cart'[k] = [cart[k] EXCEPT !.owned = call[c].signedIn]
      /\ \A j \in CartIds : j # k => cart'[j] = cart[j]
  BY <1>1, <1>2, <1>3
<1>7. cart'[k].items = cart[k].items /\ cart[k].items = NoItems
  BY <1>2, <1>3, <1>6 DEF Row, Books, Fresh
<1>8. Fresh'
  <2>1. \A j \in CartIds : j > k => j > carts
    BY <1>0, <1>2 DEF CartIds
  <2> QED BY <1>1, <1>6, <1>7, <2>1 DEF Books, Fresh
<1>9. MergersOK'
  BY <1>5 DEF Books, MergersOK, Mergers, OtherCallsStay
<1>10. OtherCartsStay(k)
  BY <1>1, <1>2, <1>6 DEF OtherCartsStay, Open
<1>11. ASSUME NEW v \in Variants
       PROVE  InCart(k, v)' - InCart(k, v) = asked'[v] - asked[v] + InMerge(c, v)' - InMerge(c, v)
  <2>1. InCart(k, v) = 0 /\ InMerge(c, v)' = 0 /\ InMerge(c, v) = 0
    BY <1>2, <1>5 DEF InCart, Open, InMerge
  <2>2. cart'[k].items[v] = 0
    BY <1>7 DEF NoItems
  <2>3. asked[v] \in Int
    BY DEF Inv, CartInv, TypeOK
  <2>4. InCart(k, v)' = 0
    BY <2>2 DEF InCart
  <2> QED BY <1>1, <2>1, <2>3, <2>4
<1> QED BY <1>1, <1>5, <1>8, <1>9, <1>10, <1>11, BooksMove

(* While a call merges, the lines it has merged are in two carts. *)
LEMMA MergeReadBooks ==
    ASSUME Inv, Inv', Books, UNCHANGED <<order, orders>>, NEW c \in Calls, MergeRead(c)
    PROVE  Books'
<1>1. call[c].pc = "mergeRead" /\ UNCHANGED <<cart, carts, asked, raced>>
  BY DEF MergeRead, At
<1>2. CASE ~Open(call[c].token)
  <2>1. call[c].op \in Ops /\ Goto(c, FirstStep[call[c].op])
    BY <1>2, Rest DEF MergeRead, Call, Inv
  <2>2. FirstStep[call[c].op] \notin MergePcs
    BY <2>1, FirstSteps DEF MergePcs
  <2> QED BY <1>1, <2>1, <2>2, GoesOnQuietly DEF MergePcs
<1>3. CASE Open(call[c].token)
  <2> DEFINE items == cart[call[c].token].items
             lines == {v \in Variants : items[v] > 0}
             pc == IF lines = {} THEN "mergeClose" ELSE "mergeLine"
             x == [call[c] EXCEPT !.lines = items, !.left = lines, !.pc = pc]
  <2>1. call' = [call EXCEPT ![c] = x]
    BY <1>3 DEF MergeRead
  <2>2. call[c] \in Call /\ items \in Items
    <3>1. carts <= MaxCarts /\ carts \in Nat /\ MaxCarts \in Nat /\ call[c].token \in 1..carts
      BY <1>3, Rest DEF Inv, Open
    <3>2. call[c].token \in CartIds
      BY <3>1 DEF CartIds
    <3> QED BY <3>2, Rest DEF Inv, Row
  <2> HIDE DEF items, pc, lines
  <2>3. x.lines = items /\ x.left = lines /\ x.pc = pc
    BY <2>2 DEF Call
  <2> HIDE DEF x
  <2>4. OtherCallsStay(c) /\ c \notin Mergers /\ call'[c] = x
    BY <1>1, <2>1, OneCallMoves DEF MergePcs
  <2>5. MergersOK'
    <3>1. x.pc = "mergeClose" => x.left = {}
      BY <2>3 DEF pc
    <3> QED BY <2>4, <3>1 DEF Books, MergersOK, Mergers, OtherCallsStay
  <2>6. Fresh' /\ OtherCartsStay(0)
    BY <1>1 DEF Books, Fresh, OtherCartsStay, Open
  <2>7. ASSUME NEW v \in Variants
        PROVE  InCart(0, v)' - InCart(0, v) = asked'[v] - asked[v] + InMerge(c, v)' - InMerge(c, v)
    <3>1. v \notin lines => items[v] = 0
      BY <2>2 DEF lines, Items
    <3>2. InMerge(c, v) = 0 /\ InMerge(c, v)' = 0
      BY <2>3, <2>4, <3>1 DEF InMerge
    <3>3. InCart(0, v)' = InCart(0, v)
      BY <1>1 DEF InCart, Open
    <3>4. InCart(0, v) \in Int /\ asked[v] \in Int
      BY UnitTypes DEF Inv, CartInv, TypeOK
    <3> QED BY <1>1, <3>2, <3>3, <3>4
  <2> QED BY <1>1, <2>4, <2>5, <2>6, <2>7, BooksMove
<1> QED BY <1>2, <1>3

LEMMA MergeLineBooks ==
    ASSUME Inv, Inv', Books, UNCHANGED <<order, orders>>, NEW c \in Calls, MergeLine(c)
    PROVE  Books'
<1>1. PICK k : k = call[c].cart
  OBVIOUS
<1>2. PICK v \in call[c].left :
         /\ call[c].pc = "mergeLine"
         /\ cart' = [cart EXCEPT ![k].items[v] = @ + call[c].lines[v]]
         /\ call' = [call EXCEPT ![c].left = @ \ {v},
                                 ![c].pc = IF call[c].left = {v} THEN "mergeClose" ELSE @]
         /\ raced' = IF Open(k) THEN raced ELSE raced \cup {v}
         /\ UNCHANGED <<carts, asked>>
  BY <1>1 DEF MergeLine, At
<1>3. /\ call[c] \in Call /\ v \in Variants /\ k \in CartIds /\ k <= carts
      /\ cart \in [CartIds -> Row] /\ cart[k].items[v] \in Nat /\ call[c].lines[v] \in Nat
  <2>1. call[c] \in Call /\ CallFine(call[c], carts) /\ cart \in [CartIds -> Row]
    BY Rest DEF Inv, CartInv, TypeOK
  <2>2. k \in CartIds \cup {NoCart} /\ k # NoCart /\ k <= carts
    BY <1>1, <1>2, <2>1 DEF CallFine, WithCart, Call
  <2>3. call[c].left \subseteq Variants /\ call[c].lines \in [Variants -> Nat]
    BY <2>1 DEF Call, Items
  <2>4. cart[k] \in Row
    BY <2>1, <2>2
  <2> QED BY <1>2, <2>1, <2>2, <2>3, <2>4 DEF Row, Items
<1> DEFINE n == cart[k].items[v] + call[c].lines[v]
           pc == IF call[c].left = {v} THEN "mergeClose" ELSE "mergeLine"
           x == [call[c] EXCEPT !.left = call[c].left \ {v}, !.pc = pc]
<1>4. /\ cart' = [cart EXCEPT ![k].items[v] = n] /\ n \in Nat
      /\ call' = [call EXCEPT ![c] = x]
  <2>1. n \in Nat
    BY <1>3
  <2>2. cart' = [cart EXCEPT ![k].items[v] = n]
    BY <1>2
  <2>3. call' = [call EXCEPT ![c] = x]
    BY <1>2, <1>3 DEF Call
  <2> QED BY <2>1, <2>2, <2>3
<1>5. /\ x.left = call[c].left \ {v} /\ x.pc = pc /\ x.lines = call[c].lines
      /\ pc \in MergePcs /\ (pc = "mergeClose" => x.left = {})
  BY <1>3 DEF Call, MergePcs
<1> HIDE DEF x, pc
<1>6. OtherCallsStay(c) /\ c \in Mergers /\ c \in Mergers' /\ call'[c] = x
  BY <1>2, <1>4, <1>5, OneCallMoves DEF MergePcs
<1>7. MergersOK'
  BY <1>5, <1>6 DEF Books, MergersOK, Mergers, OtherCallsStay
<1>8. ASSUME NEW w \in Variants PROVE InMerge(c, w)' = IF w \notin x.left THEN x.lines[w] ELSE 0
  BY <1>6 DEF InMerge
<1>9. ASSUME NEW w \in Variants, w # v PROVE InMerge(c, w)' = InMerge(c, w)
  BY <1>5, <1>6, <1>8, <1>9 DEF InMerge
<1>10. InMerge(c, v) = 0 /\ InMerge(c, v)' = call[c].lines[v]
  BY <1>2, <1>3, <1>5, <1>8 DEF InMerge
<1>11. v \notin raced' =>
          (IF Open(k) THEN n - cart[k].items[v] ELSE 0)
              = asked'[v] - asked[v] + InMerge(c, v)' - InMerge(c, v)
  <2>1. asked[v] \in Int /\ n - cart[k].items[v] = call[c].lines[v]
    BY <1>3 DEF Inv, CartInv, TypeOK
  <2> QED BY <1>2, <1>3, <1>10, <2>1
<1>12. raced \subseteq raced' /\ UNCHANGED <<carts, asked>>
  BY <1>2
<1> HIDE DEF n
<1> QED BY <1>3, <1>4, <1>6, <1>7, <1>9, <1>11, <1>12, BooksLine

LEMMA MergeCloseBooks ==
    ASSUME Inv, Inv', Books, UNCHANGED <<order, orders>>, NEW c \in Calls, MergeClose(c)
    PROVE  Books'
<1>1. PICK g : g = call[c].token
  OBVIOUS
<1> DEFINE pc == FirstStep[call[c].op]
           x == [call[c] EXCEPT !.pc = pc]
<1>2. /\ call[c].pc = "mergeClose"
      /\ cart' = [cart EXCEPT ![g].status = "MERGED"]
      /\ raced' = raced \cup Overtaken(c)
      /\ call' = [call EXCEPT ![c] = x]
      /\ UNCHANGED <<carts, asked>>
  <2>1. call' = [call EXCEPT ![c] = x]
    BY DEF MergeClose, Goto
  <2> QED BY <1>1, <2>1 DEF MergeClose, At
<1>3. /\ call[c] \in Call /\ cart \in [CartIds -> Row] /\ DOMAIN call = Calls
      /\ carts \in Nat /\ carts <= MaxCarts /\ MaxCarts \in Nat
  BY Rest DEF Inv, CartInv, TypeOK, CallsFine
<1>4. pc \notin MergePcs /\ x.pc = pc
  <2>1. call[c].op \in Ops /\ x.pc = pc
    BY <1>3 DEF Call
  <2>2. FirstStep[call[c].op] \in {"answer", "readItem", "findItem", "deleteItem", "checkout"}
    BY <2>1, FirstSteps
  <2> QED BY <2>1, <2>2 DEF MergePcs
<1> HIDE DEF x, pc
<1>5. OtherCallsStay(c) /\ c \in Mergers /\ c \notin Mergers' /\ call'[c] = x
  BY <1>2, <1>4, OneCallMoves DEF MergePcs
<1>6. /\ \A j \in CartIds : j # g => cart'[j] = cart[j]
      /\ \A j \in CartIds : cart'[j].items = cart[j].items
      /\ g \in CartIds => cart'[g].status = "MERGED"
  BY <1>2, <1>3 DEF Row
<1>7. Fresh' /\ OtherCartsStay(g)
  BY <1>2, <1>6 DEF Books, Fresh, OtherCartsStay, Open
<1>8. MergersOK'
  BY <1>5 DEF Books, MergersOK, Mergers, OtherCallsStay
<1>9. ASSUME NEW v \in Variants \ raced'
      PROVE  InCart(g, v)' - InCart(g, v) = asked'[v] - asked[v] + InMerge(c, v)' - InMerge(c, v)
  <2>1. call[c].left = {}
    BY <1>2, <1>5 DEF Books, MergersOK
  <2>2. InMerge(c, v) = call[c].lines[v] /\ InMerge(c, v)' = 0 /\ call[c].lines[v] \in Nat
    BY <1>3, <1>5, <2>1 DEF InMerge, Call, Items
  <2>3. IF Open(g) THEN cart[g].items[v] = call[c].lines[v] ELSE ~(call[c].lines[v] > 0)
    BY <1>1, <1>2 DEF Overtaken
  <2>4. InCart(g, v)' = 0
    BY <1>6 DEF InCart, Open
  <2>5. Open(g) => g \in CartIds
    BY <1>3 DEF Open, CartIds
  <2>6. InCart(g, v) = call[c].lines[v]
    BY <2>2, <2>3, <2>5 DEF InCart
  <2>7. asked[v] \in Int
    BY DEF Inv, CartInv, TypeOK
  <2> QED BY <1>2, <2>2, <2>4, <2>6, <2>7
<1>10. raced \subseteq raced'
  BY <1>2
<1> QED BY <1>5, <1>7, <1>8, <1>9, <1>10, BooksMove

LEMMA StopBooks ==
    ASSUME Inv, Inv', Books, UNCHANGED <<order, orders>>, NEW c \in Calls, Stop(c)
    PROVE  Books'
<1>1. /\ call' = [call EXCEPT ![c] = Idle] /\ UNCHANGED <<cart, carts, asked>> /\ raced \subseteq raced'
      /\ c \in Mergers => {v \in Variants : call[c].lines[v] > 0 /\ v \notin call[c].left} \subseteq raced'
  BY DEF Stop, Done, Mergers
<1>2. OtherCallsStay(c) /\ c \notin Mergers'
  <2>1. Idle.pc = "idle"
    BY DEF Idle
  <2> QED BY <1>1, <2>1, OneCallMoves DEF MergePcs
<1>3. Fresh' /\ MergersOK' /\ OtherCartsStay(0)
  BY <1>1, <1>2 DEF Books, Fresh, MergersOK, Mergers, OtherCallsStay, OtherCartsStay, Open
<1>4. ASSUME NEW v \in Variants \ raced'
      PROVE  InCart(0, v)' - InCart(0, v) = asked'[v] - asked[v] + InMerge(c, v)' - InMerge(c, v)
  <2>1. call[c].lines[v] \in Nat
    BY Rest DEF Inv, Call, Items
  <2>2. InMerge(c, v) = 0 /\ InMerge(c, v)' = 0
    BY <1>1, <1>2, <2>1 DEF InMerge
  <2>3. InCart(0, v)' = InCart(0, v)
    BY <1>1 DEF InCart, Open
  <2>4. InCart(0, v) \in Int /\ asked[v] \in Int
    BY UnitTypes DEF Inv, CartInv, TypeOK
  <2> QED BY <1>1, <2>2, <2>3, <2>4
<1> QED BY <1>1, <1>2, <1>3, <1>4, BooksMove

(* A call that is not merging writes one line, of n units.                   *)
LEMMA LineBooks ==
    ASSUME Inv, Inv', Books, UNCHANGED <<order, orders>>, NEW c \in Calls,
           call[c].pc \in {"writeItem", "setItem", "deleteItem"}, Goto(c, "answer"),
           NEW n \in Nat,
           cart' = [cart EXCEPT ![call[c].cart].items[call[c].variant] = n],
           UNCHANGED carts, raced \subseteq raced',
           \A w \in Variants : w # call[c].variant => asked'[w] = asked[w],
           call[c].variant \notin raced' =>
              (IF Open(call[c].cart) THEN n - cart[call[c].cart].items[call[c].variant] ELSE 0)
                 = asked'[call[c].variant] - asked[call[c].variant]
    PROVE  Books'
<1>1. PICK k, v : k = call[c].cart /\ v = call[c].variant
  OBVIOUS
<1>2. k \in CartIds /\ k <= carts /\ v \in Variants
  <2>1. call[c] \in Call /\ CallFine(call[c], carts)
    BY Rest DEF Inv
  <2> QED BY <1>1, <2>1 DEF CallFine, WithCart, Call
<1>3. OtherCallsStay(c) /\ c \notin Mergers /\ c \notin Mergers'
  <2> DEFINE x == [call[c] EXCEPT !.pc = "answer"]
  <2>1. call' = [call EXCEPT ![c] = x]
    BY DEF Goto
  <2>2. x.pc = "answer"
    BY Rest DEF Inv, Call
  <2> HIDE DEF x
  <2> QED BY <2>1, <2>2, OneCallMoves DEF MergePcs
<1>4. \A w \in Variants : InMerge(c, w) = 0 /\ InMerge(c, w)' = 0
  BY <1>3 DEF InMerge
<1>5. MergersOK'
  BY <1>3 DEF Books, MergersOK, Mergers, OtherCallsStay
<1>6. v \notin raced' =>
          (IF Open(k) THEN n - cart[k].items[v] ELSE 0)
              = asked'[v] - asked[v] + InMerge(c, v)' - InMerge(c, v)
  <2>1. asked[v] \in Int /\ asked'[v] \in Int
    BY <1>2 DEF Inv, CartInv, TypeOK
  <2> QED BY <1>1, <1>2, <1>4, <2>1
<1>7. /\ cart' = [cart EXCEPT ![k].items[v] = n]
      /\ \A w \in Variants \ raced' : w # v => asked'[w] = asked[w] /\ InMerge(c, w)' = InMerge(c, w)
  BY <1>1, <1>4
<1>8. UNCHANGED <<carts, order, orders>> /\ raced \subseteq raced'
  OBVIOUS
<1> QED BY ONLY Inv, Inv', Books, <1>2, <1>3, <1>5, <1>6, <1>7, <1>8, BooksLine

LEMMA ChangeBooks ==
    ASSUME Inv, Inv', Books, UNCHANGED <<order, orders>>, NEW c \in Calls,
           WriteItem(c) \/ SetItem(c) \/ DeleteItem(c)
    PROVE  Books'
<1> DEFINE k == call[c].cart
           v == call[c].variant
           there == cart[k].items[v]
<1>1. /\ call[c] \in Call /\ v \in Variants /\ call[c].quantity \in Nat /\ call[c].read \in Nat
      /\ asked \in [Variants -> Int]
  BY Rest DEF Inv, CartInv, TypeOK, Call
<1>2. call[c].pc \in {"writeItem", "setItem", "deleteItem"} => there \in Nat
  <2>1. CallFine(call[c], carts)
    BY Rest DEF Inv
  <2>2. call[c].pc \in {"writeItem", "setItem", "deleteItem"} => k \in CartIds
    BY <1>1, <2>1 DEF CallFine, WithCart, Call
  <2>3. \A j \in CartIds : cart[j].items \in [Variants -> Nat]
    BY Rest DEF Inv, Row, Items
  <2> QED BY <1>1, <2>2, <2>3
<1>3. CASE WriteItem(c)
  <2> DEFINE n == IF there = 0 THEN call[c].quantity ELSE call[c].read + call[c].quantity
  <2>1. /\ call[c].pc = "writeItem" /\ Goto(c, "answer") /\ UNCHANGED carts
        /\ cart' = [cart EXCEPT ![k].items[v] = n]
        /\ asked' = [asked EXCEPT ![v] = @ + call[c].quantity]
        /\ raced' = IF Open(k) /\ (there = call[c].read \/ there = 0) THEN raced
                    ELSE raced \cup {v}
    BY <1>3 DEF WriteItem, At
  <2>2. n \in Nat /\ there \in Nat
    BY <1>1, <1>2, <2>1
  <2>3. v \notin raced' => (IF Open(k) THEN n - there ELSE 0) = asked'[v] - asked[v]
    <3>1. asked'[v] - asked[v] = call[c].quantity
      BY <1>1, <2>1
    <3> QED BY <1>1, <2>1, <2>2, <3>1
  <2>4. /\ raced \subseteq raced'
        /\ \A w \in Variants : w # v => asked'[w] = asked[w]
    BY <1>1, <2>1
  <2> HIDE DEF n
  <2> QED BY <2>1, <2>2, <2>3, <2>4, LineBooks
<1>4. ASSUME NEW n \in Nat, call[c].pc \in {"setItem", "deleteItem"},
             SetLine(k, v, n), Goto(c, "answer"), UNCHANGED <<carts, raced>>
      PROVE  Books'
  <2>1. /\ cart' = [cart EXCEPT ![k].items[v] = n]
        /\ asked' = [asked EXCEPT ![v] = IF Open(k) THEN @ + n - there ELSE @]
    BY <1>4 DEF SetLine
  <2>2. (IF Open(k) THEN n - there ELSE 0) = asked'[v] - asked[v]
    BY <1>1, <1>2, <1>4, <2>1
  <2>3. \A w \in Variants : w # v => asked'[w] = asked[w]
    BY <1>1, <2>1
  <2>4. UNCHANGED carts /\ raced \subseteq raced'
    BY <1>4
  <2> QED BY <1>4, <2>1, <2>2, <2>3, <2>4, LineBooks
<1>5. CASE SetItem(c)
  <2>1. CASE there = 0
    BY <1>5, <2>1, GoesOnQuietly DEF SetItem, At, MergePcs
  <2>2. CASE there # 0
    BY <1>1, <1>4, <1>5, <2>2 DEF SetItem, At
  <2> QED BY <2>1, <2>2
<1>6. CASE DeleteItem(c)
  <2>1. CASE call[c].page = k
    BY <1>4, <1>6, <2>1 DEF DeleteItem, At
  <2>2. CASE call[c].page # k
    BY <1>6, <2>2, GoesOnQuietly DEF DeleteItem, At, MergePcs
  <2> QED BY <2>1, <2>2
<1> QED BY <1>3, <1>5, <1>6

LEMMA CartBooks ==
    ASSUME Inv, Inv', Books, CartStep
    PROVE  Books'
<1>1. UNCHANGED <<order, orders>>
  BY DEF CartStep
<1>2. ASSUME NEW c \in Calls, NEW b \in Browsers, Shop(c, b) PROVE Books'
  BY <1>1, <1>2, ShopBooks
<1>3. ASSUME NEW b \in Browsers, SignInOrOut(b) PROVE Books'
  <2>1. UNCHANGED <<cart, carts, call, asked, raced>>
    BY <1>3 DEF SignInOrOut
  <2> QED BY <1>1, <2>1, BooksStay
<1>4. ASSUME NEW c \in Calls, Resolve(c) \/ Merge(c) \/ Change(c) \/ Commit(c) \/ Stop(c)
      PROVE  Books'
  BY <1>1, <1>4, QuietBooks, CreateBooks, MergeReadBooks, MergeLineBooks, MergeCloseBooks,
     ChangeBooks, StopBooks DEF Resolve, Merge, Change
<1> QED BY <1>2, <1>3, <1>4 DEF CartStep

-----------------------------------------------------------------------------
(* The steps of a placement *)

LEMMA PlaceBooks ==
    ASSUME Inv, Inv', Books, NEW c \in Calls,
           \/ PlaceLines(c) \/ PlaceCoupon(c) \/ PlaceClash(c)
           \/ CountOrders(c) \/ LookUpNumber(c)
           \/ \E b \in Browsers, withCode \in BOOLEAN : SendPlace(c, b, withCode)
    PROVE  Books'
<1>1. UNCHANGED <<order, orders>>
  BY DEF PlaceLines, PlaceCoupon, CountOrders, LookUpNumber, PlaceClash, SendPlace
<1>2. CASE UNCHANGED call /\ CartUnchanged
  BY <1>1, <1>2, BooksStay DEF CartUnchanged
<1>3. CASE Done(c) /\ CartUnchanged /\ At(c, "checkout")
  BY <1>1, <1>3, GoesOnQuietly DEF CartUnchanged, At, MergePcs
<1>4. CASE PlaceLines(c) \/ PlaceCoupon(c) \/ PlaceClash(c) \/ CountOrders(c) \/ LookUpNumber(c)
  BY <1>2, <1>3, <1>4
     DEF PlaceLines, PlaceCoupon, CountOrders, LookUpNumber, PlaceClash, EndPlacement, Placing
<1>5. ASSUME NEW b \in Browsers, NEW withCode \in BOOLEAN, SendPlace(c, b, withCode) PROVE Books'
  BY <1>1, <1>5, SendBooks DEF SendPlace
<1> QED BY <1>4, <1>5

(* A new order is not confirmed. *)
LEMMA PlaceTxBooks ==
    ASSUME Inv, Inv', Books, NEW c \in Calls, PlaceTx(c)
    PROVE  Books'
<1>1. PICK n : n = orders + 1
  OBVIOUS
<1>2. PICK new :
        /\ new.confirmed = FALSE
        /\ orders < MaxOrders /\ orders' = n /\ order' = [order EXCEPT ![n] = new]
        /\ call[c].pc = "checkout" /\ Done(c) /\ UNCHANGED <<cart, carts, asked, raced>>
  <2> DEFINE new == [number |-> place[c].number, signedIn |-> call[c].signedIn,
                     lines |-> place[c].lines, coupon |-> place[c].coupon, confirmed |-> FALSE]
  <2>1. new.confirmed = FALSE
    OBVIOUS
  <2>2. order' = [order EXCEPT ![n] = new]
    BY <1>1 DEF PlaceTx
  <2> HIDE DEF new
  <2> QED BY <1>1, <2>1, <2>2 DEF PlaceTx, Placing, At, EndPlacement, CartUnchanged
<1>3. /\ orders \in Nat /\ MaxOrders \in Nat /\ n \in OrderIds /\ n \notin 1..orders
      /\ 1..n = 1..orders \cup {n} /\ 1..orders \subseteq OrderIds
      /\ order \in [OrderIds -> Order]
  <2>1. orders \in Nat /\ MaxOrders \in Nat /\ order \in [OrderIds -> Order]
    BY Bounds DEF Inv, CheckoutTypeOK
  <2> QED BY <1>1, <1>2, <2>1 DEF OrderIds
<1>4. order'[n].confirmed = FALSE /\ \A o \in 1..orders : order'[o] = order[o]
  BY <1>2, <1>3
<1>5. ASSUME NEW v \in Variants PROVE Bought(v)' = Bought(v) /\ InOpenCarts(v)' = InOpenCarts(v)
  <2> DEFINE f == [o \in OrderIds |-> order[o].lines[v]]
             g == [o \in OrderIds |-> order'[o].lines[v]]
             S == {o \in 1..orders : order[o].confirmed}
  <2>1. {o \in 1..orders' : order'[o].confirmed} = S
    BY <1>2, <1>3, <1>4
  <2>2. IsFiniteSet(S) /\ \A o \in S : f[o] \in Int /\ f[o] = g[o]
    BY <1>3, <1>4, BoughtType DEF Inv
  <2>3. Bought(v)' = SumFunctionOnSet(g, S)
    BY <2>1 DEF Bought
  <2>4. Bought(v) = SumFunctionOnSet(f, S)
    BY DEF Bought
  <2> HIDE DEF f, g, S
  <2>5. SumFunctionOnSet(g, S) = SumFunctionOnSet(f, S)
    BY <2>2, SumAgrees
  <2> QED BY <1>2, <2>3, <2>4, <2>5 DEF InOpenCarts, Open
<1>6. Mergers' = Mergers /\ \A d \in Mergers : call'[d] = call[d]
  <2>1. OtherCallsStay(c) /\ c \notin Mergers /\ c \notin Mergers'
    <3>1. Idle.pc = "idle"
      BY DEF Idle
    <3> QED BY <1>2, <3>1, OneCallMoves DEF Done, MergePcs
  <2> QED BY <2>1 DEF Mergers, OtherCallsStay
<1>7. ASSUME NEW v \in Variants PROVE Doubled(v)' = Doubled(v)
  <2> DEFINE f == [d \in Calls |-> call[d].lines[v]]
             g == [d \in Calls |-> call'[d].lines[v]]
             S == {d \in Mergers : v \notin call[d].left}
  <2>1. {d \in Mergers' : v \notin call'[d].left} = S
    BY <1>6
  <2>2. IsFiniteSet(S)
    BY FS_Subset DEF Books
  <2>3. \A d \in S : f[d] \in Int /\ f[d] = g[d]
    BY <1>6, UnitTypes DEF Inv, CartInv, Mergers
  <2>4. Doubled(v) = SumFunctionOnSet(f, S) /\ Doubled(v)' = SumFunctionOnSet(g, S)
    BY <2>1 DEF Doubled
  <2> HIDE DEF f, g, S
  <2> QED BY <2>2, <2>3, <2>4, SumAgrees
<1>8. BooksOK'
  BY <1>2, <1>5, <1>7 DEF Books, BooksOK
<1> QED BY <1>2, <1>6, <1>8 DEF Books, Fresh, MergersOK

(* A confirmation moves an order's lines from the carts that are open, if    *)
(* they still have them, to what is bought.                                  *)
LEMMA ConfirmBooks ==
    ASSUME Inv, Inv', Books, NEW o \in OrderIds, Confirm(o)
    PROVE  Books'
<1>1. /\ o <= orders /\ ~order[o].confirmed
      /\ order' = [order EXCEPT ![o].confirmed = TRUE]
      /\ cart' = [k \in CartIds |->
                    IF converts[k] = o
                    THEN [cart[k] EXCEPT !.status = "CONVERTED", !.items = NoItems] ELSE cart[k]]
      /\ raced' = raced \cup Mismatched(o)
      /\ UNCHANGED <<carts, call, asked, orders>>
  BY DEF Confirm
<1>2. /\ o \in 1..orders /\ 1..orders \subseteq OrderIds
      /\ order \in [OrderIds -> Order]
  <2>1. orders \in Nat /\ MaxOrders \in Nat /\ orders <= MaxOrders /\ order \in [OrderIds -> Order]
    BY Bounds DEF Inv, CheckoutTypeOK
  <2>2. o \in 1..MaxOrders /\ o <= orders
    BY <1>1 DEF OrderIds
  <2>3. o \in 1..orders /\ 1..orders \subseteq 1..MaxOrders
    BY <2>1, <2>2
  <2> QED BY <2>1, <2>3 DEF OrderIds
<1>3. \A k \in CartIds :
         /\ converts[k] = o => cart'[k].status = "CONVERTED" /\ cart'[k].items = NoItems
         /\ converts[k] # o => cart'[k] = cart[k]
  BY <1>1, Rest DEF Inv, Row
<1>4. /\ \A p \in OrderIds : order'[p].lines = order[p].lines
      /\ \A p \in OrderIds : order'[p].confirmed = (order[p].confirmed \/ p = o)
  <2>1. \A p \in OrderIds : order[p] \in Order
    BY <1>2
  <2>2. \A p \in OrderIds : p # o => order'[p] = order[p]
    BY <1>1, <1>2
  <2>3. order'[o] = [order[o] EXCEPT !.confirmed = TRUE]
    BY <1>1, <1>2
  <2>4. order'[o].lines = order[o].lines /\ order'[o].confirmed = TRUE
    BY <2>1, <2>3 DEF Order
  <2>5. \A p \in OrderIds : order[p].confirmed \in BOOLEAN
    BY <2>1 DEF Order
  <2> QED BY <2>2, <2>4, <2>5
<1>5. Fresh'
  BY <1>1, <1>3 DEF Books, Fresh
<1>6. ASSUME NEW v \in Variants PROVE InOpenCarts(v) = InOpenCarts(v)' + Taken(o, v)
  <2> DEFINE f == [k \in CartIds |-> cart[k].items[v]]
             g == [k \in CartIds |-> cart'[k].items[v]]
             S == {k \in CartIds : Open(k)}
             T == {k \in CartIds : Open(k) /\ converts[k] = o}
  <2>1. IsFiniteSet(S) /\ T \in SUBSET S /\ IsFiniteSet(S \ T)
    BY UnitTypes, FS_Subset DEF Inv, CartInv
  <2>2. \A k \in S : f[k] \in Int
    BY UnitTypes DEF Inv, CartInv
  <2>3. {k \in CartIds : Open(k)'} = S \ T
    BY <1>1, <1>3 DEF Open
  <2>4. \A k \in S \ T : f[k] = g[k] /\ f[k] \in Int
    BY <1>3, <2>2
  <2>5. InOpenCarts(v) = SumFunctionOnSet(f, S) /\ Taken(o, v) = SumFunctionOnSet(f, T)
    BY DEF InOpenCarts, Taken
  <2>6. InOpenCarts(v)' = SumFunctionOnSet(g, S \ T)
    BY <2>3 DEF InOpenCarts
  <2> HIDE DEF f, g, S, T
  <2>7. SumFunctionOnSet(g, S \ T) = SumFunctionOnSet(f, S \ T)
    BY <2>1, <2>4, SumAgrees
  <2>8. SumFunctionOnSet(f, S) = SumFunctionOnSet(f, T) + SumFunctionOnSet(f, S \ T)
    BY <2>1, <2>2, SumSplit
  <2>9. SumFunctionOnSet(f, T) \in Int /\ SumFunctionOnSet(f, S \ T) \in Int
    <3>1. IsFiniteSet(T) /\ \A k \in T : f[k] \in Int
      BY <2>1, <2>2, FS_Subset
    <3> QED BY <2>1, <2>4, <3>1, SumIsInt
  <2> QED BY <2>5, <2>6, <2>7, <2>8, <2>9
<1>7. ASSUME NEW v \in Variants
      PROVE  Bought(v)' = Bought(v) + order[o].lines[v] /\ Bought(v) \in Int /\ order[o].lines[v] \in Int
  <2> DEFINE f == [p \in OrderIds |-> order[p].lines[v]]
             g == [p \in OrderIds |-> order'[p].lines[v]]
             S == {p \in 1..orders : order[p].confirmed}
             T == {p \in 1..orders' : order'[p].confirmed}
  <2>1. IsFiniteSet(S) /\ Bought(v) \in Int /\ \A p \in OrderIds : f[p] \in Int
    BY BoughtType DEF Inv
  <2>2. \A p \in OrderIds : f[p] = g[p]
    BY <1>4
  <2>3. T = S \cup {o} /\ o \notin S /\ T \subseteq OrderIds
    BY <1>1, <1>2, <1>4
  <2>4. g[o] = order[o].lines[v]
    BY <1>4
  <2>5. Bought(v) = SumFunctionOnSet(f, S) /\ Bought(v)' = SumFunctionOnSet(g, T)
    BY DEF Bought
  <2> HIDE DEF f, g, S, T
  <2>6. AgreeBut(o, f, S, g, T)
    BY <2>1, <2>2, <2>3 DEF AgreeBut
  <2>7. SumFunctionOnSet(g, T) = SumFunctionOnSet(f, S) - 0 + g[o]
    BY <2>3, <2>6, SumChanges
  <2>8. g[o] \in Int
    BY <2>1, <2>2
  <2> QED BY <2>1, <2>4, <2>5, <2>7, <2>8
<1>8. Mergers' = Mergers /\ \A v \in Variants : Doubled(v)' = Doubled(v)
  <2>1. Mergers' = Mergers
    BY <1>1 DEF Mergers
  <2> QED BY <1>1, <2>1 DEF Doubled
<1>9. BooksOK'
  <2> SUFFICES ASSUME NEW v \in Variants \ raced'
               PROVE  InOpenCarts(v)' + Bought(v)' = asked'[v] + Doubled(v)'
    BY DEF BooksOK
  <2>1. v \in Variants \ raced /\ Taken(o, v) = order[o].lines[v]
    BY <1>1 DEF Mismatched
  <2>2. InOpenCarts(v) + Bought(v) = asked[v] + Doubled(v)
    BY <2>1 DEF Books, BooksOK
  <2>3. InOpenCarts(v)' \in Int
    <3>1. \A k \in CartIds : cart'[k].items[v] \in Int
      BY DEF Inv, CartInv, TypeOK, Row, Items
    <3> DEFINE g == [k \in CartIds |-> cart'[k].items[v]]
               S == {k \in CartIds : Open(k)'}
    <3>2. IsFiniteSet(S) /\ \A k \in S : g[k] \in Int
      BY <3>1, UnitTypes, FS_Subset DEF Inv, CartInv
    <3>3. InOpenCarts(v)' = SumFunctionOnSet(g, S)
      BY DEF InOpenCarts
    <3> HIDE DEF g, S
    <3> QED BY <3>2, <3>3, SumIsInt
  <2>4. InOpenCarts(v) = InOpenCarts(v)' + order[o].lines[v]
    BY <1>6, <2>1
  <2>5. /\ Bought(v)' = Bought(v) + order[o].lines[v]
        /\ Bought(v) \in Int /\ order[o].lines[v] \in Int
    BY <1>7
  <2>6. asked'[v] = asked[v] /\ Doubled(v)' = Doubled(v)
    BY <1>1, <1>8
  <2> QED BY <2>2, <2>3, <2>4, <2>5, <2>6
<1> QED BY <1>1, <1>5, <1>8, <1>9 DEF Books, MergersOK

-----------------------------------------------------------------------------
LEMMA BooksStart == Init /\ CheckoutInit => Books
<1> SUFFICES ASSUME Init, CheckoutInit PROVE Books
  OBVIOUS
<1>1. Inv
  BY InvStarts
<1>2. Mergers = {} /\ IsFiniteSet({})
  BY FS_EmptySet DEF Init, Idle, Mergers
<1>3. Fresh
  BY DEF Init, Fresh
<1>4. ASSUME NEW v \in Variants PROVE InOpenCarts(v) + Bought(v) = asked[v] + Doubled(v)
  <2>1. {k \in CartIds : Open(k)} = {} /\ {o \in 1..orders : order[o].confirmed} = {}
    BY DEF Init, CheckoutInit, Open
  <2>2. {c \in Mergers : v \notin call[c].left} = {}
    BY <1>2
  <2>3. InOpenCarts(v) = 0 /\ Bought(v) = 0 /\ Doubled(v) = 0
    BY <2>1, <2>2, SumEmpty DEF InOpenCarts, Bought, Doubled
  <2>4. asked[v] = 0
    BY DEF Init, NoItems
  <2> QED BY <2>3, <2>4
<1> QED BY <1>2, <1>3, <1>4 DEF Books, MergersOK, BooksOK

LEMMA BooksSteps == Inv /\ Inv' /\ Books /\ [CheckoutNext]_allVars => Books'
<1> SUFFICES ASSUME Inv, Inv', Books, [CheckoutNext]_allVars PROVE Books'
  OBVIOUS
<1>1. CASE UNCHANGED allVars
  BY <1>1, BooksStay DEF allVars, vars, checkoutVars
<1> QED BY <1>1, CartBooks, PlaceBooks, PlaceTxBooks, ConfirmBooks DEF CheckoutNext, Place

(* What the customer asked for is in open carts or in confirmed orders, and  *)
(* in one place only, when no merge is under way: interleaved calls,         *)
(* placements and payments neither lose nor sell a unit twice, except of the *)
(* variants of a race that is named.                                         *)
THEOREM NothingLost == CheckoutSpec => []AskedIsOpenOrBought
<1>1. Inv /\ Books => AskedIsOpenOrBought
  <2> SUFFICES ASSUME Inv, Books, ~Merging, NEW v \in Variants \ raced
               PROVE  InOpenCarts(v) + Bought(v) = asked[v]
    BY DEF AskedIsOpenOrBought
  <2>1. {c \in Mergers : v \notin call[c].left} = {}
    BY DEF Merging, Mergers
  <2>2. Doubled(v) = 0
    BY <2>1, SumEmpty DEF Doubled
  <2>3. asked[v] \in Int
    BY DEF Inv, CartInv, TypeOK
  <2> QED BY <2>2, <2>3 DEF Books, BooksOK
<1>2. Inv /\ Books /\ [CheckoutNext]_allVars => Inv' /\ Books'
  BY InvSteps, BooksSteps
<1> QED BY <1>1, <1>2, InvStarts, BooksStart, PTL DEF CheckoutSpec

-----------------------------------------------------------------------------
(* A tab and its bag.                                                      *)

(* The history in which every click counts. *)
Calm == ~outOfOrder /\ ~twoFirsts /\ ~unanswered

(* The row the bag has; before an addition is served there is no bag. *)
LineOf(v) == IF bags = 0 THEN NoLine ELSE bagOf[bags][v]

(* An answer to come, or on its way, that is newer than the n-th reading. *)
Newer(c, n) == c.at = "read" \/ (c.at = "answer" /\ ~c.refused /\ c.read > n)
Undone(c) == c.at = "serve" \/ c.refused

BagTyped ==
    /\ BagTypeOK
    /\ \A c \in bagCalls : c.token \in 0 .. bags /\ c.read \in 0 .. bagReads
    /\ bagReads \in Nat /\ lastRead \in 0 .. bagReads /\ bagClicks \in 0 .. MaxBagClicks
    /\ wantedUnits \in [Goods -> Int]

(* There is one bag, and every request is about it; while the tab has no     *)
(* token there is none, or an addition that makes it is the only request.    *)
BagIsOne ==
    /\ bags # 0 => bagStatus[bags] = "ACTIVE"
    /\ bags = 0 => \A k \in BagIds : bagOf[k] = EmptyBag
    /\ \A c \in bagCalls : c.token = bags
    /\ kept # 0 => kept = bags
CallsAreMade ==
    \A c \in bagCalls :
        /\ c.op = "get" => ~c.refused /\ c.by = 0
        /\ c.op = "add" => c.by = c.qty /\ c.qty \in 1 .. BagStock
        /\ c.at # "answer" => ~c.refused
FirstIsAlone ==
    kept = 0 =>
        /\ shownBag = EmptyBag
        /\ \/ bags = 0 /\ \A c \in bagCalls : c.op = "get"
           \/ \E c \in bagCalls : /\ bagCalls = {c} /\ c.op = "add" /\ ~c.refused
                                  /\ bags = 0 <=> c.at = "serve"

(* A variant that was not hurried has one request at most, which asks for    *)
(* what is in the bag and the click; the clicks add up to the bag and the    *)
(* click that is not carried out.                                            *)
Alone(v) == \A c, d \in About(v) : c = d
AddUp(v) ==
    /\ About(v) = {} => wantedUnits[v] = LineOf(v).qty
    /\ \A c \in About(v) : wantedUnits[v] = LineOf(v).qty + (IF Undone(c) THEN c.by ELSE 0)
AskedFor(v) ==
    \A c \in About(v) : c.at = "serve" =>
        /\ c.op = "set" => c.qty = LineOf(v).qty + c.by
        /\ c.op = "remove" => LineOf(v).qty + c.by = 0
        /\ c.op # "add" => c.id = LineOf(v).id

(* What an answer tells, and what is shown, is what is in the bag, or a       *)
(* newer answer is to come.                                                  *)
TellsOf(v, d) == d.view[v] = LineOf(v) \/ d.read < lastRead \/ \E c \in About(v) : Newer(c, d.read)
TellsAll(v) == \A d \in bagCalls : d.at = "answer" /\ ~d.refused => TellsOf(v, d)
ShowsOf(v) == shownBag[v] = LineOf(v) \/ \E c \in About(v) : Newer(c, lastRead)

OfGood(v) ==
    /\ TellsAll(v) /\ ShowsOf(v)
    /\ v \notin hurried => Alone(v) /\ AddUp(v) /\ AskedFor(v)
BagCalm == BagIsOne /\ CallsAreMade /\ FirstIsAlone /\ \A v \in Goods : OfGood(v)
BagInv == BagTyped /\ (Calm => BagCalm)

-----------------------------------------------------------------------------
LEMMA BagStarts == BagInit => BagInv
<1> SUFFICES ASSUME BagInit PROVE BagInv
  OBVIOUS
<1>1. NoLine \in Line /\ EmptyBag \in [Goods -> Line] /\ \A v \in Goods : EmptyBag[v] = NoLine
  BY BagAssumption DEF NoLine, Line, EmptyBag
<1>2. BagTyped
  BY <1>1, BagAssumption DEF BagInit, BagTyped, BagTypeOK
<1>3. BagIsOne /\ CallsAreMade /\ FirstIsAlone
  BY DEF BagInit, BagIsOne, CallsAreMade, FirstIsAlone
<1>4. ASSUME NEW v \in Goods PROVE OfGood(v)
  <2>1. About(v) = {} /\ LineOf(v) = NoLine /\ shownBag[v] = NoLine /\ wantedUnits[v] = 0
    BY <1>1 DEF BagInit, About, LineOf
  <2>2. TellsAll(v) /\ ShowsOf(v)
    BY <2>1 DEF BagInit, TellsAll, ShowsOf
  <2> QED BY <2>1, <2>2 DEF OfGood, Alone, AddUp, AskedFor, NoLine
<1> QED BY <1>2, <1>3, <1>4 DEF BagInv, BagCalm

LEMMA BagCounts == BagInv => ClicksCount
<1> SUFFICES ASSUME BagInv, bagCalls = {}, Calm, NEW v \in Goods \ hurried
             PROVE  /\ shownBag[v].qty = wantedUnits[v]
                    /\ kept = 0 => wantedUnits[v] = 0
                    /\ kept # 0 => bagOf[kept][v] = shownBag[v]
  BY DEF ClicksCount, Calm
<1>1. BagIsOne /\ FirstIsAlone /\ OfGood(v)
  BY DEF BagInv, BagCalm
<1>2. About(v) = {}
  BY DEF About
<1>3. shownBag[v] = LineOf(v) /\ wantedUnits[v] = LineOf(v).qty
  BY <1>1, <1>2 DEF OfGood, ShowsOf, AddUp
<1>4. CASE kept = 0
  <2>1. bags = 0
    BY <1>1, <1>4 DEF FirstIsAlone
  <2> QED BY <1>3, <1>4, <2>1 DEF LineOf, NoLine
<1>5. CASE kept # 0
  <2>1. kept = bags
    BY <1>1, <1>5 DEF BagIsOne
  <2> QED BY <1>3, <1>5, <2>1 DEF LineOf
<1> QED BY <1>4, <1>5

-----------------------------------------------------------------------------
(* Types. *)

LEMMA LineTypes == NoLine \in Line /\ EmptyBag \in [Goods -> Line] /\ SomeGood \in Goods
BY BagAssumption DEF NoLine, Line, EmptyBag, SomeGood

(* One request becomes another. *)
LEMMA BagTypedMoves ==
    ASSUME BagTyped, NEW c \in bagCalls, NEW d \in BagCall, BecomesBag(c, d),
           bags' \in bags .. MaxBags, bagReads' \in Nat, bagReads' >= bagReads,
           d.token \in 0 .. bags', d.read \in 0 .. bagReads',
           bagOf' \in [BagIds -> [Goods -> Line]],
           bagStatus' \in [BagIds -> {"none", "ACTIVE", "CONVERTED"}],
           UNCHANGED <<kept, shownBag, bagClicks, wantedUnits, lastRead>>
    PROVE  BagTyped'
<1>1. BagTypeOK'
  BY BagAssumption DEF BagTyped, BagTypeOK, BecomesBag
<1>2. \A e \in bagCalls' : e.token \in 0 .. bags' /\ e.read \in 0 .. bagReads'
  BY BagAssumption DEF BagTyped, BagTypeOK, BecomesBag
<1> QED BY <1>1, <1>2 DEF BagTyped

(* A request is gone. *)
LEMMA BagTypedEnds ==
    ASSUME BagTyped, NEW c \in bagCalls, bagCalls' = bagCalls \ {c},
           kept' \in 0 .. bags, shownBag' \in [Goods -> Line], lastRead' \in 0 .. bagReads,
           wantedUnits' \in [Goods -> Int],
           UNCHANGED <<bagServer, bagClicks, bagReads>>
    PROVE  BagTyped'
BY DEF BagTyped, BagTypeOK, bagServer

LEMMA AskTyped ==
    ASSUME BagTyped, NEW op \in {"get", "add", "set", "remove"}, NEW v \in Goods, NEW id \in Nat,
           NEW qty \in Nat, NEW by \in Int, NEW button \in {"none", "row", "add", "quick"},
           Ask(op, v, id, qty, by, button)
    PROVE  BagTyped'
<1> PICK d : d = [n |-> bagClicks + 1, op |-> op, good |-> v, id |-> id, qty |-> qty, by |-> by,
                  button |-> button, token |-> kept, at |-> "serve", view |-> EmptyBag, read |-> 0,
                  refused |-> FALSE]
  OBVIOUS
<1>1. /\ bagClicks < MaxBagClicks /\ bagClicks' = bagClicks + 1 /\ bagCalls' = bagCalls \cup {d}
      /\ wantedUnits' = [wantedUnits EXCEPT ![v] = @ + by]
      /\ UNCHANGED <<bagServer, kept, shownBag, bagReads, lastRead>>
  BY DEF Ask
<1>2. bagClicks \in 0 .. MaxBagClicks /\ MaxBagClicks \in Nat /\ kept \in 0 .. bags /\ bags \in 0 .. MaxBags
      /\ MaxBags \in Nat /\ bagReads \in Nat
  BY BagAssumption DEF BagTyped, BagTypeOK
<1>3. d.token = kept /\ d.read = 0
  OBVIOUS
<1>4. d \in BagCall
  BY <1>1, <1>2, LineTypes DEF BagCall
<1> HIDE DEF BagCall
<1>5. wantedUnits' \in [Goods -> Int]
  BY <1>1 DEF BagTyped
<1>6. bagClicks' \in 0 .. MaxBagClicks
  BY <1>1, <1>2
<1>7. BagTypeOK'
  BY <1>1, <1>4 DEF BagTyped, BagTypeOK, bagServer
<1>8. \A e \in bagCalls' : e.token \in 0 .. bags' /\ e.read \in 0 .. bagReads'
  BY <1>1, <1>2, <1>3 DEF BagTyped, bagServer
<1> QED BY <1>1, <1>5, <1>6, <1>7, <1>8 DEF BagTyped

(* The cart a request has, if any. *)
LEMMA ResolvedIs ==
    ASSUME BagTyped, NEW c \in bagCalls
    PROVE  /\ resolveCart(c) \in 0 .. bags /\ resolveCart(c) \in Nat /\ bags \in 0 .. MaxBags /\ MaxBags \in Nat
           /\ resolveCart(c) # 0 => resolveCart(c) = c.token /\ bagStatus[c.token] = "ACTIVE" /\ resolveCart(c) \in BagIds
           /\ c \in BagCall
BY BagAssumption DEF BagTyped, BagTypeOK, resolveCart, BagIds

LEMMA ServeAddTyped ==
    ASSUME BagTyped, NEW c \in bagCalls, ServeAdd(c), UNCHANGED <<bagTab, bagLimits, bagHistory>>
    PROVE  BagTyped'
<1> DEFINE k == resolveCart(c)
           old == IF k = 0 THEN NoLine ELSE bagOf[k][c.good]
           qty == old.qty + c.qty
           into == IF k = 0 THEN bags + 1 ELSE k
<1>0. UNCHANGED <<kept, shownBag, bagClicks, wantedUnits, lastRead, bagReads>>
  BY DEF bagTab, bagLimits, bagHistory
<1>1. k \in 0 .. bags /\ bags \in 0 .. MaxBags /\ MaxBags \in Nat /\ k \in Nat /\ (k # 0 => k \in BagIds) /\ c \in BagCall
  BY ResolvedIs
<1>2. /\ into \in BagIds /\ bags' = (IF k = 0 THEN bags + 1 ELSE bags)
      /\ bagStatus' = [bagStatus EXCEPT ![into] = "ACTIVE"]
      /\ \/ BecomesBag(c, [c EXCEPT !.at = "answer", !.refused = TRUE]) /\ UNCHANGED bagOf
         \/ /\ ~(qty > BagStock)
            /\ WriteLine(into, c.good, [id |-> IF old.id = 0 THEN c.n ELSE old.id, qty |-> qty])
            /\ BecomesBag(c, [c EXCEPT !.at = "read", !.token = into])
  BY DEF ServeAdd
<1>3. old \in Line
  <2>1. CASE k = 0
    BY <2>1, LineTypes
  <2>2. CASE k # 0
    BY <2>2, <1>1 DEF BagTyped, BagTypeOK, BagCall
  <2> QED BY <2>1, <2>2
<1> HIDE DEF k, old
<1>4. bags' \in bags .. MaxBags /\ into \in 0 .. bags' /\ into \in 0 .. MaxBags
  BY <1>1, <1>2 DEF BagIds
<1>5. c.token \in 0 .. bags' /\ c.read \in 0 .. bagReads' /\ bagReads' \in Nat /\ bagReads' >= bagReads
  BY <1>0, <1>1, <1>4 DEF BagTyped
<1>6. bagStatus' \in [BagIds -> {"none", "ACTIVE", "CONVERTED"}]
  BY <1>2 DEF BagTyped, BagTypeOK
<1>7. CASE BecomesBag(c, [c EXCEPT !.at = "answer", !.refused = TRUE]) /\ UNCHANGED bagOf
  <2> PICK d : d = [c EXCEPT !.at = "answer", !.refused = TRUE]
    OBVIOUS
  <2>1. d \in BagCall /\ d.token = c.token /\ d.read = c.read
    BY <1>1 DEF BagCall
  <2> QED BY <1>0, <1>4, <1>5, <1>6, <1>7, <2>1, BagTypedMoves DEF BagTyped, BagTypeOK
<1>8. CASE /\ ~(qty > BagStock)
           /\ WriteLine(into, c.good, [id |-> IF old.id = 0 THEN c.n ELSE old.id, qty |-> qty])
           /\ BecomesBag(c, [c EXCEPT !.at = "read", !.token = into])
  <2> PICK d : d = [c EXCEPT !.at = "read", !.token = into]
    OBVIOUS
  <2>1. d \in BagCall /\ d.token = into /\ d.read = c.read
    BY <1>1, <1>4 DEF BagCall
  <2>2. [id |-> IF old.id = 0 THEN c.n ELSE old.id, qty |-> qty] \in Line
    BY <1>1, <1>3, <1>8, BagAssumption DEF Line, BagCall
  <2>3. bagOf' \in [BagIds -> [Goods -> Line]]
    BY <1>1, <1>2, <1>8, <2>2 DEF WriteLine, BagTyped, BagTypeOK, BagCall
  <2> QED BY <1>0, <1>4, <1>5, <1>6, <1>8, <2>1, <2>3, BagTypedMoves
<1> QED BY <1>2, <1>7, <1>8

LEMMA ServeChangeTyped ==
    ASSUME BagTyped, NEW c \in bagCalls, ServeChange(c), UNCHANGED <<bagTab, bagLimits, bagHistory>>
    PROVE  BagTyped'
<1> DEFINE k == resolveCart(c)
           line == IF c.op = "set" THEN [id |-> c.id, qty |-> c.qty] ELSE NoLine
<1>0. UNCHANGED <<kept, shownBag, bagClicks, wantedUnits, lastRead, bagReads, bags, bagStatus>>
  BY DEF bagTab, bagLimits, bagHistory, ServeChange
<1>1. k \in 0 .. bags /\ bags \in 0 .. MaxBags /\ MaxBags \in Nat /\ k \in Nat /\ (k # 0 => k \in BagIds) /\ c \in BagCall
  BY ResolvedIs
<1>2. \/ BecomesBag(c, [c EXCEPT !.at = "answer", !.refused = TRUE]) /\ UNCHANGED bagOf
      \/ /\ k # 0
         /\ \/ UNCHANGED bagOf
            \/ /\ bagOf[k][c.good].id = c.id /\ (c.op = "set" => ~(c.qty > BagStock))
               /\ WriteLine(k, c.good, line)
         /\ BecomesBag(c, [c EXCEPT !.at = "read"])
  BY DEF ServeChange
<1>3. bags' \in bags .. MaxBags /\ c.token \in 0 .. bags' /\ c.read \in 0 .. bagReads' /\ bagReads' \in Nat /\ bagReads' >= bagReads
  BY <1>0, <1>1 DEF BagTyped
<1>4. bagStatus' \in [BagIds -> {"none", "ACTIVE", "CONVERTED"}] /\ bagOf \in [BagIds -> [Goods -> Line]]
  BY <1>0 DEF BagTyped, BagTypeOK
<1> HIDE DEF k
<1>5. bagOf' \in [BagIds -> [Goods -> Line]]
  <2>1. CASE UNCHANGED bagOf
    BY <2>1, <1>4
  <2>2. CASE /\ k # 0 /\ bagOf[k][c.good].id = c.id /\ (c.op = "set" => ~(c.qty > BagStock))
             /\ WriteLine(k, c.good, line)
    <3>1. bagOf[k][c.good] \in Line /\ c.good \in Goods /\ k \in BagIds
      BY <1>1, <1>4, <2>2 DEF BagCall
    <3>2. line \in Line
      <4>1. CASE c.op = "set"
        BY <1>1, <2>2, <3>1, <4>1, BagAssumption DEF Line, BagCall
      <4>2. CASE c.op # "set"
        BY <4>2, LineTypes
      <4> QED BY <4>1, <4>2
    <3> HIDE DEF line
    <3> QED BY <1>4, <2>2, <3>1, <3>2 DEF WriteLine
  <2> QED BY <1>2, <2>1, <2>2
<1>6. CASE BecomesBag(c, [c EXCEPT !.at = "answer", !.refused = TRUE])
  <2> PICK d : d = [c EXCEPT !.at = "answer", !.refused = TRUE]
    OBVIOUS
  <2>1. d \in BagCall /\ d.token = c.token /\ d.read = c.read
    BY <1>1 DEF BagCall
  <2> QED BY <1>0, <1>3, <1>4, <1>5, <1>6, <2>1, BagTypedMoves
<1>7. CASE BecomesBag(c, [c EXCEPT !.at = "read"])
  <2> PICK d : d = [c EXCEPT !.at = "read"]
    OBVIOUS
  <2>1. d \in BagCall /\ d.token = c.token /\ d.read = c.read
    BY <1>1 DEF BagCall
  <2> QED BY <1>0, <1>3, <1>4, <1>5, <1>7, <2>1, BagTypedMoves
<1> QED BY <1>2, <1>6, <1>7

LEMMA ServeGetTyped ==
    ASSUME BagTyped, NEW c \in bagCalls, ServeGet(c), UNCHANGED <<bagTab, bagLimits, bagHistory>>
    PROVE  BagTyped'
<1>0. UNCHANGED <<kept, shownBag, bagClicks, wantedUnits, lastRead, bagReads, bagOf, bags, bagStatus>>
  BY DEF bagTab, bagLimits, bagHistory, ServeGet, bagServer
<1>1. resolveCart(c) \in 0 .. bags /\ bags \in 0 .. MaxBags /\ MaxBags \in Nat /\ c \in BagCall
  BY ResolvedIs
<1> PICK d : d = [c EXCEPT !.at = "read", !.token = resolveCart(c)]
  OBVIOUS
<1>2. d \in BagCall /\ d.token = resolveCart(c) /\ d.read = c.read
  <2> DEFINE k == resolveCart(c)
  <2>1. k \in 0 .. MaxBags /\ d = [c EXCEPT !.at = "read", !.token = k]
    BY <1>1
  <2> HIDE DEF k
  <2>2. d \in BagCall /\ d.token = k /\ d.read = c.read
    BY <1>1, <2>1 DEF BagCall
  <2> QED BY <2>2 DEF k
<1>3. bags' \in bags .. MaxBags /\ d.token \in 0 .. bags' /\ d.read \in 0 .. bagReads' /\ bagReads' \in Nat /\ bagReads' >= bagReads
  BY <1>0, <1>1, <1>2 DEF BagTyped
<1>4. BecomesBag(c, d)
  BY DEF ServeGet
<1> QED BY <1>0, <1>2, <1>3, <1>4, BagTypedMoves DEF BagTyped, BagTypeOK

LEMMA ReadViewTyped ==
    ASSUME BagTyped, NEW c \in bagCalls, ReadView(c)
    PROVE  BagTyped'
<1>0. /\ UNCHANGED <<kept, shownBag, bagClicks, wantedUnits, lastRead, bagOf, bags, bagStatus>>
      /\ bagReads' = bagReads + 1
  BY DEF bagTab, bagHistory, ReadView, bagServer
<1>1. /\ c \in BagCall /\ c.token \in 0 .. bags /\ bags \in 0 .. MaxBags /\ MaxBags \in Nat /\ bagReads \in Nat
      /\ bagOf \in [BagIds -> [Goods -> Line]]
  BY BagAssumption DEF BagTyped, BagTypeOK
<1> DEFINE view == IF c.token = 0 THEN EmptyBag ELSE bagOf[c.token]
<1>2. view \in [Goods -> Line]
  BY <1>1, LineTypes DEF BagIds
<1>3. BecomesBag(c, [c EXCEPT !.at = "answer", !.read = bagReads + 1, !.view = view])
  BY DEF ReadView
<1> HIDE DEF view
<1> PICK d : d = [c EXCEPT !.at = "answer", !.read = bagReads + 1, !.view = view]
  OBVIOUS
<1>4. d \in BagCall /\ d.token = c.token /\ d.read = bagReads + 1
  <2> DEFINE n == bagReads + 1
  <2>1. n \in Nat
    BY <1>1
  <2> HIDE DEF n
  <2>2. d \in BagCall /\ d.token = c.token /\ d.read = n
    BY <1>1, <1>2, <2>1 DEF BagCall, n
  <2> QED BY <2>2 DEF n
<1>5. bags' \in bags .. MaxBags /\ d.token \in 0 .. bags' /\ d.read \in 0 .. bagReads' /\ bagReads' \in Nat /\ bagReads' >= bagReads
  BY <1>0, <1>1, <1>4
<1>6. BecomesBag(c, d)
  BY <1>3
<1> QED BY <1>0, <1>4, <1>5, <1>6, BagTypedMoves DEF BagTyped, BagTypeOK

LEMMA AnswerTyped ==
    ASSUME BagTyped, NEW c \in bagCalls, commit(c) \/ Refuse(c) \/ CallFails(c)
    PROVE  BagTyped'
<1>0. c \in BagCall /\ c.token \in 0 .. bags /\ c.read \in 0 .. bagReads /\ c.view \in [Goods -> Line]
      /\ c.good \in Goods /\ c.by \in Int
  BY DEF BagTyped, BagTypeOK, BagCall
<1>1. CASE commit(c)
  <2>1. /\ bagCalls' = bagCalls \ {c} /\ shownBag' = c.view /\ kept' = c.token /\ lastRead' = c.read
        /\ UNCHANGED <<bagServer, bagClicks, bagReads, wantedUnits>>
    BY <1>1 DEF commit, bagLimits
  <2> QED BY <1>0, <2>1, BagTypedEnds DEF BagTyped
<1>2. CASE Refuse(c) \/ CallFails(c)
  <2>1. /\ bagCalls' = bagCalls \ {c}
        /\ UNCHANGED <<bagServer, kept, shownBag, lastRead, bagClicks, bagReads>>
    BY <1>2 DEF Refuse, CallFails, GivenUp
  <2>2. wantedUnits' \in [Goods -> Int]
    BY <1>0, <1>2 DEF Refuse, CallFails, BagTyped
  <2> QED BY <2>1, <2>2, BagTypedEnds DEF BagTyped, BagTypeOK
<1> QED BY <1>1, <1>2

LEMMA BagRestTyped ==
    ASSUME BagTyped, AddTimerFires \/ (\E k \in BagIds : Convert(k)) \/ UNCHANGED bagVars
    PROVE  BagTyped'
<1>1. CASE \E k \in BagIds : Convert(k)
  <2> PICK k \in BagIds : Convert(k)
    BY <1>1
  <2>1. /\ bagStatus' = [bagStatus EXCEPT ![k] = "CONVERTED"] /\ bagOf' = [bagOf EXCEPT ![k] = EmptyBag]
        /\ UNCHANGED <<bags, kept, shownBag, bagCalls, bagClicks, bagReads, wantedUnits, lastRead>>
    BY DEF Convert, bagTab
  <2>2. BagTypeOK'
    BY <2>1, LineTypes DEF BagTyped, BagTypeOK
  <2> QED BY <2>1, <2>2 DEF BagTyped
<1>2. CASE AddTimerFires \/ UNCHANGED bagVars
  <2>1. UNCHANGED <<bagOf, bagStatus, bags, kept, shownBag, bagCalls, bagClicks, bagReads, wantedUnits, lastRead>>
    BY <1>2 DEF AddTimerFires, bagServer, bagTab, bagLimits, bagHistory, bagVars
  <2> QED BY <2>1 DEF BagTyped, BagTypeOK
<1> QED BY <1>1, <1>2

-----------------------------------------------------------------------------
(* A click. *)

(* No answer is ready, nothing is carried out: what is told stays. *)
LEMMA TellsStays ==
    ASSUME NEW v, LineOf(v)' = LineOf(v), About(v) \subseteq About(v)', UNCHANGED <<shownBag, lastRead>>,
           \A d \in bagCalls' : d.at = "answer" /\ ~d.refused => d \in bagCalls,
           TellsAll(v), ShowsOf(v)
    PROVE  TellsAll(v)' /\ ShowsOf(v)'
BY DEF TellsAll, TellsOf, ShowsOf, Newer

(* The rest of what holds of a variant, when its requests and its row stay. *)
LEMMA GoodStays ==
    ASSUME NEW v \in Goods, LineOf(v)' = LineOf(v), About(v)' = About(v), wantedUnits'[v] = wantedUnits[v],
           UNCHANGED <<shownBag, lastRead>>, hurried \subseteq hurried',
           \A d \in bagCalls' : d.at = "answer" /\ ~d.refused => d \in bagCalls,
           OfGood(v)
    PROVE  OfGood(v)'
<1>1. TellsAll(v)' /\ ShowsOf(v)'
  BY TellsStays DEF OfGood
<1>2. ASSUME v \notin hurried' PROVE Alone(v)' /\ AddUp(v)' /\ AskedFor(v)'
  <2>1. Alone(v) /\ AddUp(v) /\ AskedFor(v)
    BY <1>2 DEF OfGood
  <2> QED BY <2>1 DEF Alone, AddUp, AskedFor, Undone
<1> QED BY <1>1, <1>2 DEF OfGood

(* What a change asks for is what is shown; with no token it is no change. *)
AsksWhatIs(op, v, id, qty, by) ==
    /\ op = "get" => by = 0
    /\ op = "add" => by = qty /\ qty \in 1 .. BagStock
    /\ op \in {"set", "remove"} => kept # 0
    /\ op = "set" => qty = shownBag[v].qty + by
    /\ op = "remove" => shownBag[v].qty + by = 0
    /\ op \in {"set", "remove"} => id = shownBag[v].id

LEMMA AskCalm ==
    ASSUME BagTyped, BagCalm, NEW op \in {"get", "add", "set", "remove"}, NEW v \in Goods, NEW id \in Nat,
           NEW qty \in Nat, NEW by \in Int, NEW button \in {"none", "row", "add", "quick"},
           Ask(op, v, id, qty, by, button), AsksWhatIs(op, v, id, qty, by), ~twoFirsts'
    PROVE  BagCalm'
<1> PICK d : d = [n |-> bagClicks + 1, op |-> op, good |-> v, id |-> id, qty |-> qty, by |-> by,
                  button |-> button, token |-> kept, at |-> "serve", view |-> EmptyBag, read |-> 0,
                  refused |-> FALSE]
  OBVIOUS
<1>1. /\ bagCalls' = bagCalls \cup {d} /\ wantedUnits' = [wantedUnits EXCEPT ![v] = @ + by]
      /\ hurried' = IF op # "get" /\ About(v) # {} THEN hurried \cup {v} ELSE hurried
      /\ ~(kept = 0 /\ \E c \in bagCalls : "add" \in {op, c.op})
      /\ UNCHANGED <<bagOf, bagStatus, bags, kept, shownBag, lastRead>>
  BY Zenon DEF Ask, bagServer
<1>2. /\ d.op = op /\ d.good = v /\ d.id = id /\ d.qty = qty /\ d.by = by /\ d.token = kept
      /\ d.at = "serve" /\ ~d.refused
  OBVIOUS
<1>3. kept = 0 => bags = 0
  <2>1. ASSUME kept = 0, bags # 0 PROVE FALSE
    <3>1. PICK c \in bagCalls : bagCalls = {c} /\ c.op = "add"
      BY <2>1 DEF BagCalm, FirstIsAlone
    <3> QED BY <1>1, <2>1, <3>1
  <2> QED BY <2>1
<1>4. BagIsOne'
  BY <1>1, <1>2, <1>3 DEF BagCalm, BagIsOne
<1>5. CallsAreMade'
  BY <1>1, <1>2 DEF BagCalm, CallsAreMade, AsksWhatIs
<1>6. FirstIsAlone'
  <2>1. SUFFICES ASSUME kept = 0 PROVE FirstIsAlone'
    BY <1>1 DEF FirstIsAlone
  <2>2. shownBag = EmptyBag /\ bags = 0
    BY <1>3, <2>1 DEF BagCalm, FirstIsAlone
  <2>3. CASE op = "add"
    <3>1. bagCalls = {}
      BY <1>1, <2>1, <2>3
    <3> QED BY <1>1, <1>2, <2>2, <2>3, <3>1 DEF FirstIsAlone
  <2>4. CASE op # "add"
    <3>1. op = "get"
      BY <2>1, <2>4 DEF AsksWhatIs
    <3>2. \A c \in bagCalls : c.op = "get"
      BY <1>1, <2>1 DEF BagCalm, FirstIsAlone
    <3> QED BY <1>1, <1>2, <2>2, <3>1, <3>2 DEF FirstIsAlone
  <2> QED BY <2>3, <2>4
<1>7. ASSUME NEW w \in Goods PROVE OfGood(w)'
  <2>0. OfGood(w) /\ LineOf(w)' = LineOf(w) /\ hurried \subseteq hurried'
    BY <1>1 DEF BagCalm, LineOf
  <2>1. \A e \in bagCalls' : e.at = "answer" /\ ~e.refused => e \in bagCalls
    BY <1>1, <1>2
  <2>2. CASE op = "get" \/ w # v
    <3>1. About(w)' = About(w)
      BY <1>1, <1>2, <2>2 DEF About
    <3>2. wantedUnits'[w] = wantedUnits[w]
      BY <1>1, <2>2 DEF AsksWhatIs, BagTyped
    <3> QED BY <1>1, <2>0, <2>1, <3>1, <3>2, GoodStays
  <2>3. CASE op # "get" /\ w = v
    <3>1. About(v)' = About(v) \cup {d}
      BY <1>1, <1>2, <2>3 DEF About
    <3>2. TellsAll(v)' /\ ShowsOf(v)'
      BY <1>1, <2>0, <2>1, <2>3, <3>1, TellsStays DEF OfGood
    <3>3. ASSUME v \notin hurried' PROVE Alone(v)' /\ AddUp(v)' /\ AskedFor(v)'
      <4>1. About(v) = {} /\ v \notin hurried
        BY <1>1, <2>3, <3>3
      <4>2. wantedUnits[v] = LineOf(v).qty /\ shownBag[v] = LineOf(v)
        BY <2>0, <2>3, <4>1 DEF OfGood, AddUp, ShowsOf
      <4>3. wantedUnits'[v] = LineOf(v).qty + by
        BY <1>1, <4>2 DEF BagTyped
      <4>4. About(v)' = {d}
        BY <3>1, <4>1
      <4>5. Alone(v)' /\ AddUp(v)'
        BY <1>2, <2>0, <2>3, <4>3, <4>4 DEF Alone, AddUp, Undone
      <4>6. AskedFor(v)'
        BY <1>2, <2>0, <2>3, <4>2, <4>4 DEF AskedFor, AsksWhatIs
      <4> QED BY <4>5, <4>6
    <3> QED BY <2>3, <3>2, <3>3 DEF OfGood
  <2> QED BY <2>2, <2>3
<1> QED BY <1>4, <1>5, <1>6, <1>7 DEF BagCalm

(* What the tab asks for. *)
LEMMA ClickKeeps ==
    ASSUME BagInv,
           \/ refresh
           \/ \E button \in {"add", "quick"}, v \in Goods, qty \in 1 .. BagStock : addItem(button, v, qty)
           \/ \E v \in Goods, by \in {-1, 1} : changeQty(v, by)
    PROVE  BagInv'
<1>0. BagTyped /\ BagStock \in Nat /\ shownBag \in [Goods -> Line]
  BY BagAssumption DEF BagInv, BagTyped, BagTypeOK
<1>1. ASSUME NEW op \in {"get", "add", "set", "remove"}, NEW v \in Goods, NEW id \in Nat,
             NEW qty \in Nat, NEW by \in Int, NEW button \in {"none", "row", "add", "quick"},
             Ask(op, v, id, qty, by, button), Calm /\ BagCalm => AsksWhatIs(op, v, id, qty, by)
      PROVE  BagInv'
  <2>1. BagTyped'
    BY <1>0, <1>1, AskTyped
  <2>2. ASSUME Calm' PROVE BagCalm'
    <3>1. UNCHANGED <<outOfOrder, unanswered>> /\ twoFirsts' = (twoFirsts \/ (kept = 0 /\ \E c \in bagCalls : "add" \in {op, c.op}))
      BY <1>1 DEF Ask
    <3>2. Calm /\ ~twoFirsts'
      BY <2>2, <3>1, Zenon DEF Calm
    <3>3. BagCalm
      BY <3>2 DEF BagInv
    <3> QED BY <1>0, <1>1, <3>2, <3>3, AskCalm
  <2> QED BY <2>1, <2>2 DEF BagInv
<1>2. CASE refresh
  <2>1. Ask("get", SomeGood, 0, 0, 0, "none")
    BY <1>2 DEF refresh
  <2>2. AsksWhatIs("get", SomeGood, 0, 0, 0)
    BY DEF AsksWhatIs
  <2> QED BY <1>1, <2>1, <2>2, LineTypes
<1>3. ASSUME NEW button \in {"add", "quick"}, NEW v \in Goods, NEW qty \in 1 .. BagStock, addItem(button, v, qty)
      PROVE  BagInv'
  <2>1. Ask("add", v, 0, qty, qty, button) /\ qty \in Nat /\ qty \in Int
    BY <1>0, <1>3 DEF addItem
  <2>2. AsksWhatIs("add", v, 0, qty, qty)
    BY DEF AsksWhatIs
  <2> QED BY <1>1, <2>1, <2>2
<1>4. ASSUME NEW v \in Goods, NEW by \in {-1, 1}, changeQty(v, by)
      PROVE  BagInv'
  <2>0. shownBag[v].qty \in Nat /\ shownBag[v].qty > 0 /\ shownBag[v].id \in Nat /\ by \in Int
    <3>1. shownBag[v] \in Line
      BY <1>0
    <3> QED BY <1>4, <3>1, BagAssumption DEF changeQty, Line
  <2>1. ASSUME Calm, BagCalm PROVE kept # 0
    <3>1. kept = 0 => shownBag[v] = NoLine
      BY <2>1 DEF BagCalm, FirstIsAlone, EmptyBag
    <3> QED BY <2>0, <3>1 DEF NoLine
  <2>2. CASE shownBag[v].qty + by = 0
    <3>1. Ask("remove", v, shownBag[v].id, 0, by, "row")
      BY <1>4, <2>2 DEF changeQty
    <3>2. Calm /\ BagCalm => AsksWhatIs("remove", v, shownBag[v].id, 0, by)
      BY <2>1, <2>2 DEF AsksWhatIs
    <3> QED BY <1>1, <2>0, <3>1, <3>2
  <2>3. CASE shownBag[v].qty + by # 0
    <3>1. Ask("set", v, shownBag[v].id, shownBag[v].qty + by, by, "row") /\ shownBag[v].qty + by \in Nat
      BY <1>4, <2>0, <2>3 DEF changeQty
    <3>2. Calm /\ BagCalm => AsksWhatIs("set", v, shownBag[v].id, shownBag[v].qty + by, by)
      BY <2>1, <2>3 DEF AsksWhatIs
    <3> QED BY <1>1, <2>0, <3>1, <3>2
  <2> QED BY <2>2, <2>3
<1> QED BY <1>2, <1>3, <1>4

-----------------------------------------------------------------------------
(* The API serves a request. *)

(* d is what becomes of c. *)
ServedAs(c, d) ==
    /\ BecomesBag(c, d) /\ c.at = "serve" /\ ~c.refused
    /\ d.op = c.op /\ d.good = c.good /\ d.by = c.by /\ d.qty = c.qty
    /\ \/ d.at = "read" /\ ~d.refused
       \/ d.at = "answer" /\ d.refused /\ c.op # "get"

LEMMA CallsServed ==
    ASSUME BagCalm, NEW c \in bagCalls, NEW d, ServedAs(c, d)
    PROVE  CallsAreMade'
BY DEF BagCalm, CallsAreMade, ServedAs, BecomesBag

(* Its row changes as was asked, no other does. *)
LEMMA GoodsServed ==
    ASSUME BagTyped, BagCalm, NEW c \in bagCalls, NEW d, ServedAs(c, d), NEW w \in Goods,
           UNCHANGED <<shownBag, lastRead, hurried, wantedUnits>>,
           w # c.good \/ c.op = "get" \/ d.refused => LineOf(w)' = LineOf(w),
           w = c.good /\ c.op # "get" /\ ~d.refused /\ w \notin hurried => LineOf(w)'.qty = wantedUnits[w]
    PROVE  OfGood(w)'
<1>0. OfGood(w)
  BY DEF BagCalm
<1>1. /\ bagCalls' = (bagCalls \ {c}) \cup {d} /\ d.op = c.op /\ d.good = c.good /\ d.by = c.by
      /\ c.at = "serve" /\ (d.at = "answer" => d.refused) /\ d.at # "serve"
  BY DEF ServedAs, BecomesBag
<1>2. About(w) \ {c} \subseteq About(w)'
  BY <1>1 DEF About
<1>3. \A n : ~Newer(c, n)
  BY <1>1 DEF Newer
<1>4. \A e \in bagCalls' : e.at = "answer" /\ ~e.refused => e \in bagCalls
  BY <1>1
<1>5. CASE w # c.good \/ c.op = "get"
  <2>1. About(w)' = About(w)
    BY <1>1, <1>5 DEF About
  <2> QED BY <1>0, <1>4, <1>5, <2>1, GoodStays
<1>6. CASE w = c.good /\ c.op # "get"
  <2>1. About(w)' = (About(w) \ {c}) \cup {d} /\ c \in About(w)
    BY <1>1, <1>6 DEF About
  <2>2. TellsAll(w)' /\ ShowsOf(w)'
    <3>1. CASE d.refused
      <4>1. LineOf(w)' = LineOf(w)
        BY <3>1
      <4>2. ASSUME NEW e \in bagCalls', e.at = "answer" /\ ~e.refused PROVE TellsOf(w, e)'
        <5>1. TellsOf(w, e)
          BY <1>0, <1>4, <4>2 DEF OfGood, TellsAll
        <5> QED BY <1>2, <1>3, <4>1, <5>1 DEF TellsOf, Newer
      <4>3. ShowsOf(w)'
        BY <1>0, <1>2, <1>3, <4>1 DEF OfGood, ShowsOf, Newer
      <4> QED BY <4>2, <4>3 DEF TellsAll
    <3>2. CASE ~d.refused
      <4>1. d.at = "read" /\ d \in About(w)'
        BY <2>1, <3>2 DEF ServedAs
      <4> QED BY <4>1 DEF TellsAll, TellsOf, ShowsOf, Newer
    <3> QED BY <3>1, <3>2
  <2>3. ASSUME w \notin hurried PROVE Alone(w)' /\ AddUp(w)' /\ AskedFor(w)'
    <3>1. Alone(w) /\ AddUp(w)
      BY <1>0, <2>3 DEF OfGood
    <3>2. About(w)' = {d}
      BY <2>1, <3>1 DEF Alone
    <3>3. wantedUnits[w] = LineOf(w).qty + c.by
      BY <1>1, <2>1, <3>1 DEF AddUp, Undone
    <3>4. Alone(w)' /\ AskedFor(w)'
      BY <1>1, <3>2 DEF Alone, AskedFor
    <3>5. AddUp(w)'
      <4>1. CASE d.refused
        BY <1>1, <3>2, <3>3, <4>1 DEF AddUp, Undone
      <4>2. CASE ~d.refused
        <5>1. LineOf(w)'.qty = wantedUnits[w] /\ wantedUnits[w] + 0 = wantedUnits[w]
          BY <1>6, <2>3, <4>2 DEF BagTyped
        <5> QED BY <1>1, <3>2, <4>2, <5>1 DEF AddUp, Undone
      <4> QED BY <4>1, <4>2
    <3> QED BY <3>4, <3>5
  <2> QED BY <2>2, <2>3 DEF OfGood
<1> QED BY <1>5, <1>6

(* The bag is found, if it was made. *)
LEMMA ResolvesToBag ==
    ASSUME BagTyped, BagIsOne, NEW c \in bagCalls
    PROVE  resolveCart(c) = bags /\ c.token = bags
BY DEF BagTyped, BagTypeOK, BagIsOne, resolveCart

LEMMA ServeAddCalm ==
    ASSUME BagTyped, BagCalm, NEW c \in bagCalls, ServeAdd(c), UNCHANGED <<bagTab, bagLimits, bagHistory>>
    PROVE  BagCalm'
<1> DEFINE old == LineOf(c.good)
           into == IF bags = 0 THEN bags + 1 ELSE bags
           line == [id |-> IF old.id = 0 THEN c.n ELSE old.id, qty |-> old.qty + c.qty]
<1>0. /\ UNCHANGED <<kept, shownBag, lastRead, hurried, wantedUnits>> /\ c \in BagCall /\ bags \in Nat
      /\ c.op = "add" /\ c.at = "serve"
  BY BagAssumption DEF bagTab, bagHistory, BagTyped, BagTypeOK, ServeAdd
<1>1. BagIsOne /\ resolveCart(c) = bags /\ c.token = bags /\ ~c.refused /\ c.by = c.qty /\ c.qty \in 1 .. BagStock
  BY <1>0, ResolvesToBag DEF BagCalm, CallsAreMade
<1>2. /\ into \in BagIds /\ bags' = into /\ bagStatus' = [bagStatus EXCEPT ![into] = "ACTIVE"]
      /\ \/ old.qty + c.qty > BagStock /\ BecomesBag(c, [c EXCEPT !.at = "answer", !.refused = TRUE])
            /\ UNCHANGED bagOf
         \/ /\ WriteLine(into, c.good, line) /\ BecomesBag(c, [c EXCEPT !.at = "read", !.token = into])
  BY <1>1 DEF ServeAdd, LineOf
<1>3. into # 0
  BY <1>0
<1>5. \A w \in Goods : bagOf[into][w] = LineOf(w)
  BY <1>1, <1>2 DEF BagIsOne, LineOf, EmptyBag
<1>6. bagStatus'[into] = "ACTIVE"
  BY <1>2 DEF BagTyped, BagTypeOK
<1>7. kept' # 0 => kept' = into
  BY <1>0, <1>1 DEF BagIsOne
<1>8. CASE old.qty + c.qty > BagStock /\ BecomesBag(c, [c EXCEPT !.at = "answer", !.refused = TRUE]) /\ UNCHANGED bagOf
  <2> PICK d : d = [c EXCEPT !.at = "answer", !.refused = TRUE]
    OBVIOUS
  <2>1. d.op = c.op /\ d.good = c.good /\ d.by = c.by /\ d.qty = c.qty /\ d.token = c.token /\ d.at = "answer" /\ d.refused
    BY <1>0 DEF BagCall
  <2>2. bags # 0
    <3>1. bags = 0 => old.qty = 0
      BY DEF LineOf, NoLine
    <3> QED BY <1>1, <1>8, <3>1, BagAssumption
  <2>3. into = bags
    BY <2>2
  <2> HIDE DEF into
  <2>4. ServedAs(c, d)
    BY <1>0, <1>1, <1>8, <2>1 DEF ServedAs
  <2>5. BagIsOne'
    BY <1>1, <1>2, <1>3, <1>6, <1>7, <1>8, <2>1, <2>3 DEF BagIsOne, BecomesBag
  <2>6. \A w \in Goods : LineOf(w)' = LineOf(w)
    BY <1>2, <1>8, <2>3 DEF LineOf
  <2>7. \A w \in Goods : OfGood(w)'
    BY <1>0, <2>1, <2>4, <2>6, GoodsServed
  <2>8. kept' # 0
    <3>1. kept = 0 => bags = 0
      BY <1>0 DEF BagCalm, FirstIsAlone
    <3> QED BY <1>0, <2>2, <3>1
  <2>9. FirstIsAlone'
    BY <2>8 DEF FirstIsAlone
  <2> QED BY <2>4, <2>5, <2>7, <2>9, CallsServed DEF BagCalm
<1>9. CASE WriteLine(into, c.good, line) /\ BecomesBag(c, [c EXCEPT !.at = "read", !.token = into])
  <2> PICK d : d = [c EXCEPT !.at = "read", !.token = into]
    OBVIOUS
  <2> HIDE DEF into
  <2>1. d.op = c.op /\ d.good = c.good /\ d.by = c.by /\ d.qty = c.qty /\ d.token = into /\ d.at = "read" /\ ~d.refused
    BY <1>0, <1>1 DEF BagCall
  <2>2. bagCalls' = (bagCalls \ {c}) \cup {d}
    BY <1>9 DEF BecomesBag
  <2>4. ServedAs(c, d)
    BY <1>0, <1>1, <1>9, <2>1 DEF ServedAs
  <2>5. ASSUME bags = 0 PROVE BagIsOne' /\ FirstIsAlone'
    <3>1. kept = 0
      BY <1>1, <2>5 DEF BagIsOne
    <3>2. bagCalls = {c} /\ shownBag = EmptyBag
      BY <1>0, <3>1 DEF BagCalm, FirstIsAlone
    <3>3. bagCalls' = {d}
      BY <2>2, <3>2
    <3>4. FirstIsAlone'
      BY <1>0, <1>2, <1>3, <2>1, <3>2, <3>3 DEF FirstIsAlone
    <3>5. BagIsOne'
      BY <1>2, <1>3, <1>6, <1>7, <2>1, <3>3 DEF BagIsOne
    <3> QED BY <3>4, <3>5
  <2>6. ASSUME bags # 0 PROVE BagIsOne' /\ FirstIsAlone'
    <3>1. into = bags
      BY <2>6 DEF into
    <3>2. kept # 0
      BY <1>0, <2>6 DEF BagCalm, FirstIsAlone
    <3>3. BagIsOne'
      BY <1>1, <1>2, <1>3, <1>6, <1>7, <2>1, <2>2, <3>1 DEF BagIsOne
    <3> QED BY <1>0, <3>2, <3>3 DEF FirstIsAlone
  <2>7. ASSUME NEW w \in Goods PROVE OfGood(w)'
    <3>1. LineOf(w)' = bagOf'[into][w]
      BY <1>2, <1>3 DEF LineOf
    <3>2. bagOf \in [BagIds -> [Goods -> Line]] /\ c.good \in Goods
      BY <1>0 DEF BagTyped, BagTypeOK, BagCall
    <3>3. bagOf'[into][w] = IF w = c.good THEN line ELSE bagOf[into][w]
      BY <1>2, <1>9, <3>2 DEF WriteLine
    <3>4. w # c.good => LineOf(w)' = LineOf(w)
      BY <1>5, <3>1, <3>3
    <3>5. w = c.good /\ w \notin hurried => LineOf(w)'.qty = wantedUnits[w]
      <4>1. SUFFICES ASSUME w = c.good, w \notin hurried PROVE LineOf(w)'.qty = wantedUnits[w]
        OBVIOUS
      <4>2. c \in About(w)
        BY <1>0, <4>1 DEF About
      <4>3. wantedUnits[w] = LineOf(w).qty + c.by
        BY <1>0, <4>1, <4>2 DEF BagCalm, OfGood, AddUp, Undone
      <4> QED BY <1>1, <3>1, <3>3, <4>1, <4>3
    <3>6. c.op # "get" /\ ~d.refused
      BY <1>0, <2>1
    <3> QED BY <1>0, <2>4, <3>4, <3>5, <3>6, GoodsServed
  <2> QED BY <2>4, <2>5, <2>6, <2>7, CallsServed DEF BagCalm
<1> QED BY <1>2, <1>8, <1>9

LEMMA ServeChangeCalm ==
    ASSUME BagTyped, BagCalm, NEW c \in bagCalls, ServeChange(c), UNCHANGED <<bagTab, bagLimits, bagHistory>>
    PROVE  BagCalm'
<1> DEFINE there == bagOf[bags][c.good].id = c.id
           line == IF c.op = "set" THEN [id |-> c.id, qty |-> c.qty] ELSE NoLine
<1>0. /\ UNCHANGED <<kept, shownBag, lastRead, hurried, wantedUnits, bags, bagStatus>> /\ c \in BagCall
      /\ bags \in Nat /\ c.op \in {"set", "remove"} /\ c.at = "serve"
  BY BagAssumption DEF bagTab, bagHistory, BagTyped, BagTypeOK, ServeChange
<1>1. BagIsOne /\ resolveCart(c) = bags /\ c.token = bags /\ ~c.refused
  BY <1>0, ResolvesToBag DEF BagCalm, CallsAreMade
<1>2. \/ BecomesBag(c, [c EXCEPT !.at = "answer", !.refused = TRUE]) /\ UNCHANGED bagOf
      \/ /\ bags # 0 /\ (c.op = "set" => there) /\ BecomesBag(c, [c EXCEPT !.at = "read"])
         /\ (IF there THEN WriteLine(bags, c.good, line) ELSE UNCHANGED bagOf)
  BY <1>1, Zenon DEF ServeChange
<1>3. kept # 0 /\ bags # 0
  <2>1. kept # 0
    BY <1>0 DEF BagCalm, FirstIsAlone
  <2> QED BY <1>1, <2>1 DEF BagIsOne
<1>4. FirstIsAlone'
  BY <1>0, <1>3 DEF FirstIsAlone
<1>5. ASSUME NEW d, BecomesBag(c, d), d.token = c.token PROVE BagIsOne'
  BY <1>0, <1>1, <1>3, <1>5 DEF BagIsOne, BecomesBag
<1>6. bags \in BagIds /\ c.good \in Goods /\ bagOf \in [BagIds -> [Goods -> Line]]
  BY <1>0, <1>3, BagAssumption DEF BagTyped, BagTypeOK, BagCall, BagIds
<1>7. CASE BecomesBag(c, [c EXCEPT !.at = "answer", !.refused = TRUE]) /\ UNCHANGED bagOf
  <2> PICK d : d = [c EXCEPT !.at = "answer", !.refused = TRUE]
    OBVIOUS
  <2>1. d.op = c.op /\ d.good = c.good /\ d.by = c.by /\ d.qty = c.qty /\ d.token = c.token /\ d.at = "answer" /\ d.refused
    BY <1>0 DEF BagCall
  <2>2. ServedAs(c, d)
    BY <1>0, <1>1, <1>7, <2>1 DEF ServedAs
  <2>3. \A w \in Goods : LineOf(w)' = LineOf(w)
    BY <1>0, <1>7 DEF LineOf
  <2>4. \A w \in Goods : OfGood(w)'
    BY <1>0, <2>1, <2>2, <2>3, GoodsServed
  <2> QED BY <1>4, <1>5, <1>7, <2>1, <2>2, <2>4, CallsServed DEF BagCalm
<1>8. CASE /\ bags # 0 /\ (c.op = "set" => there) /\ BecomesBag(c, [c EXCEPT !.at = "read"])
           /\ (IF there THEN WriteLine(bags, c.good, line) ELSE UNCHANGED bagOf)
  <2> PICK d : d = [c EXCEPT !.at = "read"]
    OBVIOUS
  <2>1. d.op = c.op /\ d.good = c.good /\ d.by = c.by /\ d.qty = c.qty /\ d.token = c.token /\ d.at = "read" /\ ~d.refused
    BY <1>0, <1>1 DEF BagCall
  <2>2. ServedAs(c, d)
    BY <1>0, <1>1, <1>8, <2>1 DEF ServedAs
  <2>3. ASSUME NEW w \in Goods PROVE OfGood(w)'
    <3>1. LineOf(w)' = bagOf'[bags][w] /\ LineOf(w) = bagOf[bags][w]
      BY <1>0, <1>3 DEF LineOf
    <3>2. bagOf'[bags][w] = IF w = c.good /\ there THEN line ELSE bagOf[bags][w]
      <4> HIDE DEF line
      <4>1. CASE there
        <5>1. bagOf' = [bagOf EXCEPT ![bags][c.good] = line]
          BY <1>8, <4>1 DEF WriteLine
        <5> HIDE DEF there
        <5> QED BY <1>6, <4>1, <5>1
      <4>2. CASE ~there
        BY <1>8, <4>2
      <4> QED BY <4>1, <4>2
    <3>3. w # c.good => LineOf(w)' = LineOf(w)
      BY <3>1, <3>2
    <3>4. w = c.good /\ w \notin hurried => LineOf(w)'.qty = wantedUnits[w]
      <4>1. SUFFICES ASSUME w = c.good, w \notin hurried PROVE LineOf(w)'.qty = wantedUnits[w]
        OBVIOUS
      <4>2. c \in About(w)
        BY <1>0, <4>1 DEF About
      <4>3. OfGood(w) /\ AddUp(w) /\ AskedFor(w)
        BY <4>1 DEF BagCalm, OfGood
      <4>4. wantedUnits[w] = LineOf(w).qty + c.by /\ c.id = LineOf(w).id
        BY <1>0, <4>2, <4>3 DEF AddUp, AskedFor, Undone
      <4>5. there
        BY <3>1, <4>1, <4>4
      <4>6. LineOf(w)' = line
        BY <3>1, <3>2, <4>1, <4>5
      <4>7. CASE c.op = "set"
        <5>1. c.qty = LineOf(w).qty + c.by
          BY <1>0, <4>2, <4>3, <4>7 DEF AskedFor
        <5> QED BY <4>4, <4>6, <4>7, <5>1
      <4>8. CASE c.op = "remove"
        <5>1. LineOf(w).qty + c.by = 0
          BY <1>0, <4>2, <4>3, <4>8 DEF AskedFor
        <5> QED BY <4>4, <4>6, <4>8, <5>1 DEF NoLine
      <4> QED BY <1>0, <4>7, <4>8
    <3>5. c.op # "get" /\ ~d.refused
      BY <1>0, <2>1
    <3> QED BY <1>0, <2>2, <3>3, <3>4, <3>5, GoodsServed
  <2> QED BY <1>4, <1>5, <1>8, <2>1, <2>2, <2>3, CallsServed DEF BagCalm
<1> QED BY <1>2, <1>7, <1>8

LEMMA ServeGetCalm ==
    ASSUME BagTyped, BagCalm, NEW c \in bagCalls, ServeGet(c), UNCHANGED <<bagTab, bagLimits, bagHistory>>
    PROVE  BagCalm'
<1>0. /\ UNCHANGED <<kept, shownBag, lastRead, hurried, wantedUnits, bagOf, bags, bagStatus>> /\ c \in BagCall
      /\ c.op = "get" /\ c.at = "serve"
  BY DEF bagTab, bagHistory, BagTyped, BagTypeOK, ServeGet, bagServer
<1>1. BagIsOne /\ resolveCart(c) = bags /\ c.token = bags /\ ~c.refused
  BY <1>0, ResolvesToBag DEF BagCalm, CallsAreMade
<1> PICK d : d = [c EXCEPT !.at = "read", !.token = bags]
  OBVIOUS
<1>2. d.op = c.op /\ d.good = c.good /\ d.by = c.by /\ d.qty = c.qty /\ d.token = bags /\ d.at = "read" /\ ~d.refused
  BY <1>0, <1>1 DEF BagCall
<1>3. BecomesBag(c, d)
  BY <1>1 DEF ServeGet
<1>4. ServedAs(c, d)
  BY <1>0, <1>1, <1>2, <1>3 DEF ServedAs
<1>5. BagIsOne'
  BY <1>0, <1>1, <1>2, <1>3 DEF BagIsOne, BecomesBag
<1>6. FirstIsAlone'
  <2>1. SUFFICES ASSUME kept = 0 PROVE FirstIsAlone'
    BY <1>0 DEF FirstIsAlone
  <2>2. shownBag = EmptyBag /\ bags = 0 /\ \A e \in bagCalls : e.op = "get"
    BY <1>0, <2>1 DEF BagCalm, FirstIsAlone
  <2>3. \A e \in bagCalls' : e.op = "get"
    BY <1>0, <1>2, <1>3, <2>2 DEF BecomesBag
  <2> QED BY <1>0, <2>2, <2>3 DEF FirstIsAlone
<1>7. \A w \in Goods : LineOf(w)' = LineOf(w)
  BY <1>0 DEF LineOf
<1>8. \A w \in Goods : OfGood(w)'
  BY <1>0, <1>4, <1>7, GoodsServed
<1> QED BY <1>4, <1>5, <1>6, <1>8, CallsServed DEF BagCalm

LEMMA ServeKeeps ==
    ASSUME BagInv, NEW c \in bagCalls, Serve(c)
    PROVE  BagInv'
<1>1. (ServeAdd(c) \/ ServeChange(c) \/ ServeGet(c)) /\ UNCHANGED <<bagTab, bagLimits, bagHistory>>
  BY DEF Serve
<1>2. BagTyped'
  BY <1>1, ServeAddTyped, ServeChangeTyped, ServeGetTyped DEF BagInv
<1>3. ASSUME Calm' PROVE BagCalm'
  <2>1. Calm
    BY <1>1, <1>3 DEF Calm, bagHistory
  <2> QED BY <1>1, <2>1, ServeAddCalm, ServeChangeCalm, ServeGetCalm DEF BagInv
<1> QED BY <1>2, <1>3 DEF BagInv

-----------------------------------------------------------------------------
(* The API reads the bag: the newest answer tells what is in it. *)

LEMMA ReadViewCalm ==
    ASSUME BagTyped, BagCalm, NEW c \in bagCalls, ReadView(c)
    PROVE  BagCalm'
<1> DEFINE view == IF c.token = 0 THEN EmptyBag ELSE bagOf[c.token]
<1>0. /\ UNCHANGED <<kept, shownBag, lastRead, hurried, wantedUnits, bagOf, bags, bagStatus>> /\ c \in BagCall
      /\ c.at = "read" /\ bagReads \in Nat /\ lastRead \in 0 .. bagReads
  BY DEF bagTab, bagHistory, BagTyped, BagTypeOK, ReadView, bagServer
<1>1. BagIsOne /\ c.token = bags /\ ~c.refused
  BY <1>0 DEF BagCalm, CallsAreMade, BagIsOne
<1>2. \A w \in Goods : view[w] = LineOf(w)
  BY <1>1 DEF LineOf, EmptyBag
<1>3. BecomesBag(c, [c EXCEPT !.at = "answer", !.read = bagReads + 1, !.view = view])
  BY DEF ReadView
<1> HIDE DEF view
<1> PICK d : d = [c EXCEPT !.at = "answer", !.read = bagReads + 1, !.view = view]
  OBVIOUS
<1>4. /\ d.op = c.op /\ d.good = c.good /\ d.by = c.by /\ d.qty = c.qty /\ d.token = c.token /\ d.at = "answer"
      /\ ~d.refused /\ d.read = bagReads + 1 /\ d.view = view
  BY <1>0, <1>1 DEF BagCall
<1>5. bagCalls' = (bagCalls \ {c}) \cup {d}
  BY <1>3 DEF BecomesBag
<1>6. BagIsOne' /\ CallsAreMade'
  BY <1>0, <1>1, <1>4, <1>5 DEF BagCalm, BagIsOne, CallsAreMade
<1>7. FirstIsAlone'
  <2>1. SUFFICES ASSUME kept = 0 PROVE FirstIsAlone'
    BY <1>0 DEF FirstIsAlone
  <2>2. CASE bags = 0 /\ \A e \in bagCalls : e.op = "get"
    BY <1>0, <1>4, <1>5, <2>1, <2>2 DEF BagCalm, FirstIsAlone
  <2>3. CASE \E e \in bagCalls : /\ bagCalls = {e} /\ e.op = "add" /\ ~e.refused
                                 /\ bags = 0 <=> e.at = "serve"
    <3>1. bagCalls = {c} /\ c.op = "add" /\ bags # 0 /\ shownBag = EmptyBag
      BY <1>0, <2>1, <2>3 DEF BagCalm, FirstIsAlone
    <3>2. bagCalls' = {d}
      BY <1>5, <3>1
    <3> QED BY <1>0, <1>4, <3>1, <3>2 DEF FirstIsAlone
  <2> QED BY <2>1, <2>2, <2>3 DEF BagCalm, FirstIsAlone
<1>8. ASSUME NEW w \in Goods PROVE OfGood(w)'
  <2>0. OfGood(w) /\ LineOf(w)' = LineOf(w)
    BY <1>0 DEF BagCalm, LineOf
  <2>1. About(w)' = IF c \in About(w) THEN (About(w) \ {c}) \cup {d} ELSE About(w)
    BY <1>4, <1>5 DEF About
  <2>2. ASSUME NEW n \in 0 .. bagReads, NEW e \in About(w), Newer(e, n)
        PROVE  \E f \in About(w)' : Newer(f, n)
    <3>1. CASE e = c
      <4>1. d \in About(w)'
        BY <2>1, <2>2, <3>1
      <4>2. bagReads + 1 > n
        BY <1>0
      <4>3. Newer(d, n)
        BY <1>4, <4>2 DEF Newer
      <4> QED BY <4>1, <4>3
    <3>2. CASE e # c
      BY <2>1, <2>2, <3>2
    <3> QED BY <3>1, <3>2
  <2>3. ShowsOf(w)'
    BY <1>0, <2>0, <2>2 DEF OfGood, ShowsOf
  <2>4. ASSUME NEW e \in bagCalls', e.at = "answer" /\ ~e.refused PROVE TellsOf(w, e)'
    <3>1. CASE e = d
      BY <1>2, <1>4, <2>0, <3>1 DEF TellsOf
    <3>2. CASE e # d
      <4>1. e \in bagCalls /\ e.read \in 0 .. bagReads
        BY <1>5, <3>2 DEF BagTyped
      <4>2. TellsOf(w, e)
        BY <2>0, <2>4, <4>1 DEF OfGood, TellsAll
      <4> QED BY <1>0, <2>0, <2>2, <4>1, <4>2 DEF TellsOf
    <3> QED BY <3>1, <3>2
  <2>5. ASSUME w \notin hurried PROVE Alone(w)' /\ AddUp(w)' /\ AskedFor(w)'
    <3>1. Alone(w) /\ AddUp(w) /\ AskedFor(w)
      BY <2>0, <2>5 DEF OfGood
    <3>2. CASE c \in About(w)
      <4>1. About(w) = {c} /\ About(w)' = {d}
        BY <2>1, <3>1, <3>2 DEF Alone
      <4> QED BY <1>0, <1>1, <1>4, <2>0, <3>1, <4>1 DEF Alone, AddUp, AskedFor, Undone
    <3>3. CASE c \notin About(w)
      BY <1>0, <2>0, <2>1, <3>1, <3>3 DEF Alone, AddUp, AskedFor, Undone
    <3> QED BY <3>2, <3>3
  <2> QED BY <1>0, <2>3, <2>4, <2>5 DEF OfGood, TellsAll
<1> QED BY <1>6, <1>7, <1>8 DEF BagCalm

-----------------------------------------------------------------------------
(* Answers. *)

LEMMA LineOfTypes ==
    ASSUME BagTyped, NEW w \in Goods
    PROVE  LineOf(w) \in Line /\ LineOf(w).qty \in Nat
<1>1. LineOf(w) \in Line
  <2>1. bags \in 0 .. MaxBags /\ MaxBags \in Nat /\ bagOf \in [BagIds -> [Goods -> Line]]
    BY BagAssumption DEF BagTyped, BagTypeOK
  <2>2. CASE bags = 0
    BY <2>2, LineTypes DEF LineOf
  <2>3. CASE bags # 0
    <3>1. bags \in BagIds
      BY <2>1, <2>3 DEF BagIds
    <3> QED BY <2>1, <2>3, <3>1 DEF LineOf
  <2> QED BY <2>2, <2>3
<1> QED BY <1>1, BagAssumption DEF Line

LEMMA CommitCalm ==
    ASSUME BagTyped, BagCalm, NEW c \in bagCalls, commit(c), ~outOfOrder'
    PROVE  BagCalm'
<1>0. /\ bagCalls' = bagCalls \ {c} /\ shownBag' = c.view /\ kept' = c.token /\ lastRead' = c.read
      /\ UNCHANGED <<bagOf, bags, bagStatus, hurried, wantedUnits>> /\ c.at = "answer" /\ ~c.refused
      /\ ~(c.read < lastRead)
  BY Zenon DEF commit, bagServer
<1>1. /\ c \in BagCall /\ c.view \in [Goods -> Line] /\ bagReads \in Nat /\ lastRead \in 0 .. bagReads
      /\ \A e \in bagCalls : e.read \in 0 .. bagReads
  BY DEF BagTyped, BagTypeOK, BagCall
<1>2. c.read >= lastRead /\ c.read \in Nat /\ lastRead \in Nat
  <2>1. c.read \in Nat /\ lastRead \in Nat
    BY <1>1
  <2> QED BY <1>0, <2>1
<1>3. BagIsOne' /\ CallsAreMade'
  BY <1>0 DEF BagCalm, BagIsOne, CallsAreMade
<1>4. ASSUME NEW w \in Goods PROVE TellsOf(w, c)
  BY <1>0 DEF BagCalm, OfGood, TellsAll
<1>5. FirstIsAlone'
  <2>1. SUFFICES ASSUME bags = 0 PROVE FirstIsAlone'
    BY <1>0 DEF BagCalm, BagIsOne, FirstIsAlone
  <2>2. kept = 0
    BY <2>1 DEF BagCalm, BagIsOne
  <2>3. \A e \in bagCalls : e.op = "get"
    BY <1>0, <2>1, <2>2 DEF BagCalm, FirstIsAlone
  <2>4. ASSUME NEW w \in Goods PROVE c.view[w] = NoLine
    <3>1. About(w) = {} /\ LineOf(w) = NoLine
      BY <2>1, <2>3 DEF About, LineOf
    <3> QED BY <1>0, <1>4, <3>1 DEF TellsOf
  <2>5. c.view = EmptyBag
    BY <1>1, <2>4 DEF EmptyBag
  <2> QED BY <1>0, <2>1, <2>3, <2>5 DEF FirstIsAlone
<1>6. ASSUME NEW w \in Goods PROVE OfGood(w)'
  <2>0. OfGood(w) /\ LineOf(w)' = LineOf(w) /\ About(w)' = About(w) \ {c}
    BY <1>0 DEF BagCalm, LineOf, About
  <2>1. ShowsOf(w)'
    <3>1. c.view[w] = LineOf(w) \/ \E e \in About(w) : Newer(e, c.read)
      BY <1>0, <1>4 DEF TellsOf
    <3>2. ~Newer(c, c.read)
      BY <1>0, <1>2 DEF Newer
    <3> QED BY <1>0, <2>0, <3>1, <3>2 DEF ShowsOf, Newer
  <2>2. ASSUME NEW e \in bagCalls', e.at = "answer" /\ ~e.refused PROVE TellsOf(w, e)'
    <3>1. e \in bagCalls /\ e.read \in Nat
      BY <1>0, <1>1
    <3>2. TellsOf(w, e)
      BY <2>0, <2>2, <3>1 DEF OfGood, TellsAll
    <3>3. CASE e.read < lastRead
      <4>1. e.read < c.read
        BY <1>2, <3>1, <3>3
      <4> QED BY <1>0, <4>1 DEF TellsOf
    <3>4. CASE Newer(c, e.read)
      <4>1. e.read < c.read
        BY <1>0, <1>2, <3>1, <3>4 DEF Newer
      <4> QED BY <1>0, <4>1 DEF TellsOf
    <3> QED BY <1>0, <2>0, <3>2, <3>3, <3>4 DEF TellsOf, Newer
  <2>3. ASSUME w \notin hurried PROVE Alone(w)' /\ AddUp(w)' /\ AskedFor(w)'
    <3>1. Alone(w) /\ AddUp(w) /\ AskedFor(w)
      BY <2>0, <2>3 DEF OfGood
    <3>2. CASE c \in About(w)
      <4>1. About(w)' = {}
        BY <2>0, <3>1, <3>2 DEF Alone
      <4>2. wantedUnits[w] = LineOf(w).qty + 0
        BY <1>0, <3>1, <3>2 DEF AddUp, Undone
      <4>3. LineOf(w).qty \in Nat
        BY LineOfTypes
      <4> QED BY <1>0, <2>0, <4>1, <4>2, <4>3 DEF Alone, AddUp, AskedFor
    <3>3. CASE c \notin About(w)
      BY <1>0, <2>0, <3>1, <3>3 DEF Alone, AddUp, AskedFor, Undone
    <3> QED BY <3>2, <3>3
  <2> QED BY <1>0, <2>1, <2>2, <2>3 DEF OfGood, TellsAll
<1> QED BY <1>3, <1>5, <1>6 DEF BagCalm

(* What was refused was not done. *)
LEMMA RefuseCalm ==
    ASSUME BagTyped, BagCalm, NEW c \in bagCalls, Refuse(c)
    PROVE  BagCalm'
<1>0. /\ bagCalls' = bagCalls \ {c} /\ wantedUnits' = [wantedUnits EXCEPT ![c.good] = @ - c.by]
      /\ UNCHANGED <<bagOf, bags, bagStatus, kept, shownBag, lastRead, hurried>> /\ c.at = "answer" /\ c.refused
  BY DEF Refuse, GivenUp, bagServer
<1>1. c \in BagCall /\ c.good \in Goods /\ c.by \in Int /\ c.op # "get" /\ wantedUnits \in [Goods -> Int]
  BY <1>0 DEF BagTyped, BagTypeOK, BagCall, BagCalm, CallsAreMade
<1>2. BagIsOne' /\ CallsAreMade'
  BY <1>0 DEF BagCalm, BagIsOne, CallsAreMade
<1>3. FirstIsAlone'
  <2>1. kept # 0
    BY <1>0, <1>1 DEF BagCalm, FirstIsAlone
  <2> QED BY <1>0, <2>1 DEF FirstIsAlone
<1>4. ASSUME NEW w \in Goods PROVE OfGood(w)'
  <2>0. OfGood(w) /\ LineOf(w)' = LineOf(w) /\ About(w)' = About(w) \ {c} /\ \A n : ~Newer(c, n)
    BY <1>0 DEF BagCalm, LineOf, About, Newer
  <2>1. ShowsOf(w)'
    BY <1>0, <2>0 DEF OfGood, ShowsOf, Newer
  <2>2. ASSUME NEW e \in bagCalls', e.at = "answer" /\ ~e.refused PROVE TellsOf(w, e)'
    <3>1. TellsOf(w, e)
      BY <1>0, <2>0, <2>2 DEF OfGood, TellsAll
    <3> QED BY <1>0, <2>0, <3>1 DEF TellsOf, Newer
  <2>3. ASSUME w \notin hurried PROVE Alone(w)' /\ AddUp(w)' /\ AskedFor(w)'
    <3>1. Alone(w) /\ AddUp(w) /\ AskedFor(w)
      BY <2>0, <2>3 DEF OfGood
    <3>2. CASE c \in About(w)
      <4>1. About(w)' = {} /\ w = c.good
        BY <2>0, <3>1, <3>2 DEF Alone, About
      <4>2. wantedUnits[w] = LineOf(w).qty + c.by
        BY <1>0, <3>1, <3>2 DEF AddUp, Undone
      <4>3. LineOf(w).qty \in Nat
        BY LineOfTypes
      <4>4. wantedUnits'[w] = LineOf(w).qty
        BY <1>0, <1>1, <4>1, <4>2, <4>3
      <4> QED BY <2>0, <4>1, <4>4 DEF Alone, AddUp, AskedFor
    <3>3. CASE c \notin About(w)
      <4>1. wantedUnits'[w] = wantedUnits[w]
        BY <1>0, <1>1, <3>3 DEF About
      <4> QED BY <1>0, <2>0, <3>1, <3>3, <4>1 DEF Alone, AddUp, AskedFor, Undone
    <3> QED BY <3>2, <3>3
  <2> QED BY <1>0, <2>1, <2>2, <2>3 DEF OfGood, TellsAll
<1> QED BY <1>2, <1>3, <1>4 DEF BagCalm

LEMMA BagAnswerKeeps ==
    ASSUME BagInv, NEW c \in bagCalls, ReadView(c) \/ commit(c) \/ Refuse(c) \/ CallFails(c)
    PROVE  BagInv'
<1>1. BagTyped'
  BY ReadViewTyped, AnswerTyped DEF BagInv
<1>2. ASSUME Calm' PROVE BagCalm'
  <2>1. CASE ReadView(c)
    <3>1. Calm
      BY <1>2, <2>1 DEF Calm, ReadView, bagHistory
    <3> QED BY <2>1, <3>1, ReadViewCalm DEF BagInv
  <2>2. CASE commit(c)
    <3>1. outOfOrder' = (outOfOrder \/ c.read < lastRead) /\ UNCHANGED <<twoFirsts, unanswered>>
      BY <2>2 DEF commit
    <3>2. Calm /\ ~outOfOrder'
      BY <1>2, <3>1, Zenon DEF Calm
    <3> QED BY <2>2, <3>2, CommitCalm DEF BagInv
  <2>3. CASE Refuse(c)
    <3>1. Calm
      BY <1>2, <2>3 DEF Calm, Refuse, GivenUp
    <3> QED BY <2>3, <3>1, RefuseCalm DEF BagInv
  <2>4. CASE CallFails(c)
    BY <1>2, <2>4 DEF Calm, CallFails
  <2> QED BY <2>1, <2>2, <2>3, <2>4
<1> QED BY <1>1, <1>2 DEF BagInv

LEMMA BagRestKeeps ==
    ASSUME BagInv, AddTimerFires \/ (\E k \in BagIds : Convert(k)) \/ UNCHANGED bagVars
    PROVE  BagInv'
<1>1. BagTyped'
  BY BagRestTyped DEF BagInv
<1>2. ASSUME Calm' PROVE BagCalm'
  <2>1. UNCHANGED <<bagOf, bagStatus, bags, kept, shownBag, bagCalls, wantedUnits, lastRead, outOfOrder, hurried,
                    twoFirsts, unanswered>>
    BY <1>2 DEF AddTimerFires, Convert, Calm, bagServer, bagTab, bagLimits, bagHistory, bagVars
  <2>2. BagCalm
    BY <1>2, <2>1 DEF Calm, BagInv
  <2>3. BagIsOne' /\ CallsAreMade' /\ FirstIsAlone'
    BY <2>1, <2>2 DEF BagCalm, BagIsOne, CallsAreMade, FirstIsAlone
  <2>4. ASSUME NEW w \in Goods PROVE OfGood(w)'
    BY <2>1, <2>2, GoodStays DEF BagCalm, LineOf, About
  <2> QED BY <2>3, <2>4 DEF BagCalm
<1> QED BY <1>1, <1>2 DEF BagInv

LEMMA BagSteps == BagInv /\ [BagNext]_bagVars => BagInv'
BY ClickKeeps, ServeKeeps, BagAnswerKeeps, BagRestKeeps DEF BagNext

(* Carts, requests and what the tab shows keep their types. *)
THEOREM BagTypes == BagSpec => []BagTypeOK
<1>1. BagInv => BagTypeOK
  BY DEF BagInv, BagTyped
<1> QED BY <1>1, BagStarts, BagSteps, PTL DEF BagSpec

(* Every click counts once, and the tab shows what the bag holds: from        *)
(* nothing to the first addition, through answers in any order.              *)
THEOREM BagHolds == BagSpec => []ClicksCount
BY BagCounts, BagStarts, BagSteps, PTL DEF BagSpec

-----------------------------------------------------------------------------
(* The choice of a variant.                                                *)

(* Every addition in flight is its own button's or was set back, and will    *)
(* leave one timer at most.                                                 *)
AddsOK ==
    /\ PickerTypeOK /\ IsFunction(selected)
    /\ IsFiniteSet(adding) /\ setBack \in Nat
    /\ Cardinality(adding) <= setBack + (IF addStatus = "adding" THEN 1 ELSE 0)
    /\ addTimers + Cardinality(adding) <= adds
MeantOK ==
    \A c \in adding : Complete(product) /\ Len(product) > 1 => product[c.variant].picks = c.meant

(* The card asks while it is open and says so. *)
CardOK ==
    \/ cardCalls = {}
    \/ quick.open /\ quick.state = "loading" /\ \E n : cardCalls = {<<"load", n>>}
    \/ quick.open /\ quick.state = "adding" /\ \E n : cardCalls = {<<"add", n>>}
CardTyped == quick = [open |-> quick.open, loaded |-> quick.loaded, state |-> quick.state]

PickerInv == AddsOK /\ MeantOK /\ CardTyped /\ CardOK

LEMMA PickerMeans == PickerInv => PickIsMeant
<1> SUFFICES ASSUME PickerInv PROVE PickIsMeant
  OBVIOUS
<1>1. Cardinality(adding) <= 1 + setBack
  <2>1. Cardinality(adding) \in Nat
    BY FS_CardinalityType DEF PickerInv, AddsOK
  <2> QED BY <2>1 DEF PickerInv, AddsOK
<1>2. Cardinality(cardCalls) <= 1
  <2>1. CASE cardCalls = {}
    BY <2>1, FS_EmptySet
  <2>2. ASSUME NEW x, cardCalls = {x} PROVE Cardinality(cardCalls) <= 1
    <3>1. Cardinality({x}) = 1
      BY FS_Singleton
    <3> QED BY <2>2, <3>1
  <2> QED BY <2>1, <2>2 DEF PickerInv, CardOK
<1> QED BY <1>1, <1>2 DEF PickIsMeant, PickerInv, MeantOK

LEMMA PickerStarts == PickerInit => PickerInv
<1> SUFFICES ASSUME PickerInit PROVE PickerInv
  OBVIOUS
<1>1. Cardinality(adding) = 0 /\ IsFiniteSet(adding)
  BY FS_EmptySet DEF PickerInit
<1>2. PickerTypeOK
  BY PickerAssumption DEF PickerInit, PickerTypeOK
<1>3. IsFunction(selected)
  BY DEF PickerInit, IsFunction
<1>4. AddsOK
  BY <1>1, <1>2, <1>3 DEF PickerInit, AddsOK
<1> QED BY <1>4 DEF PickerInit, PickerInv, MeantOK, CardTyped, CardOK

(* The first that matches is one that does. *)
LEMMA MatchIs ==
    ASSUME product \in Products, Len(product) > 1, matchedVariant # 0
    PROVE  /\ matchedVariant \in DOMAIN product /\ Matching(product[matchedVariant])
           /\ DOMAIN selected = OptionsOf(product)
<1> DEFINE fitting == {i \in DOMAIN product : Matching(product[i])}
<1>0. Len(product) # 1
  <2> DEFINE n == Len(product)
  <2>1. n > 1
    OBVIOUS
  <2>2. n \in Nat
    BY PickerAssumption
  <2>3. n # 1
    <3> HIDE DEF n
    <3> QED BY ONLY <2>1, <2>2
  <2> QED BY ONLY <2>3
<1>1. /\ matchedVariant = (IF fitting = {} THEN 0 ELSE CHOOSE i \in fitting : \A j \in fitting : i <= j)
      /\ DOMAIN selected = OptionsOf(product)
  BY <1>0 DEF matchedVariant, First
<1>3. fitting # {} /\ fitting \subseteq Nat
  BY <1>1, PickerAssumption
<1>4. \E i \in fitting : \A j \in fitting : i <= j
  BY <1>3, LeastNat
<1>5. matchedVariant \in fitting
  BY <1>1, <1>3, <1>4
<1> QED BY <1>1, <1>5

(* The card stays. *)
LEMMA SheetMoves ==
    ASSUME PickerInv, UNCHANGED <<quick, cardCalls>>, AddsOK', MeantOK'
    PROVE  PickerInv'
BY DEF PickerInv, CardTyped, CardOK

LEMMA CardMoves ==
    ASSUME PickerInv, UNCHANGED sheetVars, adds' \in adds .. MaxAdds, CardTyped', CardOK',
           quick'.state \in {"idle", "loading", "adding", "added", "error"}
    PROVE  PickerInv'
<1>1. AddsOK'
  <2>1. Cardinality(adding) \in Nat
    BY FS_CardinalityType DEF PickerInv, AddsOK
  <2>2. PickerTypeOK'
    BY PickerAssumption DEF PickerInv, AddsOK, PickerTypeOK, sheetVars
  <2> QED BY <2>1, <2>2, PickerAssumption DEF PickerInv, AddsOK, PickerTypeOK, sheetVars
<1>2. MeantOK'
  BY DEF PickerInv, MeantOK, sheetVars
<1> QED BY <1>1, <1>2 DEF PickerInv

LEMMA SelectedKeeps ==
    ASSUME PickerInv, NEW o, NEW x, setSelected(o, x)
    PROVE  PickerInv'
<1>1. IsFunction(selected')
  BY DEF setSelected, IsFunction
<1>2. AddsOK'
  BY <1>1 DEF PickerInv, AddsOK, PickerTypeOK, setSelected, cardVars
<1>3. MeantOK'
  BY DEF PickerInv, MeantOK, setSelected
<1> QED BY <1>2, <1>3, SheetMoves DEF setSelected, cardVars

LEMMA QuantityKeeps ==
    ASSUME PickerInv, NEW n \in 1 .. MostUnits, setQty(n)
    PROVE  PickerInv'
<1>1. AddsOK'
  BY DEF PickerInv, AddsOK, PickerTypeOK, setQty, cardVars
<1>2. MeantOK'
  BY DEF PickerInv, MeantOK, setQty
<1> QED BY <1>1, <1>2, SheetMoves DEF setQty, cardVars

LEMMA HandleAddKeeps ==
    ASSUME PickerInv, NEW buyNow \in BOOLEAN, handleAdd(buyNow)
    PROVE  PickerInv'
<1> PICK c : c = [n |-> adds + 1, variant |-> matchedVariant, qty |-> units, buyNow |-> buyNow,
                  meant |-> selected]
  OBVIOUS
<1>1. /\ addStatus # "adding" /\ adds < MaxAdds /\ matchedVariant # 0
      /\ adds' = adds + 1 /\ addStatus' = "adding" /\ adding' = adding \cup {c}
      /\ UNCHANGED <<product, selected, units, addTimers, setBack, quick, cardCalls>>
  BY DEF handleAdd, CanAdd, cardVars
<1>2. c.variant = matchedVariant /\ c.meant = selected
  OBVIOUS
<1>3. /\ IsFiniteSet(adding') /\ Cardinality(adding) \in Nat /\ Cardinality(adding') \in Nat
      /\ Cardinality(adding') <= Cardinality(adding) + 1
  <2>1. IsFiniteSet(adding)
    BY DEF PickerInv, AddsOK
  <2>2. /\ IsFiniteSet(adding \cup {c}) /\ Cardinality(adding) \in Nat /\ Cardinality(adding \cup {c}) \in Nat
    <3>1. IsFiniteSet(adding \cup {c})
      BY <2>1, FS_AddElement
    <3> QED BY <2>1, <3>1, FS_CardinalityType
  <2>3. \/ Cardinality(adding \cup {c}) = Cardinality(adding)
        \/ Cardinality(adding \cup {c}) = Cardinality(adding) + 1
    BY <2>1, FS_AddElement
  <2> QED BY <1>1, <2>2, <2>3
<1>4. AddsOK'
  <2>1. PickerTypeOK'
    BY <1>1, PickerAssumption DEF PickerInv, AddsOK, PickerTypeOK
  <2> QED BY <1>1, <1>3, <2>1 DEF PickerInv, AddsOK, PickerTypeOK
<1>5. MeantOK'
  <2>1. ASSUME Complete(product), Len(product) > 1 PROVE product[c.variant].picks = c.meant
    <3>1. product \in Products
      BY DEF PickerInv, AddsOK, PickerTypeOK
    <3>2. /\ matchedVariant \in DOMAIN product /\ Matching(product[matchedVariant])
          /\ DOMAIN selected = OptionsOf(product)
      BY <1>1, <2>1, <3>1, MatchIs
    <3>3. DOMAIN product[matchedVariant].picks = DOMAIN selected
      BY <2>1, <3>2 DEF Complete
    <3>4. IsFunction(product[matchedVariant].picks) /\ IsFunction(selected)
      BY <3>1, <3>2, PickerAssumption DEF PickerInv, AddsOK
    <3>5. \A o \in DOMAIN selected : product[matchedVariant].picks[o] = selected[o]
      BY <3>2, <3>3 DEF Matching
    <3> QED BY <1>2, <3>3, <3>4, <3>5 DEF IsFunction
  <2> QED BY <1>1, <2>1 DEF PickerInv, MeantOK, Complete, OptionsOf
<1> QED BY <1>1, <1>4, <1>5, SheetMoves

LEMMA AnsweredKeeps ==
    ASSUME PickerInv, NEW c \in adding, NEW ok \in BOOLEAN, AddAnswered(c, ok)
    PROVE  PickerInv'
<1>1. /\ adding' = adding \ {c} /\ addStatus' = (IF ok THEN "added" ELSE "idle")
      /\ addTimers' = (IF ok THEN addTimers + 1 ELSE addTimers)
      /\ UNCHANGED <<product, selected, units, adds, setBack, quick, cardCalls>>
  BY DEF AddAnswered, cardVars
<1>2. /\ IsFiniteSet(adding') /\ Cardinality(adding) \in Nat /\ Cardinality(adding') \in Nat
      /\ Cardinality(adding') = Cardinality(adding) - 1
  BY <1>1, FS_RemoveElement, FS_CardinalityType DEF PickerInv, AddsOK
<1>3. AddsOK'
  <2>1. addTimers' \in 0 .. adds
    BY <1>1, <1>2, PickerAssumption DEF PickerInv, AddsOK, PickerTypeOK
  <2>2. PickerTypeOK'
    BY <1>1, <2>1 DEF PickerInv, AddsOK, PickerTypeOK
  <2> QED BY <1>1, <1>2, <2>2 DEF PickerInv, AddsOK, PickerTypeOK
<1>4. MeantOK'
  BY <1>1 DEF PickerInv, MeantOK, Complete, OptionsOf
<1> QED BY <1>1, <1>3, <1>4, SheetMoves

LEMMA TimerKeeps ==
    ASSUME PickerInv, TimerFires
    PROVE  PickerInv'
<1>1. /\ addTimers > 0 /\ addTimers' = addTimers - 1 /\ addStatus' = "idle"
      /\ setBack' = IF addStatus = "adding" THEN setBack + 1 ELSE setBack
      /\ UNCHANGED <<product, selected, units, adding, adds, quick, cardCalls>>
  BY DEF TimerFires, cardVars
<1>2. Cardinality(adding) \in Nat
  BY FS_CardinalityType DEF PickerInv, AddsOK
<1>3. AddsOK'
  <2>1. PickerTypeOK'
    BY <1>1, PickerAssumption DEF PickerInv, AddsOK, PickerTypeOK
  <2> QED BY <1>1, <1>2, <2>1 DEF PickerInv, AddsOK, PickerTypeOK
<1>4. MeantOK'
  BY <1>1 DEF PickerInv, MeantOK, Complete, OptionsOf
<1> QED BY <1>1, <1>3, <1>4, SheetMoves

LEMMA CardKeeps ==
    ASSUME PickerInv,
           \/ reveal
           \/ \E i \in DOMAIN product : pick(i)
           \/ \E c \in cardCalls, ok \in BOOLEAN : LoadAnswered(c, ok) \/ PickAnswered(c, ok)
           \/ CardCloses
    PROVE  PickerInv'
<1>0. adds \in 0 .. MaxAdds /\ MaxAdds \in Nat
  BY PickerAssumption DEF PickerInv, AddsOK, PickerTypeOK
<1>1. CASE reveal
  <2>1. cardCalls = {}
    BY <1>1 DEF PickerInv, CardOK, reveal
  <2>2. CASE quick.loaded
    <3>1. quick' = [quick EXCEPT !.open = TRUE] /\ UNCHANGED <<cardCalls, adds>> /\ UNCHANGED sheetVars
      BY <1>1, <2>2 DEF reveal
    <3>2. CardTyped' /\ quick'.state = quick.state
      BY <3>1 DEF PickerInv, CardTyped
    <3>3. quick'.state \in {"idle", "loading", "adding", "added", "error"}
      BY <3>2 DEF PickerInv, AddsOK, PickerTypeOK
    <3> QED BY <1>0, <2>1, <3>1, <3>2, <3>3, CardMoves DEF CardOK
  <2>3. CASE ~quick.loaded
    <3>1. /\ quick' = [quick EXCEPT !.open = TRUE, !.state = "loading"] /\ adds' = adds + 1 /\ adds < MaxAdds
          /\ cardCalls' = cardCalls \cup {<<"load", adds + 1>>} /\ UNCHANGED sheetVars
      BY <1>1, <2>3 DEF reveal
    <3>2. CardTyped' /\ quick'.state = "loading" /\ quick'.open
      BY <3>1 DEF PickerInv, CardTyped
    <3>3. CardOK'
      BY <2>1, <3>1, <3>2 DEF CardOK
    <3> QED BY <1>0, <3>1, <3>2, <3>3, CardMoves
  <2> QED BY <2>2, <2>3
<1>2. ASSUME NEW i \in DOMAIN product, pick(i) PROVE PickerInv'
  <2>1. cardCalls = {} /\ quick.open
    BY <1>2 DEF PickerInv, CardOK, pick, Pickable
  <2>2. /\ quick' = [quick EXCEPT !.state = "adding"] /\ adds' = adds + 1 /\ adds < MaxAdds
        /\ cardCalls' = cardCalls \cup {<<"add", adds + 1>>} /\ UNCHANGED sheetVars
    BY <1>2 DEF pick
  <2>3. CardTyped' /\ quick'.state = "adding" /\ quick'.open
    BY <2>1, <2>2 DEF PickerInv, CardTyped
  <2>4. CardOK'
    BY <2>1, <2>2, <2>3 DEF CardOK
  <2> QED BY <1>0, <2>2, <2>3, <2>4, CardMoves
<1>3. ASSUME NEW c \in cardCalls, NEW ok \in BOOLEAN, LoadAnswered(c, ok) \/ PickAnswered(c, ok)
      PROVE  PickerInv'
  <2>1. cardCalls' = {}
    BY <1>3 DEF PickerInv, CardOK, LoadAnswered, PickAnswered
  <2>2. UNCHANGED sheetVars /\ adds' = adds
    BY <1>3 DEF LoadAnswered, PickAnswered
  <2>3. CardTyped' /\ quick'.state \in {"idle", "loading", "adding", "added", "error"}
    BY <1>3 DEF PickerInv, CardTyped, LoadAnswered, PickAnswered
  <2> QED BY <1>0, <2>1, <2>2, <2>3, CardMoves DEF CardOK
<1>4. CASE CardCloses
  <2>1. cardCalls = {} /\ cardCalls' = {} /\ UNCHANGED sheetVars /\ adds' = adds
    BY <1>4 DEF PickerInv, CardOK, CardCloses
  <2>2. CardTyped' /\ quick'.state = "idle"
    BY <1>4 DEF PickerInv, CardTyped, CardCloses
  <2> QED BY <1>0, <2>1, <2>2, CardMoves DEF CardOK
<1> QED BY <1>1, <1>2, <1>3, <1>4

LEMMA PickerSteps == PickerInv /\ [PickerNext]_pickerVars => PickerInv'
<1> SUFFICES ASSUME PickerInv, [PickerNext]_pickerVars PROVE PickerInv'
  OBVIOUS
<1>1. CASE UNCHANGED pickerVars
  <2>1. UNCHANGED <<sheetVars, quick, cardCalls, adds>>
    BY <1>1 DEF pickerVars, sheetVars
  <2>2. CardTyped' /\ CardOK'
    BY <2>1 DEF PickerInv, CardTyped, CardOK
  <2>3. adds' \in adds .. MaxAdds /\ quick'.state \in {"idle", "loading", "adding", "added", "error"}
    BY <2>1, PickerAssumption DEF PickerInv, AddsOK, PickerTypeOK
  <2> QED BY <2>1, <2>2, <2>3, CardMoves
<1>2. CASE \/ reveal
           \/ \E i \in DOMAIN product : pick(i)
           \/ \E c \in cardCalls, ok \in BOOLEAN : LoadAnswered(c, ok) \/ PickAnswered(c, ok)
           \/ CardCloses
  BY <1>2, CardKeeps
<1> QED BY <1>1, <1>2, SelectedKeeps, QuantityKeeps, HandleAddKeeps, AnsweredKeeps, TimerKeeps DEF PickerNext

(* Quantities, buttons and requests keep their types. *)
THEOREM PickerTypes == PickerSpec => []PickerTypeOK
<1>1. PickerInv => PickerTypeOK
  BY DEF PickerInv, AddsOK
<1> QED BY <1>1, PickerStarts, PickerSteps, PTL DEF PickerSpec

(* The bag gets what was picked, whatever the timers do; the card asks once  *)
(* at a time.                                                               *)
THEOREM PickerHolds == PickerSpec => []PickIsMeant
BY PickerMeans, PickerStarts, PickerSteps, PTL DEF PickerSpec

-----------------------------------------------------------------------------
(* The checkout page.  Its form, and the number of a check of the PIN code:   *)
(* the latest is of what is in the field unless the timer runs again.         *)

FormTyped ==
    /\ field \in Fields /\ debounce \in BOOLEAN /\ pinReqId \in Nat
    /\ pinChecks \subseteq [id : Nat, pin : Pins]
    /\ pin \in [status : PinStatus, geo : Pins \cup {NoTown}]
    /\ paymentMethod \in PinMethods
PinChecksOK ==
    /\ \A l \in pinChecks : l.id <= pinReqId /\ (l.id = pinReqId /\ ~debounce => l.pin = field)
    /\ debounce => field \in Pins
TownOK == pin.status = "ok" /\ ~debounce => pin.geo = field
FormInv == FormTyped /\ PinChecksOK /\ TownOK

(* The amount of a re-quote is what an order costs. *)
AmountInv ==
    /\ total \in Nat /\ quotes \in Nat /\ quoted \in BOOLEAN
    /\ quoted => total = Price

(* So is the one a click took from the button. *)
OrderInv ==
    /\ page \in {"loading", "form", "emptyBag", "failed", "order"}
    /\ placing \in Click \cup {NotPlacing}
    /\ placing.at # "no" /\ placing.quoted => placing.total = Price
    /\ script \in {"absent", "loading", "loaded", "failed"}
    /\ bag \in BOOLEAN /\ coded \in BOOLEAN /\ area \in [Pins -> Areas]
    /\ placed \in Seq(PlacedOrder) /\ OrdersAreDeliverable /\ ButtonIsCharged

PageInv == FormInv /\ AmountInv /\ OrderInv

LEMMA PageStarts == PageInit => PageInv
<1> SUFFICES ASSUME PageInit PROVE PageInv
  OBVIOUS
<1>1. FormInv
  BY DEF PageInit, FormInv, FormTyped, PinChecksOK, TownOK, Fields, NotChecked, PinStatus, PinMethods
<1>2. AmountInv
  BY DEF PageInit, AmountInv
<1>3. OrderInv
  <2>1. placed = << >> /\ placed \in Seq(PlacedOrder) /\ DOMAIN placed = {}
    BY DEF PageInit
  <2> QED BY <2>1 DEF PageInit, OrderInv, NotPlacing, OrdersAreDeliverable, ButtonIsCharged
<1> QED BY <1>1, <1>2, <1>3 DEF PageInv

(* What a step leaves alone stays as it should be. *)
LEMMA FormStays == FormInv /\ UNCHANGED formParts => FormInv'
BY DEF FormInv, FormTyped, PinChecksOK, TownOK, formParts

LEMMA AmountStays == AmountInv /\ UNCHANGED totalParts => AmountInv'
BY DEF AmountInv, totalParts

LEMMA OrderStays ==
    ASSUME OrderInv, UNCHANGED <<placing, script, shopParts>>,
           page' \in {"loading", "form", "emptyBag", "failed", "order"}
    PROVE  OrderInv'
BY DEF OrderInv, shopParts, OrdersAreDeliverable, ButtonIsCharged

LEMMA QuotedIs ==
    ASSUME NEW w \in BOOLEAN
    PROVE  QuotedTotal(w) \in Nat /\ QuotedTotal(FALSE) = Price
BY CheckoutPageAssumption DEF CheckoutPageAssumption, QuotedTotal

(* The summary. *)
LEMMA LoadKeeps == PageInv /\ (Load \/ LoadFails) => PageInv'
<1> SUFFICES ASSUME PageInv, Load \/ LoadFails PROVE PageInv'
  OBVIOUS
<1>1. FormInv'
  BY FormStays DEF PageInv, Load, LoadFails
<1>2. OrderInv'
  BY OrderStays DEF PageInv, Load, LoadFails
<1>3. AmountInv'
  <2>1. CASE UNCHANGED totalParts
    BY <2>1, AmountStays DEF PageInv
  <2>2. CASE total' = QuotedTotal(coded) /\ quotes' = 1 /\ quoted' = FALSE
    BY <2>2, QuotedIs DEF PageInv, OrderInv, AmountInv
  <2> QED BY <2>1, <2>2 DEF Load, LoadFails
<1> QED BY <1>1, <1>2, <1>3 DEF PageInv

(* The PIN code. *)
LEMMA TypeKeeps ==
    ASSUME PageInv, NEW f \in Fields, TypePin(f)
    PROVE  PageInv'
<1>1. field' = f /\ debounce' = (f \in Pins) /\ pinChecks' = pinChecks /\ paymentMethod' = paymentMethod
  BY DEF TypePin
<1>2. FormInv'
  <2>1. CASE f \in Pins
    <3>1. pinReqId' = pinReqId /\ pin' = pin
      BY <2>1 DEF TypePin
    <3> QED BY <1>1, <2>1, <3>1 DEF PageInv, FormInv, FormTyped, PinChecksOK, TownOK
  <2>2. CASE f \notin Pins
    <3>1. pinReqId' = pinReqId + 1
      BY <2>2 DEF TypePin
    <3>2. PICK s \in {"invalid", "checking", "idle"} : pin' = [status |-> s, geo |-> NoTown]
      BY <2>2 DEF TypePin, Fields
    <3>3. \A l \in pinChecks : l.id <= pinReqId' /\ l.id # pinReqId'
      BY <3>1 DEF PageInv, FormInv, FormTyped, PinChecksOK
    <3>4. pin' \in [status : PinStatus, geo : Pins \cup {NoTown}] /\ pin'.status # "ok"
      BY <3>2 DEF PinStatus
    <3>5. debounce' = FALSE
      <4>1. (f \in Pins) = FALSE
        BY <2>2
      <4> QED BY <1>1, <4>1, Zenon
    <3>6. FormTyped'
      BY <1>1, <3>1, <3>4, <3>5 DEF PageInv, FormInv, FormTyped
    <3>7. PinChecksOK'
      BY <1>1, <3>3, <3>5 DEF PinChecksOK
    <3> QED BY <3>4, <3>6, <3>7 DEF FormInv, TownOK
  <2> QED BY <2>1, <2>2
<1>3. AmountInv'
  BY DEF TypePin, PageInv, AmountInv
<1>4. OrderInv'
  BY OrderStays DEF PageInv, TypePin, OrderInv
<1> QED BY <1>2, <1>3, <1>4 DEF PageInv

LEMMA CheckKeeps == PageInv /\ (DebounceEnds \/ VerifyAgain) => PageInv'
<1> SUFFICES ASSUME PageInv, DebounceEnds \/ VerifyAgain PROVE PageInv'
  OBVIOUS
<1>1. /\ field' = field /\ field \in Pins /\ paymentMethod' = paymentMethod /\ debounce' \in BOOLEAN
      /\ debounce' => debounce
      /\ pinReqId' = pinReqId + 1
      /\ pinChecks' = pinChecks \cup {[id |-> pinReqId + 1, pin |-> field]}
      /\ pin' = [status |-> "checking", geo |-> NoTown]
  <2>1. debounce \in BOOLEAN /\ (debounce => field \in Pins)
    BY DEF PageInv, FormInv, PinChecksOK, FormTyped
  <2>2. CASE DebounceEnds
    BY <2>1, <2>2 DEF DebounceEnds, verifyPin
  <2>3. CASE VerifyAgain
    BY <2>1, <2>3 DEF VerifyAgain, verifyPin
  <2> QED BY <2>2, <2>3
<1>2. FormInv'
  <2>1. [id |-> pinReqId + 1, pin |-> field] \in [id : Nat, pin : Pins] /\ pinReqId' \in Nat
    BY <1>1 DEF PageInv, FormInv, FormTyped
  <2>2. FormTyped'
    BY <1>1, <2>1 DEF PageInv, FormInv, FormTyped, PinStatus
  <2>3. PinChecksOK'
    <3>1. \A l \in pinChecks : l.id <= pinReqId' /\ l.id # pinReqId'
      BY <1>1 DEF PageInv, FormInv, FormTyped, PinChecksOK
    <3> QED BY <1>1, <2>1, <3>1 DEF PinChecksOK
  <2> QED BY <1>1, <2>2, <2>3 DEF FormInv, TownOK
<1>3. AmountInv'
  BY AmountStays DEF PageInv, DebounceEnds, VerifyAgain
<1>4. OrderInv'
  BY OrderStays DEF PageInv, DebounceEnds, VerifyAgain, OrderInv
<1> QED BY <1>2, <1>3, <1>4 DEF PageInv

LEMMA LookupKeeps ==
    ASSUME PageInv, NEW l \in pinChecks, LookupAnswered(l) \/ LookupFails(l)
    PROVE  PageInv'
<1>1. /\ field' = field /\ debounce' = debounce /\ pinReqId' = pinReqId /\ paymentMethod' = paymentMethod
      /\ pinChecks' = pinChecks \ {l}
  BY DEF LookupAnswered, LookupFails
<1>2. \/ pin' = pin
      \/ /\ l.id = pinReqId
         /\ \/ pin' = [status |-> "ok", geo |-> l.pin]
            \/ pin' = [status |-> "unserviceable", geo |-> l.pin]
            \/ pin' = [status |-> "invalid", geo |-> NoTown]
            \/ pin' = [status |-> "error", geo |-> NoTown]
  <2>1. l.pin \in Pins /\ area[l.pin] \in Areas
    BY DEF PageInv, FormInv, FormTyped, OrderInv
  <2>2. CASE LookupAnswered(l)
    BY <2>1, <2>2 DEF LookupAnswered, IsLatestLookup, Areas
  <2>3. CASE LookupFails(l)
    BY <2>3 DEF LookupFails, IsLatestLookup
  <2> QED BY <2>2, <2>3
<1>3. FormInv'
  <2>1. l.pin \in Pins /\ (l.id = pinReqId /\ ~debounce => l.pin = field)
    BY DEF PageInv, FormInv, FormTyped, PinChecksOK
  <2>2. FormTyped'
    BY <1>1, <1>2, <2>1 DEF PageInv, FormInv, FormTyped, PinStatus
  <2>3. PinChecksOK'
    BY <1>1 DEF PageInv, FormInv, PinChecksOK
  <2>4. TownOK'
    BY <1>1, <1>2, <2>1 DEF PageInv, FormInv, TownOK
  <2> QED BY <2>2, <2>3, <2>4 DEF FormInv
<1>4. AmountInv'
  BY AmountStays DEF PageInv, LookupAnswered, LookupFails
<1>5. OrderInv'
  BY OrderStays DEF PageInv, LookupAnswered, LookupFails, OrderInv
<1> QED BY <1>3, <1>4, <1>5 DEF PageInv

(* The amount. *)
LEMMA MethodKeeps ==
    ASSUME PageInv, NEW m \in PinMethods, ChooseMethod(m)
    PROVE  PageInv'
<1>1. FormInv'
  BY DEF ChooseMethod, PageInv, FormInv, FormTyped, PinChecksOK, TownOK
<1>2. AmountInv'
  BY DEF ChooseMethod, PageInv, AmountInv
<1>3. OrderInv'
  BY OrderStays DEF PageInv, ChooseMethod, OrderInv
<1> QED BY <1>1, <1>2, <1>3 DEF PageInv

LEMMA QuoteKeeps == PageInv /\ (QuoteAnswered \/ QuoteFails) => PageInv'
<1> SUFFICES ASSUME PageInv, QuoteAnswered \/ QuoteFails PROVE PageInv'
  OBVIOUS
<1>1. FormInv'
  BY FormStays DEF PageInv, QuoteAnswered, QuoteFails
<1>2. OrderInv'
  BY OrderStays DEF PageInv, QuoteAnswered, QuoteFails, OrderInv
<1>3. AmountInv'
  <2>1. quotes' \in Nat
    BY DEF QuoteAnswered, QuoteFails, PageInv, AmountInv
  <2>2. CASE QuoteAnswered
    BY <2>1, <2>2, QuotedIs DEF QuoteAnswered, QuoteSends, AmountInv
  <2>3. CASE QuoteFails
    BY <2>1, <2>3 DEF QuoteFails, PageInv, AmountInv
  <2> QED BY <2>2, <2>3
<1> QED BY <1>1, <1>2, <1>3 DEF PageInv

(* The order. *)
LEMMA PayClickKeeps == PageInv /\ placeOrder => PageInv'
<1> SUFFICES ASSUME PageInv, placeOrder PROVE PageInv'
  OBVIOUS
<1>1. FormInv' /\ AmountInv'
  BY FormStays, AmountStays DEF PageInv, placeOrder
<1>2. OrderInv'
  <2>1. PICK d : d = [at |-> "sent", pin |-> field, town |-> pin.geo, method |-> paymentMethod,
                      total |-> total, quoted |-> quoted]
    OBVIOUS
  <2>2. field \in Pins /\ pin.geo \in Pins
    BY DEF placeOrder, PageInv, FormInv, FormTyped
  <2>3. d \in Click /\ d.at = "sent" /\ (d.quoted => d.total = Price)
    BY <2>1, <2>2 DEF PageInv, FormInv, FormTyped, AmountInv, Click
  <2>4. placing' = d /\ UNCHANGED <<page, script, shopParts>>
    BY <2>1 DEF placeOrder
  <2> QED BY <2>3, <2>4 DEF PageInv, OrderInv, shopParts, OrdersAreDeliverable, ButtonIsCharged
<1> QED BY <1>1, <1>2 DEF PageInv

(* An order that the API takes. *)
LEMMA AcceptIs ==
    ASSUME OrderInv, placing.at = "sent", Accept, UNCHANGED area
    PROVE  /\ bag' \in BOOLEAN /\ coded' \in BOOLEAN /\ placed' \in Seq(PlacedOrder)
           /\ OrdersAreDeliverable' /\ ButtonIsCharged'
<1>1. PICK o : o = [pin |-> placing.pin, town |-> placing.town, charged |-> QuotedTotal(FALSE),
                    button |-> placing.total, quoted |-> placing.quoted, code |-> coded]
  OBVIOUS
<1>2. placing \in Click
  BY DEF OrderInv, NotPlacing
<1>3. /\ o \in PlacedOrder /\ area[o.pin] = "serviceable" /\ o.town = o.pin
      /\ o.quoted => o.charged = o.button
  BY <1>1, <1>2, QuotedIs DEF Click, PlacedOrder, OrderInv, Accept, Delivered
<1>4. placed' = Append(placed, o) /\ placed \in Seq(PlacedOrder)
  BY <1>1 DEF Accept, OrderInv
<1>5. /\ placed' \in Seq(PlacedOrder)
      /\ \A k \in DOMAIN placed' : placed'[k] = o \/ (k \in DOMAIN placed /\ placed'[k] = placed[k])
  BY <1>3, <1>4
<1>6. bag' \in BOOLEAN /\ coded' \in BOOLEAN
  BY DEF Accept
<1> QED BY <1>3, <1>5, <1>6 DEF OrderInv, OrdersAreDeliverable, ButtonIsCharged

LEMMA AnswerKeeps == PageInv /\ (OrderAccepted \/ OrderRefused) => PageInv'
<1> SUFFICES ASSUME PageInv, OrderAccepted \/ OrderRefused PROVE PageInv'
  OBVIOUS
<1>1. FormInv' /\ AmountInv'
  BY FormStays, AmountStays DEF PageInv, OrderAccepted, OrderRefused
<1>2. /\ placing.at = "sent" /\ page' = page /\ script' = script /\ area' = area
  BY DEF OrderAccepted, OrderRefused, shopParts
<1>3. placing' \in Click \cup {NotPlacing} /\ (placing'.at # "no" /\ placing'.quoted => placing'.total = Price)
  <2>1. CASE placing' = NotPlacing
    BY <2>1 DEF NotPlacing
  <2>2. CASE placing' = [placing EXCEPT !.at = "ordered"]
    <3>1. placing \in Click
      BY <1>2 DEF PageInv, OrderInv, NotPlacing
    <3> QED BY <1>2, <2>2, <3>1 DEF Click, PageInv, OrderInv
  <2> QED BY <2>1, <2>2 DEF OrderAccepted, OrderRefused
<1>4. CASE Accept
  BY <1>1, <1>2, <1>3, <1>4, AcceptIs DEF PageInv, OrderInv
<1>5. CASE UNCHANGED shopParts
  BY <1>1, <1>2, <1>3, <1>5 DEF PageInv, OrderInv, shopParts, OrdersAreDeliverable, ButtonIsCharged
<1> QED BY <1>4, <1>5 DEF OrderAccepted, OrderRefused

LEMMA PaymentKeeps ==
    ASSUME PageInv, AfterOrder \/ ScriptEnds \/ \E paid \in BOOLEAN : WindowEnds(paid)
    PROVE  PageInv'
<1>1. FormInv' /\ AmountInv'
  BY FormStays, AmountStays DEF PageInv, AfterOrder, ScriptEnds, WindowEnds
<1>2. /\ page' \in {"loading", "form", "emptyBag", "failed", "order"} /\ placed' = placed /\ area' = area
      /\ placing.at # "no" /\ placing \in Click
  <2>1. placing \in Click \cup {NotPlacing} /\ NotPlacing.at = "no"
    BY DEF PageInv, OrderInv, NotPlacing
  <2>2. placing.at \in {"ordered", "script", "window"}
    BY DEF AfterOrder, ScriptEnds, WindowEnds
  <2>3. placed' = placed /\ area' = area
    BY DEF AfterOrder, ScriptEnds, WindowEnds, shopParts
  <2>4. page' \in {"loading", "form", "emptyBag", "failed", "order"}
    BY DEF AfterOrder, ScriptEnds, WindowEnds, PageInv, OrderInv
  <2> QED BY <2>1, <2>2, <2>3, <2>4
<1>3. bag' \in BOOLEAN /\ coded' \in BOOLEAN
  BY DEF PageInv, OrderInv, AfterOrder, ScriptEnds, WindowEnds, shopParts
<1>4. /\ script' \in {"absent", "loading", "loaded", "failed"}
      /\ \/ placing' = NotPlacing
         \/ \E stage \in {"script", "window"} : placing' = [placing EXCEPT !.at = stage]
  <2>1. CASE AfterOrder
    BY <2>1 DEF AfterOrder, PageInv, OrderInv
  <2>2. CASE ScriptEnds
    BY <2>2 DEF ScriptEnds
  <2>3. CASE \E paid \in BOOLEAN : WindowEnds(paid)
    BY <2>3 DEF WindowEnds, PageInv, OrderInv
  <2> QED BY <2>1, <2>2, <2>3
<1>5. placing' \in Click \cup {NotPlacing} /\ (placing'.at # "no" /\ placing'.quoted => placing'.total = Price)
  <2>1. CASE placing' = NotPlacing
    BY <2>1 DEF NotPlacing
  <2>2. ASSUME NEW stage \in {"script", "window"}, placing' = [placing EXCEPT !.at = stage]
        PROVE  /\ placing' \in Click
               /\ placing'.quoted => placing'.total = Price
    BY <1>2, <2>2 DEF Click, PageInv, OrderInv
  <2> QED BY <1>4, <2>1, <2>2
<1> QED BY <1>1, <1>2, <1>3, <1>4, <1>5 DEF PageInv, OrderInv, OrdersAreDeliverable, ButtonIsCharged

LEMMA VisitKeeps == PageInv /\ Visit => PageInv'
<1> SUFFICES ASSUME PageInv, Visit PROVE PageInv'
  OBVIOUS
<1>1. FormInv'
  BY DEF Visit, FormInv, FormTyped, PinChecksOK, TownOK, Fields, NotChecked, PinStatus, PinMethods
<1>2. AmountInv'
  BY DEF Visit, AmountInv
<1>3. OrderInv'
  BY DEF Visit, PageInv, OrderInv, shopParts, OrdersAreDeliverable, ButtonIsCharged
<1> QED BY <1>1, <1>2, <1>3 DEF PageInv

LEMMA PageSteps == PageInv /\ [PageNext]_pageVars => PageInv'
<1>1. ASSUME PageInv, PageNext PROVE PageInv'
  BY <1>1, LoadKeeps, TypeKeeps, CheckKeeps, LookupKeeps, MethodKeeps, QuoteKeeps, PayClickKeeps,
     AnswerKeeps, PaymentKeeps, VisitKeeps DEF PageNext
<1>2. ASSUME PageInv, UNCHANGED pageVars PROVE PageInv'
  <2>1. FormInv' /\ AmountInv'
    BY <1>2, FormStays, AmountStays DEF PageInv, pageVars, formParts, totalParts
  <2>2. OrderInv'
    BY <1>2, OrderStays DEF PageInv, OrderInv, pageVars, shopParts
  <2> QED BY <2>1, <2>2 DEF PageInv
<1> QED BY <1>1, <1>2

(* The state of the page and its orders keeps its types. *)
THEOREM PageTypes == PageSpec => []PageTypeOK
<1>1. PageInv => PageTypeOK
  BY DEF PageInv, FormInv, FormTyped, AmountInv, OrderInv, PageTypeOK
<1> QED BY <1>1, PageStarts, PageSteps, PTL DEF PageSpec

(* The checkout page calls a PIN code verified only if it is the one in the   *)
(* field, its orders go to served codes and their own towns, and cost what    *)
(* the button said once a re-quote set it; for any codes, prices, answers in  *)
(* any order, failures and visits (checkout/page.tsx, orders.service.ts).     *)
THEOREM PageHolds == PageSpec => []PageIsTrue
<1>1. PageInv => PageIsTrue
  BY DEF PageInv, FormInv, TownOK, OrderInv, PageIsTrue, VerifiedIsTyped
<1> QED BY <1>1, PageStarts, PageSteps, PTL DEF PageSpec

-----------------------------------------------------------------------------
(* The PIN codes.                                                          *)
(*                                                                         *)
(* A lookup that has read the row and not answered, and a row that serves. *)
Busy(l) == lookup[l].at \in {"fetch", "store"}
Serves(r) == ~r.usable \/ r.prepaidAvailable

(* What was read is not older than a fetch may take. *)
TimesOK ==
    /\ pinClock \in Times /\ mem.at <= pinClock
    /\ blockedAt \in Int /\ blockedAt <= pinClock
    /\ deniedAt \in Int /\ deniedAt <= pinClock
    /\ \A l \in Lookups : Busy(l) =>
          lookup[l].since <= pinClock /\ pinClock <= lookup[l].since + LOOKUP_TIMEOUT

(* A row, and what is in memory, proves what it says of the PIN; and a row   *)
(* that a lookup did not find has been written since.                        *)
Known == found \/ inMap \/ curated
ProvenOK ==
    /\ row.usable => Known
    /\ mem.value = Invalid => deniedAt >= 0 /\ mem.at <= deniedAt
    /\ mem.value.pin = "resolved" => Known
    /\ \A l \in Lookups :
          /\ lookup[l].row.usable => Known
          /\ lookup[l].at = "store" => found
          /\ Busy(l) /\ ~lookup[l].row.usable /\ row.usable /\ ~unread
                => lookup[l].since <= row.verifiedAt

(* A blocked row stays blocked; whoever still serves the PIN read the row    *)
(* before it was, or remembers the answer of one who did.                    *)
BlockedOK ==
    blockedAt >= 0 =>
        /\ row.usable /\ ~row.prepaidAvailable
        /\ ~unread =>
              /\ \A l \in Lookups : Busy(l) /\ Serves(lookup[l].row) => lookup[l].since <= blockedAt
              /\ Deliverable(mem.value) => mem.at - blockedAt <= LOOKUP_TIMEOUT

(* Nobody is about to write over a row that was written by hand. *)
CuratedOK ==
    curated /\ ~editOverlapped /\ ~unread =>
        row.usable /\ row.source = "manual" /\ \A l \in Lookups : ~Busy(l)

PinInv ==
    /\ PinTypeOK /\ TimesOK /\ ProvenOK /\ BlockedOK /\ CuratedOK /\ AnswerIsProven /\ BlockedIsRefused

Values == Resolved \cup {Invalid, NotAsked}

LEMMA PinRowShape ==
    ASSUME NEW r \in PinRow
    PROVE  r.usable \in BOOLEAN /\ (r.usable => r.prepaidAvailable \in BOOLEAN /\ r.verifiedAt \in Times)
<1>1. CASE r = [usable |-> FALSE]
  <2>1. r.usable = FALSE
    BY <1>1
  <2> QED BY <2>1
<1>2. CASE r \in [usable : {TRUE}, source : Sources, verifiedAt : Times, prepaidAvailable : BOOLEAN]
  <2>1. r.usable = TRUE /\ r.prepaidAvailable \in BOOLEAN /\ r.verifiedAt \in Times
    BY <1>2
  <2> QED BY <2>1
<1> QED BY <1>1, <1>2 DEF PinRow, NoRow

LEMMA BuildSays ==
    ASSUME NEW r \in PinRow, NEW source \in ResolvedSource
    PROVE  /\ build(r, source) \in Resolved /\ build(r, source).pin = "resolved"
           /\ build(r, source) # Invalid
           /\ Deliverable(build(r, source)) => Serves(r)
<1> DEFINE b == build(r, source)
<1>1. b.pin = "resolved" /\ b.source = source /\ b.serviceable = (IF r.usable THEN r.prepaidAvailable ELSE TRUE)
  BY DEF build
<1>2. b.serviceable \in BOOLEAN
  BY <1>1, PinRowShape
<1>3. b \in Resolved
  BY <1>1, <1>2 DEF build, Resolved
<1>4. b # Invalid
  BY <1>1 DEF Invalid
<1>5. Deliverable(b) => Serves(r)
  BY <1>1, <1>2 DEF Deliverable, Serves
<1> QED BY <1>1, <1>3, <1>4, <1>5

LEMMA NoAnswers ==
    /\ ~Deliverable(Invalid) /\ ~Deliverable(Refused) /\ ~Deliverable(NotAsked)
    /\ Refused # Invalid /\ NotAsked # Invalid
    /\ Refused.pin # "resolved" /\ NotAsked.pin # "resolved" /\ Invalid.pin # "resolved"
  BY DEF Deliverable, Invalid, Refused, NotAsked

(* What may be answered now, and what may be kept besides. *)
GoodAnswer(v, by) ==
    /\ v.pin = "resolved" => Known
    /\ Deliverable(v) /\ blockedAt >= 0 /\ ~unread => pinClock - blockedAt < by

LEMMA PinStarts == PincodeAssumption /\ PinInit => PinInv
<1> SUFFICES ASSUME PincodeAssumption, PinInit PROVE PinInv
  OBVIOUS
<1>1. NoRow \in PinRow /\ ~NoRow.usable /\ 0 \in Times
  BY DEF NoRow, PinRow, Times, PincodeAssumption
<1>2. NoLookup \in Lookup /\ NoLookup.at = "idle" /\ NoLookup.row = NoRow
  BY <1>1 DEF NoLookup, Lookup
<1>3. mem.at = 0 /\ mem.value = NotAsked
  BY DEF PinInit, NoEntry
<1>4. PinTypeOK
  BY <1>1, <1>2, <1>3 DEF PinInit, PinTypeOK
<1>5. \A l \in Lookups : ~Busy(l) /\ lookup[l].at = "idle" /\ ~lookup[l].row.usable /\ answer[l] = NotAsked
  BY <1>1, <1>2 DEF PinInit, Busy
<1> QED BY <1>1, <1>3, <1>4, <1>5, NoAnswers
        DEF PinInit, PinInv, TimesOK, ProvenOK, BlockedOK, CuratedOK, AnswerIsProven, BlockedIsRefused,
            PincodeAssumption

(* A lookup answers: v is good for now. *)
LEMMA GiveStep ==
    ASSUME PincodeAssumption, PinInv, NEW l \in Lookups, NEW v \in Values \cup {Refused}, Gives(l, v),
           GoodAnswer(v, MEM_TTL + LOOKUP_TIMEOUT),
           UNCHANGED <<found, inMap, pinClock, blockedAt, curated, editOverlapped>>,
           unread' <=> unread,
           \/ UNCHANGED deniedAt
           \/ deniedAt' = pinClock /\ Busy(l) /\ ~lookup[l].row.usable /\ UNCHANGED row,
           v = Invalid => deniedAt' >= 0 /\ pinClock - deniedAt' < MEM_TTL,
           UNCHANGED row \/ (Busy(l) /\ row' \in PinRow /\ row'.usable /\ found
                             /\ row'.verifiedAt = pinClock
                             /\ (row.usable => row'.prepaidAvailable = row.prepaidAvailable)),
           UNCHANGED mem \/ (/\ v # Refused /\ mem' = [at |-> pinClock, value |-> v]
                             /\ v = Invalid => deniedAt' = pinClock
                             /\ GoodAnswer(v, LOOKUP_TIMEOUT + 1))
    PROVE  PinInv'
<1> USE DEF PinInv
<1>1. NoLookup \in Lookup /\ NoLookup.at = "idle" /\ ~NoLookup.row.usable
  BY DEF NoLookup, Lookup, NoRow, PinRow, Times, PincodeAssumption
<1>2. /\ answer'[l] = v /\ lookup'[l] = NoLookup
      /\ \A k \in Lookups : k # l => answer'[k] = answer[k] /\ lookup'[k] = lookup[k]
  BY DEF Gives, PinTypeOK
<1>3. /\ pinClock \in Nat /\ MEM_TTL \in Nat \ {0} /\ LOOKUP_TIMEOUT \in Nat /\ blockedAt \in Int
      /\ deniedAt \in Int /\ deniedAt' \in Int /\ deniedAt <= deniedAt' /\ deniedAt' <= pinClock
  BY DEF TimesOK, Times, PincodeAssumption
<1>4. mem' # mem => mem'.at = pinClock /\ mem'.value = v /\ v \in Values
  BY DEF Values
<1>5. PinTypeOK'
  <2>1. row' \in PinRow
    BY DEF PinTypeOK
  <2>2. mem'.at \in Times /\ mem'.value \in Resolved \cup {Invalid, NotAsked}
    BY <1>4 DEF PinTypeOK, TimesOK, Values
  <2>3. lookup' \in [Lookups -> Lookup]
    BY <1>1 DEF PinTypeOK, Gives
  <2>4. answer' \in [Lookups -> Resolved \cup {Invalid, Refused, NotAsked}]
    BY DEF PinTypeOK, Gives, Values
  <2> QED BY <2>1, <2>2, <2>3, <2>4 DEF PinTypeOK
<1>6. \A k \in Lookups : Busy(k)' => k # l /\ Busy(k) /\ lookup'[k] = lookup[k]
  BY <1>1, <1>2 DEF Busy
<1>7. TimesOK'
  BY <1>3, <1>4, <1>6 DEF TimesOK
<1>8. ProvenOK'
  <2>0. Known' <=> Known
    BY DEF Known
  <2>1. row'.usable => Known
    BY DEF ProvenOK, Known
  <2>2. /\ mem'.value = Invalid => deniedAt' >= 0 /\ mem'.at <= deniedAt'
        /\ mem'.value.pin = "resolved" => Known
    <3>1. mem.at \in Nat
      BY DEF PinTypeOK, Times
    <3>2. CASE mem' = mem
      BY <1>3, <3>1, <3>2 DEF ProvenOK
    <3>3. CASE mem' # mem
      BY <1>3, <1>4, <3>3 DEF GoodAnswer
    <3> QED BY <3>2, <3>3
  <2>3. ASSUME NEW k \in Lookups
        PROVE  /\ lookup'[k].row.usable => Known
               /\ lookup'[k].at = "store" => found
               /\ Busy(k)' /\ ~lookup'[k].row.usable /\ row'.usable /\ ~unread
                     => lookup'[k].since <= row'.verifiedAt
    <3>1. CASE k = l
      BY <1>1, <1>2, <1>6, <3>1
    <3>2. CASE k # l
      BY <1>2, <1>6, <3>2 DEF ProvenOK, TimesOK
    <3> QED BY <3>1, <3>2
  <2> QED BY <2>0, <2>1, <2>2, <2>3 DEF ProvenOK
<1>9. BlockedOK'
  <2> SUFFICES ASSUME blockedAt >= 0
               PROVE  /\ row'.usable /\ ~row'.prepaidAvailable
                      /\ ~unread =>
                            /\ \A k \in Lookups :
                                  Busy(k)' /\ Serves(lookup'[k].row) => lookup'[k].since <= blockedAt
                            /\ Deliverable(mem'.value) => mem'.at - blockedAt <= LOOKUP_TIMEOUT
    BY DEF BlockedOK, Serves, Deliverable
  <2>1. row'.usable /\ ~row'.prepaidAvailable
    BY DEF BlockedOK
  <2>2. ~unread => \A k \in Lookups : Busy(k)' /\ Serves(lookup'[k].row) => lookup'[k].since <= blockedAt
    BY <1>6 DEF BlockedOK
  <2>3. ~unread /\ Deliverable(mem'.value) => mem'.at - blockedAt <= LOOKUP_TIMEOUT
    <3>1. CASE mem' = mem
      BY <3>1 DEF BlockedOK
    <3>2. CASE mem' # mem
      BY <1>3, <1>4, <3>2 DEF GoodAnswer
    <3> QED BY <3>1, <3>2
  <2> QED BY <2>1, <2>2, <2>3
<1>10. CuratedOK'
  BY <1>6 DEF CuratedOK
<1>11. AnswerIsProven'
  <2>1. ASSUME NEW k \in Lookups
        PROVE  /\ answer'[k] = Invalid => deniedAt' >= 0 /\ pinClock - deniedAt' < MEM_TTL
               /\ answer'[k].pin = "resolved" => Known
    <3>1. CASE k = l
      BY <1>2, <3>1 DEF GoodAnswer
    <3>2. CASE k # l
      BY <1>2, <1>3, <3>2 DEF AnswerIsProven, Known
    <3> QED BY <3>1, <3>2
  <2>2. ASSUME deniedAt' >= 0, row'.usable, ~unread
        PROVE  deniedAt' - row'.verifiedAt <= LOOKUP_TIMEOUT
    <3>1. CASE row' # row
      BY <1>3, <3>1
    <3>2. CASE row' = row /\ deniedAt' = deniedAt
      BY <2>2, <3>2 DEF AnswerIsProven
    <3>3. CASE row' = row /\ deniedAt' = pinClock /\ Busy(l) /\ ~lookup[l].row.usable
      <4>1. row.verifiedAt \in Nat /\ lookup[l].since \in Nat
        BY <2>2, <3>3, PinRowShape DEF PinTypeOK, Lookup, Times
      <4>2. lookup[l].since <= row.verifiedAt /\ pinClock <= lookup[l].since + LOOKUP_TIMEOUT
        BY <2>2, <3>3 DEF ProvenOK, TimesOK
      <4> QED BY <1>3, <3>3, <4>1, <4>2
    <3> QED BY <3>1, <3>2, <3>3
  <2> QED BY <2>1, <2>2 DEF AnswerIsProven, Known
<1>12. BlockedIsRefused'
  BY <1>2 DEF BlockedIsRefused, GoodAnswer, Deliverable
<1> QED BY <1>5, <1>7, <1>8, <1>9, <1>10, <1>11, <1>12

(* A lookup goes on to d without an answer. *)
LEMMA LookStep ==
    ASSUME PincodeAssumption, PinInv, NEW l \in Lookups, NEW d \in Lookup,
           lookup' = [lookup EXCEPT ![l] = d],
           answer' = answer \/ answer' = [answer EXCEPT ![l] = NotAsked],
           UNCHANGED <<inMap, row, mem, pinClock, blockedAt, deniedAt, curated, editOverlapped>>,
           unread => unread', found => found',
           d.row.usable => Known, d.at = "store" => found',
           d.at \in {"fetch", "store"} =>
               /\ d.since <= pinClock /\ pinClock <= d.since + LOOKUP_TIMEOUT
               /\ Serves(d.row) /\ blockedAt >= 0 /\ ~unread' => d.since <= blockedAt
               /\ ~(curated /\ ~editOverlapped /\ ~unread')
               /\ ~d.row.usable /\ row.usable /\ ~unread' => d.since <= row.verifiedAt
    PROVE  PinInv'
<1> USE DEF PinInv
<1>1. /\ lookup'[l] = d /\ \A k \in Lookups : k # l => lookup'[k] = lookup[k]
      /\ \A k \in Lookups : answer'[k] \in {answer[k], NotAsked}
  BY DEF PinTypeOK
<1>2. PinTypeOK'
  BY DEF PinTypeOK
<1>3. TimesOK'
  BY <1>1 DEF TimesOK, Busy
<1>4. ProvenOK'
  <2>1. Known => Known'
    BY DEF Known
  <2>2. ASSUME NEW k \in Lookups
        PROVE  /\ lookup'[k].row.usable => Known
               /\ lookup'[k].at = "store" => found'
               /\ Busy(k)' /\ ~lookup'[k].row.usable /\ row.usable /\ ~unread'
                     => lookup'[k].since <= row.verifiedAt
    <3>1. CASE k = l
      BY <1>1, <3>1 DEF Busy
    <3>2. CASE k # l
      <4>1. lookup'[k] = lookup[k]
        BY <1>1, <3>2
      <4> QED BY <4>1 DEF ProvenOK, Busy
    <3> QED BY <3>1, <3>2
  <2> QED BY <2>1, <2>2 DEF ProvenOK
<1>5. BlockedOK'
  <2> SUFFICES ASSUME blockedAt >= 0
               PROVE  /\ row.usable /\ ~row.prepaidAvailable
                      /\ ~unread' =>
                            /\ \A k \in Lookups :
                                  Busy(k)' /\ Serves(lookup'[k].row) => lookup'[k].since <= blockedAt
                            /\ Deliverable(mem.value) => mem.at - blockedAt <= LOOKUP_TIMEOUT
    BY DEF BlockedOK, Serves, Deliverable
  <2>1. ASSUME ~unread', NEW k \in Lookups, Busy(k)', Serves(lookup'[k].row)
        PROVE  lookup'[k].since <= blockedAt
    <3>1. CASE k = l
      BY <1>1, <2>1, <3>1 DEF Busy
    <3>2. CASE k # l
      <4>1. lookup'[k] = lookup[k]
        BY <1>1, <3>2
      <4> QED BY <2>1, <4>1 DEF BlockedOK, Busy
    <3> QED BY <3>1, <3>2
  <2> QED BY <2>1 DEF BlockedOK
<1>6. CuratedOK'
  BY <1>1 DEF CuratedOK, Busy
<1>7. AnswerIsProven'
  <2>1. ASSUME NEW k \in Lookups
        PROVE  /\ answer'[k] = Invalid => deniedAt >= 0 /\ pinClock - deniedAt < MEM_TTL
               /\ answer'[k].pin = "resolved" => Known'
    <3>1. CASE answer'[k] = answer[k]
      BY <3>1 DEF AnswerIsProven, Known
    <3>2. CASE answer'[k] = NotAsked
      BY <3>2, NoAnswers
    <3> QED BY <1>1, <3>1, <3>2
  <2>2. deniedAt >= 0 /\ row.usable /\ ~unread' => deniedAt - row.verifiedAt <= LOOKUP_TIMEOUT
    BY DEF AnswerIsProven
  <2> QED BY <2>1, <2>2 DEF AnswerIsProven, Known
<1>8. BlockedIsRefused'
  <2> SUFFICES ASSUME NEW k \in Lookups, Deliverable(answer'[k]), blockedAt >= 0, ~unread'
               PROVE  pinClock - blockedAt < MEM_TTL + LOOKUP_TIMEOUT
    BY DEF BlockedIsRefused, Deliverable
  <2>1. answer'[k] = answer[k]
    BY <1>1, NoAnswers
  <2> QED BY <2>1 DEF BlockedIsRefused
<1> QED BY <1>2, <1>3, <1>4, <1>5, <1>6, <1>7, <1>8

LEMMA ResolveKeeps ==
    ASSUME PincodeAssumption, PinInv, NEW l \in Lookups, resolve(l)
    PROVE  PinInv'
<1>1. /\ lookup[l].at = "idle"
      /\ UNCHANGED <<found, inMap, row, mem, pinClock, blockedAt, deniedAt, curated,
                     editOverlapped, unread>>
  BY DEF resolve, Doing, pinWorld, pinHistory, said
<1>2. CASE FreshInMemory
  <2>1. PICK v : v = mem.value
    OBVIOUS
  <2>2. v \in Values /\ Gives(l, v)
    BY <1>2, <2>1 DEF resolve, PinInv, PinTypeOK, Values
  <2>3. GoodAnswer(v, MEM_TTL + LOOKUP_TIMEOUT)
    <3>1. v.pin = "resolved" => Known
      BY <2>1 DEF PinInv, ProvenOK
    <3>2. ASSUME Deliverable(v), blockedAt >= 0, ~unread PROVE pinClock - blockedAt < MEM_TTL + LOOKUP_TIMEOUT
      <4>1. mem.at - blockedAt <= LOOKUP_TIMEOUT
        BY <2>1, <3>2 DEF PinInv, BlockedOK
      <4>2. pinClock - mem.at < MEM_TTL
        BY <1>2 DEF FreshInMemory
      <4>3. /\ pinClock \in Nat /\ mem.at \in Nat /\ blockedAt \in Int /\ MEM_TTL \in Nat
            /\ LOOKUP_TIMEOUT \in Nat
        BY DEF PinInv, PinTypeOK, TimesOK, Times, PincodeAssumption
      <4> QED BY ONLY <4>1, <4>2, <4>3
    <3> QED BY <3>1, <3>2 DEF GoodAnswer
  <2>4. ASSUME v = Invalid PROVE deniedAt >= 0 /\ pinClock - deniedAt < MEM_TTL
    <3>1. deniedAt >= 0 /\ mem.at <= deniedAt
      BY <2>1, <2>4 DEF PinInv, ProvenOK
    <3>2. pinClock - mem.at < MEM_TTL
      BY <1>2 DEF FreshInMemory
    <3>3. pinClock \in Nat /\ mem.at \in Nat /\ deniedAt \in Int /\ MEM_TTL \in Nat
      BY DEF PinInv, PinTypeOK, TimesOK, Times, PincodeAssumption
    <3> QED BY ONLY <3>1, <3>2, <3>3
  <2> QED BY <1>1, <2>2, <2>3, <2>4, GiveStep
<1>3. CASE ~FreshInMemory
  <2> DEFINE d == [at |-> "read", row |-> NoRow, since |-> pinClock]
  <2>1. d.at = "read" /\ d.row = NoRow /\ ~NoRow.usable /\ d \in Lookup
    BY DEF NoRow, PinRow, Lookup, PinInv, TimesOK
  <2>2. lookup' = [lookup EXCEPT ![l] = d] /\ answer' = [answer EXCEPT ![l] = NotAsked]
    BY <1>3 DEF resolve
  <2>3. PICK e : e = d
    OBVIOUS
  <2> HIDE DEF d
  <2> QED BY <1>1, <2>1, <2>2, <2>3, LookStep
<1> QED BY <1>2, <1>3

LEMMA ReadRowKeeps ==
    ASSUME PincodeAssumption, PinInv, NEW l \in Lookups, ReadRow(l)
    PROVE  PinInv'
<1>0. PICK failed \in BOOLEAN :
        LET r == IF failed THEN NoRow ELSE row
        IN  /\ unread' = (unread \/ failed)
            /\ IF RowFresh(r)
               THEN remember(l, build(r, "cache"))
               ELSE /\ lookup' = [lookup EXCEPT ![l] = [at |-> "fetch", row |-> r, since |-> pinClock]]
                    /\ UNCHANGED <<mem, answer>>
            /\ UNCHANGED <<found, inMap, row, pinClock, blockedAt, deniedAt, curated, editOverlapped>>
  BY Zenon DEF ReadRow, pinWorld, pinBounds, said
<1> PICK r : r = (IF failed THEN NoRow ELSE row)
  OBVIOUS
<1>1. /\ failed \in BOOLEAN
      /\ r = (IF failed THEN NoRow ELSE row)
      /\ unread' = (unread \/ failed)
      /\ IF RowFresh(r)
         THEN remember(l, build(r, "cache"))
         ELSE /\ lookup' = [lookup EXCEPT ![l] = [at |-> "fetch", row |-> r, since |-> pinClock]]
              /\ UNCHANGED <<mem, answer>>
      /\ UNCHANGED <<found, inMap, row, pinClock, blockedAt, deniedAt, curated, editOverlapped>>
  BY <1>0
<1>2. /\ r \in PinRow /\ ~NoRow.usable /\ (r.usable => ~failed /\ r = row)
      /\ r.usable => Known
      /\ blockedAt >= 0 /\ ~failed => ~Serves(r)
      /\ ~failed => r = row
  <2>1. /\ failed \in BOOLEAN /\ r = (IF failed THEN NoRow ELSE row)
    BY ONLY <1>1
  <2>2. /\ row \in PinRow /\ NoRow \in PinRow /\ ~NoRow.usable
        /\ row.usable => Known
        /\ blockedAt >= 0 => ~Serves(row)
    BY DEF PinInv, PinTypeOK, NoRow, PinRow, ProvenOK, BlockedOK, Serves
  <2>3. CASE failed
    BY ONLY <2>1, <2>2, <2>3
  <2>4. CASE ~failed
    BY ONLY <2>1, <2>2, <2>4
  <2> QED BY <2>1, <2>3, <2>4
<1>3. /\ pinClock \in Nat /\ MEM_TTL \in Nat \ {0} /\ LOOKUP_TIMEOUT \in Nat /\ blockedAt \in Int
      /\ pinClock \in Times
  BY DEF PinInv, TimesOK, Times, PincodeAssumption
<1>4. CASE RowFresh(r)
  <2>1. PICK v : v = build(r, "cache")
    OBVIOUS
  <2>2. r.usable /\ (unread' <=> unread)
    <3>1. r.usable
      BY <1>4 DEF RowFresh
    <3>2. ~failed
      BY <1>2, <3>1
    <3> QED BY <1>1, <3>1, <3>2, Zenon
  <2>3. /\ v \in Values /\ v # Refused /\ v # Invalid /\ (Deliverable(v) => Serves(r))
    BY <1>2, <2>1, BuildSays DEF ResolvedSource, Values, Refused
  <2>4. GoodAnswer(v, MEM_TTL + LOOKUP_TIMEOUT) /\ GoodAnswer(v, LOOKUP_TIMEOUT + 1)
    BY <1>2, <2>2, <2>3 DEF GoodAnswer
  <2>5. Gives(l, v) /\ mem' = [at |-> pinClock, value |-> v]
    BY <1>1, <1>4, <2>1 DEF remember
  <2> QED BY <1>1, <2>2, <2>3, <2>4, <2>5, GiveStep
<1>5. CASE ~RowFresh(r)
  <2>1. PICK d : d = [at |-> "fetch", row |-> r, since |-> pinClock]
    OBVIOUS
  <2>2. d \in Lookup /\ d.at = "fetch" /\ d.row = r /\ d.since = pinClock
    BY <1>2, <1>3, <2>1 DEF Lookup
  <2>3. blockedAt >= 0 /\ ~unread' => ~Serves(d.row)
    BY <1>1, <1>2, <2>2
  <2>4. ~(curated /\ ~editOverlapped /\ ~unread')
    <3> SUFFICES ASSUME curated, ~editOverlapped, ~unread' PROVE FALSE
      OBVIOUS
    <3>1. ~failed /\ ~unread /\ r = row
      BY <1>1
    <3> QED BY <1>5, <3>1 DEF RowFresh, PinInv, CuratedOK
  <2>5. lookup' = [lookup EXCEPT ![l] = d] /\ UNCHANGED <<mem, answer>>
    BY <1>1, <1>5, <2>1
  <2>6. unread => unread'
    BY <1>1, Zenon
  <2>7. UNCHANGED <<found, inMap, row, mem, pinClock, blockedAt, deniedAt, curated, editOverlapped>>
    BY <1>1, <2>5
  <2>8. d.row.usable => Known
    BY <1>2, <2>2
  <2>9. d.since <= pinClock /\ pinClock <= d.since + LOOKUP_TIMEOUT /\ d.at # "store"
    BY <1>3, <2>2
  <2>10. ~unread' => d.row = row
    BY <1>1, <1>2, <2>2
  <2> QED BY <2>2, <2>3, <2>4, <2>5, <2>6, <2>7, <2>8, <2>9, <2>10, LookStep
<1> QED BY <1>4, <1>5

(* What the row that was read allows to answer, after at most one fetch. *)
LEMMA RowAnswers ==
    ASSUME PincodeAssumption, PinInv, NEW l \in Lookups, Busy(l), NEW source \in ResolvedSource,
           NEW v, v = build(lookup[l].row, source),
           Known
    PROVE  /\ v \in Values /\ v # Refused /\ v # Invalid
           /\ GoodAnswer(v, MEM_TTL + LOOKUP_TIMEOUT) /\ GoodAnswer(v, LOOKUP_TIMEOUT + 1)
<1>1. lookup[l].row \in PinRow /\ lookup[l].since \in Nat
  BY DEF PinInv, PinTypeOK, Lookup, Times
<1>2. /\ v \in Values /\ v # Refused /\ v # Invalid
      /\ Deliverable(v) => Serves(lookup[l].row)
  BY <1>1, BuildSays DEF Values, Refused
<1>3. ASSUME Deliverable(v), blockedAt >= 0, ~unread PROVE pinClock - blockedAt <= LOOKUP_TIMEOUT
  <2>1. lookup[l].since <= blockedAt /\ pinClock <= lookup[l].since + LOOKUP_TIMEOUT
    BY <1>2, <1>3 DEF PinInv, BlockedOK, TimesOK
  <2>2. pinClock \in Nat /\ blockedAt \in Int /\ LOOKUP_TIMEOUT \in Nat
    BY DEF PinInv, TimesOK, Times, PincodeAssumption
  <2> QED BY ONLY <1>1, <2>1, <2>2
<1>4. pinClock \in Nat /\ blockedAt \in Int /\ LOOKUP_TIMEOUT \in Nat /\ MEM_TTL \in Nat \ {0}
  BY DEF PinInv, TimesOK, Times, PincodeAssumption
<1> QED BY <1>2, <1>3, <1>4 DEF GoodAnswer

LEMMA FetchKeeps ==
    ASSUME PincodeAssumption, PinInv, NEW l \in Lookups,
           FetchFound(l) \/ FetchNone(l) \/ FetchFails(l)
    PROVE  PinInv'
<1>1. /\ lookup[l].at = "fetch" /\ Busy(l) /\ lookup[l] \in Lookup
      /\ UNCHANGED <<inMap, row, pinClock, blockedAt, curated, editOverlapped, unread>>
  BY DEF FetchFound, FetchNone, FetchFails, Doing, Busy, pinWorld, pinBounds, pinHistory, PinInv, PinTypeOK
<1>2. \A source \in {"cache", "fallback"} : source \in ResolvedSource
  BY DEF ResolvedSource
<1>3. CASE FetchFound(l)
  <2>1. PICK d : d = [lookup[l] EXCEPT !.at = "store"]
    OBVIOUS
  <2>2. d \in Lookup /\ d.at = "store" /\ d.row = lookup[l].row /\ d.since = lookup[l].since
    BY <1>1, <2>1 DEF Lookup
  <2>3. lookup' = [lookup EXCEPT ![l] = d] /\ UNCHANGED <<mem, answer, deniedAt>> /\ found' = TRUE
    BY <1>3, <2>1 DEF FetchFound
  <2>4. /\ d.since <= pinClock /\ pinClock <= d.since + LOOKUP_TIMEOUT
        /\ Serves(d.row) /\ blockedAt >= 0 /\ ~unread => d.since <= blockedAt
        /\ ~(curated /\ ~editOverlapped /\ ~unread)
    BY <1>1, <2>2 DEF PinInv, TimesOK, BlockedOK, CuratedOK
  <2>5. /\ d.row.usable => Known
        /\ ~d.row.usable /\ row.usable /\ ~unread => d.since <= row.verifiedAt
    BY <1>1, <2>2 DEF PinInv, ProvenOK
  <2> QED BY <1>1, <2>2, <2>3, <2>4, <2>5, LookStep
<1>4. CASE FetchNone(l)
  <2>1. PICK v : v = IF lookup[l].row.usable THEN build(lookup[l].row, "cache") ELSE Invalid
    OBVIOUS
  <2>2. /\ Gives(l, v) /\ mem' = [at |-> pinClock, value |-> v] /\ UNCHANGED found
        /\ deniedAt' = IF lookup[l].row.usable THEN deniedAt ELSE pinClock
    BY <1>4, <2>1 DEF FetchNone, remember
  <2>3. /\ v \in Values /\ v # Refused
        /\ GoodAnswer(v, MEM_TTL + LOOKUP_TIMEOUT) /\ GoodAnswer(v, LOOKUP_TIMEOUT + 1)
        /\ v = Invalid => ~lookup[l].row.usable
    <3>1. CASE lookup[l].row.usable
      <4>1. Known
        BY <3>1 DEF PinInv, ProvenOK
      <4> QED BY <1>1, <1>2, <2>1, <3>1, <4>1, RowAnswers
    <3>2. CASE ~lookup[l].row.usable
      <4>1. v = Invalid /\ v \in Values /\ v # Refused
        BY <2>1, <3>2 DEF Values, Invalid, Refused
      <4> QED BY <3>2, <4>1, NoAnswers DEF GoodAnswer
    <3> QED BY <3>1, <3>2
  <2>4. v = Invalid => deniedAt' = pinClock /\ deniedAt' >= 0 /\ pinClock - deniedAt' < MEM_TTL
    BY <2>2, <2>3 DEF PinInv, TimesOK, Times, PincodeAssumption
  <2>5. deniedAt' = deniedAt \/ (deniedAt' = pinClock /\ ~lookup[l].row.usable)
    BY <2>2
  <2> QED BY <1>1, <2>2, <2>3, <2>4, <2>5, GiveStep
<1>5. CASE FetchFails(l)
  <2>1. PICK r, v : /\ r = lookup[l].row
                    /\ v = IF r.usable THEN build(r, "cache") ELSE IF inMap THEN build(r, "fallback") ELSE Refused
    OBVIOUS
  <2>2. Gives(l, v) /\ mem' = mem /\ UNCHANGED <<found, deniedAt>>
    BY <1>5, <2>1 DEF FetchFails, pinHistory, said
  <2>3. v \in Values \cup {Refused} /\ v # Invalid /\ GoodAnswer(v, MEM_TTL + LOOKUP_TIMEOUT)
    <3>1. CASE r.usable
      <4>1. Known
        BY <2>1, <3>1 DEF PinInv, ProvenOK
      <4> QED BY <1>1, <1>2, <2>1, <3>1, <4>1, RowAnswers
    <3>2. CASE ~r.usable /\ inMap
      <4>1. Known
        BY <3>2 DEF Known
      <4> QED BY <1>1, <1>2, <2>1, <3>2, <4>1, RowAnswers
    <3>3. CASE ~r.usable /\ ~inMap
      BY <2>1, <3>3, NoAnswers DEF GoodAnswer
    <3> QED BY <3>1, <3>2, <3>3
  <2> QED BY <1>1, <2>2, <2>3, GiveStep
<1> QED BY <1>3, <1>4, <1>5

LEMMA UpsertKeeps ==
    ASSUME PincodeAssumption, PinInv, NEW l \in Lookups, upsertCache(l)
    PROVE  PinInv'
<1>1. /\ Busy(l) /\ found /\ Known
      /\ UNCHANGED <<found, inMap, pinClock, blockedAt, deniedAt, curated, editOverlapped, unread>>
  BY DEF upsertCache, Doing, Busy, pinWorld, pinBounds, pinHistory, said, PinInv, ProvenOK, Known
<1>2. PICK v : v = build(lookup[l].row, "indiapost")
  OBVIOUS
<1>3. Gives(l, v) /\ mem' = [at |-> pinClock, value |-> v]
  BY <1>2 DEF upsertCache, remember
<1>4. /\ v \in Values /\ v # Refused /\ v # Invalid
      /\ GoodAnswer(v, MEM_TTL + LOOKUP_TIMEOUT) /\ GoodAnswer(v, LOOKUP_TIMEOUT + 1)
  BY <1>1, <1>2, RowAnswers DEF ResolvedSource
<1>5. \/ row' = row
      \/ /\ row' \in PinRow /\ row'.usable /\ row'.verifiedAt = pinClock
         /\ (row.usable => row'.prepaidAvailable = row.prepaidAvailable)
  <2>1. PICK flag : flag = IF row.usable THEN row.prepaidAvailable ELSE TRUE
    OBVIOUS
  <2>2. flag \in BOOLEAN
    BY <2>1, PinRowShape DEF PinInv, PinTypeOK
  <2>3. \/ row' = row
        \/ row' = [usable |-> TRUE, source |-> "indiapost", verifiedAt |-> pinClock, prepaidAvailable |-> flag]
    BY <2>1 DEF upsertCache
  <2>4. CASE row' = [usable |-> TRUE, source |-> "indiapost", verifiedAt |-> pinClock, prepaidAvailable |-> flag]
    <3>1. row'.usable = TRUE /\ row'.prepaidAvailable = flag /\ row'.verifiedAt = pinClock
      BY <2>4
    <3>2. row' \in [usable : {TRUE}, source : Sources, verifiedAt : Times, prepaidAvailable : BOOLEAN]
      BY <2>2, <2>4 DEF Sources, PinInv, TimesOK
    <3> QED BY <2>1, <3>1, <3>2 DEF PinRow
  <2> QED BY <2>3, <2>4
<1> QED BY <1>1, <1>3, <1>4, <1>5, GiveStep

(* A row written by hand; nobody had read the one before, or it overlapped. *)
LEMMA EditKeeps ==
    ASSUME PincodeAssumption, PinInv, EditByHand
    PROVE  PinInv'
<1>1. PICK prepaid \in BOOLEAN :
         /\ row' = [usable |-> TRUE, source |-> "manual", verifiedAt |-> pinClock, prepaidAvailable |-> prepaid]
         /\ blockedAt' = IF prepaid THEN -1 ELSE IF blockedAt >= 0 THEN blockedAt ELSE pinClock
         /\ curated' = TRUE
         /\ editOverlapped' = (editOverlapped \/ \E l \in Lookups : lookup[l].at # "idle")
         /\ UNCHANGED <<found, inMap, mem, lookup, answer, pinClock, deniedAt, unread>>
  BY Zenon DEF EditByHand, Doing, pinWorld, said
<1>2. /\ row'.usable = TRUE /\ row'.source = "manual" /\ row'.prepaidAvailable = prepaid
      /\ row' \in PinRow /\ row'.verifiedAt = pinClock
  <2>1. row' \in [usable : {TRUE}, source : Sources, verifiedAt : Times, prepaidAvailable : BOOLEAN]
    BY <1>1 DEF Sources, PinInv, TimesOK
  <2> QED BY <1>1, <2>1 DEF PinRow
<1>3. /\ pinClock \in Nat /\ blockedAt \in Int /\ blockedAt <= pinClock /\ mem.at \in Nat /\ mem.at <= pinClock
      /\ MEM_TTL \in Nat \ {0} /\ LOOKUP_TIMEOUT \in Nat
      /\ deniedAt \in Int /\ deniedAt <= pinClock
  BY DEF PinInv, PinTypeOK, TimesOK, Times, PincodeAssumption
<1>4. blockedAt' \in Int /\ blockedAt' <= pinClock
      /\ (blockedAt' >= 0 => ~prepaid /\ (blockedAt' = pinClock \/ (blockedAt >= 0 /\ blockedAt' = blockedAt)))
  BY <1>1, <1>3
<1>5. PinTypeOK'
  BY <1>1, <1>2 DEF PinInv, PinTypeOK
<1>6. TimesOK'
  BY <1>1, <1>4 DEF PinInv, TimesOK, Busy
<1>7. ProvenOK'
  <2>1. Known'
    BY <1>1 DEF Known
  <2>2. \A l \in Lookups : Busy(l) => lookup[l].since <= row'.verifiedAt
    BY <1>2 DEF PinInv, TimesOK
  <2> QED BY <1>1, <2>1, <2>2 DEF PinInv, ProvenOK, Busy
<1>8. BlockedOK'
  <2> SUFFICES ASSUME blockedAt' >= 0
               PROVE  /\ row'.usable /\ ~row'.prepaidAvailable
                      /\ ~unread =>
                            /\ \A l \in Lookups : Busy(l) /\ Serves(lookup[l].row) => lookup[l].since <= blockedAt'
                            /\ Deliverable(mem.value) => mem.at - blockedAt' <= LOOKUP_TIMEOUT
    BY <1>1 DEF BlockedOK, Busy, Serves, Deliverable
  <2>1. CASE blockedAt' = pinClock
    BY <1>2, <1>3, <1>4, <2>1 DEF PinInv, TimesOK
  <2>2. CASE blockedAt >= 0 /\ blockedAt' = blockedAt
    BY <1>2, <1>4, <2>2 DEF PinInv, BlockedOK
  <2> QED BY <1>4, <2>1, <2>2
<1>9. CuratedOK'
  <2> SUFFICES ASSUME ~editOverlapped', NEW l \in Lookups PROVE ~Busy(l)'
    BY <1>2 DEF CuratedOK
  <2>1. lookup[l].at = "idle"
    BY <1>1, Zenon
  <2> QED BY <1>1, <2>1 DEF Busy
<1>10. AnswerIsProven'
  <2>1. deniedAt - row'.verifiedAt <= LOOKUP_TIMEOUT
    BY <1>2, <1>3
  <2> QED BY <1>1, <2>1 DEF PinInv, AnswerIsProven
<1>11. BlockedIsRefused'
  <2> SUFFICES ASSUME NEW l \in Lookups, Deliverable(answer[l]), blockedAt' >= 0, ~unread
               PROVE  pinClock - blockedAt' < MEM_TTL + LOOKUP_TIMEOUT
    BY <1>1 DEF BlockedIsRefused, Deliverable
  <2>1. CASE blockedAt' = pinClock
    BY <1>3, <2>1
  <2>2. CASE blockedAt >= 0 /\ blockedAt' = blockedAt
    BY <2>2 DEF PinInv, BlockedIsRefused
  <2> QED BY <1>4, <2>1, <2>2
<1> QED BY <1>5, <1>6, <1>7, <1>8, <1>9, <1>10, <1>11 DEF PinInv

LEMMA RestartKeeps ==
    ASSUME PincodeAssumption, PinInv, RestartApi
    PROVE  PinInv'
<1>1. /\ mem' = NoEntry /\ lookup' = [l \in Lookups |-> NoLookup]
      /\ UNCHANGED <<found, inMap, row, answer, pinClock, blockedAt, deniedAt, curated,
                     editOverlapped, unread>>
  BY DEF RestartApi, pinWorld, pinBounds, pinHistory, said
<1>2. /\ NoLookup \in Lookup /\ NoLookup.at = "idle" /\ ~NoLookup.row.usable
      /\ NoEntry.at = 0 /\ NoEntry.value = NotAsked /\ 0 \in Times
  BY DEF NoLookup, Lookup, NoRow, PinRow, Times, PincodeAssumption, NoEntry
<1>3. \A l \in Lookups : ~Busy(l)' /\ lookup'[l] = NoLookup
  BY <1>1, <1>2 DEF Busy
<1>4. PinTypeOK'
  BY <1>1, <1>2 DEF PinInv, PinTypeOK
<1>5. TimesOK'
  BY <1>1, <1>2, <1>3 DEF PinInv, TimesOK, Times
<1>6. ProvenOK'
  BY <1>1, <1>2, <1>3, NoAnswers DEF PinInv, ProvenOK, Known
<1>7. BlockedOK'
  <2>1. ~Deliverable(mem'.value)
    BY <1>1, <1>2, NoAnswers
  <2>2. blockedAt >= 0 => row.usable /\ ~row.prepaidAvailable
    BY DEF PinInv, BlockedOK
  <2> QED BY <1>1, <1>3, <2>1, <2>2 DEF BlockedOK, Deliverable
<1>8. CuratedOK' /\ AnswerIsProven' /\ BlockedIsRefused'
  BY <1>1, <1>3 DEF PinInv, CuratedOK, AnswerIsProven, BlockedIsRefused, Deliverable
<1> QED BY <1>4, <1>5, <1>6, <1>7, <1>8 DEF PinInv

LEMMA PassTimeKeeps ==
    ASSUME PincodeAssumption, PinInv, PassTime
    PROVE  PinInv'
<1>1. /\ pinClock' = pinClock + 1 /\ pinClock < MaxClock /\ answer' = [l \in Lookups |-> NotAsked]
      /\ \A l \in Lookups : lookup[l].at = "idle"
                            \/ (lookup[l].at = "fetch" /\ pinClock - lookup[l].since < LOOKUP_TIMEOUT)
      /\ UNCHANGED <<found, inMap, row, mem, lookup, blockedAt, deniedAt, curated,
                     editOverlapped, unread>>
  BY DEF PassTime, Doing, pinWorld, pinHistory, said
<1>2. /\ pinClock \in Nat /\ blockedAt \in Int /\ mem.at \in Nat /\ LOOKUP_TIMEOUT \in Nat /\ MaxClock \in Nat
      /\ deniedAt \in Int
      /\ \A l \in Lookups : lookup[l].since \in Nat
  BY DEF PinInv, PinTypeOK, TimesOK, Times, Lookup, PincodeAssumption
<1>3. PinTypeOK'
  BY <1>1 DEF PinInv, PinTypeOK
<1>4. TimesOK'
  <2>1. ASSUME NEW l \in Lookups, Busy(l)
        PROVE  lookup[l].since <= pinClock + 1 /\ pinClock + 1 <= lookup[l].since + LOOKUP_TIMEOUT
    BY <1>1, <1>2, <2>1 DEF Busy, PinInv, TimesOK
  <2> QED BY <1>1, <1>2, <2>1 DEF PinInv, TimesOK, Times, Busy
<1>5. ProvenOK' /\ BlockedOK' /\ CuratedOK'
  BY <1>1 DEF PinInv, ProvenOK, Known, BlockedOK, CuratedOK, Busy, Deliverable, Serves
<1>6. AnswerIsProven' /\ BlockedIsRefused'
  BY <1>1, NoAnswers DEF PinInv, AnswerIsProven, BlockedIsRefused, Deliverable
<1> QED BY <1>3, <1>4, <1>5, <1>6 DEF PinInv

LEMMA PinSteps == PincodeAssumption /\ PinInv /\ [PinNext]_pinVars => PinInv'
<1> SUFFICES ASSUME PincodeAssumption, PinInv, [PinNext]_pinVars PROVE PinInv'
  OBVIOUS
<1>1. ASSUME NEW l \in Lookups, \/ resolve(l) \/ ReadRow(l) \/ FetchFound(l) \/ FetchNone(l)
                                \/ FetchFails(l) \/ upsertCache(l)
      PROVE  PinInv'
  BY <1>1, ResolveKeeps, ReadRowKeeps, FetchKeeps, UpsertKeeps
<1>2. CASE UNCHANGED pinVars
  BY <1>2 DEF pinVars, said, PinInv, PinTypeOK, TimesOK, ProvenOK, Known, BlockedOK, CuratedOK, Busy, AnswerIsProven,
              BlockedIsRefused, Deliverable, Serves
<1> QED BY <1>1, <1>2, EditKeeps, RestartKeeps, PassTimeKeeps DEF PinNext

(* pincode.service: "no such PIN" is answered only within the life of the    *)
(* memory after the provider said so, and not over a row it had to see;      *)
(* a PIN blocked in its row is refused within the life of the memory and one *)
(* fetch, and lookups leave what the staff wrote; for any number of lookups, *)
(* whatever fails, and for every length of those lives.                      *)
THEOREM PinAnswers == PinSpec => []PinAnswerHolds
<1> USE PincodeAssumption
<1>1. PinInv => PinAnswerHolds
  BY DEF PinInv, PinAnswerHolds, CuratedIsKept, CuratedOK, BlockedOK
<1> QED BY <1>1, PinStarts, PinSteps, PTL DEF PinSpec

(* What a PIN code's row, the memory and the look-ups keep stays in its types. *)
THEOREM PinTypes == PinSpec => []PinTypeOK
<1> USE PincodeAssumption
<1>1. PinInv => PinTypeOK
  BY DEF PinInv
<1> QED BY <1>1, PinStarts, PinSteps, PTL DEF PinSpec

-----------------------------------------------------------------------------
(* What an order costs.                                                    *)

(* The nearest integer is within a half. *)
LEMMA RoundsTo ==
    ASSUME NEW num \in Nat, NEW den \in Nat \ {0}
    PROVE  /\ round2(num, den) \in Nat
           /\ 2 * den * round2(num, den) <= 2 * num + den
           /\ 2 * num < 2 * den * round2(num, den) + den
<1> DEFINE q == (2 * num + den) \div (2 * den)
<1>1. 2 * num + den \in Nat /\ 2 * den \in Nat /\ 2 * den > 0
  OBVIOUS
<1>2. q \in Int /\ (2 * den) * q <= 2 * num + den /\ 2 * num + den < (2 * den) * (q + 1)
  <2> DEFINE x == 2 * num + den
             y == 2 * den
  <2>1. x \in Nat /\ y \in Nat /\ y > 0
    OBVIOUS
  <2> HIDE DEF x, y
  <2>2. x \div y \in Int /\ y * (x \div y) <= x /\ x < y * ((x \div y) + 1)
    BY <2>1
  <2> QED BY <2>2 DEF x, y
<1> HIDE DEF q
<1>3. q \in Nat
  BY <1>1, <1>2
<1>4. (2 * den) * (q + 1) = (2 * den) * q + 2 * den
  BY <1>2
<1> QED BY <1>2, <1>3, <1>4 DEF round2, q

(* An integer that is no more than rounded ones are is no more. *)
LEMMA RoundsBelow ==
    ASSUME NEW num \in Nat, NEW den \in Nat \ {0}, NEW most \in Nat, num <= den * most
    PROVE  round2(num, den) <= most
<1> DEFINE q == round2(num, den)
<1>1. q \in Nat /\ 2 * den * q <= 2 * num + den
  BY RoundsTo
<1> HIDE DEF q
<1>2. SUFFICES ASSUME q >= most + 1 PROVE FALSE
  BY <1>1 DEF q
<1>3. den * (most + 1) <= den * q
  BY <1>1, <1>2
<1>4. 2 * (den * most) + 2 * den <= 2 * num + den
  BY <1>1, <1>3
<1> QED BY <1>4

(* A coupon is worth no more than the basket. *)
LEMMA DiscountIsPart ==
    ASSUME NEW c \in CouponRows, NEW s \in Nat
    PROVE  DiscountOf(c, s) \in 0 .. s
<1> DEFINE worth == CASE c.type = "PERCENTAGE" -> Least(round2(s * c.value, 100), IF c.cap = 0 THEN s ELSE c.cap)
                      [] c.type = "FIXED" -> c.value
                      [] OTHER -> 0
<1>1. c.value \in Nat /\ c.cap \in Nat
  BY TotalsAssumption
<1>2. round2(s * c.value, 100) \in Nat
  <2> DEFINE n == s * c.value
  <2>1. n \in Nat /\ 100 \in Nat \ {0}
    BY <1>1
  <2> HIDE DEF n
  <2>2. round2(n, 100) \in Nat
    BY <2>1, RoundsTo
  <2> QED BY <2>2 DEF n
<1>3. worth \in Nat
  <2>1. CASE c.type = "PERCENTAGE"
    BY <1>1, <1>2, <2>1 DEF Least
  <2>2. CASE c.type = "FIXED"
    BY <1>1, <2>2
  <2>3. CASE c.type # "PERCENTAGE" /\ c.type # "FIXED"
    BY <2>3
  <2> QED BY <2>1, <2>2, <2>3
<1>4. DiscountOf(c, s) = Least(worth, s)
  BY DEF DiscountOf
<1> HIDE DEF worth
<1> QED BY <1>3, <1>4 DEF Least

(* The share of a line that costs g of s in a discount of d. *)
Share(g, s, d) == IF s = 0 THEN 0 ELSE round2(g * d, s)

LEMMA ShareIs ==
    ASSUME NEW s \in Nat, NEW g \in 0 .. s, NEW d \in 0 .. s
    PROVE  /\ Share(g, s, d) \in 0 .. g
           /\ 2 * s * Share(g, s, d) <= 2 * d * g + s
           /\ 2 * d * g <= 2 * s * Share(g, s, d) + s
<1>1. CASE s = 0
  BY <1>1 DEF Share
<1>2. CASE s # 0
  <2> DEFINE q == round2(g * d, s)
  <2>1. g * d \in Nat /\ g * d <= s * g
    BY <1>2
  <2>2. q \in Nat /\ 2 * s * q <= 2 * (g * d) + s /\ 2 * (g * d) < 2 * s * q + s /\ q <= g
    BY <1>2, <2>1, RoundsTo, RoundsBelow
  <2>3. Share(g, s, d) = q
    BY <1>2 DEF Share
  <2> HIDE DEF q
  <2>4. 2 * (g * d) = 2 * d * g /\ 2 * s * q \in Nat /\ 2 * d * g \in Nat
    BY <2>2
  <2> QED BY <2>2, <2>3, <2>4
<1> QED BY <1>1, <1>2

(* The tax in what is paid. *)
LEMMA TaxIs ==
    ASSUME NEW net \in Nat, NEW rate \in Nat, NEW parts \in Nat \ {0},
           (100 + rate) * (parts \div (100 + rate)) = parts
    PROVE  LET tax == round2(net * rate, 100 + rate)
               part == net * rate * (parts \div (100 + rate))
           IN  /\ tax \in 0 .. net /\ part \in Nat
               /\ 2 * parts * tax <= 2 * part + parts
               /\ 2 * part <= 2 * parts * tax + parts
<1> DEFINE tax == round2(net * rate, 100 + rate)
           q == parts \div (100 + rate)
           n == net * rate
           y == 100 + rate
<1>1. n \in Nat /\ y \in Nat \ {0} /\ n <= y * net
  <2>1. y * net = 100 * net + net * rate
    OBVIOUS
  <2>2. net * rate \in Nat
    OBVIOUS
  <2> QED BY <2>1, <2>2
<1>2. q \in Int /\ y * q = parts
  OBVIOUS
<1>3. tax \in Nat /\ 2 * y * tax <= 2 * n + y /\ 2 * n < 2 * y * tax + y /\ tax <= net
  BY <1>1, RoundsTo, RoundsBelow
<1> HIDE DEF tax, q, n, y
<1>4. q \in Nat
  <2>1. SUFFICES ASSUME q <= -1 PROVE FALSE
    BY <1>2
  <2>2. y * q <= y * (-1)
    BY <1>1, <1>2, <2>1
  <2> QED BY <1>1, <1>2, <2>2
<1>5. n * q \in Nat
  BY <1>1, <1>4
<1>6. (2 * y * tax) * q <= (2 * n + y) * q /\ (2 * n) * q <= (2 * y * tax + y) * q
  BY <1>1, <1>3, <1>4
<1>7. /\ (2 * y * tax) * q = 2 * parts * tax /\ (2 * n + y) * q = 2 * (n * q) + parts
      /\ (2 * n) * q = 2 * (n * q) /\ (2 * y * tax + y) * q = 2 * parts * tax + parts
  <2>1. (2 * y * tax) * q = 2 * (y * q) * tax
    BY <1>1, <1>3, <1>4
  <2>2. (2 * n + y) * q = 2 * (n * q) + y * q
    BY <1>1, <1>4
  <2>3. (2 * n) * q = 2 * (n * q)
    BY <1>1, <1>4
  <2>4. (2 * y * tax + y) * q = 2 * (y * q) * tax + y * q
    BY <1>1, <1>3, <1>4
  <2> QED BY <1>2, <2>1, <2>2, <2>3, <2>4
<1>8. tax \in 0 .. net /\ n * q \in Nat /\ 2 * parts * tax <= 2 * (n * q) + parts /\ 2 * (n * q) <= 2 * parts * tax + parts
  BY <1>3, <1>5, <1>6, <1>7
<1> QED BY <1>8 DEF tax, q, n, y

-----------------------------------------------------------------------------
(* One order. *)

ItemsOf(b, c) == [i \in DOMAIN b |-> OrderItem(b[i], Len(b), computeTotals(b, c))]
GrossOf(b) == [i \in DOMAIN b |-> Gross(b[i])]
One(b) == [i \in DOMAIN b |-> 1]

LEMMA BasketIs ==
    ASSUME NEW b \in Baskets
    PROVE  /\ Len(b) \in Nat /\ IsFiniteSet(DOMAIN b) /\ Cardinality(DOMAIN b) = Len(b)
           /\ SumFunctionOnSet(One(b), DOMAIN b) = Len(b)
           /\ itemsSubtotal(b) = SumFunctionOnSet(GrossOf(b), DOMAIN b) /\ itemsSubtotal(b) \in Nat
           /\ \A i \in DOMAIN b : /\ b[i].price \in Nat /\ b[i].qty \in Nat \ {0} /\ b[i].rate \in Nat
                                  /\ GrossOf(b)[i] = Gross(b[i]) /\ Gross(b[i]) \in 0 .. itemsSubtotal(b)
<1>1. /\ Len(b) \in Nat /\ DOMAIN b = 1 .. Len(b)
      /\ \A i \in DOMAIN b : b[i].price \in Nat /\ b[i].qty \in Nat \ {0} /\ b[i].rate \in Nat
  BY TotalsAssumption
<1>2. IsFiniteSet(DOMAIN b) /\ Cardinality(DOMAIN b) = Len(b)
  <2>1. IsFiniteSet(1 .. Len(b)) /\ Cardinality(1 .. Len(b)) = IF 1 > Len(b) THEN 0 ELSE Len(b) - 1 + 1
    BY <1>1, FS_Interval
  <2> QED BY <1>1, <2>1
<1>3. \A i \in DOMAIN b : GrossOf(b)[i] = Gross(b[i]) /\ Gross(b[i]) \in Nat
  BY <1>1 DEF GrossOf, Gross
<1>4. itemsSubtotal(b) = SumFunctionOnSet(GrossOf(b), DOMAIN b)
  BY DEF itemsSubtotal, Total, GrossOf
<1>5. itemsSubtotal(b) \in Nat
  BY <1>2, <1>3, <1>4, SumIsNat
<1>6. \A i \in DOMAIN b : Gross(b[i]) <= itemsSubtotal(b)
  BY <1>2, <1>3, <1>4, SumBounds
<1>7. SumFunctionOnSet(One(b), DOMAIN b) = Len(b)
  BY <1>2, SumOfOnes DEF One
<1> QED BY <1>1, <1>2, <1>3, <1>4, <1>5, <1>6, <1>7

(* What there is of a line of an order. *)
LEMMA LineIs ==
    ASSUME NEW b \in Baskets, NEW c \in CouponRows, NEW i \in DOMAIN b
    PROVE  LET s == itemsSubtotal(b)
               d == DiscountOf(c, s)
               g == Gross(b[i])
               l == ItemsOf(b, c)[i]
           IN  /\ l.qty = b[i].qty /\ l.discount = Share(g, s, d) /\ l.total = g - l.discount
               /\ l.tax = round2(l.total * b[i].rate, 100 + b[i].rate)
               /\ s \in Nat /\ d \in 0 .. s /\ g \in 0 .. s
               /\ l.discount \in 0 .. g /\ l.total \in 0 .. g /\ l.tax \in 0 .. l.total
<1> DEFINE s == itemsSubtotal(b)
           d == DiscountOf(c, s)
           g == Gross(b[i])
           l == ItemsOf(b, c)[i]
<1>1. s \in Nat /\ g \in 0 .. s /\ b[i].rate \in Nat
  BY BasketIs
<1>2. d \in 0 .. s
  BY <1>1, DiscountIsPart
<1>3. /\ l.qty = b[i].qty /\ l.discount = Share(g, s, d) /\ l.total = g - l.discount
      /\ l.tax = round2(l.total * b[i].rate, 100 + b[i].rate)
  BY DEF ItemsOf, OrderItem, computeTotals, Share
<1>4. /\ TaxParts \in Nat \ {0} /\ (100 + b[i].rate) * (TaxParts \div (100 + b[i].rate)) = TaxParts
  BY TotalsAssumption
<1> HIDE DEF s, d, g, l
<1>5. l.discount \in 0 .. g
  BY <1>1, <1>2, <1>3, ShareIs
<1>6. l.total \in 0 .. g
  BY <1>1, <1>3, <1>5
<1>7. l.tax \in 0 .. l.total
  <2> DEFINE n == l.total
  <2>1. n \in Nat
    BY <1>1, <1>6
  <2> HIDE DEF n
  <2>2. round2(n * b[i].rate, 100 + b[i].rate) \in 0 .. n
    BY <1>1, <1>4, <2>1, TaxIs
  <2> QED BY <1>3, <2>2 DEF n
<1>8. /\ l.qty = b[i].qty /\ l.discount = Share(g, s, d) /\ l.total = g - l.discount
      /\ l.tax = round2(l.total * b[i].rate, 100 + b[i].rate)
      /\ s \in Nat /\ d \in 0 .. s /\ g \in 0 .. s
      /\ l.discount \in 0 .. g /\ l.total \in 0 .. g /\ l.tax \in 0 .. l.total
  BY <1>1, <1>2, <1>3, <1>5, <1>6, <1>7
<1> QED BY <1>8 DEF s, d, g, l

(* Parts that are each within half of one of the whole's sum to it within a  *)
(* half each.                                                               *)
LEMMA PartsAddUp ==
    ASSUME NEW b \in Baskets, NEW f, NEW whole \in 0 .. itemsSubtotal(b),
           \A i \in DOMAIN b :
              /\ f[i] \in Nat /\ f[i] <= Gross(b[i])
              /\ 2 * itemsSubtotal(b) * f[i] <= 2 * whole * Gross(b[i]) + itemsSubtotal(b)
              /\ 2 * whole * Gross(b[i]) <= 2 * itemsSubtotal(b) * f[i] + itemsSubtotal(b)
    PROVE  2 * Distance(SumFunctionOnSet(f, DOMAIN b), whole) <= Len(b)
<1> DEFINE s == itemsSubtotal(b)
           F == SumFunctionOnSet(f, DOMAIN b)
           n == Len(b)
           a == 2 * s
           w == 2 * whole
<1>1. /\ s \in Nat /\ n \in Nat /\ IsFiniteSet(DOMAIN b) /\ s = SumFunctionOnSet(GrossOf(b), DOMAIN b)
      /\ SumFunctionOnSet(One(b), DOMAIN b) = n
      /\ \A i \in DOMAIN b : GrossOf(b)[i] = Gross(b[i]) /\ Gross(b[i]) \in 0 .. s
  BY BasketIs
<1>2. F \in Nat
  BY <1>1, SumIsNat
<1>3. a \in Int /\ w \in Int /\ whole \in Nat /\ whole <= s
  BY <1>1
<1>4. /\ \A i \in DOMAIN b : f[i] \in Int /\ GrossOf(b)[i] \in Int /\ One(b)[i] \in Int
      /\ \A i \in DOMAIN b : a * f[i] <= w * GrossOf(b)[i] + s * One(b)[i]
      /\ \A i \in DOMAIN b : w * GrossOf(b)[i] <= a * f[i] + s * One(b)[i]
      /\ \A i \in DOMAIN b : GrossOf(b)[i] \in Int /\ f[i] \in Int /\ One(b)[i] \in Int
      /\ s \in Int
  BY <1>1 DEF One
<1> HIDE DEF a, w, F, n, s
<1>5. a * F <= w * s + s * n
  <2>1. a * SumFunctionOnSet(f, DOMAIN b) <= w * SumFunctionOnSet(GrossOf(b), DOMAIN b) + s * SumFunctionOnSet(One(b), DOMAIN b)
    BY <1>1, <1>3, <1>4, SumWithin, Zenon
  <2> QED BY <1>1, <2>1 DEF F
<1>6. w * s <= a * F + s * n
  <2>1. w * SumFunctionOnSet(GrossOf(b), DOMAIN b) <= a * SumFunctionOnSet(f, DOMAIN b) + s * SumFunctionOnSet(One(b), DOMAIN b)
    BY <1>1, <1>3, <1>4, SumWithin, Zenon
  <2> QED BY <1>1, <2>1 DEF F
<1>7. CASE s = 0
  <2>1. ASSUME NEW i \in DOMAIN b PROVE f[i] = 0
    <3>1. f[i] \in Nat /\ f[i] <= Gross(b[i]) /\ Gross(b[i]) \in 0 .. 0
      BY <1>1, <1>7
    <3> QED BY <3>1
  <2>2. F = 0
    <3>1. F \in {0}
      <4>1. 0 \in {0} /\ \A x, y \in {0} : x + y \in {0}
        OBVIOUS
      <4> QED BY <1>1, <2>1, <4>1, SumIsIn, Zenon DEF F
    <3> QED BY <3>1
  <2> QED BY <1>1, <1>3, <1>7, <2>2 DEF Distance, F, n
<1>8. CASE s # 0
  <2>1. s * (2 * F) <= s * (2 * whole + n) /\ s * (2 * whole) <= s * (2 * F + n)
    BY <1>1, <1>2, <1>3, <1>5, <1>6 DEF a, w
  <2>2. 2 * F <= 2 * whole + n /\ 2 * whole <= 2 * F + n
    <3>1. \A x, y \in Int : s * x <= s * y => x <= y
      BY <1>1, <1>8
    <3>2. 2 * F \in Int /\ 2 * whole + n \in Int /\ 2 * whole \in Int /\ 2 * F + n \in Int
      BY <1>1, <1>2, <1>3
    <3> QED BY <2>1, <3>1, <3>2
  <2> QED BY <1>1, <1>2, <1>3, <2>2 DEF Distance, F, n
<1> QED BY <1>7, <1>8

DiscountsOf(b, c) == [i \in DOMAIN b |-> ItemsOf(b, c)[i].discount]
NetsOf(b, c) == [i \in DOMAIN b |-> ItemsOf(b, c)[i].total]
TaxesOf(b, c) == [i \in DOMAIN b |-> ItemsOf(b, c)[i].tax]
UnitsOf(b) == [i \in DOMAIN b |-> b[i].qty]

(* The lines' discounts, and what is left of their prices. *)
LEMMA SharesAddUp ==
    ASSUME NEW b \in Baskets, NEW c \in CouponRows
    PROVE  LET t == computeTotals(b, c)
           IN  /\ 2 * Distance(SumFunctionOnSet(DiscountsOf(b, c), DOMAIN b), t.discountTotal) <= Len(b)
               /\ 2 * Distance(SumFunctionOnSet(NetsOf(b, c), DOMAIN b), t.grandTotal) <= Len(b)
<1> DEFINE s == itemsSubtotal(b)
           d == DiscountOf(c, s)
           t == computeTotals(b, c)
<1>1. s \in Nat /\ d \in 0 .. s
  BY BasketIs, DiscountIsPart
<1>2. t.discountTotal = d /\ t.grandTotal = s - d
  BY DEF computeTotals
<1>3. ASSUME NEW i \in DOMAIN b
      PROVE  /\ DiscountsOf(b, c)[i] \in Nat /\ DiscountsOf(b, c)[i] <= Gross(b[i])
             /\ NetsOf(b, c)[i] \in Nat /\ NetsOf(b, c)[i] <= Gross(b[i])
             /\ 2 * s * DiscountsOf(b, c)[i] <= 2 * d * Gross(b[i]) + s
             /\ 2 * d * Gross(b[i]) <= 2 * s * DiscountsOf(b, c)[i] + s
             /\ 2 * s * NetsOf(b, c)[i] <= 2 * (s - d) * Gross(b[i]) + s
             /\ 2 * (s - d) * Gross(b[i]) <= 2 * s * NetsOf(b, c)[i] + s
  <2> DEFINE g == Gross(b[i])
             x == DiscountsOf(b, c)[i]
             y == NetsOf(b, c)[i]
  <2>1. x = Share(g, s, d) /\ y = g - x /\ g \in 0 .. s /\ x \in 0 .. g
    BY LineIs DEF DiscountsOf, NetsOf
  <2>2. 2 * s * Share(g, s, d) <= 2 * d * g + s /\ 2 * d * g <= 2 * s * Share(g, s, d) + s
    BY <1>1, <2>1, ShareIs
  <2> HIDE DEF g, x, y, s, d
  <2>3. 2 * s * x <= 2 * d * g + s /\ 2 * d * g <= 2 * s * x + s
    BY <2>1, <2>2
  <2>4. x \in Nat /\ g \in Nat /\ y \in Nat /\ x <= g /\ y <= g
    BY <1>1, <2>1
  <2>5. /\ 2 * s * y = 2 * s * g - 2 * s * x
        /\ 2 * (s - d) * g = 2 * s * g - 2 * d * g
    BY <1>1, <2>1, <2>4
  <2>6. 2 * s * g \in Int /\ 2 * s * x \in Int /\ 2 * d * g \in Int
    BY <1>1, <2>4
  <2>7. 2 * s * y <= 2 * (s - d) * g + s /\ 2 * (s - d) * g <= 2 * s * y + s
    BY <1>1, <2>3, <2>5, <2>6
  <2> QED BY <2>3, <2>4, <2>7 DEF g, x, y, s, d
<1> HIDE DEF d
<1>4. 2 * Distance(SumFunctionOnSet(DiscountsOf(b, c), DOMAIN b), d) <= Len(b)
  BY <1>1, <1>3, PartsAddUp
<1>5. 2 * Distance(SumFunctionOnSet(NetsOf(b, c), DOMAIN b), s - d) <= Len(b)
  <2> DEFINE r == s - d
  <2>1. r \in 0 .. s
    BY <1>1
  <2>2. \A i \in DOMAIN b : /\ NetsOf(b, c)[i] \in Nat /\ NetsOf(b, c)[i] <= Gross(b[i])
                            /\ 2 * s * NetsOf(b, c)[i] <= 2 * r * Gross(b[i]) + s
                            /\ 2 * r * Gross(b[i]) <= 2 * s * NetsOf(b, c)[i] + s
    BY <1>3
  <2> HIDE DEF r
  <2>3. 2 * Distance(SumFunctionOnSet(NetsOf(b, c), DOMAIN b), r) <= Len(b)
    BY <2>1, <2>2, PartsAddUp
  <2> QED BY <2>3 DEF r
<1> QED BY <1>2, <1>4, <1>5

(* The lines' taxes, taken after the discount, against the order's, taken    *)
(* before it.                                                               *)
TaxPartsOf(b) == [i \in DOMAIN b |-> TaxPart(b[i])]

LEMMA TaxOfLine ==
    ASSUME NEW b \in Baskets, NEW c \in CouponRows, NEW i \in DOMAIN b
    PROVE  /\ TaxesOf(b, c)[i] \in Nat /\ TaxPartsOf(b)[i] \in Nat
           /\ 2 * TaxParts * TaxesOf(b, c)[i] <= 2 * TaxPartsOf(b)[i] + TaxParts
           /\ DiscountOf(c, itemsSubtotal(b)) = 0 =>
                 2 * TaxPartsOf(b)[i] <= 2 * TaxParts * TaxesOf(b, c)[i] + TaxParts
<1> DEFINE g == Gross(b[i])
           y == ItemsOf(b, c)[i].total
           x == TaxesOf(b, c)[i]
           r == b[i].rate
           q == TaxParts \div (100 + b[i].rate)
           s == itemsSubtotal(b)
<1>1. /\ y \in 0 .. g /\ g \in Nat /\ x = round2(y * r, 100 + r) /\ s \in Nat /\ g \in 0 .. s
      /\ y = g - Share(g, s, DiscountOf(c, s))
  BY LineIs DEF TaxesOf
<1>2. r \in Nat /\ TaxParts \in Nat \ {0} /\ (100 + r) * q = TaxParts
  BY TotalsAssumption
<1>3. y \in Nat
  BY <1>1
<1>4. x \in Nat /\ 2 * TaxParts * x <= 2 * (y * r * q) + TaxParts /\ 2 * (y * r * q) <= 2 * TaxParts * x + TaxParts
  <2> HIDE DEF y, r
  <2> DEFINE z == round2(y * r, 100 + r)
  <2>1. z \in 0 .. y /\ 2 * TaxParts * z <= 2 * (y * r * q) + TaxParts /\ 2 * (y * r * q) <= 2 * TaxParts * z + TaxParts
    BY <1>2, <1>3, TaxIs DEF r
  <2> QED BY <1>1, <1>3, <2>1
<1>5. TaxPartsOf(b)[i] = g * r * q
  BY DEF TaxPartsOf, TaxPart
<1>6. q \in Nat
  <2>1. q \in Int
    BY <1>2
  <2> HIDE DEF q, r
  <2>2. SUFFICES ASSUME q <= -1 PROVE FALSE
    BY <2>1
  <2>3. (100 + r) * q <= (100 + r) * (-1)
    BY <1>2, <2>1, <2>2
  <2> QED BY <1>2, <2>3
<1>7. DiscountOf(c, s) = 0 => y = g
  <2>1. SUFFICES ASSUME DiscountOf(c, s) = 0 PROVE y = g
    OBVIOUS
  <2> DEFINE z == Share(g, s, 0)
  <2>2. z \in 0 .. g /\ 2 * s * z <= 2 * 0 * g + s
    BY <1>1, ShareIs
  <2>3. s = 0 => z = 0
    BY DEF Share
  <2> HIDE DEF z, g, s
  <2>4. z = 0
    <3>1. SUFFICES ASSUME z >= 1, s >= 1 PROVE FALSE
      BY <1>1, <2>2, <2>3
    <3>2. z \in Nat /\ s \in Nat
      BY <1>1, <2>2
    <3>3. s * z >= s
      BY <3>1, <3>2
    <3>4. 2 * s * z = 2 * (s * z) /\ 2 * 0 * g = 0
      BY <1>1, <3>2
    <3> QED BY <2>2, <3>1, <3>2, <3>3, <3>4
  <2> QED BY <1>1, <2>1, <2>4 DEF z
<1> HIDE DEF g, x, y, r, q, s
<1>8. y * r * q <= g * r * q /\ g * r * q \in Nat /\ y * r * q \in Nat
  <2>1. r * q \in Nat
    BY <1>2, <1>6
  <2>2. y * (r * q) <= g * (r * q) /\ y * (r * q) \in Nat /\ g * (r * q) \in Nat
    BY <1>1, <1>3, <2>1
  <2>3. y * (r * q) = y * r * q /\ g * (r * q) = g * r * q
    BY <1>1, <1>2, <1>3, <1>6
  <2> QED BY <2>2, <2>3
<1>9. 2 * TaxParts * x \in Int
  BY <1>2, <1>4
<1>10. 2 * TaxParts * x <= 2 * (g * r * q) + TaxParts
  BY <1>2, <1>4, <1>8, <1>9
<1>11. y = g => 2 * (g * r * q) <= 2 * TaxParts * x + TaxParts
  BY <1>4
<1> QED BY <1>4, <1>5, <1>7, <1>8, <1>10, <1>11 DEF x, s

LEMMA TaxesAddUp ==
    ASSUME NEW b \in Baskets, NEW c \in CouponRows
    PROVE  LET t == computeTotals(b, c)
               X == SumFunctionOnSet(TaxesOf(b, c), DOMAIN b)
           IN  /\ 2 * (X - t.taxTotal) <= Len(b) + 1
               /\ t.discountTotal = 0 => 2 * Distance(X, t.taxTotal) <= Len(b) + 1
<1> DEFINE X == SumFunctionOnSet(TaxesOf(b, c), DOMAIN b)
           P == SumFunctionOnSet(TaxPartsOf(b), DOMAIN b)
           T == taxTotal(b)
           n == Len(b)
           M == TaxParts
           d == DiscountOf(c, itemsSubtotal(b))
           a == 2 * M
<1>1. /\ n \in Nat /\ IsFiniteSet(DOMAIN b) /\ SumFunctionOnSet(One(b), DOMAIN b) = n /\ M \in Nat \ {0}
      /\ a \in Int /\ 2 \in Int /\ M \in Int
  BY BasketIs, TotalsAssumption
<1>2. /\ \A i \in DOMAIN b : TaxesOf(b, c)[i] \in Nat
      /\ \A i \in DOMAIN b : TaxPartsOf(b)[i] \in Nat
      /\ \A i \in DOMAIN b : TaxesOf(b, c)[i] \in Int /\ TaxPartsOf(b)[i] \in Int /\ One(b)[i] \in Int
      /\ \A i \in DOMAIN b : TaxPartsOf(b)[i] \in Int /\ TaxesOf(b, c)[i] \in Int /\ One(b)[i] \in Int
  BY TaxOfLine DEF One
<1>3. X \in Nat /\ P \in Nat
  BY <1>1, <1>2, SumIsNat
<1>4. T = round2(P, M)
  BY DEF taxTotal, Total, TaxPartsOf
<1>5. T \in Nat /\ a * T <= 2 * P + M /\ 2 * P < a * T + M
  <2> HIDE DEF P, T
  <2> QED BY <1>1, <1>3, <1>4, RoundsTo
<1>6. \A i \in DOMAIN b : a * TaxesOf(b, c)[i] <= 2 * TaxPartsOf(b)[i] + M * One(b)[i]
  BY <1>1, TaxOfLine DEF One
<1>7. d = 0 => \A i \in DOMAIN b : 2 * TaxPartsOf(b)[i] <= a * TaxesOf(b, c)[i] + M * One(b)[i]
  BY <1>1, TaxOfLine DEF One
<1> HIDE DEF a, M, n, d
<1>8. a * SumFunctionOnSet(TaxesOf(b, c), DOMAIN b) <= 2 * SumFunctionOnSet(TaxPartsOf(b), DOMAIN b) + M * SumFunctionOnSet(One(b), DOMAIN b)
  BY <1>1, <1>2, <1>6, SumWithin, Zenon
<1>9. d = 0 => 2 * SumFunctionOnSet(TaxPartsOf(b), DOMAIN b) <= a * SumFunctionOnSet(TaxesOf(b, c), DOMAIN b) + M * SumFunctionOnSet(One(b), DOMAIN b)
  BY <1>1, <1>2, <1>7, SumWithin, Zenon
<1>10. a * X <= 2 * P + M * n /\ (d = 0 => 2 * P <= a * X + M * n)
  BY <1>1, <1>8, <1>9
<1> HIDE DEF X, P, T
<1>11. \A x, y \in Int : M * x <= M * y => x <= y
  BY <1>1
<1>12. 2 * (X - T) <= n + 1
  <2>1. a * X <= a * T + M + M * n
    <3>1. a * X \in Int /\ a * T \in Int /\ M * n \in Int
      BY <1>1, <1>3, <1>5
    <3> QED BY <1>1, <1>3, <1>5, <1>10, <3>1
  <2>2. M * (2 * (X - T)) <= M * (n + 1)
    <3>1. a * X = M * (2 * X) /\ a * T = M * (2 * T) /\ M * (2 * (X - T)) = M * (2 * X) - M * (2 * T) /\ M * (n + 1) = M * n + M
      BY <1>1, <1>3, <1>5 DEF a
    <3>2. M * (2 * X) \in Int /\ M * (2 * T) \in Int /\ M * n \in Int
      BY <1>1, <1>3, <1>5
    <3> QED BY <1>1, <2>1, <3>1, <3>2
  <2>3. 2 * (X - T) \in Int /\ n + 1 \in Int
    BY <1>1, <1>3, <1>5
  <2> QED BY <1>11, <2>2, <2>3
<1>13. d = 0 => 2 * (T - X) <= n + 1
  <2>0. SUFFICES ASSUME d = 0 PROVE 2 * (T - X) <= n + 1
    OBVIOUS
  <2>1. a * T <= a * X + M + M * n
    <3>1. a * X \in Int /\ a * T \in Int /\ M * n \in Int
      BY <1>1, <1>3, <1>5
    <3> QED BY <1>1, <1>3, <1>5, <1>10, <2>0, <3>1
  <2>2. M * (2 * (T - X)) <= M * (n + 1)
    <3>1. a * X = M * (2 * X) /\ a * T = M * (2 * T) /\ M * (2 * (T - X)) = M * (2 * T) - M * (2 * X) /\ M * (n + 1) = M * n + M
      BY <1>1, <1>3, <1>5 DEF a
    <3>2. M * (2 * X) \in Int /\ M * (2 * T) \in Int /\ M * n \in Int
      BY <1>1, <1>3, <1>5
    <3> QED BY <1>1, <2>1, <3>1, <3>2
  <2>3. 2 * (T - X) \in Int /\ n + 1 \in Int
    BY <1>1, <1>3, <1>5
  <2> QED BY <1>11, <2>2, <2>3
<1>14. d = 0 => 2 * Distance(X, T) <= n + 1
  BY <1>1, <1>3, <1>5, <1>12, <1>13 DEF Distance
<1>15. computeTotals(b, c).taxTotal = T /\ computeTotals(b, c).discountTotal = d
  BY DEF computeTotals, T, d
<1> QED BY <1>12, <1>14, <1>15 DEF X, n

(* What the courier is told, each number in whole rupees. *)
ToldOf(b) == [i \in DOMAIN b |-> b[i].qty * Rupees(b[i].price)]

LEMMA RupeesAre ==
    ASSUME NEW p \in Nat
    PROVE  Rupees(p) \in Nat /\ 100 * Rupees(p) <= p + 50 /\ p <= 100 * Rupees(p) + 50
<1> DEFINE r == round2(p, 100)
<1>1. r \in Nat /\ 2 * 100 * r <= 2 * p + 100 /\ 2 * p < 2 * 100 * r + 100
  BY RoundsTo
<1>2. Rupees(p) = r
  BY DEF Rupees
<1> HIDE DEF r
<1>3. 100 * r <= p + 50 /\ p <= 100 * r + 50
  BY <1>1
<1> QED BY <1>1, <1>2, <1>3

LEMMA CourierIsTold ==
    ASSUME NEW b \in Baskets, NEW c \in CouponRows
    PROVE  LET t == computeTotals(b, c)
               goods == SumFunctionOnSet(ToldOf(b), DOMAIN b)
               pieces == SumFunctionOnSet(UnitsOf(b), DOMAIN b)
           IN  /\ Distance(100 * Rupees(t.grandTotal), t.grandTotal) <= 50
               /\ 2 * Distance(goods, Rupees(t.discountTotal) + Rupees(t.grandTotal)) <= pieces + 2
<1> DEFINE W == SumFunctionOnSet(ToldOf(b), DOMAIN b)
           U == SumFunctionOnSet(UnitsOf(b), DOMAIN b)
           s == itemsSubtotal(b)
           d == DiscountOf(c, s)
<1>1. /\ IsFiniteSet(DOMAIN b) /\ s \in Nat /\ s = SumFunctionOnSet(GrossOf(b), DOMAIN b)
      /\ \A i \in DOMAIN b : /\ b[i].price \in Nat /\ b[i].qty \in Nat \ {0}
                             /\ GrossOf(b)[i] = Gross(b[i]) /\ Gross(b[i]) \in 0 .. s
  BY BasketIs
<1>2. d \in 0 .. s
  BY <1>1, DiscountIsPart
<1>3. ASSUME NEW i \in DOMAIN b
      PROVE  /\ ToldOf(b)[i] \in Nat /\ UnitsOf(b)[i] \in Nat /\ GrossOf(b)[i] \in Nat
             /\ 100 * ToldOf(b)[i] <= 1 * GrossOf(b)[i] + 50 * UnitsOf(b)[i]
             /\ 1 * GrossOf(b)[i] <= 100 * ToldOf(b)[i] + 50 * UnitsOf(b)[i]
  <2> DEFINE p == b[i].price
             q == b[i].qty
             r == Rupees(p)
  <2>1. p \in Nat /\ q \in Nat /\ ToldOf(b)[i] = q * r /\ UnitsOf(b)[i] = q /\ GrossOf(b)[i] = p * q
    BY <1>1 DEF ToldOf, UnitsOf, Gross
  <2>2. r \in Nat /\ 100 * r <= p + 50 /\ p <= 100 * r + 50
    BY <2>1, RupeesAre
  <2> HIDE DEF p, q, r
  <2>3. q * (100 * r) <= q * (p + 50) /\ q * p <= q * (100 * r + 50)
    BY <2>1, <2>2
  <2>4. /\ q * (100 * r) = 100 * (q * r) /\ q * (p + 50) = p * q + 50 * q /\ q * p = p * q
        /\ q * (100 * r + 50) = 100 * (q * r) + 50 * q /\ q * r \in Nat /\ p * q \in Nat
    BY <2>1, <2>2
  <2> QED BY <2>1, <2>3, <2>4
<1>4. /\ \A i \in DOMAIN b : ToldOf(b)[i] \in Nat
      /\ \A i \in DOMAIN b : UnitsOf(b)[i] \in Nat
      /\ \A i \in DOMAIN b : ToldOf(b)[i] \in Int /\ GrossOf(b)[i] \in Int /\ UnitsOf(b)[i] \in Int
      /\ \A i \in DOMAIN b : GrossOf(b)[i] \in Int /\ ToldOf(b)[i] \in Int /\ UnitsOf(b)[i] \in Int
      /\ \A i \in DOMAIN b : 100 * ToldOf(b)[i] <= 1 * GrossOf(b)[i] + 50 * UnitsOf(b)[i]
      /\ \A i \in DOMAIN b : 1 * GrossOf(b)[i] <= 100 * ToldOf(b)[i] + 50 * UnitsOf(b)[i]
      /\ 1 \in Int /\ 50 \in Int /\ 100 \in Int
  BY <1>3
<1>5. W \in Nat /\ U \in Nat
  BY <1>1, <1>4, SumIsNat
<1>6. 100 * SumFunctionOnSet(ToldOf(b), DOMAIN b) <= 1 * SumFunctionOnSet(GrossOf(b), DOMAIN b) + 50 * SumFunctionOnSet(UnitsOf(b), DOMAIN b)
  BY <1>1, <1>4, SumWithin, Zenon
<1>7. 1 * SumFunctionOnSet(GrossOf(b), DOMAIN b) <= 100 * SumFunctionOnSet(ToldOf(b), DOMAIN b) + 50 * SumFunctionOnSet(UnitsOf(b), DOMAIN b)
  BY <1>1, <1>4, SumWithin, Zenon
<1> HIDE DEF W, U, s, d
<1>8. 100 * W <= s + 50 * U /\ s <= 100 * W + 50 * U
  BY <1>1, <1>5, <1>6, <1>7 DEF W, U
<1> DEFINE e == s - d
<1>9. d \in Nat /\ e \in Nat /\ d + e = s
  BY <1>1, <1>2
<1> HIDE DEF e
<1> DEFINE D == Rupees(d)
           E == Rupees(e)
<1>10. D \in Nat /\ E \in Nat /\ 100 * D <= d + 50 /\ d <= 100 * D + 50 /\ 100 * E <= e + 50 /\ e <= 100 * E + 50
  BY <1>9, RupeesAre
<1> HIDE DEF D, E
<1>11. Distance(100 * E, e) <= 50
  BY <1>9, <1>10 DEF Distance
<1>12. 2 * Distance(W, D + E) <= U + 2
  BY <1>1, <1>5, <1>8, <1>9, <1>10 DEF Distance
<1>13. computeTotals(b, c).grandTotal = e /\ computeTotals(b, c).discountTotal = d
  BY DEF computeTotals, e, d, s
<1> QED BY <1>11, <1>12, <1>13 DEF W, U, D, E

-----------------------------------------------------------------------------
(* The order that was placed last is worth what its basket says. *)
BillSays(b, c) ==
    /\ bill.totals = computeTotals(b, c) /\ bill.items = ItemsOf(b, c)
    /\ bill.parcel = SrPayload(b, computeTotals(b, c))

LEMMA SumsOfBill ==
    ASSUME NEW b \in Baskets, NEW c \in CouponRows, BillSays(b, c)
    PROVE  /\ Len(BillItems) = Len(b) /\ DOMAIN BillItems = DOMAIN b
           /\ Sum(LAMBDA l : l.discount) = SumFunctionOnSet(DiscountsOf(b, c), DOMAIN b)
           /\ Sum(LAMBDA l : l.total) = SumFunctionOnSet(NetsOf(b, c), DOMAIN b)
           /\ Sum(LAMBDA l : l.tax) = SumFunctionOnSet(TaxesOf(b, c), DOMAIN b)
           /\ Sum(LAMBDA l : l.qty) = SumFunctionOnSet(UnitsOf(b), DOMAIN b)
<1>1. BillItems = ItemsOf(b, c) /\ DOMAIN BillItems = DOMAIN b
  BY DEF BillItems, BillSays, ItemsOf
<1>2. Len(b) \in Nat /\ DOMAIN b = 1 .. Len(b)
  BY TotalsAssumption
<1>3. Len(BillItems) = Len(b)
  BY <1>1, <1>2 DEF ItemsOf
<1>4. Sum(LAMBDA l : l.discount) = SumFunctionOnSet(DiscountsOf(b, c), DOMAIN b)
  BY <1>1 DEF Sum, Total, DiscountsOf
<1>5. Sum(LAMBDA l : l.total) = SumFunctionOnSet(NetsOf(b, c), DOMAIN b)
  BY <1>1 DEF Sum, Total, NetsOf
<1>6. Sum(LAMBDA l : l.tax) = SumFunctionOnSet(TaxesOf(b, c), DOMAIN b)
  BY <1>1 DEF Sum, Total, TaxesOf
<1>7. Sum(LAMBDA l : l.qty) = SumFunctionOnSet(UnitsOf(b), DOMAIN b)
  <2>1. [i \in DOMAIN b |-> ItemsOf(b, c)[i].qty] = UnitsOf(b)
    BY LineIs DEF UnitsOf
  <2>2. Sum(LAMBDA l : l.qty) = SumFunctionOnSet([i \in DOMAIN b |-> ItemsOf(b, c)[i].qty], DOMAIN b)
    BY <1>1 DEF Sum, Total
  <2> QED BY <2>1, <2>2
<1> QED BY <1>1, <1>3, <1>4, <1>5, <1>6, <1>7

LEMMA BillAddsUp ==
    ASSUME NEW b \in Baskets, NEW c \in CouponRows, BillSays(b, c)
    PROVE  LinesAddUp
<1>1. \A i \in DOMAIN BillItems : BillItems[i].total >= 0 /\ BillItems[i].tax \in 0 .. BillItems[i].total
  <2>1. ASSUME NEW i \in DOMAIN b
        PROVE  ItemsOf(b, c)[i].total >= 0 /\ ItemsOf(b, c)[i].tax \in 0 .. ItemsOf(b, c)[i].total
    BY LineIs
  <2> QED BY <2>1, SumsOfBill DEF BillItems, BillSays
<1>2. bill.totals = computeTotals(b, c)
  BY DEF BillSays
<1>3. 2 * Distance(Sum(LAMBDA l : l.discount), bill.totals.discountTotal) <= Len(BillItems)
  BY <1>2, SumsOfBill, SharesAddUp
<1>4. 2 * Distance(Sum(LAMBDA l : l.total), bill.totals.grandTotal) <= Len(BillItems)
  BY <1>2, SumsOfBill, SharesAddUp
<1>5. 2 * (Sum(LAMBDA l : l.tax) - bill.totals.taxTotal) <= Len(BillItems) + 1
  BY <1>2, SumsOfBill, TaxesAddUp
<1>6. bill.totals.discountTotal = 0 => 2 * Distance(Sum(LAMBDA l : l.tax), bill.totals.taxTotal) <= Len(BillItems) + 1
  BY <1>2, SumsOfBill, TaxesAddUp
<1> QED BY <1>1, <1>3, <1>4, <1>5, <1>6 DEF LinesAddUp

LEMMA BillIsCollected ==
    ASSUME NEW b \in Baskets, NEW c \in CouponRows, BillSays(b, c)
    PROVE  CourierCollectsTheTotal
<1> DEFINE t == computeTotals(b, c)
           p == bill.parcel
<1>1. /\ bill.totals = t /\ p.total_discount = Rupees(t.discountTotal) /\ p.sub_total = Rupees(t.grandTotal)
      /\ p.order_items = [i \in DOMAIN b |-> [units |-> b[i].qty, selling_price |-> Rupees(b[i].price)]]
  BY DEF BillSays, SrPayload
<1>2. Total(p.order_items, LAMBDA l : l.units * l.selling_price) = SumFunctionOnSet(ToldOf(b), DOMAIN b)
  <2>1. DOMAIN p.order_items = DOMAIN b
    BY <1>1
  <2>2. \A i \in DOMAIN b : p.order_items[i].units * p.order_items[i].selling_price = b[i].qty * Rupees(b[i].price)
    BY <1>1
  <2> QED BY <2>1, <2>2 DEF Total, ToldOf
<1>3. Sum(LAMBDA l : l.qty) = SumFunctionOnSet(UnitsOf(b), DOMAIN b)
  BY SumsOfBill
<1> QED BY <1>1, <1>2, <1>3, CourierIsTold DEF CourierCollectsTheTotal

-----------------------------------------------------------------------------
(* The settings cache and the placements under way.                         *)

TotalsTyped ==
    /\ basket \in Baskets /\ code \in CouponRows /\ setting \in Minimums
    /\ settingsCache = Uncached \/ settingsCache \in [at : 0 .. ticks, value : Minimums]
    /\ pricing \in [Shoppers -> Pricing]
    /\ ticks \in 0 .. MaxPricingTime
    /\ valid \in [Minimums -> 0 .. ticks]
    /\ bill.there \in BOOLEAN

(* No query is older than a query may be. *)
QueriesAreYoung ==
    \A s \in Shoppers : pricing[s].at \in {"query", "answer"} =>
        pricing[s].since <= ticks /\ ticks - pricing[s].since <= MaxQueryTime

(* An answer was in the database after it was asked for. *)
AnswersWereValid ==
    \A s \in Shoppers : pricing[s].at = "answer" => pricing[s].since <= valid[pricing[s].min]

(* A minimum that a placement goes by was in the database not long before    *)
(* the placement had it.                                                     *)
PricesAreRecent ==
    \A s \in Shoppers : pricing[s].at = "price" => pricing[s].age <= SettingsTtl + MaxQueryTime

SettingsAreDated ==
    /\ valid[setting] = ticks
    /\ settingsCache # Uncached => settingsCache.at - valid[settingsCache.value] <= MaxQueryTime

BillIsKept ==
    bill.there =>
        /\ BillSays(basket, code)
        /\ MinimumIsRecent

TotalsInv ==
    /\ TotalsTyped /\ QueriesAreYoung /\ AnswersWereValid /\ PricesAreRecent
    /\ SettingsAreDated /\ BillIsKept

LEMMA TotalsStarts == TotalsInit => TotalsInv
<1> SUFFICES ASSUME TotalsInit PROVE TotalsInv
  OBVIOUS
<1> USE DEF TotalsInit
<1>1. MaxPricingTime \in Nat
  BY TotalsAssumption
<1>2. NotPricing \in Pricing /\ NotPricing.at = "no"
  BY DEF NotPricing, Pricing
<1>3. TotalsTyped
  BY <1>1, <1>2 DEF TotalsTyped, NoBill
<1>4. QueriesAreYoung /\ AnswersWereValid /\ PricesAreRecent
  BY <1>2 DEF QueriesAreYoung, AnswersWereValid, PricesAreRecent
<1>5. SettingsAreDated /\ BillIsKept
  BY DEF SettingsAreDated, BillIsKept, NoBill
<1> QED BY <1>3, <1>4, <1>5 DEF TotalsInv

(* What a placement asks, gets and keeps leaves the bill alone. *)
LEMMA StoreSettingsKeeps ==
    ASSUME TotalsInv, NEW s \in Shoppers, storeSettings(s)
    PROVE  TotalsInv'
<1> DEFINE p == pricing[s]
           q == IF FreshSettings THEN [p EXCEPT !.at = "price", !.min = settingsCache.value,
                                                !.age = Age(settingsCache.value)]
                ELSE [p EXCEPT !.at = "query", !.since = ticks]
<1>1. pricing' = [pricing EXCEPT ![s] = q]
  BY DEF storeSettings
<1>2. UNCHANGED <<basket, code, setting, settingsCache, bill, ticks, valid>>
  BY DEF storeSettings
<1>3. TotalsTyped /\ QueriesAreYoung /\ AnswersWereValid /\ PricesAreRecent /\ SettingsAreDated /\ BillIsKept
  BY DEF TotalsInv
<1>4. p \in Pricing /\ ticks \in Nat /\ valid \in [Minimums -> 0 .. ticks] /\ MaxQueryTime \in Nat /\ SettingsTtl \in Nat
  BY <1>3, TotalsAssumption DEF TotalsTyped
<1>5. CASE FreshSettings
  <2>1. settingsCache \in [at : 0 .. ticks, value : Minimums] /\ ticks - settingsCache.at < SettingsTtl
    BY <1>3, <1>5 DEF TotalsTyped, FreshSettings
  <2>2. settingsCache.at - valid[settingsCache.value] <= MaxQueryTime
    BY <1>3, <1>5 DEF SettingsAreDated, FreshSettings
  <2>2a. Age(settingsCache.value) \in Int /\ Age(settingsCache.value) <= SettingsTtl + MaxQueryTime
    BY <1>4, <2>1, <2>2 DEF Age
  <2>3. q \in Pricing /\ q.at = "price" /\ q.age = Age(settingsCache.value)
    BY <1>4, <1>5, <2>1, <2>2a DEF Pricing
  <2>4. q.age <= SettingsTtl + MaxQueryTime
    BY <2>3, <2>2a
  <2> HIDE DEF q
  <2>5. TotalsTyped'
    BY <1>1, <1>2, <1>3, <2>3 DEF TotalsTyped
  <2>6. QueriesAreYoung' /\ AnswersWereValid'
    BY <1>1, <1>2, <1>3, <2>3 DEF TotalsTyped, QueriesAreYoung, AnswersWereValid
  <2>7. PricesAreRecent'
    BY <1>1, <1>2, <1>3, <2>4 DEF TotalsTyped, PricesAreRecent
  <2>8. SettingsAreDated' /\ BillIsKept'
    BY <1>2, <1>3 DEF SettingsAreDated, BillIsKept, BillSays, MinimumIsRecent
  <2> QED BY <2>5, <2>6, <2>7, <2>8 DEF TotalsInv
<1>6. CASE ~FreshSettings
  <2>1. q \in Pricing /\ q.at = "query" /\ q.since = ticks
    BY <1>4, <1>6 DEF Pricing
  <2> HIDE DEF q
  <2>2. TotalsTyped'
    BY <1>1, <1>2, <1>3, <2>1 DEF TotalsTyped
  <2>3. QueriesAreYoung'
    BY <1>1, <1>2, <1>3, <1>4, <2>1 DEF TotalsTyped, QueriesAreYoung
  <2>4. AnswersWereValid' /\ PricesAreRecent'
    BY <1>1, <1>2, <1>3, <2>1 DEF TotalsTyped, AnswersWereValid, PricesAreRecent
  <2>5. SettingsAreDated' /\ BillIsKept'
    BY <1>2, <1>3 DEF SettingsAreDated, BillIsKept, BillSays, MinimumIsRecent
  <2> QED BY <2>2, <2>3, <2>4, <2>5 DEF TotalsInv
<1> QED BY <1>5, <1>6

LEMMA QuerySettingsKeeps ==
    ASSUME TotalsInv, NEW s \in Shoppers, QuerySettings(s)
    PROVE  TotalsInv'
<1> DEFINE p == pricing[s]
           q == [p EXCEPT !.at = "answer", !.min = setting]
<1>1. TotalsTyped /\ QueriesAreYoung /\ AnswersWereValid /\ PricesAreRecent /\ SettingsAreDated /\ BillIsKept
  BY DEF TotalsInv
<1>2. p \in Pricing /\ setting \in Minimums /\ ticks \in Nat /\ MaxQueryTime \in Nat
  BY <1>1, TotalsAssumption DEF TotalsTyped
<1>3. pricing' = [pricing EXCEPT ![s] = q]
  BY <1>1 DEF QuerySettings, TotalsTyped
<1>4. UNCHANGED <<basket, code, setting, settingsCache, bill, ticks, valid>> /\ p.at = "query"
  BY DEF QuerySettings
<1>5. q \in Pricing /\ q.at = "answer" /\ q.min = setting /\ q.since = p.since
  BY <1>2 DEF Pricing
<1>6. p.since <= ticks /\ ticks - p.since <= MaxQueryTime /\ valid[setting] = ticks
  BY <1>1, <1>4 DEF QueriesAreYoung, SettingsAreDated
<1> HIDE DEF q
<1>7. TotalsTyped'
  BY <1>1, <1>3, <1>4, <1>5 DEF TotalsTyped
<1>8. QueriesAreYoung'
  BY <1>1, <1>3, <1>4, <1>5, <1>6 DEF TotalsTyped, QueriesAreYoung
<1>9. AnswersWereValid'
  BY <1>1, <1>3, <1>4, <1>5, <1>6 DEF TotalsTyped, AnswersWereValid
<1>10. PricesAreRecent'
  BY <1>1, <1>3, <1>4, <1>5 DEF TotalsTyped, PricesAreRecent
<1>11. SettingsAreDated' /\ BillIsKept'
  BY <1>1, <1>4 DEF SettingsAreDated, BillIsKept, BillSays, MinimumIsRecent
<1> QED BY <1>7, <1>8, <1>9, <1>10, <1>11 DEF TotalsInv

LEMMA CacheSettingsKeeps ==
    ASSUME TotalsInv, NEW s \in Shoppers, CacheSettings(s)
    PROVE  TotalsInv'
<1> DEFINE p == pricing[s]
           q == [p EXCEPT !.at = "price", !.age = Age(p.min)]
           k == [at |-> ticks, value |-> p.min]
<1>1. TotalsTyped /\ QueriesAreYoung /\ AnswersWereValid /\ PricesAreRecent /\ SettingsAreDated /\ BillIsKept
  BY DEF TotalsInv
<1>2. p \in Pricing /\ p.min \in Minimums /\ ticks \in Nat /\ MaxQueryTime \in Nat /\ SettingsTtl \in Nat
  BY <1>1, TotalsAssumption DEF TotalsTyped, Pricing
<1>3. pricing' = [pricing EXCEPT ![s] = q] /\ settingsCache' = k
  <2>1. pricing \in [Shoppers -> Pricing]
    BY <1>1 DEF TotalsTyped
  <2> QED BY <2>1 DEF CacheSettings, Pricing
<1>4. UNCHANGED <<basket, code, setting, bill, ticks, valid>> /\ p.at = "answer"
  BY DEF CacheSettings
<1>5. q \in Pricing /\ q.at = "price" /\ q.age = Age(p.min)
  <2>1. Age(p.min) \in Int
    BY <1>1, <1>2 DEF TotalsTyped, Age
  <2> QED BY <1>2, <2>1 DEF Pricing
<1>6. k \in [at : 0 .. ticks, value : Minimums] /\ k.at = ticks /\ k.value = p.min
  BY <1>2
<1>7. p.since <= valid[p.min] /\ ticks - p.since <= MaxQueryTime /\ p.since \in Nat /\ valid[p.min] \in 0 .. ticks
  BY <1>1, <1>2, <1>4 DEF QueriesAreYoung, AnswersWereValid, TotalsTyped, Pricing
<1>8. ticks - valid[p.min] <= MaxQueryTime
  BY <1>2, <1>7
<1> HIDE DEF q, k
<1>9. TotalsTyped'
  BY <1>1, <1>3, <1>4, <1>5, <1>6 DEF TotalsTyped
<1>10. QueriesAreYoung' /\ AnswersWereValid'
  BY <1>1, <1>3, <1>4, <1>5 DEF TotalsTyped, QueriesAreYoung, AnswersWereValid
<1>11. PricesAreRecent'
  <2>1. q.age <= SettingsTtl + MaxQueryTime
    BY <1>2, <1>5, <1>7, <1>8 DEF Age
  <2> QED BY <1>1, <1>3, <1>4, <2>1 DEF TotalsTyped, PricesAreRecent
<1>12. SettingsAreDated'
  BY <1>1, <1>3, <1>4, <1>6, <1>8 DEF SettingsAreDated
<1>13. BillIsKept'
  BY <1>1, <1>4 DEF BillIsKept, BillSays, MinimumIsRecent
<1> QED BY <1>9, <1>10, <1>11, <1>12, <1>13 DEF TotalsInv

(* The order: its minimum is one a placement had. *)
LEMMA PriceOrderKeeps ==
    ASSUME TotalsInv, NEW s \in Shoppers, PriceOrder(s)
    PROVE  TotalsInv'
<1> DEFINE p == pricing[s]
           t == computeTotals(basket, code)
<1>1. TotalsTyped /\ QueriesAreYoung /\ AnswersWereValid /\ PricesAreRecent /\ SettingsAreDated /\ BillIsKept
  BY DEF TotalsInv
<1>2. p \in Pricing /\ p.min \in Minimums /\ ticks \in Nat /\ p.at = "price"
  BY <1>1 DEF TotalsTyped, Pricing, PriceOrder
<1>3. pricing' = [pricing EXCEPT ![s] = NotPricing]
  BY DEF PriceOrder
<1>4. UNCHANGED <<basket, code, setting, settingsCache, ticks, valid>>
  BY DEF PriceOrder
<1>5. NotPricing \in Pricing /\ NotPricing.at = "no"
  BY <1>2 DEF NotPricing, Pricing
<1>6. p.age <= SettingsTtl + MaxQueryTime
  BY <1>1, <1>2 DEF PricesAreRecent
<1>7. bill'.there \in BOOLEAN /\ BillIsKept'
  <2>1. CASE t.itemsSubtotal < p.min
    <3>1. bill' = bill
      BY <2>1 DEF PriceOrder
    <3> QED BY <1>1, <1>4, <3>1 DEF TotalsTyped, BillIsKept, BillSays, MinimumIsRecent
  <2>2. CASE ~(t.itemsSubtotal < p.min)
    <3>1. bill' = [there |-> TRUE, totals |-> t, min |-> p.min, age |-> p.age,
                   items |-> [i \in DOMAIN basket |-> OrderItem(basket[i], Len(basket), t)],
                   parcel |-> SrPayload(basket, t)]
      BY <2>2 DEF PriceOrder
    <3>2. /\ bill'.there = TRUE /\ bill'.totals = t /\ bill'.min = p.min /\ bill'.age = p.age
          /\ bill'.items = ItemsOf(basket, code) /\ bill'.parcel = SrPayload(basket, t)
      BY <3>1 DEF ItemsOf
    <3>3. BillSays(basket, code)'
      BY <1>4, <3>2 DEF BillSays
    <3>4. t.itemsSubtotal >= p.min
      <4>1. t.itemsSubtotal \in Nat /\ p.min \in Nat
        BY <1>1, <1>2, BasketIs, TotalsAssumption DEF computeTotals, TotalsTyped
      <4> QED BY <2>2, <4>1
    <3>5. MinimumIsRecent'
      BY <1>4, <1>6, <3>2, <3>4 DEF MinimumIsRecent
    <3>6. BillIsKept'
      BY <1>2, <3>2, <3>3, <3>5 DEF BillIsKept
    <3> QED BY <3>2, <3>6
  <2> QED BY <2>1, <2>2
<1>8. TotalsTyped'
  BY <1>1, <1>3, <1>4, <1>5, <1>7 DEF TotalsTyped
<1>9. QueriesAreYoung' /\ AnswersWereValid' /\ PricesAreRecent'
  BY <1>1, <1>3, <1>4, <1>5 DEF TotalsTyped, QueriesAreYoung, AnswersWereValid, PricesAreRecent
<1>10. SettingsAreDated'
  BY <1>1, <1>4 DEF SettingsAreDated
<1> QED BY <1>7, <1>8, <1>9, <1>10 DEF TotalsInv

(* Times at which a value was in the database only grow. *)
LEMMA TimesGrow ==
    ASSUME TotalsTyped, BillIsKept, AnswersWereValid,
           valid' \in [Minimums -> Nat], \A x \in Minimums : valid[x] <= valid'[x],
           UNCHANGED <<basket, code, pricing, bill>>
    PROVE  BillIsKept' /\ AnswersWereValid'
<1> SUFFICES ASSUME TotalsTyped PROVE BillIsKept' /\ AnswersWereValid'
  OBVIOUS
<1>1. ticks \in Nat /\ \A x \in Minimums : valid[x] \in Nat
  BY DEF TotalsTyped
<1>3. BillIsKept'
  BY DEF BillIsKept, BillSays, MinimumIsRecent
<1>4. AnswersWereValid'
  <2>1. \A s \in Shoppers : pricing[s].min \in Minimums /\ pricing[s].since \in Nat
    BY DEF TotalsTyped, Pricing
  <2> QED BY <1>1, <2>1 DEF AnswersWereValid
<1> QED BY <1>3, <1>4

LEMMA EditSettingKeeps ==
    ASSUME TotalsInv, NEW x \in Minimums, EditSetting(x)
    PROVE  TotalsInv'
<1>1. TotalsTyped /\ QueriesAreYoung /\ AnswersWereValid /\ PricesAreRecent /\ SettingsAreDated /\ BillIsKept
  BY DEF TotalsInv
<1>2. /\ setting' = x /\ x # setting /\ valid' = [valid EXCEPT ![setting] = ticks, ![x] = ticks]
      /\ UNCHANGED <<basket, code, settingsCache, pricing, bill, ticks>>
  BY DEF EditSetting
<1>3. ticks \in Nat /\ setting \in Minimums /\ valid \in [Minimums -> 0 .. ticks] /\ SettingsTtl \in Nat /\ MaxQueryTime \in Nat
  BY <1>1, TotalsAssumption DEF TotalsTyped
<1>4. /\ valid' \in [Minimums -> 0 .. ticks] /\ valid' \in [Minimums -> Nat] /\ valid'[x] = ticks
      /\ \A y \in Minimums : valid[y] <= valid'[y]
  BY <1>2, <1>3
<1>5. TotalsTyped'
  BY <1>1, <1>2, <1>4 DEF TotalsTyped
<1>6. QueriesAreYoung'
  BY <1>1, <1>2 DEF QueriesAreYoung
<1>7. BillIsKept' /\ AnswersWereValid'
  BY <1>1, <1>2, <1>4, TimesGrow
<1>8. PricesAreRecent'
  BY <1>1, <1>2 DEF PricesAreRecent
<1>9. SettingsAreDated'
  <2>1. settingsCache # Uncached => settingsCache.value \in Minimums /\ settingsCache.at \in Nat
    BY <1>1, <1>3 DEF TotalsTyped
  <2> QED BY <1>1, <1>2, <1>3, <1>4, <2>1 DEF SettingsAreDated
<1> QED BY <1>5, <1>6, <1>7, <1>8, <1>9 DEF TotalsInv

LEMMA PricingTickKeeps ==
    ASSUME TotalsInv, PricingTick
    PROVE  TotalsInv'
<1>1. TotalsTyped /\ QueriesAreYoung /\ AnswersWereValid /\ PricesAreRecent /\ SettingsAreDated /\ BillIsKept
  BY DEF TotalsInv
<1>2. /\ ticks < MaxPricingTime /\ ticks' = ticks + 1 /\ valid' = [valid EXCEPT ![setting] = ticks + 1]
      /\ UNCHANGED <<basket, code, setting, settingsCache, pricing, bill>>
  BY DEF PricingTick
<1>3. \A s \in Shoppers : pricing[s].at \in {"query", "answer"} => ticks - pricing[s].since < MaxQueryTime
  BY DEF PricingTick
<1>4. /\ ticks \in Nat /\ setting \in Minimums /\ valid \in [Minimums -> 0 .. ticks]
      /\ SettingsTtl \in Nat /\ MaxQueryTime \in Nat /\ MaxPricingTime \in Nat
  BY <1>1, TotalsAssumption DEF TotalsTyped
<1>5. /\ valid' \in [Minimums -> 0 .. ticks'] /\ valid' \in [Minimums -> Nat] /\ valid'[setting] = ticks'
      /\ \A y \in Minimums : valid[y] <= valid'[y]
  BY <1>2, <1>4
<1>6. TotalsTyped'
  BY <1>1, <1>2, <1>4, <1>5 DEF TotalsTyped
<1>7. QueriesAreYoung'
  <2>1. \A s \in Shoppers : pricing[s].since \in Nat
    BY <1>1 DEF TotalsTyped, Pricing
  <2> QED BY <1>1, <1>2, <1>3, <1>4, <2>1 DEF QueriesAreYoung
<1>8. BillIsKept' /\ AnswersWereValid'
  BY <1>1, <1>2, <1>5, TimesGrow
<1>9. PricesAreRecent'
  BY <1>1, <1>2 DEF PricesAreRecent
<1>10. SettingsAreDated'
  <2>1. settingsCache # Uncached => settingsCache.value \in Minimums /\ settingsCache.at \in Nat
    BY <1>1, <1>4 DEF TotalsTyped
  <2> QED BY <1>1, <1>2, <1>4, <1>5, <2>1 DEF SettingsAreDated
<1> QED BY <1>6, <1>7, <1>8, <1>9, <1>10 DEF TotalsInv

LEMMA TotalsSteps == TotalsInv /\ [TotalsNext]_totalsVars => TotalsInv'
<1> SUFFICES ASSUME TotalsInv, [TotalsNext]_totalsVars PROVE TotalsInv'
  OBVIOUS
<1>1. CASE \E s \in Shoppers : storeSettings(s)
  BY <1>1, StoreSettingsKeeps
<1>2. CASE \E s \in Shoppers : QuerySettings(s)
  BY <1>2, QuerySettingsKeeps
<1>3. CASE \E s \in Shoppers : CacheSettings(s)
  BY <1>3, CacheSettingsKeeps
<1>4. CASE \E s \in Shoppers : PriceOrder(s)
  BY <1>4, PriceOrderKeeps
<1>5. CASE \E x \in Minimums : EditSetting(x)
  BY <1>5, EditSettingKeeps
<1>6. CASE PricingTick
  BY <1>6, PricingTickKeeps
<1>7. CASE UNCHANGED totalsVars
  BY <1>7 DEF totalsVars, TotalsInv, TotalsTyped, QueriesAreYoung, AnswersWereValid, PricesAreRecent,
              SettingsAreDated, BillIsKept, BillSays, MinimumIsRecent
<1> QED BY <1>1, <1>2, <1>3, <1>4, <1>5, <1>6, <1>7 DEF TotalsNext

LEMMA TotalsInvSays == TotalsInv => TotalsTypeOK /\ TotalsAddUp
<1> SUFFICES ASSUME TotalsInv PROVE TotalsTypeOK /\ TotalsAddUp
  OBVIOUS
<1>1. TotalsTypeOK
  BY DEF TotalsInv, TotalsTyped, TotalsTypeOK, Uncached
<1>2. ASSUME bill.there PROVE LinesAddUp /\ CourierCollectsTheTotal /\ MinimumIsRecent
  <2>1. basket \in Baskets /\ code \in CouponRows /\ BillSays(basket, code) /\ MinimumIsRecent
    BY <1>2 DEF TotalsInv, TotalsTyped, BillIsKept
  <2> QED BY <2>1, BillAddsUp, BillIsCollected
<1> QED BY <1>1, <1>2 DEF TotalsAddUp

(* Settings, placements and times keep their types. *)
THEOREM TotalsTypes == TotalsSpec => []TotalsTypeOK
  BY TotalsStarts, TotalsSteps, TotalsInvSays, PTL DEF TotalsSpec

(* The lines of an order, what the courier is told and the smallest order    *)
(* agree with its total, for every basket, coupon and setting.               *)
THEOREM TotalsHold == TotalsSpec => []TotalsAddUp
  BY TotalsStarts, TotalsSteps, TotalsInvSays, PTL DEF TotalsSpec

-----------------------------------------------------------------------------
(* The scenes of buying.  A behaviour of BuyingSpec is one of each           *)
(* component: the scenes that do not run rest.  Carts run without            *)
(* placements, so that no step of theirs has one to forget.                 *)
CartsAlone == scene = "carts" => place = [c \in Calls |-> NoPlacement]

LEMMA BuyingRuns == BuyingSpec => CheckoutSpec /\ BagSpec /\ PickerSpec /\ PageSpec /\ PinSpec /\ TotalsSpec
<1>1. BuyingInit => /\ Init /\ CheckoutInit /\ BagInit /\ PickerInit /\ PageInit /\ PinInit /\ TotalsInit
                    /\ CartsAlone
  BY DEF BuyingInit, CheckoutInit, CartsAlone
<1>2. BuyingNext => /\ [BagNext]_bagVars /\ [PickerNext]_pickerVars /\ [PageNext]_pageVars
                    /\ [PinNext]_pinVars /\ [TotalsNext]_totalsVars
  <2>1. Buying => UNCHANGED <<bagVars, pickerVars, pageVars, pinVars, totalsVars>>
    BY DEF Buying, shownSide
  <2>2. Showing => /\ [BagNext]_bagVars /\ [PickerNext]_pickerVars /\ [PageNext]_pageVars
                   /\ [PinNext]_pinVars /\ [TotalsNext]_totalsVars
    BY DEF Showing, Totalling
  <2> QED BY <2>1, <2>2 DEF BuyingNext
<1>3. CartsAlone /\ BuyingNext => [CheckoutNext]_allVars /\ CartsAlone'
  <2> SUFFICES ASSUME CartsAlone, BuyingNext PROVE [CheckoutNext]_allVars /\ CartsAlone'
    OBVIOUS
  <2>1. UNCHANGED scene
    BY DEF BuyingNext
  <2>2. CASE Showing
    <3>1. UNCHANGED allVars
      BY <2>2 DEF Showing
    <3> QED BY <2>1, <3>1 DEF allVars, checkoutVars, CartsAlone
  <2>3. CASE scene = "carts" /\ Next /\ UNCHANGED checkoutVars
    <3>1. place = [c \in Calls |-> NoPlacement] /\ UNCHANGED checkoutVars
      BY <2>3 DEF CartsAlone
    <3>2. place' = [c \in Calls |-> IF call'[c].pc = "idle" THEN NoPlacement ELSE place[c]]
      BY <3>1 DEF checkoutVars
    <3>3. CartStep
      BY <2>3, <3>1, <3>2 DEF CartStep, Next, checkoutVars
    <3> QED BY <2>1, <3>1, <3>3 DEF CheckoutNext, CartsAlone, checkoutVars
  <2>4. CASE scene = "placements" /\ CheckoutNext
    BY <2>1, <2>4 DEF CartsAlone
  <2> QED BY <2>2, <2>3, <2>4 DEF BuyingNext, Buying
<1>4. UNCHANGED <<allVars, shownSide, scene>>
      => /\ UNCHANGED allVars /\ UNCHANGED bagVars /\ UNCHANGED pickerVars /\ UNCHANGED pageVars
         /\ UNCHANGED pinVars /\ UNCHANGED totalsVars
         /\ (CartsAlone => CartsAlone')
  BY DEF shownSide, allVars, checkoutVars, CartsAlone
<1> QED BY <1>1, <1>2, <1>3, <1>4, PTL
        DEF BuyingSpec, CheckoutSpec, BagSpec, PickerSpec, PageSpec, PinSpec, TotalsSpec

(* What each component of buying keeps stays in its types, in every scene. *)
THEOREM BuyingTypes == BuyingSpec => []BuyingTypeOK
<1>1. (CheckoutTypeOK /\ BagTypeOK /\ PickerTypeOK /\ PageTypeOK /\ PinTypeOK /\ TotalsTypeOK) => BuyingTypeOK
  BY DEF BuyingTypeOK
<1> QED BY <1>1, BuyingRuns, CheckoutTypes, BagTypes, PickerTypes, PageTypes, PinTypes, TotalsTypes, PTL

(* The bag gets what is picked and clicked, once, in every scene of buying. *)
THEOREM ClicksHold == BuyingSpec => []ClicksAreMeant
<1>1. ClicksCount /\ PickIsMeant => ClicksAreMeant
  BY DEF ClicksAreMeant
<1> QED BY <1>1, BuyingRuns, BagHolds, PickerHolds, PTL

(* Orders are numbered as they are counted and add up, line by line, to what *)
(* is paid and what the courier is told, in every scene of buying.           *)
THEOREM OrdersHold == BuyingSpec => []OrdersAddUp
<1>1. NumbersFollowCount /\ TotalsAddUp => OrdersAddUp
  BY DEF OrdersAddUp
<1> QED BY <1>1, BuyingRuns, Numbers, TotalsHold, PTL

(* Carts, placements, the page and PIN codes are right in the run as they    *)
(* are alone.                                                               *)
THEOREM BuyingHolds ==
    BuyingSpec => []( OneOpenCart /\ WithinStock /\ AskedIsOpenOrBought /\ CouponWithinLimits
                      /\ PageIsTrue /\ PinAnswerHolds )
  BY BuyingRuns, CartsWhileBuying, NothingLost, CouponIsLimited, PageHolds, PinAnswers, PTL

=============================================================================
