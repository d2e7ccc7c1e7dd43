------------------------------- MODULE Cart -------------------------------
(***************************************************************************)
(* cart/cart.service and the web shop's cart-context: the carts of one     *)
(* customer, who uses several browsers, signed in or as a guest.  A guest  *)
(* is known by the token of a cart, which the browser keeps; signing in    *)
(* merges that cart into the customer's own.                               *)
(*                                                                         *)
(* A call runs statement by statement, none of them in a transaction, so   *)
(* calls overlap anywhere.  A cart's number stands for its sessionToken,   *)
(* and an item's id is its cart and variant.                               *)
(***************************************************************************)
EXTENDS Integers, FiniteSets

CONSTANTS
    Browsers,    \* browsers of the customer
    Variants,    \* product variants
    Quantities,  \* quantities a customer asks for (positive)
    InStock,     \* InStock[v]: units available, constant here
    Calls,       \* calls in flight at once
    MaxCarts,    \* bound: cart ids are 1..MaxCarts
    MaxSends,    \* bound on calls sent
    MaxFailures  \* bound on calls that stop half way

ASSUME CartAssumption ==
    /\ Browsers # {} /\ Variants # {} /\ IsFiniteSet(Calls)
    /\ Quantities \subseteq Nat \ {0}
    /\ InStock \in [Variants -> Nat]
    /\ MaxCarts \in Nat /\ MaxSends \in Nat /\ MaxFailures \in Nat

VARIABLES
    cart,       \* Cart rows with their CartItem rows
    carts,      \* carts created so far
    browser,    \* the token a browser keeps (0: none), whether it is signed in
    call,       \* calls in flight
    asked,      \* history: units of each variant the accepted calls asked for
    raced,      \* history: variants written from a read that was overtaken, or merged twice
    rush,       \* history: the most calls of theirs that were about to create a cart at once
    mergedInto, \* history: carts that received a guest cart's lines
    sends, failures \* bounded counters

vars == <<cart, carts, browser, call, asked, raced, rush, mergedInto, sends, failures>>

CartIds == 1..MaxCarts
NoCart == 0
CartStatus == {"ACTIVE", "MERGED", "CONVERTED"}   \* CONVERTED is set by Checkout
Items == [Variants -> Nat]   \* 0: no row
NoItems == [v \in Variants |-> 0]
Row == [owned : BOOLEAN, status : CartStatus, items : Items]

Ops == {"view", "summary", "add", "update", "remove", "coupon", "place"}
Pcs == {"idle", "resolve", "create", "mergeRead", "mergeLine", "mergeClose", "readItem",
        "writeItem", "findItem", "setItem", "deleteItem", "checkout", "answer"}
Call == [pc : Pcs, op : Ops, browser : Browsers, signedIn : BOOLEAN,
         token : CartIds \cup {NoCart},   \* header x-cart-token
         variant : Variants, quantity : Nat,
         page : CartIds \cup {NoCart},    \* the cart the item's id belongs to
         cart : CartIds \cup {NoCart},    \* what resolveCart found
         lines : Items,                   \* the guest cart's items when they were read
         left : SUBSET Variants,          \* those still to be merged
         read : Nat]                      \* existing.quantity

Idle == [pc |-> "idle", op |-> "view", browser |-> CHOOSE b \in Browsers : TRUE,
         signedIn |-> FALSE, token |-> NoCart, variant |-> CHOOSE v \in Variants : TRUE,
         quantity |-> 0, page |-> NoCart, cart |-> NoCart, lines |-> NoItems, left |-> {},
         read |-> 0]

Init ==
    /\ cart = [k \in CartIds |-> [owned |-> FALSE, status |-> "ACTIVE", items |-> NoItems]]
    /\ carts = 0
    /\ browser = [b \in Browsers |-> [token |-> NoCart, signedIn |-> FALSE]]
    /\ call = [c \in Calls |-> Idle]
    /\ asked = NoItems
    /\ raced = {} /\ rush = 0 /\ mergedInto = {}
    /\ sends = 0 /\ failures = 0

At(c, pc) == call[c].pc = pc
Goto(c, pc) == call' = [call EXCEPT ![c].pc = pc]
Done(c) == call' = [call EXCEPT ![c] = Idle]

Open(k) == k \in 1..carts /\ cart[k].status = "ACTIVE"
OwnCarts == {k \in 1..carts : Open(k) /\ cart[k].owned}

(* What follows once the cart is resolved; "checkout" is the module Checkout. *)
(* A coupon's code is not kept here.                                            *)
FirstStep == [view |-> "answer", summary |-> "answer", coupon |-> "answer",
              add |-> "readItem", update |-> "findItem", remove |-> "deleteItem",
              place |-> "checkout"]

-----------------------------------------------------------------------------
(* The browser *)

(* A call is sent with the token and the sign-in the browser has now.  The  *)
(* items a customer can change are those of the cart on the page.           *)
Send(c, b, op, v, q) ==
    /\ At(c, "idle")
    /\ sends < MaxSends
    /\ sends' = sends + 1
    /\ call' = [call EXCEPT ![c] =
                  [Idle EXCEPT !.pc = "resolve", !.op = op, !.browser = b,
                               !.signedIn = browser[b].signedIn, !.token = browser[b].token,
                               !.variant = v, !.quantity = q, !.page = browser[b].token]]
    /\ UNCHANGED <<cart, carts, browser, asked, raced, rush, mergedInto, failures>>

(* GET /cart; GET /checkout and its quote; setting or removing a coupon. *)
SendView(c, b) ==
    \E op \in {"view", "summary", "coupon"} : Send(c, b, op, Idle.variant, 0)
SendAdd(c, b) == \E v \in Variants, q \in Quantities : Send(c, b, "add", v, q)
SendUpdate(c, b) ==
    \E v \in Variants, q \in Quantities \cup {0} :
        browser[b].token # NoCart /\ Send(c, b, "update", v, q)
SendRemove(c, b) ==
    \E v \in Variants : browser[b].token # NoCart /\ Send(c, b, "remove", v, 0)

(* Signing in or out, or an access token that expires, leaves the cart's    *)
(* token where it is.                                                       *)
SignInOrOut(b) ==
    /\ sends < MaxSends
    /\ sends' = sends + 1
    /\ browser' = [browser EXCEPT ![b].signedIn = ~@]
    /\ UNCHANGED <<cart, carts, call, asked, raced, rush, mergedInto, failures>>

(* commit: the browser keeps the token of whatever answer arrives last; an  *)
(* answer without a cart removes it.  The checkout's answers leave it.      *)
Commit(c) ==
    /\ At(c, "answer")
    /\ browser' = IF call[c].op = "summary" THEN browser
                  ELSE [browser EXCEPT ![call[c].browser].token = call[c].cart]
    /\ Done(c)
    /\ UNCHANGED <<cart, carts, asked, raced, rush, mergedInto, sends, failures>>

-----------------------------------------------------------------------------
(* resolveCart *)

(* After the cart is known: a signed-in customer's token may name another.  *)
AfterCart(c, k) ==
    IF call[c].signedIn /\ call[c].token \notin {NoCart, k} THEN "mergeRead"
    ELSE FirstStep[call[c].op]

Found(c, k) == call' = [call EXCEPT ![c].cart = k, ![c].pc = AfterCart(c, k)]

(* addItem and setCoupon create a cart; a view answers without one, a       *)
(* change is refused.                                                       *)
NotFound(c) ==
    CASE call[c].op \in {"add", "coupon"} -> Goto(c, "create")
      [] call[c].op \in {"view", "summary"} -> Goto(c, "answer")
      [] OTHER -> Done(c)

(* Calls of the customer that found no cart and are about to create one. *)
Creating == {c \in Calls : At(c, "create") /\ call[c].signedIn}
Most(m, n) == IF m < n THEN n ELSE m

(* Mutant: the customer's cart is looked for by the token only. *)
ResolveOwn_ByToken(c) ==
    LET mine == OwnCarts \cap {call[c].token}
    IN  /\ At(c, "resolve") /\ call[c].signedIn
        /\ IF mine # {} THEN \E k \in mine : Found(c, k) ELSE NotFound(c)
        /\ rush' = Most(rush, Cardinality(Creating'))
        /\ UNCHANGED <<cart, carts, browser, asked, raced, mergedInto, sends, failures>>

(* A signed-in customer: any open cart of theirs, findFirst has no order.   *)
ResolveOwn(c) ==
    /\ At(c, "resolve") /\ call[c].signedIn
    /\ IF OwnCarts # {} THEN \E k \in OwnCarts : Found(c, k) ELSE NotFound(c)
    /\ rush' = Most(rush, Cardinality(Creating'))
    /\ UNCHANGED <<cart, carts, browser, asked, raced, mergedInto, sends, failures>>

(* A guest: the open cart of the token, whoever's it is. *)
ResolveGuest(c) ==
    /\ At(c, "resolve") /\ ~call[c].signedIn
    /\ IF Open(call[c].token) THEN Found(c, call[c].token) ELSE NotFound(c)
    /\ UNCHANGED <<cart, carts, browser, asked, raced, rush, mergedInto, sends, failures>>

Create(c) ==
    /\ At(c, "create")
    /\ carts < MaxCarts
    /\ carts' = carts + 1
    /\ cart' = [cart EXCEPT ![carts + 1].owned = call[c].signedIn]
    /\ Found(c, carts + 1)
    /\ UNCHANGED <<browser, asked, raced, rush, mergedInto, sends, failures>>

-----------------------------------------------------------------------------
(* mergeGuestCart *)

MergeRead(c) ==
    LET g == call[c].token
        items == cart[g].items
        lines == {v \in Variants : items[v] > 0}
    IN  /\ At(c, "mergeRead")
        /\ IF ~Open(g) THEN Goto(c, FirstStep[call[c].op])
           ELSE call' = [call EXCEPT ![c].lines = items, ![c].left = lines,
                                     ![c].pc = IF lines = {} THEN "mergeClose" ELSE "mergeLine"]
        /\ UNCHANGED <<cart, carts, browser, asked, raced, rush, mergedInto, sends, failures>>

(* One line: upsert, with an increment if the target has the variant. *)
MergeLine(c) ==
    LET k == call[c].cart
    IN  \E v \in call[c].left :
        /\ At(c, "mergeLine")
        /\ cart' = [cart EXCEPT ![k].items[v] = @ + call[c].lines[v]]
        /\ call' = [call EXCEPT ![c].left = @ \ {v},
                                ![c].pc = IF call[c].left = {v} THEN "mergeClose" ELSE @]
        /\ mergedInto' = mergedInto \cup {k}
        /\ raced' = IF Open(k) THEN raced ELSE raced \cup {v}
        /\ UNCHANGED <<carts, browser, asked, rush, sends, failures>>

(* Variants whose guest line is not what was merged, or was merged before.  *)
Overtaken(c) ==
    LET g == call[c].token
    IN  {v \in Variants : IF Open(g) THEN cart[g].items[v] # call[c].lines[v]
                          ELSE call[c].lines[v] > 0}

(* Mutant: the guest cart stays open. *)
MergeClose_StaysOpen(c) ==
    /\ At(c, "mergeClose")
    /\ raced' = raced \cup Overtaken(c)
    /\ Goto(c, FirstStep[call[c].op])
    /\ UNCHANGED <<cart, carts, browser, asked, rush, mergedInto, sends, failures>>

(* Mutant: the status is not one of the schema's. *)
MergeClose_Unknown(c) ==
    /\ At(c, "mergeClose")
    /\ cart' = [cart EXCEPT ![call[c].token].status = "CLOSED"]
    /\ raced' = raced \cup Overtaken(c)
    /\ Goto(c, FirstStep[call[c].op])
    /\ UNCHANGED <<carts, browser, asked, rush, mergedInto, sends, failures>>

MergeClose(c) ==
    /\ At(c, "mergeClose")
    /\ cart' = [cart EXCEPT ![call[c].token].status = "MERGED"]
    /\ raced' = raced \cup Overtaken(c)
    /\ Goto(c, FirstStep[call[c].op])
    /\ UNCHANGED <<carts, browser, asked, rush, mergedInto, sends, failures>>

-----------------------------------------------------------------------------
(* addItem, updateItem, removeItem *)

(* The quantity that is there is read and compared with the stock. *)
ReadItem(c) ==
    LET read == cart[call[c].cart].items[call[c].variant]
    IN  /\ At(c, "readItem")
        /\ IF read + call[c].quantity > InStock[call[c].variant] THEN Done(c)
           ELSE call' = [call EXCEPT ![c].read = read, ![c].pc = "writeItem"]
        /\ UNCHANGED <<cart, carts, browser, asked, raced, rush, mergedInto, sends, failures>>

(* The customer's call makes the line of v in cart k n units. *)
SetLine(k, v, n) ==
    /\ cart' = [cart EXCEPT ![k].items[v] = n]
    /\ asked' = [asked EXCEPT ![v] = IF Open(k) THEN @ + n - cart[k].items[v] ELSE @]

(* Mutant: the upsert increments what is there. *)
WriteItem_Increments(c) ==
    LET k == call[c].cart
        v == call[c].variant
    IN  /\ At(c, "writeItem")
        /\ cart' = [cart EXCEPT ![k].items[v] = @ + call[c].quantity]
        /\ asked' = [asked EXCEPT ![v] = @ + call[c].quantity]
        /\ raced' = IF Open(k) THEN raced ELSE raced \cup {v}
        /\ Goto(c, "answer")
        /\ UNCHANGED <<carts, browser, rush, mergedInto, sends, failures>>

(* The upsert: a new row with the quantity, or the sum computed from the    *)
(* read.                                                                    *)
WriteItem(c) ==
    LET k == call[c].cart
        v == call[c].variant
        there == cart[k].items[v]
    IN  /\ At(c, "writeItem")
        /\ cart' = [cart EXCEPT ![k].items[v] =
                      IF there = 0 THEN call[c].quantity ELSE call[c].read + call[c].quantity]
        /\ asked' = [asked EXCEPT ![v] = @ + call[c].quantity]
        /\ raced' = IF Open(k) /\ (there = call[c].read \/ there = 0) THEN raced
                    ELSE raced \cup {v}
        /\ Goto(c, "answer")
        /\ UNCHANGED <<carts, browser, rush, mergedInto, sends, failures>>

(* The item must be one of the cart that was resolved. *)
FindItem(c) ==
    LET v == call[c].variant
    IN  /\ At(c, "findItem")
        /\ IF /\ call[c].page = call[c].cart
              /\ cart[call[c].cart].items[v] > 0
              /\ call[c].quantity <= InStock[v]
           THEN Goto(c, "setItem") ELSE Done(c)
        /\ UNCHANGED <<cart, carts, browser, asked, raced, rush, mergedInto, sends, failures>>

(* Quantity 0 deletes the row; a row that has gone is an error. *)
SetItem(c) ==
    LET k == call[c].cart
        v == call[c].variant
    IN  /\ At(c, "setItem")
        /\ IF cart[k].items[v] = 0
           THEN Done(c) /\ UNCHANGED <<cart, asked>>
           ELSE SetLine(k, v, call[c].quantity) /\ Goto(c, "answer")
        /\ UNCHANGED <<carts, browser, raced, rush, mergedInto, sends, failures>>

DeleteItem(c) ==
    /\ At(c, "deleteItem")
    /\ IF call[c].page = call[c].cart THEN SetLine(call[c].cart, call[c].variant, 0)
       ELSE UNCHANGED <<cart, asked>>
    /\ Goto(c, "answer")
    /\ UNCHANGED <<carts, browser, raced, rush, mergedInto, sends, failures>>

-----------------------------------------------------------------------------
(* The call throws, or its answer never arrives.  Lines that were merged     *)
(* stay merged while the guest cart stays open.                              *)
Stop(c) ==
    /\ ~At(c, "idle")
    /\ failures < MaxFailures
    /\ failures' = failures + 1
    /\ raced' = IF call[c].pc \in {"mergeLine", "mergeClose"}
                THEN raced \cup {v \in Variants : call[c].lines[v] > 0 /\ v \notin call[c].left}
                ELSE raced
    /\ Done(c)
    /\ UNCHANGED <<cart, carts, browser, asked, rush, mergedInto, sends>>

Merge(c) == MergeRead(c) \/ MergeLine(c) \/ MergeClose(c)
Change(c) == ReadItem(c) \/ WriteItem(c) \/ FindItem(c) \/ SetItem(c) \/ DeleteItem(c)

Shop(c, b) == SendView(c, b) \/ SendAdd(c, b) \/ SendUpdate(c, b) \/ SendRemove(c, b)
Resolve(c) == ResolveOwn(c) \/ ResolveGuest(c) \/ Create(c)

Next ==
    \/ \E c \in Calls, b \in Browsers : Shop(c, b)
    \/ \E b \in Browsers : SignInOrOut(b)
    \/ \E c \in Calls : Resolve(c) \/ Merge(c) \/ Change(c) \/ Commit(c) \/ Stop(c)

Spec == Init /\ [][Next]_vars
-----------------------------------------------------------------------------
(* Properties *)

(* Rows, browsers and calls stay in their types; a browser's token names a   *)
(* cart that exists.                                                         *)
TypeOK ==
    /\ cart \in [CartIds -> Row]
    /\ carts \in 0..MaxCarts
    /\ browser \in [Browsers -> [token : 0..carts, signedIn : BOOLEAN]]
    /\ \A c \in Calls : call[c] \in Call
    /\ asked \in [Variants -> Int]
    /\ raced \subseteq Variants /\ rush \in Nat /\ mergedInto \subseteq CartIds

Merging == \E c \in Calls : call[c].pc \in {"mergeLine", "mergeClose"}

(* A customer has no more open carts of their own than calls that found none *)
(* were about to create one at the same time: one, unless first requests     *)
(* overlap, and never one more later, whatever is merged or bought.          *)
OneOpenCart == Cardinality(OwnCarts) <= rush

(* addItem and updateItem refuse more than is in stock, and as they write    *)
(* what they compared, additions that race cannot exceed it either.  Only a  *)
(* merge can, which the view then clamps.                                    *)
WithinStock ==
    \A k \in CartIds \ mergedInto : \A v \in Variants : cart[k].items[v] <= InStock[v]

(* docs/ROADMAP.md: "guest (opaque token) + user carts, merge on             *)
(* association".  Once nothing is in flight, a guest cart with lines is       *)
(* still known to some browser.  Of a customer who signs in and has no cart  *)
(* yet, the view answers that there is none, and the browser forgets it.     *)
GuestCartIsKept ==
    (\A c \in Calls : At(c, "idle")) =>
        \A k \in CartIds : (Open(k) /\ ~cart[k].owned /\ cart[k].items # NoItems)
            => \E b \in Browsers : browser[b].token = k
=============================================================================
