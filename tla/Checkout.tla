----------------------------- MODULE Checkout -----------------------------
(***************************************************************************)
(* Placing an order from a cart (orders.service placeOrder, with           *)
(* pricing.service resolveCoupon) and what a confirmation does to carts    *)
(* and coupons (finalizePayment), composed with Cart: every call of Cart   *)
(* may run between two steps of a placement.                               *)
(*                                                                         *)
(* Payments are OrderPayments' subject; here a placed order may be         *)
(* confirmed at any time, once.  Stock is StockLedger's.                   *)
(***************************************************************************)
EXTENDS Cart, Functions

CONSTANTS
    MaxOrders,    \* bound: order ids are 1..MaxOrders
    UsageLimit,   \* coupon.usageLimit
    UserLimit,    \* coupon.usageLimitPerUser
    MaxJump,      \* the most a clash adds to a number (97 in the code)
    MaxAttempts,  \* numbers that are looked up before the time is taken (5 in the code)
    MaxStamps,    \* bound: times, in milliseconds, that are told apart
    MaxPlacements \* bound on placements that are sent

ASSUME CheckoutAssumption ==
    /\ MaxOrders \in Nat /\ MaxPlacements \in Nat
    /\ UsageLimit \in Nat \ {0} /\ UserLimit \in Nat \ {0}
    /\ MaxJump \in Nat \ {0} /\ MaxAttempts \in Nat \ {0} /\ MaxStamps \in Nat \ {0}

VARIABLES
    order,      \* Order rows with their items
    orders,     \* orders placed so far
    converts,   \* converts[k]: convertedOrderId of cart k, or 0
    coupon,     \* the Coupon row's usedCount and the customer's redemption rows
    place,      \* what a placement under way has read
    crowd,      \* history: the most uses of the coupon that were under way at once
    jumped,     \* history: a number that was looked up was taken
    placements  \* bounded counter

checkoutVars == <<order, orders, converts, coupon, place, crowd, jumped, placements>>
allVars == <<vars, checkoutVars>>

OrderIds == 1..MaxOrders
NoOrder == 0
Order == [number : Int, signedIn : BOOLEAN, lines : Items, coupon : BOOLEAN,
          confirmed : BOOLEAN]
Unplaced == [number |-> 0, signedIn |-> FALSE, lines |-> NoItems, coupon |-> FALSE,
             confirmed |-> FALSE]
Placement == [step : {"none", "lines", "coupon", "number", "lookup", "tx"}, lines : Items,
              coupon : BOOLEAN,   \* a code was entered, and later: was accepted
              number : Int,       \* below 0: made of the time
              attempt : Nat,
              looked : Nat]       \* history: orders that did not have the number
NoPlacement == [step |-> "none", lines |-> NoItems, coupon |-> FALSE, number |-> 0,
                attempt |-> 0, looked |-> 0]

CheckoutInit ==
    /\ order = [o \in OrderIds |-> Unplaced]
    /\ orders = 0
    /\ converts = [k \in CartIds |-> NoOrder]
    /\ coupon = [used |-> 0, redeemed |-> 0]
    /\ place = [c \in Calls |-> NoPlacement]
    /\ crowd = 0 /\ jumped = FALSE
    /\ placements = 0

Placing(c, step) == At(c, "checkout") /\ place[c].step = step
Proceed(c, fields) == place' = [place EXCEPT ![c] = fields]
(* The placement ends, with an order or an error. *)
EndPlacement(c) == Done(c) /\ Proceed(c, NoPlacement)

CartUnchanged == UNCHANGED <<cart, carts, browser, asked, raced, rush, mergedInto,
                             sends, failures>>

-----------------------------------------------------------------------------
(* placeOrder *)

SendPlace(c, b, code) ==
    /\ placements < MaxPlacements
    /\ placements' = placements + 1
    /\ Send(c, b, "place", Idle.variant, 0)
    /\ Proceed(c, [NoPlacement EXCEPT !.step = "lines", !.coupon = code])
    /\ UNCHANGED <<order, orders, converts, coupon, crowd, jumped>>

(* The cart's lines; an empty cart and a shortage are refused, and so may be *)
(* the address, the method or the amount.                                    *)
PlaceLines(c) ==
    LET lines == cart[call[c].cart].items
    IN  /\ Placing(c, "lines")
        /\ \/ EndPlacement(c)
           \/ /\ lines # NoItems /\ \A v \in Variants : lines[v] <= InStock[v]
              /\ Proceed(c, [place[c] EXCEPT !.lines = lines, !.step = "coupon"])
              /\ UNCHANGED call
        /\ CartUnchanged /\ UNCHANGED <<order, orders, converts, coupon, crowd, jumped, placements>>

(* The coupon is under way in placements that passed its check and in orders *)
(* that are not confirmed.                                                   *)
PlacedWith == {c \in Calls : place[c].coupon /\ place[c].step \in {"number", "lookup", "tx"}}
OrderedWith == {o \in 1..orders : order[o].coupon /\ ~order[o].confirmed}

(* Mutant: off by one in the comparison of the limit. *)
CouponAccepted_OneMore(c) ==
    /\ coupon.used <= UsageLimit
    /\ call[c].signedIn => coupon.redeemed < UserLimit

(* usageLimit and, of a signed-in customer, usageLimitPerUser. *)
CouponAccepted(c) ==
    /\ coupon.used < UsageLimit
    /\ call[c].signedIn => coupon.redeemed < UserLimit

(* computeTotals: a coupon that is refused is dropped, the order goes on.    *)
PlaceCoupon(c) ==
    LET uses == place[c].coupon /\ CouponAccepted(c)
    IN  /\ Placing(c, "coupon")
        /\ Proceed(c, [place[c] EXCEPT !.coupon = uses, !.step = "number"])
        /\ crowd' = Most(crowd, Cardinality(PlacedWith') + Cardinality(OrderedWith))
        /\ CartUnchanged /\ UNCHANGED <<call, order, orders, converts, coupon, jumped, placements>>

Jumps(c) == IF place[c].attempt = 0 THEN {0} ELSE 1..MaxJump

(* Mutant: the count itself is taken. *)
CountOrders_Itself(c) ==
    /\ Placing(c, "number")
    /\ \E jump \in Jumps(c) :
         Proceed(c, [place[c] EXCEPT !.number = orders + jump, !.step = "lookup"])
    /\ CartUnchanged /\ UNCHANGED <<call, order, orders, converts, coupon, crowd, jumped, placements>>

(* nextOrderNumber: one more than the orders there are and, after a clash,   *)
(* some more at random.                                                      *)
CountOrders(c) ==
    /\ Placing(c, "number")
    /\ \E jump \in Jumps(c) :
         Proceed(c, [place[c] EXCEPT !.number = orders + 1 + jump, !.step = "lookup"])
    /\ CartUnchanged /\ UNCHANGED <<call, order, orders, converts, coupon, crowd, jumped, placements>>

Given(n) == \E o \in 1..orders : order[o].number = n

(* Mutant: a number that is taken is used all the same. *)
LookUpNumber_Uses(c) ==
    LET p == place[c]
    IN  /\ Placing(c, "lookup")
        /\ jumped' = (jumped \/ Given(p.number))
        /\ Proceed(c, [p EXCEPT !.step = "tx", !.looked = orders])
        /\ CartUnchanged /\ UNCHANGED <<call, order, orders, converts, coupon, crowd, placements>>

(* A number that no order has is used.  Another is tried otherwise, and      *)
(* after too many one is made of the time, which is not looked up.           *)
LookUpNumber(c) ==
    LET p == place[c]
    IN  /\ Placing(c, "lookup")
        /\ jumped' = (jumped \/ Given(p.number))
        /\ \/ /\ ~Given(p.number)
              /\ Proceed(c, [p EXCEPT !.step = "tx", !.looked = orders])
           \/ /\ Given(p.number) /\ p.attempt + 1 < MaxAttempts
              /\ Proceed(c, [p EXCEPT !.step = "number", !.number = 0, !.attempt = @ + 1])
           \/ /\ Given(p.number) /\ p.attempt + 1 >= MaxAttempts
              /\ \E t \in 1..MaxStamps : Proceed(c, [p EXCEPT !.step = "tx", !.number = -t])
        /\ CartUnchanged /\ UNCHANGED <<call, order, orders, converts, coupon, crowd, placements>>

(* The number was taken meanwhile: the unique index refuses the transaction. *)
PlaceClash(c) ==
    /\ Placing(c, "tx")
    /\ Given(place[c].number)
    /\ EndPlacement(c)
    /\ CartUnchanged /\ UNCHANGED <<order, orders, converts, coupon, crowd, jumped, placements>>

(* The order, its items and the mark on the cart, whatever became of the     *)
(* cart meanwhile.                                                           *)
PlaceTx(c) ==
    LET p == place[c]
    IN  /\ Placing(c, "tx")
        /\ orders < MaxOrders
        /\ ~Given(p.number)
        /\ orders' = orders + 1
        /\ order' = [order EXCEPT ![orders + 1] =
                       [number |-> p.number, signedIn |-> call[c].signedIn, lines |-> p.lines,
                        coupon |-> p.coupon, confirmed |-> FALSE]]
        /\ converts' = [converts EXCEPT ![call[c].cart] = orders + 1]
        /\ EndPlacement(c)
        /\ CartUnchanged /\ UNCHANGED <<coupon, crowd, jumped, placements>>

-----------------------------------------------------------------------------
(* finalizePayment, as far as carts and coupons go *)

Redeem(o) ==
    coupon' = IF ~order[o].coupon THEN coupon
              ELSE [used |-> coupon.used + 1,
                    redeemed |-> coupon.redeemed + IF order[o].signedIn THEN 1 ELSE 0]

(* Units of v that the confirmation of o takes out of open carts. *)
Taken(o, v) == SumFunctionOnSet([k \in CartIds |-> cart[k].items[v]],
                                {k \in CartIds : Open(k) /\ converts[k] = o})

(* Variants of which a confirmation of o takes other units than o has: the   *)
(* cart was changed, or marked for another order, after o's lines were read. *)
Mismatched(o) == {v \in Variants : Taken(o, v) # order[o].lines[v]}

(* Mutant: the items of the converted cart stay. *)
Confirm_KeepsOpen(o) ==
    /\ o <= orders /\ ~order[o].confirmed
    /\ order' = [order EXCEPT ![o].confirmed = TRUE]
    /\ raced' = raced \cup Mismatched(o)
    /\ Redeem(o)
    /\ UNCHANGED <<cart, carts, browser, call, asked, rush, mergedInto, sends, failures,
                   orders, converts, place, crowd, jumped, placements>>

(* The carts marked for the order are converted and emptied, the coupon is   *)
(* redeemed.                                                                 *)
Confirm(o) ==
    /\ o <= orders /\ ~order[o].confirmed
    /\ order' = [order EXCEPT ![o].confirmed = TRUE]
    /\ cart' = [k \in CartIds |->
                  IF converts[k] = o
                  THEN [cart[k] EXCEPT !.status = "CONVERTED", !.items = NoItems] ELSE cart[k]]
    /\ raced' = raced \cup Mismatched(o)
    /\ Redeem(o)
    /\ UNCHANGED <<carts, browser, call, asked, rush, mergedInto, sends, failures,
                   orders, converts, place, crowd, jumped, placements>>

-----------------------------------------------------------------------------
Place(c) == PlaceLines(c) \/ PlaceCoupon(c) \/ CountOrders(c) \/ LookUpNumber(c)
                \/ PlaceClash(c) \/ PlaceTx(c)

(* A step of Cart; a placement it ends is forgotten. *)
CartStep ==
    /\ \/ \E c \in Calls, b \in Browsers : Shop(c, b)
       \/ \E b \in Browsers : SignInOrOut(b)
       \/ \E c \in Calls : Resolve(c) \/ Merge(c) \/ Change(c) \/ Commit(c) \/ Stop(c)
    /\ place' = [c \in Calls |-> IF call'[c].pc = "idle" THEN NoPlacement ELSE place[c]]
    /\ UNCHANGED <<order, orders, converts, coupon, crowd, jumped, placements>>

CheckoutNext ==
    \/ CartStep
    \/ \E c \in Calls, b \in Browsers, code \in BOOLEAN : SendPlace(c, b, code)
    \/ \E c \in Calls : Place(c)
    \/ \E o \in OrderIds : Confirm(o)

CheckoutSpec == Init /\ CheckoutInit /\ [][CheckoutNext]_allVars
-----------------------------------------------------------------------------
(* Properties *)

(* Orders, marks and placements stay in their types, on top of Cart's. *)
CheckoutTypeOK ==
    /\ TypeOK
    /\ order \in [OrderIds -> Order] /\ orders \in 0..MaxOrders
    /\ converts \in [CartIds -> 0..orders]
    /\ coupon \in [used : Nat, redeemed : Nat]
    /\ place \in [Calls -> Placement]
    /\ crowd \in Nat /\ jumped \in BOOLEAN

(* Units of v in open carts, and in confirmed orders. *)
InOpenCarts(v) ==
    SumFunctionOnSet([k \in CartIds |-> cart[k].items[v]], {k \in CartIds : Open(k)})
Bought(v) ==
    SumFunctionOnSet([o \in OrderIds |-> order[o].lines[v]],
                     {o \in 1..orders : order[o].confirmed})

(* What the customer asked for is in open carts or in confirmed orders, and  *)
(* in one place only: orders, merges and changes that interleave never lose  *)
(* or sell a unit twice, except for the races Cart names and for carts       *)
(* changed, or ordered again, between placing and paying.                    *)
AskedIsOpenOrBought ==
    ~Merging => \A v \in Variants \ raced : InOpenCarts(v) + Bought(v) = asked[v]

(* A coupon is redeemed within its limits, in total and per customer, if one *)
(* use at a time is under way between its check and its payment; of uses     *)
(* that overlap, those beyond a limit are fewer than waited at one time.     *)
CouponWithinLimits ==
    coupon.used < UsageLimit + crowd /\ coupon.redeemed < UserLimit + crowd

(* "order-number series": a number is ahead of the order's place by a jump   *)
(* at most, and without a look-up that found its number taken the numbers    *)
(* are 1, 2, ... without a gap, although they are counted outside of the     *)
(* transaction that takes them.  A placement is refused for its number only  *)
(* if an order got that number after the placement had looked it up, or two  *)
(* took theirs from the same time.                                           *)
NumbersFollowCount ==
    /\ \A o \in 1..orders : order[o].number <= o + MaxJump
    /\ ~jumped => {order[o].number : o \in 1..orders} = 1..orders
    /\ \A c \in Calls : \A o \in 1..place[c].looked :
          place[c].step = "tx" => order[o].number # place[c].number
=============================================================================
