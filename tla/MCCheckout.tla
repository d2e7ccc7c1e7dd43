---------------------------- MODULE MCCheckout ----------------------------
(***************************************************************************)
(* Small instances of buying, for TLC: Cart and Checkout, the bag and the  *)
(* checkout page a browser shows of them, PIN codes.  A behaviour runs one *)
(* scene: carts of two browsers and two variants, placements and payments  *)
(* among the calls of one browser about one variant, or one of the other   *)
(* components, which share no state with those.  What orders add up to is  *)
(* looked at for every basket and coupon, and for one basket while the     *)
(* settings change.                                                        *)
(***************************************************************************)
EXTENDS Checkout, BagView, VariantPicker, CheckoutPage, PincodeCache, OrderTotals, TLC

CONSTANTS b1, b2, v1, v2, c1, c2, y1, y2, z1, z2, l1, l2,
    CartSends,  \* bound on calls in the scene of carts
    PlainSends  \* bound on calls that place no order, in the scene of placements

VARIABLE scene

TwoInStock == [v \in Variants |-> 2]

(* Prices that do not divide evenly, free goods, no tax; coupons of every   *)
(* type, one worth more than any basket.                                    *)
BasketsSold ==
    LET Lines == [price : {0, 333, 995}, qty : {1, 3}, rate : {0, 18}]
    IN  {<<l>> : l \in Lines} \cup {<<k, l>> : k, l \in Lines}
        \cup {<<[price |-> 50, qty |-> 1, rate |-> 18], [price |-> 333, qty |-> 1, rate |-> 5],
               [price |-> 101, qty |-> 2, rate |-> 5]>>}
CouponsGiven ==
    {NoCoupon} \cup [type : {"PERCENTAGE"}, value : {33, 100}, cap : {0, 777}]
    \cup [type : {"FIXED"}, value : {1, 100000}, cap : {0}]
    \cup [type : {"FREE_SHIPPING", "BOGO"}, value : {5}, cap : {0}]

(* One option, two options with a combination that is not made and one sold *)
(* out, an only variant, and a product half of whose variants has no value. *)
ProductsSold ==
    LET Variant(p, n) == [picks |-> p, stock |-> n]
    IN  {<<Variant("size" :> "S", 2), Variant("size" :> "M", 1)>>,
         <<Variant("size" :> "S" @@ "hue" :> "red", 2), Variant("size" :> "M" @@ "hue" :> "red", 0),
           Variant("size" :> "M" @@ "hue" :> "blue", 3)>>,
         <<Variant("size" :> "S", 3)>>,
         <<Variant(<<>>, 1), Variant("size" :> "M", 2)>>}

OneBrowser ==
    /\ \A c \in Calls : call'[c].browser = Idle.browser /\ call'[c].variant = Idle.variant
    /\ \A b \in Browsers \ {Idle.browser} : browser'[b] = browser[b]

shownSide == <<bagVars, pickerVars, pageVars, pinVars, totalsVars>>

BuyingInit ==
    /\ scene \in {"carts", "placements", "bag", "picker", "page", "pin", "totals", "settings"}
    /\ Init /\ CheckoutInit /\ BagInit /\ PickerInit /\ PageInit /\ PinInit /\ TotalsInit
    /\ scene # "picker" => product = CHOOSE p \in Products : TRUE
    /\ scene # "totals" => basket = <<[price |-> 995, qty |-> 1, rate |-> 18]>> /\ code = NoCoupon
    /\ scene # "settings" => setting = LeastOf(Minimums)
    /\ scene # "page" => ~coded /\ \A z \in Pins : area[z] = "serviceable"
    /\ scene # "pin" => provider = "indiapost" /\ inMap

(* A call that stops is one placement less; the last placement is for a     *)
(* number that is taken twice, so that one is made of the time; and calls    *)
(* of another kind are few.                                                  *)
FewPlacements ==
    /\ failures' + placements' <= MaxPlacements
    /\ placements' = MaxPlacements => jumped'
    /\ sends' - placements' <= PlainSends

Buying ==
    /\ UNCHANGED shownSide
    /\ \/ scene = "carts" /\ Next /\ sends' <= CartSends /\ UNCHANGED checkoutVars
       \/ scene = "placements" /\ CheckoutNext /\ OneBrowser /\ FewPlacements

(* One order of each basket and coupon; or placements while settings change. *)
Totalling ==
    \/ scene = "totals" /\ TotalsNext /\ ticks' = 0 /\ settingEdits' = 0 /\ priced' <= 1
       /\ pricing'[2] = NotPricing
    \/ scene = "settings" /\ TotalsNext

(* A last click, for a second visit that finds the payment script loaded.   *)
LastClickIsLate == typed' = MaxTyped => visits' = MaxPlaced /\ script' = "loaded"

Showing ==
    /\ UNCHANGED allVars
    /\ \/ scene = "bag" /\ BagNext /\ UNCHANGED <<pickerVars, pageVars, pinVars, totalsVars>>
       \/ scene = "picker" /\ PickerNext /\ UNCHANGED <<bagVars, pageVars, pinVars, totalsVars>>
       \/ scene = "page" /\ PageNext /\ LastClickIsLate
          /\ UNCHANGED <<bagVars, pickerVars, pinVars, totalsVars>>
       \/ scene = "pin" /\ PinNext /\ UNCHANGED <<bagVars, pickerVars, pageVars, totalsVars>>
       \/ Totalling /\ UNCHANGED <<bagVars, pickerVars, pageVars, pinVars>>

BuyingNext == UNCHANGED scene /\ (Buying \/ Showing)

BuyingSpec == BuyingInit /\ [][BuyingNext]_<<allVars, shownSide, scene>>

(* The two members of every symmetric set change places, all at once: a    *)
(* behaviour is about one scene, so this is as good as one set at a time.  *)
Exchange(S, really) == CHOOSE f \in Permutations(S) : (\E x \in S : f[x] # x) = really

BuyingSymmetry ==
    {Exchange(Calls, really) @@ Exchange(Goods, really) @@ Exchange(Pins, really)
     @@ Exchange(Lookups, really) : really \in BOOLEAN}

(* What each component keeps stays in its types. *)
BuyingTypeOK ==
    CheckoutTypeOK /\ BagTypeOK /\ PickerTypeOK /\ PageTypeOK /\ PinTypeOK /\ TotalsTypeOK

(* The bag gets what is picked and clicked, once (BagView, VariantPicker).  *)
ClicksAreMeant == ClicksCount /\ PickIsMeant

(* Orders are numbered as they are counted and add up, line by line, to what *)
(* is paid and what the courier is told (Checkout, OrderTotals).             *)
OrdersAddUp == NumbersFollowCount /\ TotalsAddUp
=============================================================================
