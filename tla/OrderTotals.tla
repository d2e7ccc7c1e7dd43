---------------------------- MODULE OrderTotals ----------------------------
(***************************************************************************)
(* What an order costs (pricing.service, money.ts): the totals of a basket *)
(* for a quote and for an order, the snapshot each line keeps of them      *)
(* (orders.service placeOrder), what Shiprocket and Razorpay are told, and *)
(* the settings cache that decides the smallest order.                     *)
(*                                                                         *)
(* Money is counted in paise, so round2 is the nearest integer, halves up; *)
(* what is lost of a fraction that a float cannot hold is left out.        *)
(***************************************************************************)
EXTENDS Integers, Sequences, FiniteSets, Functions

CONSTANTS
    Baskets,         \* sequences of lines: price in paise, quantity, tax in percent
    TaxParts,        \* every 100 + rate divides it: taxes are counted in such parts
    CouponRows,      \* coupons of every type, and NoCoupon
    Minimums,        \* values of the setting checkout.minOrderAmount
    SettingsTtl,     \* 30 s
    MaxQueryTime,    \* bound on the time a query of the settings takes
    Shoppers,        \* placements in flight at once
    MaxPricingTime, MaxPriced, MaxSettingEdits   \* bounds

ASSUME TotalsAssumption ==
    /\ \A b \in Baskets :
          /\ Len(b) \in Nat /\ DOMAIN b = 1 .. Len(b)
          /\ \A i \in DOMAIN b :
                /\ b[i].price \in Nat /\ b[i].qty \in Nat \ {0} /\ b[i].rate \in Nat
                /\ (100 + b[i].rate) * (TaxParts \div (100 + b[i].rate)) = TaxParts
    /\ TaxParts \in Nat \ {0} /\ Minimums \subseteq Nat
    /\ \A c \in CouponRows : c.value \in Nat /\ c.cap \in Nat
    /\ {SettingsTtl, MaxQueryTime, MaxPricingTime, MaxPriced, MaxSettingEdits} \subseteq Nat

VARIABLES
    basket, code,  \* what is bought
    setting,         \* the smallest order, in the database
    settingsCache,   \* of the process
    pricing,         \* placements in flight
    bill,            \* the order placed last
    ticks, priced, settingEdits,
    valid            \* history: when a value was last the one in the database

totalsVars == <<basket, code, setting, settingsCache, pricing, bill, ticks, priced,
                settingEdits, valid>>

NoCoupon == [type |-> "none", value |-> 0, cap |-> 0]
CouponType == {"PERCENTAGE", "FIXED", "FREE_SHIPPING", "BOGO"}
NoBill == [there |-> FALSE]
Uncached == [at |-> -1, value |-> 0]
(* age, a history: for how long the minimum was no more that of the database *)
(* when the placement had it.                                                *)
Pricing == [at : {"no", "query", "answer", "price"}, min : Minimums, since : Nat, age : Int]
NotPricing == [at |-> "no", min |-> CHOOSE x \in Minimums : TRUE, since |-> 0, age |-> 0]
Age(x) == ticks - valid[x]

-----------------------------------------------------------------------------
(* Arithmetic *)

(* round2: the nearest of num/den, for num >= 0 and den > 0. *)
round2(num, den) == (2 * num + den) \div (2 * den)
Least(x, y) == IF x <= y THEN x ELSE y
Total(b, Of(_)) == SumFunctionOnSet([i \in DOMAIN b |-> Of(b[i])], DOMAIN b)

Gross(l) == l.price * l.qty
itemsSubtotal(b) == Total(b, Gross)

(* Taxes of the lines are fractions; they are added before the sum is rounded. *)
TaxPart(l) == Gross(l) * l.rate * (TaxParts \div (100 + l.rate))
taxTotal(b) == round2(Total(b, TaxPart), TaxParts)

(* Mutant: a coupon may be worth more than the basket. *)
DiscountOf_Unbounded(c, subtotal) ==
    CASE c.type = "PERCENTAGE" -> Least(round2(subtotal * c.value, 100),
                                        IF c.cap = 0 THEN subtotal ELSE c.cap)
      [] c.type = "FIXED" -> c.value
      [] OTHER -> 0

(* resolveCoupon: free shipping and BOGO are worth nothing here; no cap is 0. *)
DiscountOf(c, subtotal) ==
    LET worth == CASE c.type = "PERCENTAGE" -> Least(round2(subtotal * c.value, 100),
                                                     IF c.cap = 0 THEN subtotal ELSE c.cap)
                   [] c.type = "FIXED" -> c.value
                   [] OTHER -> 0
    IN  Least(worth, subtotal)

computeTotals(b, c) ==
    LET subtotal == itemsSubtotal(b)
        discount == DiscountOf(c, subtotal)
    IN  [itemsSubtotal |-> subtotal, discountTotal |-> discount, taxTotal |-> taxTotal(b),
         grandTotal |-> subtotal - discount]

(* Mutant: the discount is shared out by lines, not by their amounts. *)
OrderItem_EqualShares(l, n, totals) ==
    LET discount == round2(totals.discountTotal, n)
        net == Gross(l) - discount
    IN  [qty |-> l.qty, price |-> l.price, discount |-> discount,
         tax |-> round2(net * l.rate, 100 + l.rate), total |-> net]

(* The snapshot of one of n lines. *)
OrderItem(l, n, totals) ==
    LET discount == IF totals.itemsSubtotal = 0 THEN 0
                    ELSE round2(Gross(l) * totals.discountTotal, totals.itemsSubtotal)
        net == Gross(l) - discount
    IN  [qty |-> l.qty, price |-> l.price, discount |-> discount,
         tax |-> round2(net * l.rate, 100 + l.rate), total |-> net]

(* buildOrderPayload: whole rupees, each number rounded for itself. *)
Rupees(paise) == round2(paise, 100)
SrPayload(b, totals) ==
    [order_items |-> [i \in DOMAIN b |-> [units |-> b[i].qty, selling_price |-> Rupees(b[i].price)]],
     total_discount |-> Rupees(totals.discountTotal), sub_total |-> Rupees(totals.grandTotal)]

-----------------------------------------------------------------------------
TotalsInit ==
    /\ basket \in Baskets /\ code \in CouponRows
    /\ setting \in Minimums
    /\ settingsCache = Uncached
    /\ pricing = [s \in Shoppers |-> NotPricing]
    /\ bill = NoBill
    /\ ticks = 0 /\ priced = 0 /\ settingEdits = 0
    /\ valid = [x \in Minimums |-> 0]

(* Mutant: what was read once is good for ever. *)
FreshSettings_Forever == settingsCache # Uncached

FreshSettings == settingsCache # Uncached /\ ticks - settingsCache.at < SettingsTtl

(* placeOrder asks for the settings: from the cache, or by a query. *)
storeSettings(s) ==
    /\ pricing[s].at = "no" /\ priced < MaxPriced
    /\ priced' = priced + 1
    /\ pricing' = [pricing EXCEPT ![s] =
          IF FreshSettings THEN [@ EXCEPT !.at = "price", !.min = settingsCache.value,
                                               !.age = Age(settingsCache.value)]
          ELSE [@ EXCEPT !.at = "query", !.since = ticks]]
    /\ UNCHANGED <<basket, code, setting, settingsCache, bill, ticks, settingEdits, valid>>

QuerySettings(s) ==
    /\ pricing[s].at = "query"
    /\ pricing' = [pricing EXCEPT ![s].at = "answer", ![s].min = setting]
    /\ UNCHANGED <<basket, code, setting, settingsCache, bill, ticks, priced, settingEdits, valid>>

(* The cache is dated by the clock of the answer, not of the query. *)
CacheSettings(s) ==
    /\ pricing[s].at = "answer"
    /\ settingsCache' = [at |-> ticks, value |-> pricing[s].min]
    /\ pricing' = [pricing EXCEPT ![s].at = "price", ![s].age = Age(pricing[s].min)]
    /\ UNCHANGED <<basket, code, setting, bill, ticks, priced, settingEdits, valid>>

(* The rest of placeOrder, however long that takes: the order, or a refusal   *)
(* below the minimum.                                                         *)
PriceOrder(s) ==
    LET totals == computeTotals(basket, code)
    IN  /\ pricing[s].at = "price"
        /\ bill' = IF totals.itemsSubtotal < pricing[s].min THEN bill
                   ELSE [there |-> TRUE, totals |-> totals, min |-> pricing[s].min,
                         age |-> pricing[s].age,
                         items |-> [i \in DOMAIN basket |->
                                       OrderItem(basket[i], Len(basket), totals)],
                         parcel |-> SrPayload(basket, totals)]
        /\ pricing' = [pricing EXCEPT ![s] = NotPricing]
        /\ UNCHANGED <<basket, code, setting, settingsCache, ticks, priced, settingEdits, valid>>

(* The setting is changed in the database. *)
EditSetting(x) ==
    /\ settingEdits < MaxSettingEdits /\ settingEdits' = settingEdits + 1
    /\ x # setting /\ setting' = x
    /\ valid' = [valid EXCEPT ![setting] = ticks, ![x] = ticks]
    /\ UNCHANGED <<basket, code, settingsCache, pricing, bill, ticks, priced>>

(* No query is open for ever. *)
PricingTick ==
    /\ ticks < MaxPricingTime
    /\ \A s \in Shoppers : pricing[s].at \in {"query", "answer"} => ticks - pricing[s].since < MaxQueryTime
    /\ ticks' = ticks + 1
    /\ valid' = [valid EXCEPT ![setting] = ticks + 1]
    /\ UNCHANGED <<basket, code, setting, settingsCache, pricing, bill, priced, settingEdits>>

TotalsNext ==
    \/ \E s \in Shoppers : storeSettings(s) \/ QuerySettings(s) \/ CacheSettings(s) \/ PriceOrder(s)
    \/ \E x \in Minimums : EditSetting(x)
    \/ PricingTick

TotalsSpec == TotalsInit /\ [][TotalsNext]_totalsVars
-----------------------------------------------------------------------------
(* Properties *)

(* Settings, placements and times keep their types. *)
TotalsTypeOK ==
    /\ setting \in Minimums /\ settingsCache.at \in -1 .. ticks
    /\ pricing \in [Shoppers -> Pricing]
    /\ ticks \in 0 .. MaxPricingTime /\ bill.there \in BOOLEAN

Distance(x, y) == IF x <= y THEN y - x ELSE x - y
BillItems == bill.items
Sum(Of(_)) == Total(BillItems, Of)

(* The lines of an order add up to it within half a paisa each, none costs   *)
(* less than nothing, and their taxes, taken after the discount, stay below  *)
(* the tax of the order, taken before it (orders.service.ts:169-195,         *)
(* pricing.service.ts:178-187).                                              *)
LinesAddUp ==
    LET n == Len(BillItems)
    IN  /\ \A i \in DOMAIN BillItems : BillItems[i].total >= 0 /\ BillItems[i].tax \in 0 .. BillItems[i].total
        /\ 2 * Distance(Sum(LAMBDA l : l.discount), bill.totals.discountTotal) <= n
        /\ 2 * Distance(Sum(LAMBDA l : l.total), bill.totals.grandTotal) <= n
        /\ 2 * (Sum(LAMBDA l : l.tax) - bill.totals.taxTotal) <= n + 1
        /\ bill.totals.discountTotal = 0 =>
              2 * Distance(Sum(LAMBDA l : l.tax), bill.totals.taxTotal) <= n + 1

(* The courier collects the total to half a rupee, and the prices, rounded   *)
(* one by one, are off by half a rupee for each unit and one for the sums    *)
(* (shipping.service.ts:792-803).                                            *)
CourierCollectsTheTotal ==
    LET p == bill.parcel
        goods == Total(p.order_items, LAMBDA l : l.units * l.selling_price)
    IN  /\ Distance(100 * p.sub_total, bill.totals.grandTotal) <= 50
        /\ 2 * Distance(goods, p.total_discount + p.sub_total) <= Sum(LAMBDA l : l.qty) + 2

(* No order is smaller than the minimum its placement went by, and when the  *)
(* placement got that, it was replaced for no longer than the cache keeps it *)
(* and a query takes (pricing.service.ts:53). An order may be older than     *)
(* that: placing it takes time.                                              *)
MinimumIsRecent ==
    bill.totals.itemsSubtotal >= bill.min /\ bill.age <= SettingsTtl + MaxQueryTime

TotalsAddUp == bill.there => LinesAddUp /\ CourierCollectsTheTotal /\ MinimumIsRecent
=============================================================================
