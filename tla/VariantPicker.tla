--------------------------- MODULE VariantPicker ---------------------------
(***************************************************************************)
(* What a product page and a product card put into the bag (web: AddToCart, *)
(* QuickAdd): the options picked, the variant they stand for, the quantity, *)
(* the two buttons and the timers that set them back.                       *)
(*                                                                          *)
(* The API's answer to an addition is any; what it does is in Cart.         *)
(***************************************************************************)
EXTENDS Integers, Sequences, FiniteSets

CONSTANTS
    Products,       \* sequences of variants: [picks : a function from options to values, stock]
    MostUnits,      \* 10
    MaxAdds,        \* bound on additions
    MaxSelections   \* bound on clicks on an option

IsFunction(f) == f = [x \in DOMAIN f |-> f[x]]

ASSUME PickerAssumption ==
    /\ \A p \in Products :
          /\ Len(p) \in Nat \ {0} /\ DOMAIN p = 1 .. Len(p)
          /\ \A i \in DOMAIN p : p[i].stock \in Nat /\ IsFunction(p[i].picks)
    /\ {MostUnits, MaxAdds, MaxSelections} \subseteq Nat /\ MostUnits # 0

VARIABLES
    product,        \* as the page was rendered
    selected,       \* option |-> value, for the options clicked
    units, addStatus,
    adding,         \* additions in flight
    addTimers,      \* timers of 4 s that will set the button back
    atCheckout,     \* the browser has left for /checkout
    quick,          \* the card: [open, loaded, state]
    cardCalls,      \* requests of the card in flight: "load", "add"
    adds, selections,
    setBack         \* history: timers that ended an addition still in flight

pickerVars == <<product, selected, units, addStatus, adding, addTimers, atCheckout, quick, cardCalls,
                adds, selections, setBack>>
cardVars == <<quick, cardCalls>>
sheetVars == <<product, selected, units, addStatus, adding, addTimers, atCheckout, selections,
               setBack>>

OptionsOf(p) == UNION {DOMAIN p[i].picks : i \in DOMAIN p}
ValuesIn(p, o) == {p[i].picks[o] : i \in {j \in DOMAIN p : o \in DOMAIN p[j].picks}}
stockOf(v) == v.stock

PickerInit ==
    /\ product \in Products
    /\ selected = << >> /\ units = 1 /\ addStatus = "idle"
    /\ adding = {} /\ addTimers = 0 /\ atCheckout = FALSE
    /\ quick = [open |-> FALSE, loaded |-> FALSE, state |-> "idle"] /\ cardCalls = {}
    /\ adds = 0 /\ selections = 0
    /\ setBack = 0

-----------------------------------------------------------------------------
(* The variant that is meant *)

First(p, Is(_)) ==
    LET found == {i \in DOMAIN p : Is(p[i])}
    IN  IF found = {} THEN 0 ELSE CHOOSE i \in found : \A j \in found : i <= j

(* Mutant: one value in common is enough. *)
Matching_Some(v) == \E o \in DOMAIN v.picks : o \in DOMAIN selected /\ selected[o] = v.picks[o]

(* every: a variant without values matches any selection. *)
Matching(v) == \A o \in DOMAIN v.picks : o \in DOMAIN selected /\ selected[o] = v.picks[o]

(* Its index, or 0; an only variant needs no selection. *)
matchedVariant ==
    IF Len(product) = 1 THEN 1
    ELSE IF OptionsOf(product) = {} \/ DOMAIN selected # OptionsOf(product) THEN 0
    ELSE First(product, Matching)

available == IF matchedVariant = 0 THEN 0 ELSE stockOf(product[matchedVariant])
anyStock == \E i \in DOMAIN product : stockOf(product[i]) > 0
LeastOf(S) == CHOOSE x \in S : \A y \in S : x <= y

-----------------------------------------------------------------------------
(* Clicks on the page *)

setSelected(o, x) ==
    /\ ~atCheckout /\ selections < MaxSelections
    /\ selected' = [y \in DOMAIN selected \cup {o} |-> IF y = o THEN x ELSE selected[y]]
    /\ selections' = selections + 1
    /\ UNCHANGED <<product, units, addStatus, adding, addTimers, atCheckout, adds, setBack,
                   cardVars>>

(* The bound by what is available holds while a variant is matched: a quantity *)
(* chosen before the size stays.                                               *)
setQty(n) ==
    /\ ~atCheckout
    /\ \/ units > 1 /\ n = units - 1
       \/ /\ matchedVariant # 0 => units < available
          /\ n = LeastOf({MostUnits, IF available = 0 THEN MostUnits ELSE available, units + 1})
    /\ units' = n
    /\ UNCHANGED <<product, selected, addStatus, adding, addTimers, atCheckout, adds, selections,
                   setBack, cardVars>>

(* Mutant: the button is not disabled while an addition is in flight. *)
CanAdd_Always == ~atCheckout /\ anyStock
CanAdd == ~atCheckout /\ anyStock /\ addStatus # "adding"

(* Add to Cart, or Buy Now; without a variant it only asks for a selection. *)
handleAdd(buyNow) ==
    /\ CanAdd /\ adds < MaxAdds /\ matchedVariant # 0
    /\ adds' = adds + 1
    /\ addStatus' = "adding"
    /\ adding' = adding \cup {[n |-> adds + 1, variant |-> matchedVariant, qty |-> units,
                               buyNow |-> buyNow, meant |-> selected]}
    /\ UNCHANGED <<product, selected, units, addTimers, atCheckout, selections, setBack,
                   cardVars>>

(* handleBuyNow goes to the checkout whether the addition succeeded or not; *)
(* on a page that is left, nothing else is set.                             *)
AddAnswered(c, ok) ==
    /\ adding' = adding \ {c}
    /\ addStatus' = IF ok THEN "added" ELSE "idle"
    /\ addTimers' = IF ok THEN addTimers + 1 ELSE addTimers
    /\ atCheckout' = (atCheckout \/ c.buyNow)
    /\ UNCHANGED <<product, selected, units, adds, selections, setBack, cardVars>>

TimerFires ==
    /\ addTimers > 0 /\ ~atCheckout
    /\ addTimers' = addTimers - 1
    /\ addStatus' = "idle"
    /\ setBack' = IF addStatus = "adding" THEN setBack + 1 ELSE setBack
    /\ UNCHANGED <<product, selected, units, adding, atCheckout, adds, selections, cardVars>>

-----------------------------------------------------------------------------
(* The card *)

reveal ==
    /\ ~quick.open
    /\ IF quick.loaded
         THEN quick' = [quick EXCEPT !.open = TRUE] /\ UNCHANGED <<cardCalls, adds>>
         ELSE /\ adds < MaxAdds /\ adds' = adds + 1
              /\ quick' = [quick EXCEPT !.open = TRUE, !.state = "loading"]
              /\ cardCalls' = cardCalls \cup {<<"load", adds + 1>>}
    /\ UNCHANGED sheetVars

LoadAnswered(c, ok) ==
    /\ c[1] = "load"
    /\ cardCalls' = cardCalls \ {c}
    /\ quick' = IF ok THEN [quick EXCEPT !.loaded = TRUE, !.state = "idle"]
                ELSE [quick EXCEPT !.state = "error"]
    /\ UNCHANGED <<sheetVars, adds>>

(* Mutant: sizes stay clickable while an addition is in flight. *)
Pickable_WhileAdding == quick.open /\ quick.loaded /\ quick.state \in {"idle", "adding"}
Pickable == quick.open /\ quick.loaded /\ quick.state = "idle"

pick(i) ==
    /\ Pickable /\ stockOf(product[i]) > 0
    /\ adds < MaxAdds /\ adds' = adds + 1
    /\ quick' = [quick EXCEPT !.state = "adding"]
    /\ cardCalls' = cardCalls \cup {<<"add", adds + 1>>}
    /\ UNCHANGED sheetVars

PickAnswered(c, ok) ==
    /\ c[1] = "add"
    /\ cardCalls' = cardCalls \ {c}
    /\ quick' = [quick EXCEPT !.state = IF ok THEN "added" ELSE "error"]
    /\ UNCHANGED <<sheetVars, adds>>

(* 1.6 s after an addition, which nothing on the card can interrupt. *)
CardCloses ==
    /\ quick.state = "added"
    /\ quick' = [quick EXCEPT !.state = "idle", !.open = FALSE]
    /\ UNCHANGED <<sheetVars, adds, cardCalls>>

-----------------------------------------------------------------------------
PickerNext ==
    \/ \E o \in OptionsOf(product) : \E x \in ValuesIn(product, o) : setSelected(o, x)
    \/ \E n \in 1 .. MostUnits : setQty(n)
    \/ \E buyNow \in BOOLEAN : handleAdd(buyNow)
    \/ \E c \in adding, ok \in BOOLEAN : AddAnswered(c, ok)
    \/ TimerFires
    \/ reveal
    \/ \E i \in DOMAIN product : pick(i)
    \/ \E c \in cardCalls, ok \in BOOLEAN : LoadAnswered(c, ok) \/ PickAnswered(c, ok)
    \/ CardCloses

PickerSpec == PickerInit /\ [][PickerNext]_pickerVars
-----------------------------------------------------------------------------
(* Properties *)

(* Quantities, buttons and requests keep their types. *)
PickerTypeOK ==
    /\ product \in Products /\ units \in 1 .. MostUnits
    /\ addStatus \in {"idle", "adding", "added"}
    /\ quick.state \in {"idle", "loading", "adding", "added", "error"}
    /\ adds \in 0 .. MaxAdds /\ addTimers \in 0 .. adds

(* Every variant has a value of its own for every option. *)
Complete(p) ==
    /\ \A i \in DOMAIN p : DOMAIN p[i].picks = OptionsOf(p)
    /\ \A i, j \in DOMAIN p : p[i].picks = p[j].picks => i = j

(* The bag gets what was picked: the one variant that has all the values     *)
(* clicked, unless the product has one variant only or one without values;    *)
(* a second addition is sent only after the timer of an earlier one set the   *)
(* button back too early; and the card asks once at a time (add-to-cart.tsx:23-62,    *)
(* quick-add.tsx:30-64).                                                      *)
PickIsMeant ==
    /\ \A c \in adding : Complete(product) /\ Len(product) > 1 =>
          product[c.variant].picks = c.meant
    /\ Cardinality(adding) <= 1 + setBack
    /\ Cardinality(cardCalls) <= 1
=============================================================================
