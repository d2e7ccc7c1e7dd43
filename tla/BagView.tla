------------------------------ MODULE BagView ------------------------------
(***************************************************************************)
(* A guest's bag as one tab of the shop shows it (web: cart-context, the    *)
(* cart page, AddToCart, QuickAdd, storefront's request), against the bag   *)
(* the API keeps (cart.service).                                            *)
(*                                                                          *)
(* Every click is a request of its own; requests are served and answered in *)
(* any order, and the tab shows whatever came last.  What calls of the API  *)
(* do to each other is the subject of Cart: here a call writes in one step  *)
(* and reads the view it answers with in another.                           *)
(***************************************************************************)
EXTENDS Integers, FiniteSets

CONSTANTS
    Goods,            \* variants
    BagStock,         \* units of each that are available
    MaxBags,          \* bound: ids of carts
    MaxBagClicks,     \* bound on clicks and page loads
    MaxBagFailures,   \* bound on requests that fail
    MaxConversions    \* bound on carts bought elsewhere

ASSUME BagAssumption ==
    /\ Goods # {}
    /\ {BagStock, MaxBags, MaxBagClicks, MaxBagFailures, MaxConversions} \subseteq Nat

VARIABLES
    bagOf,         \* bagOf[k]: the rows of cart k
    bagStatus, bags,
    kept,          \* the token in localStorage, or 0
    shownBag,      \* the rows the tab shows
    rowBusy,       \* the one row whose buttons are disabled
    busyButtons,   \* of AddToCart and QuickAdd
    idleTimers,    \* timers of AddToCart's last additions, 4 s each
    bagCalls,      \* requests in flight
    bagClicks, bagReads, bagFailures, conversions,
    wantedUnits,   \* history: units the customer's clicks add up to
    lastRead,      \* history: number of the reading that is shown
    outOfOrder,    \* history: an older reading replaced a newer one
    hurried,       \* history: variants clicked while a request about them was in flight
    twoFirsts,     \* history: an addition and another request had no token, at once
    unanswered     \* history: a request failed or was overtaken by a purchase

bagServer == <<bagOf, bagStatus, bags>>
bagTab == <<kept, shownBag, rowBusy, busyButtons, idleTimers>>
bagLimits == <<bagClicks, bagReads, bagFailures, conversions>>
bagHistory == <<wantedUnits, lastRead, outOfOrder, hurried, twoFirsts, unanswered>>
bagVars == <<bagServer, bagTab, bagCalls, bagLimits, bagHistory>>

BagIds == 1 .. MaxBags
NoLine == [id |-> 0, qty |-> 0]
EmptyBag == [v \in Goods |-> NoLine]
Line == [id : 0 .. MaxBagClicks, qty : 0 .. BagStock]
BagCall == [n : 1 .. MaxBagClicks, op : {"get", "add", "set", "remove"}, good : Goods, id : Nat,
            qty : Nat, by : Int, button : {"none", "row", "add", "quick"}, token : 0 .. MaxBags,
            at : {"serve", "read", "answer"}, view : [Goods -> Line], read : Nat,
            refused : BOOLEAN]
SomeGood == CHOOSE v \in Goods : TRUE

BagInit ==
    /\ bagOf = [k \in BagIds |-> EmptyBag] /\ bagStatus = [k \in BagIds |-> "none"] /\ bags = 0
    /\ kept = 0 /\ shownBag = EmptyBag /\ rowBusy = 0 /\ busyButtons = {}
    /\ idleTimers = 0
    /\ bagCalls = {} /\ bagClicks = 0 /\ bagReads = 0 /\ bagFailures = 0 /\ conversions = 0
    /\ wantedUnits = [v \in Goods |-> 0] /\ lastRead = 0 /\ outOfOrder = FALSE /\ hurried = {}
    /\ twoFirsts = FALSE /\ unanswered = FALSE

About(v) == {c \in bagCalls : c.op # "get" /\ c.good = v}
(* The cart a request's token stands for. *)
resolveCart(c) == IF c.token # 0 /\ bagStatus[c.token] = "ACTIVE" THEN c.token ELSE 0
BecomesBag(c, d) == bagCalls' = (bagCalls \ {c}) \cup {d}

-----------------------------------------------------------------------------
(* Clicks *)

(* The token is read when the request starts.                               *)
Ask(op, v, id, qty, by, button) ==
    /\ bagClicks < MaxBagClicks
    /\ bagClicks' = bagClicks + 1
    /\ bagCalls' = bagCalls \cup
         {[n |-> bagClicks + 1, op |-> op, good |-> v, id |-> id, qty |-> qty, by |-> by,
           button |-> button, token |-> kept, at |-> "serve", view |-> EmptyBag, read |-> 0,
           refused |-> FALSE]}
    /\ wantedUnits' = [wantedUnits EXCEPT ![v] = @ + by]
    /\ hurried' = IF op # "get" /\ About(v) # {} THEN hurried \cup {v} ELSE hurried
    /\ twoFirsts' = (twoFirsts \/ (kept = 0 /\ \E c \in bagCalls : "add" \in {op, c.op}))
    /\ UNCHANGED <<bagServer, kept, shownBag, bagReads, bagFailures, conversions, lastRead,
                   outOfOrder, unanswered>>

refresh == Ask("get", SomeGood, 0, 0, 0, "none") /\ UNCHANGED <<rowBusy, busyButtons, idleTimers>>

(* AddToCart with a quantity, QuickAdd with one unit. *)
addItem(button, v, qty) ==
    /\ button \notin busyButtons
    /\ button = "quick" => qty = 1
    /\ Ask("add", v, 0, qty, qty, button)
    /\ busyButtons' = busyButtons \cup {button}
    /\ UNCHANGED <<rowBusy, idleTimers>>

(* Mutant: the quantity that is sent is the one on the screen. *)
changeQty_AsShown(v, by) ==
    /\ shownBag[v].qty > 0 /\ rowBusy # shownBag[v].id
    /\ by = 1 => shownBag[v].qty < BagStock
    /\ LET qty == shownBag[v].qty + by
       IN IF qty = 0 THEN Ask("remove", v, shownBag[v].id, 0, by, "row")
          ELSE Ask("set", v, shownBag[v].id, shownBag[v].qty, by, "row")
    /\ rowBusy' = shownBag[v].id
    /\ UNCHANGED <<busyButtons, idleTimers>>

(* The new quantity is the one on the screen plus or minus one. *)
changeQty(v, by) ==
    /\ shownBag[v].qty > 0 /\ rowBusy # shownBag[v].id
    /\ by = 1 => shownBag[v].qty < BagStock
    /\ LET qty == shownBag[v].qty + by
       IN IF qty = 0 THEN Ask("remove", v, shownBag[v].id, 0, by, "row")
          ELSE Ask("set", v, shownBag[v].id, qty, by, "row")
    /\ rowBusy' = shownBag[v].id
    /\ UNCHANGED <<busyButtons, idleTimers>>

-----------------------------------------------------------------------------
(* The API *)

WriteLine(k, v, line) == bagOf' = [bagOf EXCEPT ![k][v] = line]

(* A cart is created for an addition that has none; a new line is named     *)
(* after its request.                                                       *)
ServeAdd(c) ==
    LET k == resolveCart(c)
        old == IF k = 0 THEN NoLine ELSE bagOf[k][c.good]
        qty == old.qty + c.qty
        into == IF k = 0 THEN bags + 1 ELSE k
    IN  /\ c.op = "add" /\ c.at = "serve"
        /\ into \in BagIds
        /\ bags' = IF k = 0 THEN bags + 1 ELSE bags
        /\ bagStatus' = [bagStatus EXCEPT ![into] = "ACTIVE"]
        /\ IF qty > BagStock
             THEN BecomesBag(c, [c EXCEPT !.at = "answer", !.refused = TRUE]) /\ UNCHANGED bagOf
             ELSE /\ WriteLine(into, c.good, [id |-> IF old.id = 0 THEN c.n ELSE old.id, qty |-> qty])
                  /\ BecomesBag(c, [c EXCEPT !.at = "read", !.token = into])

(* A line that is gone, or a bag: refused; a removal does not look. *)
ServeChange(c) ==
    LET k == resolveCart(c)
        there == k # 0 /\ bagOf[k][c.good].id = c.id
    IN  /\ c.op \in {"set", "remove"} /\ c.at = "serve"
        /\ IF k = 0 \/ (c.op = "set" /\ (~there \/ c.qty > BagStock))
             THEN BecomesBag(c, [c EXCEPT !.at = "answer", !.refused = TRUE]) /\ UNCHANGED bagOf
             ELSE /\ IF there
                       THEN WriteLine(k, c.good, IF c.op = "set" THEN [id |-> c.id, qty |-> c.qty]
                                                 ELSE NoLine)
                       ELSE UNCHANGED bagOf
                  /\ BecomesBag(c, [c EXCEPT !.at = "read"])
        /\ UNCHANGED <<bags, bagStatus>>

ServeGet(c) ==
    /\ c.op = "get" /\ c.at = "serve"
    /\ BecomesBag(c, [c EXCEPT !.at = "read", !.token = resolveCart(c)])
    /\ UNCHANGED bagServer

Serve(c) ==
    /\ ServeAdd(c) \/ ServeChange(c) \/ ServeGet(c)
    /\ UNCHANGED <<bagTab, bagLimits, bagHistory>>

(* view: a token without a cart answers with no token. *)
ReadView(c) ==
    /\ c.at = "read"
    /\ bagReads' = bagReads + 1
    /\ BecomesBag(c, [c EXCEPT !.at = "answer", !.read = bagReads + 1,
                               !.view = IF c.token = 0 THEN EmptyBag ELSE bagOf[c.token]])
    /\ UNCHANGED <<bagServer, bagTab, bagClicks, bagFailures, conversions, bagHistory>>

-----------------------------------------------------------------------------
(* Answers *)

(* finally: rows have one busy mark between them. *)
Released(c) ==
    /\ rowBusy' = IF c.button = "row" THEN 0 ELSE rowBusy
    /\ busyButtons' = busyButtons \ {c.button}

commit(c) ==
    /\ c.at = "answer" /\ ~c.refused
    /\ bagCalls' = bagCalls \ {c}
    /\ shownBag' = c.view /\ kept' = c.token
    /\ Released(c)
    /\ idleTimers' = IF c.button = "add" THEN idleTimers + 1 ELSE idleTimers
    /\ outOfOrder' = (outOfOrder \/ c.read < lastRead) /\ lastRead' = c.read
    /\ UNCHANGED <<bagServer, bagLimits, wantedUnits, hurried, twoFirsts, unanswered>>

GivenUp(c) ==
    /\ bagCalls' = bagCalls \ {c}
    /\ Released(c)
    /\ UNCHANGED <<bagServer, kept, shownBag, idleTimers, bagClicks, bagReads, conversions,
                   lastRead, outOfOrder, hurried, twoFirsts>>

Refuse(c) ==
    /\ c.at = "answer" /\ c.refused
    /\ GivenUp(c)
    /\ wantedUnits' = [wantedUnits EXCEPT ![c.good] = @ - c.by]
    /\ UNCHANGED <<bagFailures, unanswered>>

(* No answer: the tab keeps what it shows, whatever was done. *)
CallFails(c) ==
    /\ bagFailures < MaxBagFailures /\ bagFailures' = bagFailures + 1
    /\ GivenUp(c)
    /\ unanswered' = TRUE
    /\ UNCHANGED wantedUnits

(* 4 s after an addition its button is set back, even when a later one is   *)
(* still in flight; a timer that finds the button idle changes nothing.     *)
AddTimerFires ==
    /\ idleTimers > 0 /\ "add" \in busyButtons
    /\ idleTimers' = idleTimers - 1
    /\ busyButtons' = busyButtons \ {"add"}
    /\ UNCHANGED <<bagServer, kept, shownBag, rowBusy, bagCalls, bagLimits, bagHistory>>

(* finalizePayment of an order of this bag, placed in another tab. *)
Convert(k) ==
    /\ bagStatus[k] = "ACTIVE" /\ conversions < MaxConversions
    /\ conversions' = conversions + 1
    /\ bagStatus' = [bagStatus EXCEPT ![k] = "CONVERTED"]
    /\ bagOf' = [bagOf EXCEPT ![k] = EmptyBag]
    /\ unanswered' = TRUE
    /\ UNCHANGED <<bags, bagTab, bagCalls, bagClicks, bagReads, bagFailures, wantedUnits, lastRead,
                   outOfOrder, hurried, twoFirsts>>

-----------------------------------------------------------------------------
BagNext ==
    \/ refresh
    \/ \E button \in {"add", "quick"}, v \in Goods, qty \in 1 .. BagStock : addItem(button, v, qty)
    \/ \E v \in Goods, by \in {-1, 1} : changeQty(v, by)
    \/ \E c \in bagCalls : Serve(c) \/ ReadView(c) \/ commit(c) \/ Refuse(c) \/ CallFails(c)
    \/ AddTimerFires
    \/ \E k \in BagIds : Convert(k)

BagSpec == BagInit /\ [][BagNext]_bagVars
-----------------------------------------------------------------------------
(* Properties *)

(* Carts, requests and what is shown keep their types. *)
BagTypeOK ==
    /\ bagOf \in [BagIds -> [Goods -> Line]]
    /\ bagStatus \in [BagIds -> {"none", "ACTIVE", "CONVERTED"}] /\ bags \in 0 .. MaxBags
    /\ kept \in 0 .. bags /\ shownBag \in [Goods -> Line] /\ bagCalls \subseteq BagCall

(* Every click counts once: when all is answered the bag holds what the     *)
(* clicks add up to, and the tab shows it.  Not so after a click about a     *)
(* variant whose request was still in flight; an addition and another        *)
(* request that both had no token (each addition makes a bag, and a slow     *)
(* first refresh takes the new token away again); a reading shown after a    *)
(* newer one, since the next click starts from what is shown; or a request   *)
(* without an answer (cart-context.tsx:35, cart/page.tsx:112).                *)
ClicksCount ==
    bagCalls = {} /\ ~outOfOrder /\ ~twoFirsts /\ ~unanswered =>
        \A v \in Goods \ hurried :
            /\ shownBag[v].qty = wantedUnits[v]
            /\ kept = 0 => wantedUnits[v] = 0
            /\ kept # 0 => bagOf[kept][v] = shownBag[v]
=============================================================================
