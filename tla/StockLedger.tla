---------------------------- MODULE StockLedger ----------------------------
(***************************************************************************)
(* The stock of one warehouse (model InventoryLevel) under the database    *)
(* transactions of orders.service: reserve on placement, commit on         *)
(* confirmation, release or return on cancellation, and the adjustments of *)
(* admin/inventory-admin.service.                                          *)
(*                                                                         *)
(* The grain is one SQL statement.  PostgreSQL runs at READ COMMITTED, the *)
(* default nobody changes: a plain read sees the last committed row (or    *)
(* the transaction's own version), an UPDATE waits for the row's lock,     *)
(* applies an increment to the newest version, and keeps the lock to the   *)
(* end of its transaction.  Order lines are booked one after another, so   *)
(* two orders can wait for each other.                                     *)
(***************************************************************************)
EXTENDS Integers, Sequences, FiniteSets, Functions

CONSTANTS
    Orders,         \* orders, each with the lines of its cart
    Variants,       \* product variants
    Lines,          \* Lines[o]: sequence of [variant, quantity], distinct variants
    InitialOnHand,  \* InitialOnHand[v]: units on hand in the beginning
    Prepaid,        \* orders whose confirmation sets paymentStatus to PAID
    Admins,         \* administrators who adjust stock
    Deltas,         \* quantities of adjustments in mode "add"
    MaxAdjusts,     \* bound on adjustments per administrator
    None            \* a value outside Orders

Line == [variant : Variants, quantity : Nat \ {0}]

ASSUME StockAssumption ==
    /\ None \notin Orders
    /\ Prepaid \subseteq Orders
    /\ Deltas \subseteq Int
    /\ MaxAdjusts \in Nat
    /\ InitialOnHand \in [Variants -> Nat]
    /\ Lines \in [Orders -> Seq(Line)]
    /\ \A o \in Orders : \A i, j \in 1..Len(Lines[o]) :
          Lines[o][i].variant = Lines[o][j].variant => i = j

Ops == {"none", "checked", "reserve", "commit", "release", "return"}
Booked == {"reserve", "commit", "release", "return"}
Unread == -1

VARIABLES
    row,      \* row[v]: the committed InventoryLevel
    draft,    \* draft[v]: its newest version, committed or not
    holder,   \* holder[v]: the order whose transaction locks the row, or None
    tx,       \* tx[o]: the operation in progress, its next line, the reserved it read
    booked,   \* booked[o]: how often each operation was committed for o
    moved,    \* moved[v]: sum of the committed SALE, RETURN and ADJUSTMENT movements
    adjust,   \* adjust[a]: an adjustment between its read and its write
    raced,    \* history: <<v, column>> set from a read that was no longer current
    overdrawn \* history: variants promised or adjusted below what is available

vars == <<row, draft, holder, tx, booked, moved, adjust, raced, overdrawn>>

Level == [onHand : Int, reserved : Nat]
(* stale: history, the variants that changed since placeOrder checked them. *)
Tx == [op : Ops, line : Nat \ {0}, read : Nat \cup {Unread}, stale : SUBSET Variants]
NoTx == [op |-> "none", line |-> 1, read |-> Unread, stale |-> {}]
Adjusting == [variant : Variants \cup {None}, read : Int, next : Int, done : 0..MaxAdjusts]

Init ==
    /\ row = [v \in Variants |-> [onHand |-> InitialOnHand[v], reserved |-> 0]]
    /\ draft = row
    /\ holder = [v \in Variants |-> None]
    /\ tx = [o \in Orders |-> NoTx]
    /\ booked = [o \in Orders |-> [op \in Booked |-> 0]]
    /\ moved = [v \in Variants |-> 0]
    /\ adjust = [a \in Admins |-> [variant |-> None, read |-> 0, next |-> 0, done |-> 0]]
    /\ raced = {} /\ overdrawn = {}

(* Mutant: Math.max(0, ...) is missing. *)
NonNegative_Unclamped(n) == n

NonNegative(n) == IF n < 0 THEN 0 ELSE n

(* cart.service availableStock, of one level. *)
Available(level) == NonNegative(level.onHand - level.reserved)

(* Units of v in order o. *)
Quantity(o, v) ==
    LET of == {i \in DOMAIN Lines[o] : Lines[o][i].variant = v}
    IN  IF of = {} THEN 0 ELSE Lines[o][CHOOSE i \in of : TRUE].quantity

-----------------------------------------------------------------------------
(* Transactions *)

More(o) == tx[o].line <= Len(Lines[o])
Variant(o) == Lines[o][tx[o].line].variant
Units(o) == Lines[o][tx[o].line].quantity

(* What order o's transaction sees when it reads the row of v. *)
Visible(o, v) == IF holder[v] = o THEN draft[v] ELSE row[v]

CanLock(o, v) == holder[v] \in {o, None}

(* Order o's transaction executes an UPDATE that makes the row of v `level`. *)
Write(o, v, level) ==
    /\ CanLock(o, v)
    /\ draft' = [draft EXCEPT ![v] = level]
    /\ holder' = [holder EXCEPT ![v] = o]

NextLine(o) == tx' = [tx EXCEPT ![o].line = @ + 1, ![o].read = Unread]
Begin(o, op) == tx' = [tx EXCEPT ![o] = [NoTx EXCEPT !.op = op, !.stale = tx[o].stale]]

(* tx once rows C have changed, order o being through with its transaction. *)
TxAfter(o, C) ==
    [p \in Orders |->
        CASE p = o -> NoTx
          [] p # o /\ tx[p].op \in {"checked", "reserve"} -> [tx[p] EXCEPT !.stale = @ \cup C]
          [] OTHER -> tx[p]]

(* Mutant: the lines are not compared with the stock. *)
Revalidate_Unchecked(o) ==
    /\ tx[o].op = "none"
    /\ booked[o]["reserve"] = 0
    /\ Begin(o, "checked")
    /\ UNCHANGED <<row, draft, holder, booked, moved, adjust, raced, overdrawn>>

(* "Re-validate stock": placeOrder compares every line with the stock it     *)
(* read, before and outside of its transaction.                              *)
Revalidate(o) ==
    /\ tx[o].op = "none"
    /\ booked[o]["reserve"] = 0
    /\ \A i \in DOMAIN Lines[o] : Lines[o][i].quantity <= Available(row[Lines[o][i].variant])
    /\ Begin(o, "checked")
    /\ UNCHANGED <<row, draft, holder, booked, moved, adjust, raced, overdrawn>>

BeginReserve(o) ==
    /\ tx[o].op = "checked"
    /\ Begin(o, "reserve")
    /\ UNCHANGED <<row, draft, holder, booked, moved, adjust, raced, overdrawn>>

(* finalizePayment: its claim lets one transaction per order commit. *)
BeginCommit(o) ==
    /\ tx[o].op = "none"
    /\ booked[o]["reserve"] = 1 /\ booked[o]["commit"] = 0
    /\ Begin(o, "commit")
    /\ UNCHANGED <<row, draft, holder, booked, moved, adjust, raced, overdrawn>>

(* adminSetStatus(CANCELLED) on an order it read as not PAID: it was not     *)
(* confirmed, or is cash on delivery, or was confirmed after the read.       *)
BeginRelease(o) ==
    /\ tx[o].op = "none"
    /\ booked[o]["reserve"] = 1
    /\ booked[o]["release"] + booked[o]["return"] = 0
    /\ Begin(o, "release")
    /\ UNCHANGED <<row, draft, holder, booked, moved, adjust, raced, overdrawn>>

(* ... and on an order it read as PAID. *)
BeginReturn(o) ==
    /\ tx[o].op = "none"
    /\ o \in Prepaid /\ booked[o]["commit"] = 1
    /\ booked[o]["release"] + booked[o]["return"] = 0
    /\ Begin(o, "return")
    /\ UNCHANGED <<row, draft, holder, booked, moved, adjust, raced, overdrawn>>

(* Mutant: the increment runs on the client, not on the transaction. *)
ReserveLine_OutsideTx(o) ==
    LET v == Variant(o)
        level == [row[v] EXCEPT !.reserved = @ + Units(o)]
    IN  /\ tx[o].op = "reserve" /\ More(o)
        /\ holder[v] = None
        /\ row' = [row EXCEPT ![v] = level]
        /\ draft' = [draft EXCEPT ![v] = level]
        /\ NextLine(o)
        /\ UNCHANGED <<holder, booked, moved, adjust, raced, overdrawn>>

(* reserveStock: reserved is incremented in the database. *)
ReserveLine(o) ==
    LET v == Variant(o)
    IN  /\ tx[o].op = "reserve" /\ More(o)
        /\ Write(o, v, [draft[v] EXCEPT !.reserved = @ + Units(o)])
        /\ NextLine(o)
        /\ overdrawn' = IF v \in tx[o].stale /\ Units(o) > Available(draft[v])
                        THEN overdrawn \cup {v} ELSE overdrawn
        /\ UNCHANGED <<row, booked, moved, adjust, raced>>

(* commitStock and releaseStock first read the level ... *)
ReadLevel(o) ==
    /\ tx[o].op \in {"commit", "release"} /\ More(o)
    /\ tx[o].read = Unread
    /\ tx' = [tx EXCEPT ![o].read = Visible(o, Variant(o)).reserved]
    /\ UNCHANGED <<row, draft, holder, booked, moved, adjust, raced, overdrawn>>

(* ... and set reserved to a number computed from that read; onHand is      *)
(* decremented in the database.                                             *)
Overtakes(o, v) ==
    IF draft[v].reserved # tx[o].read THEN raced \cup {<<v, "reserved">>} ELSE raced

(* Mutant: the update runs on the client, not on the transaction. *)
CommitLine_OutsideTx(o) ==
    LET v == Variant(o)
        level == [onHand |-> row[v].onHand - Units(o),
                  reserved |-> NonNegative(tx[o].read - Units(o))]
    IN  /\ tx[o].op = "commit" /\ More(o)
        /\ tx[o].read # Unread
        /\ holder[v] = None
        /\ row' = [row EXCEPT ![v] = level]
        /\ draft' = [draft EXCEPT ![v] = level]
        /\ NextLine(o)
        /\ raced' = Overtakes(o, v)
        /\ UNCHANGED <<holder, booked, moved, adjust, overdrawn>>

CommitLine(o) ==
    LET v == Variant(o)
    IN  /\ tx[o].op = "commit" /\ More(o)
        /\ tx[o].read # Unread
        /\ Write(o, v, [onHand |-> draft[v].onHand - Units(o),
                        reserved |-> NonNegative(tx[o].read - Units(o))])
        /\ NextLine(o)
        /\ raced' = Overtakes(o, v)
        /\ UNCHANGED <<row, booked, moved, adjust, overdrawn>>

ReleaseLine(o) ==
    LET v == Variant(o)
    IN  /\ tx[o].op = "release" /\ More(o)
        /\ tx[o].read # Unread
        /\ Write(o, v, [draft[v] EXCEPT !.reserved = NonNegative(tx[o].read - Units(o))])
        /\ NextLine(o)
        /\ raced' = Overtakes(o, v)
        /\ UNCHANGED <<row, booked, moved, adjust, overdrawn>>

(* returnStock: onHand is incremented in the database. *)
ReturnLine(o) ==
    LET v == Variant(o)
    IN  /\ tx[o].op = "return" /\ More(o)
        /\ Write(o, v, [draft[v] EXCEPT !.onHand = @ + Units(o)])
        /\ NextLine(o)
        /\ UNCHANGED <<row, booked, moved, adjust, raced, overdrawn>>

Unlocked(o) == [v \in Variants |-> IF holder[v] = o THEN None ELSE holder[v]]

(* The movement rows order o's operation created, as far as they concern onHand. *)
Movement(o, v) ==
    CASE tx[o].op = "commit" -> 0 - Quantity(o, v)
      [] tx[o].op = "return" -> Quantity(o, v)
      [] OTHER -> 0

CommitTx(o) ==
    /\ tx[o].op \in Booked /\ ~More(o)
    /\ row' = [v \in Variants |-> Visible(o, v)]
    /\ holder' = Unlocked(o)
    /\ booked' = [booked EXCEPT ![o][tx[o].op] = @ + 1]
    /\ moved' = [v \in Variants |-> moved[v] + Movement(o, v)]
    /\ tx' = TxAfter(o, {v \in Variants : row'[v] # row[v]})
    /\ UNCHANGED <<draft, adjust, raced, overdrawn>>

Rollback(o) ==
    /\ draft' = [v \in Variants |-> IF holder[v] = o THEN row[v] ELSE draft[v]]
    /\ holder' = Unlocked(o)
    /\ tx' = [tx EXCEPT ![o] = NoTx]
    /\ UNCHANGED <<row, booked, moved, adjust, raced, overdrawn>>

(* Prisma's transaction timeout, a lost connection, a failing statement. *)
AbortTx(o) == tx[o].op \in Booked /\ Rollback(o)

(* External: PostgreSQL's deadlock detection.  Order o waits for a row.      *)
Waits(o) ==
    /\ tx[o].op \in Booked /\ More(o)
    /\ tx[o].op \in {"commit", "release"} => tx[o].read # Unread
    /\ ~CanLock(o, Variant(o))

(* Mutant: deadlocks are not looked for. *)
Deadlocked_Never(o) == FALSE

(* o is on a cycle of waiting transactions, one of which is rolled back.     *)
Deadlocked(o) ==
    \E C \in SUBSET Orders :
        /\ o \in C
        /\ \A p \in C : Waits(p)
        /\ {holder[Variant(p)] : p \in C} = C

DeadlockVictim(o) == Deadlocked(o) /\ Rollback(o)

-----------------------------------------------------------------------------
(* inventory-admin adjust: the next onHand is computed from a read outside  *)
(* of the transaction that writes it.                                        *)
AdjustRead(a, v, d) ==
    LET next == NonNegative(row[v].onHand + d)
    IN  /\ adjust[a].variant = None
        /\ adjust[a].done < MaxAdjusts
        /\ next # row[v].onHand      \* else: unchanged, nothing is written
        /\ adjust' = [adjust EXCEPT ![a].variant = v, ![a].read = row[v].onHand,
                                    ![a].next = next]
        /\ UNCHANGED <<row, draft, holder, tx, booked, moved, raced, overdrawn>>

AdjustWrite(a) ==
    LET v == adjust[a].variant
    IN  /\ v # None
        /\ holder[v] = None
        /\ row' = [row EXCEPT ![v].onHand = adjust[a].next]
        /\ draft' = [draft EXCEPT ![v].onHand = adjust[a].next]
        /\ moved' = [moved EXCEPT ![v] = @ + adjust[a].next - adjust[a].read]
        /\ raced' = IF row[v].onHand # adjust[a].read
                    THEN raced \cup {<<v, "onHand">>} ELSE raced
        /\ overdrawn' = IF adjust[a].next < row[v].reserved THEN overdrawn \cup {v} ELSE overdrawn
        /\ adjust' = [adjust EXCEPT ![a] = [variant |-> None, read |-> 0, next |-> 0,
                                            done |-> @.done + 1]]
        /\ tx' = TxAfter(None, {v})
        /\ UNCHANGED <<holder, booked>>

-----------------------------------------------------------------------------
Continue(o) ==
    \/ BeginReserve(o) \/ ReserveLine(o) \/ ReadLevel(o) \/ CommitLine(o)
    \/ ReleaseLine(o) \/ ReturnLine(o) \/ CommitTx(o) \/ DeadlockVictim(o)

Request(o) == Revalidate(o) \/ BeginCommit(o) \/ BeginRelease(o) \/ BeginReturn(o)

Next ==
    \/ \E o \in Orders : Request(o) \/ Continue(o) \/ AbortTx(o)
    \/ \E a \in Admins : AdjustWrite(a) \/ \E v \in Variants, d \in Deltas : AdjustRead(a, v, d)

Spec == Init /\ [][Next]_vars

(* A transaction that can take its next statement takes it in the end, a    *)
(* row lock is granted in turn, and the deadlock detector runs.             *)
Fairness == \A o \in Orders : SF_vars(Continue(o))
FairSpec == Spec /\ Fairness

-----------------------------------------------------------------------------
(* Properties *)

(* Rows, locks, transactions and counters stay in their types: `reserved`    *)
(* never turns negative, and a row nobody has locked has no uncommitted      *)
(* version.                                                                  *)
TypeOK ==
    /\ row \in [Variants -> Level] /\ draft \in [Variants -> Level]
    /\ holder \in [Variants -> Orders \cup {None}]
    /\ tx \in [Orders -> Tx]
    /\ booked \in [Orders -> [Booked -> Nat]]
    /\ moved \in [Variants -> Int]
    /\ adjust \in [Admins -> Adjusting]
    /\ raced \subseteq Variants \X {"onHand", "reserved"}
    /\ overdrawn \subseteq Variants
    /\ \A v \in Variants : holder[v] = None => draft[v] = row[v]

(* The movement ledger explains the stock on hand: sales and returns of      *)
(* orders that overlap, deadlock and roll back never lose or double a unit.  *)
(* Only an adjustment computed from a read that was overtaken can.           *)
OnHandMatchesMovements ==
    \A v \in Variants :
        <<v, "onHand">> \notin raced => row[v].onHand = InitialOnHand[v] + moved[v]

(* Units of v that placed orders hold and nobody sold or released.           *)
Open(o) == booked[o]["reserve"] = 1 /\ booked[o]["commit"] + booked[o]["release"] = 0
Outstanding(v) ==
    SumFunctionOnSet([o \in Orders |-> Quantity(o, v)], {o \in Orders : Open(o)})

(* The legal life of an order's stock: sold or released, not both.           *)
Regular(o) == booked[o]["commit"] + booked[o]["release"] <= 1

(* reserve -> commit / release: `reserved` is exactly what open orders hold, *)
(* on every variant no overtaken write has touched, as long as no order is   *)
(* both sold and released (a cancelled COD order, a late payment).           *)
ReservedIsOutstanding ==
    (\A o \in Orders : Regular(o)) =>
        \A v \in Variants :
            <<v, "reserved">> \notin raced => row[v].reserved = Outstanding(v)

(* "Re-validate stock": reservations never exceed the stock, on every        *)
(* variant that was not promised twice between a check and its transaction,  *)
(* nor adjusted below what was reserved, nor raced.                          *)
NoOversell ==
    (\A o \in Orders : Regular(o)) =>
        \A v \in Variants \ overdrawn :
            <<v, "onHand">> \notin raced /\ <<v, "reserved">> \notin raced
                => row[v].reserved <= row[v].onHand

(* Whatever the orders' lines, no transaction waits for ever: each one       *)
(* commits or is rolled back.                                                *)
TransactionsEnd == \A o \in Orders : tx[o].op \in Booked ~> tx[o].op \notin Booked
=============================================================================
