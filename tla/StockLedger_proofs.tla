------------------------- MODULE StockLedger_proofs -------------------------
(***************************************************************************)
(* Proofs about StockLedger: the movement rows explain the stock on hand,  *)
(* `reserved` is what the open orders hold, and nothing is sold twice, for *)
(* any number of orders, lines, variants, administrators and interleavings *)
(* of their statements.                                                    *)
(***************************************************************************)
EXTENDS StockLedger, SumTheorems

(* A row is locked by the transactions that have written it, and by those    *)
(* only: line by line, up to the one that is next.                           *)
Written(o) == {Lines[o][i].variant : i \in {j \in DOMAIN Lines[o] : j < tx[o].line}}
LocksOK ==
    \A o \in Orders, v \in Variants :
        holder[v] = o <=> tx[o].op \in Booked /\ v \in Written(o)

(* The newest version of a row has its holder's movement, which the ledger   *)
(* gets when the holder commits.                                             *)
DraftOK ==
    \A v \in Variants : holder[v] # None =>
        draft[v].onHand = row[v].onHand + Movement(holder[v], v)

(* An administrator who has read is allowed one adjustment more. *)
AdjustOK == \A a \in Admins : adjust[a].variant # None => adjust[a].done < MaxAdjusts

IInv == TypeOK /\ LocksOK /\ DraftOK /\ AdjustOK /\ OnHandMatchesMovements

-----------------------------------------------------------------------------
(* The lines of an order *)

LEMMA LineTypes ==
    ASSUME NEW o \in Orders, NEW i \in DOMAIN Lines[o]
    PROVE  /\ i \in Nat \ {0}
           /\ Lines[o][i].variant \in Variants
           /\ Lines[o][i].quantity \in Nat \ {0}
<1>1. Lines[o] \in Seq(Line)
  BY StockAssumption DEF StockAssumption
<1>2. i \in 1..Len(Lines[o]) /\ Len(Lines[o]) \in Nat
  BY <1>1
<1>3. Lines[o][i] \in Line
  BY <1>1, <1>2
<1> QED BY <1>2, <1>3 DEF Line

LEMMA NextLineTypes ==
    ASSUME TypeOK, NEW o \in Orders, More(o)
    PROVE  /\ tx[o].line \in DOMAIN Lines[o]
           /\ Variant(o) \in Variants
           /\ Units(o) \in Nat \ {0}
<1>1. Len(Lines[o]) \in Nat /\ DOMAIN Lines[o] = 1..Len(Lines[o])
  BY StockAssumption DEF StockAssumption
<1>2. tx[o].line \in Nat \ {0}
  BY DEF TypeOK, Tx
<1>3. tx[o].line \in DOMAIN Lines[o]
  BY <1>1, <1>2 DEF More
<1> QED BY <1>3, LineTypes DEF Variant, Units

(* A variant is on at most one line of an order, whose units are Quantity.   *)
LEMMA QuantityOfLine ==
    ASSUME NEW o \in Orders, NEW i \in DOMAIN Lines[o]
    PROVE  Quantity(o, Lines[o][i].variant) = Lines[o][i].quantity
<1> DEFINE of == {j \in DOMAIN Lines[o] : Lines[o][j].variant = Lines[o][i].variant}
<1>1. of = {i}
  <2>1. DOMAIN Lines[o] = 1..Len(Lines[o])
    BY StockAssumption DEF StockAssumption
  <2>2. \A j \in DOMAIN Lines[o] : Lines[o][j].variant = Lines[o][i].variant => j = i
    BY <2>1, StockAssumption DEF StockAssumption
  <2> QED BY <2>2
<1>2. (CHOOSE j \in of : TRUE) = i
  BY <1>1
<1> QED BY <1>1, <1>2 DEF Quantity

LEMMA QuantityElsewhere ==
    ASSUME NEW o \in Orders, NEW v,
           \A i \in DOMAIN Lines[o] : Lines[o][i].variant # v
    PROVE  Quantity(o, v) = 0
  BY DEF Quantity

LEMMA MovementType ==
    ASSUME NEW o \in Orders, NEW v
    PROVE  Quantity(o, v) \in Nat /\ Movement(o, v) \in Int
<1>1. Quantity(o, v) \in Nat
  <2>1. CASE \E i \in DOMAIN Lines[o] : Lines[o][i].variant = v
    BY <2>1, QuantityOfLine, LineTypes
  <2>2. CASE \A i \in DOMAIN Lines[o] : Lines[o][i].variant # v
    BY <2>2, QuantityElsewhere
  <2> QED BY <2>1, <2>2
<1> QED BY <1>1 DEF Movement

-----------------------------------------------------------------------------
(* Initial states *)

LEMMA Starts == Init => IInv
<1> SUFFICES ASSUME Init PROVE IInv
  OBVIOUS
<1> USE StockAssumption DEF StockAssumption, Init, NoTx, Unread
<1>1. TypeOK
  BY DEF TypeOK, Level, Tx, Ops, Booked, Adjusting
<1>2. LocksOK
  BY DEF LocksOK, Booked
<1>3. DraftOK /\ AdjustOK /\ OnHandMatchesMovements
  BY DEF DraftOK, AdjustOK, OnHandMatchesMovements
<1> QED BY <1>1, <1>2, <1>3 DEF IInv

-----------------------------------------------------------------------------
(* What a transaction does to its row, whatever it writes there *)

(* The next line is one nobody has locked: it has a variant of its own, so   *)
(* the transaction that may lock it does not hold it yet.                    *)
LEMMA NextIsFree ==
    ASSUME TypeOK, LocksOK, NEW o \in Orders, tx[o].op \in Booked, More(o),
           CanLock(o, Variant(o))
    PROVE  holder[Variant(o)] = None /\ draft[Variant(o)] = row[Variant(o)]
<1>1. tx[o].line \in DOMAIN Lines[o] /\ Variant(o) \in Variants
  BY NextLineTypes
<1>2. Variant(o) \notin Written(o)
  <2>1. \A i \in DOMAIN Lines[o] : Lines[o][i].variant = Variant(o) => i = tx[o].line
    BY <1>1, StockAssumption DEF StockAssumption, Variant
  <2>2. tx[o].line \in Nat
    BY DEF TypeOK, Tx
  <2> QED BY <2>1, <2>2 DEF Written
<1>3. holder[Variant(o)] # o
  BY <1>1, <1>2 DEF LocksOK
<1> QED BY <1>1, <1>3 DEF CanLock, TypeOK

(* A statement of order o that writes `level` to the row of its next line    *)
(* and goes on keeps the invariant when onHand moves by the operation's      *)
(* movement.                                                                 *)
LEMMA WritesLine ==
    ASSUME IInv, NEW o \in Orders, tx[o].op \in Booked, More(o), NEW level \in Level,
           Write(o, Variant(o), level), NextLine(o),
           level.onHand = draft[Variant(o)].onHand + Movement(o, Variant(o)),
           UNCHANGED <<row, booked, moved, adjust>>,
           raced \subseteq raced', raced' \subseteq Variants \X {"onHand", "reserved"},
           overdrawn' \subseteq Variants
    PROVE  IInv'
<1> DEFINE v == Variant(o)
           n == tx[o].line
<1>1. n \in DOMAIN Lines[o] /\ v \in Variants /\ n \in Nat \ {0}
  BY NextLineTypes, LineTypes DEF IInv
<1>2. holder[v] = None /\ draft[v] = row[v]
  BY NextIsFree DEF IInv, Write
<1>3. None \notin Orders
  BY StockAssumption DEF StockAssumption
<1>4. tx' = [tx EXCEPT ![o].line = @ + 1, ![o].read = Unread]
  BY DEF NextLine
<1>5. tx[o] \in Tx /\ tx'[o] \in Tx /\ tx'[o].op = tx[o].op /\ tx'[o].line = n + 1
  <2>1. tx[o] \in Tx
    BY DEF IInv, TypeOK
  <2>2. tx'[o] = [tx[o] EXCEPT !.line = @ + 1, !.read = Unread]
    BY <1>4 DEF IInv, TypeOK
  <2>3. n + 1 \in Nat \ {0} /\ tx[o].line = n
    BY <1>1
  <2> HIDE DEF n
  <2> QED BY <2>1, <2>2, <2>3 DEF Tx
<1>6. \A p \in Orders : p # o => tx'[p] = tx[p]
  BY <1>4 DEF IInv, TypeOK
<1>7. /\ holder' = [holder EXCEPT ![v] = o]
      /\ draft' = [draft EXCEPT ![v] = level]
  BY DEF Write
<1>8. TypeOK'
  <2>1. tx' \in [Orders -> Tx]
    BY <1>4, <1>5, <1>6 DEF IInv, TypeOK
  <2>2. draft' \in [Variants -> Level] /\ holder' \in [Variants -> Orders \cup {None}]
    BY <1>7 DEF IInv, TypeOK
  <2>3. \A w \in Variants : holder'[w] = None => draft'[w] = row'[w]
    BY <1>1, <1>3, <1>7 DEF IInv, TypeOK
  <2> QED BY <2>1, <2>2, <2>3 DEF IInv, TypeOK
<1>9. LocksOK'
  <2>1. \A p \in Orders : p # o => Written(p)' = Written(p)
    BY <1>6 DEF Written
  <2>2. Written(o)' = Written(o) \cup {v}
    <3>1. \A i \in DOMAIN Lines[o] : i < n + 1 <=> i < n \/ i = n
      BY <1>1, LineTypes
    <3> QED BY <3>1, <1>1, <1>5 DEF Written, Variant
  <2>3. SUFFICES ASSUME NEW p \in Orders, NEW w \in Variants
                 PROVE  (holder[w] = p <=> tx[p].op \in Booked /\ w \in Written(p))'
    BY DEF LocksOK
  <2>4. holder[w] = p <=> tx[p].op \in Booked /\ w \in Written(p)
    BY DEF IInv, LocksOK
  <2>5. CASE w = v
    BY <2>1, <2>2, <2>4, <2>5, <1>1, <1>2, <1>3, <1>5, <1>6, <1>7 DEF IInv, TypeOK
  <2>6. CASE w # v
    <3>1. holder'[w] = holder[w]
      BY <2>6, <1>7 DEF IInv, TypeOK
    <3> QED BY <3>1, <2>1, <2>2, <2>4, <2>6, <1>5, <1>6
  <2> QED BY <2>5, <2>6
<1>10. DraftOK'
  <2>1. \A p \in Orders, w \in Variants : Movement(p, w)' = Movement(p, w)
    BY <1>5, <1>6 DEF Movement
  <2>2. SUFFICES ASSUME NEW w \in Variants, NEW p \in Orders, holder'[w] = p
                 PROVE  draft'[w].onHand = row[w].onHand + Movement(p, w)
    <3>1. (\A w \in Variants, p \in Orders : holder[w] = p =>
              draft[w].onHand = row[w].onHand + Movement(p, w))' => DraftOK'
      BY <1>8 DEF DraftOK, TypeOK
    <3> QED BY <3>1, <2>1
  <2>3. CASE w = v
    <3>1. p = o /\ draft'[w] = level
      BY <2>2, <2>3, <1>1, <1>7 DEF IInv, TypeOK
    <3> QED BY <3>1, <2>3, <1>2
  <2>4. CASE w # v
    <3>1. holder[w] = p /\ draft'[w] = draft[w]
      BY <2>2, <2>4, <1>7 DEF IInv, TypeOK
    <3> QED BY <3>1, <1>3 DEF IInv, DraftOK
  <2> QED BY <2>3, <2>4
<1>11. AdjustOK' /\ OnHandMatchesMovements'
  BY DEF IInv, AdjustOK, OnHandMatchesMovements
<1> QED BY <1>8, <1>9, <1>10, <1>11 DEF IInv

-----------------------------------------------------------------------------
(* The statements of a transaction *)

(* A transaction starts with nothing written. *)
LEMMA Begins ==
    ASSUME IInv, NEW o \in Orders, NEW op \in Ops, tx[o].op \notin Booked, Begin(o, op),
           UNCHANGED <<row, draft, holder, booked, moved, adjust, raced, overdrawn>>
    PROVE  IInv'
<1>1. /\ tx' = [tx EXCEPT ![o] = [NoTx EXCEPT !.op = op, !.stale = tx[o].stale]]
      /\ tx \in [Orders -> Tx]
  BY DEF Begin, IInv, TypeOK
<1>2. tx'[o] \in Tx /\ tx'[o].op = op /\ tx'[o].line = 1
  <2>1. tx'[o] = [op |-> op, line |-> 1, read |-> Unread, stale |-> tx[o].stale]
    BY <1>1 DEF NoTx
  <2>2. tx[o].stale \in SUBSET Variants
    <3>1. tx[o] \in Tx
      BY <1>1
    <3> QED BY <3>1 DEF Tx
  <2>3. [op |-> op, line |-> 1, read |-> Unread, stale |-> tx[o].stale] \in Tx
    BY <2>2 DEF Tx
  <2> QED BY <2>1, <2>3
<1>3. \A p \in Orders : p # o => tx'[p] = tx[p]
  BY <1>1
<1>4. TypeOK'
  BY <1>1, <1>2, <1>3 DEF IInv, TypeOK
<1>5. Written(o)' = {} /\ \A p \in Orders : p # o => Written(p)' = Written(p)
  <2>1. \A i \in DOMAIN Lines[o] : ~(i < 1)
    BY LineTypes
  <2> QED BY <2>1, <1>2, <1>3 DEF Written
<1>6. \A w \in Variants : holder[w] # o
  BY DEF IInv, LocksOK
<1>7. LocksOK'
  BY <1>3, <1>5, <1>6 DEF IInv, LocksOK
<1>8. DraftOK'
  <2>1. \A p \in Orders, w \in Variants : p # o => Movement(p, w)' = Movement(p, w)
    BY <1>3 DEF Movement
  <2>2. \A w \in Variants, p \in Orders : holder[w] = p /\ p # o =>
           (draft[w].onHand = row[w].onHand + Movement(p, w))'
    BY <2>1, StockAssumption DEF StockAssumption, IInv, DraftOK
  <2> QED BY <1>6, <2>2 DEF IInv, TypeOK, DraftOK
<1>9. AdjustOK' /\ OnHandMatchesMovements'
  BY DEF IInv, AdjustOK, OnHandMatchesMovements
<1> QED BY <1>4, <1>7, <1>8, <1>9 DEF IInv

LEMMA Opens ==
    ASSUME IInv, NEW o \in Orders,
           Request(o) \/ BeginReserve(o)
    PROVE  IInv'
<1> USE DEF Ops, Booked
<1>1. CASE Revalidate(o)
  BY <1>1, Begins DEF Revalidate
<1>2. CASE BeginReserve(o)
  BY <1>2, Begins DEF BeginReserve
<1>3. CASE BeginCommit(o)
  BY <1>3, Begins DEF BeginCommit
<1>4. CASE BeginRelease(o)
  BY <1>4, Begins DEF BeginRelease
<1>5. CASE BeginReturn(o)
  BY <1>5, Begins DEF BeginReturn
<1> QED BY <1>1, <1>2, <1>3, <1>4, <1>5 DEF Request

LEMMA Reads ==
    ASSUME IInv, NEW o \in Orders, ReadLevel(o)
    PROVE  IInv'
<1>1. /\ tx' = [tx EXCEPT ![o].read = Visible(o, Variant(o)).reserved]
      /\ tx \in [Orders -> Tx]
      /\ UNCHANGED <<row, draft, holder, booked, moved, adjust, raced, overdrawn>>
  BY DEF ReadLevel, IInv, TypeOK
<1>2. Visible(o, Variant(o)).reserved \in Nat
  BY NextLineTypes DEF ReadLevel, Visible, IInv, TypeOK, Level
<1>3. tx' \in [Orders -> Tx]
  <2>1. tx'[o] = [tx[o] EXCEPT !.read = Visible(o, Variant(o)).reserved] /\ tx[o] \in Tx
    BY <1>1
  <2>2. tx'[o] \in Tx
    BY <2>1, <1>2 DEF Tx
  <2> QED BY <1>1, <2>2
<1>4. \A p \in Orders : tx'[p].op = tx[p].op /\ tx'[p].line = tx[p].line
  BY <1>1 DEF Tx
<1>5. TypeOK'
  BY <1>1, <1>3 DEF IInv, TypeOK
<1>6. LocksOK'
  <2>1. \A p \in Orders : Written(p)' = Written(p)
    BY <1>4 DEF Written
  <2> QED BY <2>1, <1>1, <1>4 DEF IInv, LocksOK
<1>7. DraftOK'
  <2>1. \A p \in Orders, w \in Variants : Movement(p, w)' = Movement(p, w)
    BY <1>4 DEF Movement
  <2> QED BY <2>1, <1>1 DEF IInv, TypeOK, DraftOK
<1>8. AdjustOK' /\ OnHandMatchesMovements'
  BY <1>1 DEF IInv, AdjustOK, OnHandMatchesMovements
<1> QED BY <1>5, <1>6, <1>7, <1>8 DEF IInv

(* What the four statements write is a level, with the operation's movement. *)
LEMMA LineWrites ==
    ASSUME IInv, NEW o \in Orders,
           ReserveLine(o) \/ CommitLine(o) \/ ReleaseLine(o) \/ ReturnLine(o)
    PROVE  IInv'
<1> DEFINE v == Variant(o)
<1>1. More(o)
  BY DEF ReserveLine, CommitLine, ReleaseLine, ReturnLine
<1>2. v \in Variants /\ Units(o) \in Nat \ {0} /\ Quantity(o, v) = Units(o)
  BY <1>1, NextLineTypes, QuantityOfLine DEF IInv, Variant, Units
<1>3. draft[v] \in Level
  BY <1>2 DEF IInv, TypeOK
<1>4. tx[o] \in Tx
  BY DEF IInv, TypeOK
<1>5. raced \subseteq Variants \X {"onHand", "reserved"} /\ overdrawn \subseteq Variants
  BY DEF IInv, TypeOK
<1>6. /\ raced \subseteq Overtakes(o, v)
      /\ Overtakes(o, v) \subseteq Variants \X {"onHand", "reserved"}
  BY <1>2, <1>5 DEF Overtakes
<1>7. tx[o].read \in Int
  BY <1>4 DEF Tx, Unread
<1>8. NonNegative(tx[o].read - Units(o)) \in Nat
  BY <1>2, <1>7 DEF NonNegative
<1>9. CASE ReserveLine(o)
  <2> DEFINE level == [draft[v] EXCEPT !.reserved = @ + Units(o)]
  <2>1. level \in Level /\ level.onHand = draft[v].onHand + Movement(o, v)
    BY <1>2, <1>3, <1>9 DEF Level, Movement, ReserveLine
  <2>2. overdrawn' \subseteq Variants
    BY <1>2, <1>5, <1>9 DEF ReserveLine
  <2> QED BY <1>1, <1>5, <1>9, <2>1, <2>2, WritesLine DEF ReserveLine, Booked
<1>10. CASE CommitLine(o)
  <2> DEFINE level == [onHand |-> draft[v].onHand - Units(o),
                       reserved |-> NonNegative(tx[o].read - Units(o))]
  <2>1. level \in Level /\ level.onHand = draft[v].onHand + Movement(o, v)
    BY <1>2, <1>3, <1>8, <1>10 DEF Level, Movement, CommitLine
  <2> HIDE DEF level
  <2>2. Write(o, v, level)
    BY <1>10 DEF CommitLine, level
  <2> QED BY <1>1, <1>5, <1>6, <1>10, <2>1, <2>2, WritesLine DEF CommitLine, Booked
<1>11. CASE ReleaseLine(o)
  <2> DEFINE level == [draft[v] EXCEPT !.reserved = NonNegative(tx[o].read - Units(o))]
  <2>1. level \in Level /\ level.onHand = draft[v].onHand + Movement(o, v)
    BY <1>2, <1>3, <1>8, <1>11 DEF Level, Movement, ReleaseLine
  <2> QED BY <1>1, <1>5, <1>6, <1>11, <2>1, WritesLine DEF ReleaseLine, Booked
<1>12. CASE ReturnLine(o)
  <2> DEFINE level == [draft[v] EXCEPT !.onHand = @ + Units(o)]
  <2>1. level \in Level /\ level.onHand = draft[v].onHand + Movement(o, v)
    BY <1>2, <1>3, <1>12 DEF Level, Movement, ReturnLine
  <2> QED BY <1>1, <1>5, <1>12, <2>1, WritesLine DEF ReturnLine, Booked
<1> QED BY <1>9, <1>10, <1>11, <1>12

-----------------------------------------------------------------------------
(* The end of a transaction, and adjustments *)

(* Nobody holds what o gave up; what others hold is still theirs. *)
LEMMA GivesUp ==
    ASSUME IInv, NEW o \in Orders, holder' = Unlocked(o), tx'[o] = NoTx,
           \A p \in Orders : p # o => tx'[p].op = tx[p].op /\ tx'[p].line = tx[p].line
    PROVE  /\ holder' \in [Variants -> Orders \cup {None}]
           /\ \A w \in Variants, p \in Orders : holder'[w] = p <=> holder[w] = p /\ p # o
           /\ LocksOK'
<1>1. None \notin Orders
  BY StockAssumption DEF StockAssumption
<1>2. holder' \in [Variants -> Orders \cup {None}]
  BY DEF IInv, TypeOK, Unlocked
<1>3. \A w \in Variants, p \in Orders : holder'[w] = p <=> holder[w] = p /\ p # o
  BY <1>1 DEF Unlocked
<1>4. \A p \in Orders : p # o => Written(p)' = Written(p)
  BY DEF Written
<1>5. tx'[o].op \notin Booked
  BY DEF NoTx, Booked
<1>6. LocksOK'
  BY <1>3, <1>4, <1>5 DEF IInv, LocksOK
<1> QED BY <1>2, <1>3, <1>6

(* Another change of tx that leaves its operations and lines as they are.    *)
LEMMA StaleOnly ==
    ASSUME TypeOK, NEW o, NEW C \in SUBSET Variants, tx' = TxAfter(o, C)
    PROVE  /\ tx' \in [Orders -> Tx]
           /\ \A p \in Orders : p # o => tx'[p].op = tx[p].op /\ tx'[p].line = tx[p].line
           /\ o \in Orders => tx'[o] = NoTx
<1>1. NoTx \in Tx
  BY DEF NoTx, Tx, Ops
<1>2. ASSUME NEW p \in Orders, p # o
      PROVE  tx'[p] \in Tx /\ tx'[p].op = tx[p].op /\ tx'[p].line = tx[p].line
  <2>1. tx[p] \in Tx
    BY DEF TypeOK
  <2>2. tx'[p] = tx[p] \/ tx'[p] = [tx[p] EXCEPT !.stale = @ \cup C]
    BY <1>2 DEF TxAfter
  <2>3. tx[p].stale \cup C \in SUBSET Variants
    BY <2>1 DEF Tx
  <2> QED BY <2>1, <2>2, <2>3 DEF Tx
<1>3. o \in Orders => tx'[o] = NoTx
  BY DEF TxAfter
<1>4. \A p \in Orders : tx'[p] \in Tx
  BY <1>1, <1>2, <1>3
<1>5. tx' \in [Orders -> Tx]
  BY <1>4 DEF TxAfter
<1> QED BY <1>2, <1>3, <1>5

(* What o's operation did to a row it does not hold is nothing. *)
LEMMA NothingElsewhere ==
    ASSUME IInv, NEW o \in Orders, tx[o].op \in Booked, ~More(o), NEW w \in Variants,
           holder[w] # o
    PROVE  Quantity(o, w) = 0 /\ Movement(o, w) = 0
<1>1. w \notin Written(o)
  BY DEF IInv, LocksOK
<1>2. \A i \in DOMAIN Lines[o] : i < tx[o].line
  <2>1. Len(Lines[o]) \in Nat /\ DOMAIN Lines[o] = 1..Len(Lines[o])
    BY StockAssumption DEF StockAssumption
  <2>2. tx[o].line \in Nat
    BY DEF IInv, TypeOK, Tx
  <2> QED BY <2>1, <2>2 DEF More
<1>3. Quantity(o, w) = 0
  BY <1>1, <1>2, QuantityElsewhere DEF Written
<1> QED BY <1>3 DEF Movement

LEMMA Commits ==
    ASSUME IInv, NEW o \in Orders, CommitTx(o)
    PROVE  IInv'
<1> DEFINE C == {v \in Variants : row'[v] # row[v]}
<1>1. /\ tx[o].op \in Booked /\ ~More(o)
      /\ row' = [v \in Variants |-> Visible(o, v)]
      /\ holder' = Unlocked(o)
      /\ booked' = [booked EXCEPT ![o][tx[o].op] = @ + 1]
      /\ moved' = [v \in Variants |-> moved[v] + Movement(o, v)]
      /\ tx' = TxAfter(o, C)
      /\ UNCHANGED <<draft, adjust, raced, overdrawn>>
  BY DEF CommitTx
<1>2. TypeOK
  BY DEF IInv
<1>3. /\ tx' \in [Orders -> Tx]
      /\ \A p \in Orders : p # o => tx'[p].op = tx[p].op /\ tx'[p].line = tx[p].line
      /\ tx'[o] = NoTx
  <2>1. C \in SUBSET Variants
    OBVIOUS
  <2> HIDE DEF C
  <2> QED BY <1>1, <1>2, <2>1, StaleOnly
<1>4. /\ holder' \in [Variants -> Orders \cup {None}]
      /\ \A w \in Variants, p \in Orders : holder'[w] = p <=> holder[w] = p /\ p # o
      /\ LocksOK'
  BY <1>1, <1>3, GivesUp
<1>5. \A w \in Variants : row'[w] = Visible(o, w) /\ moved'[w] = moved[w] + Movement(o, w)
  BY <1>1
<1>6. TypeOK'
  <2>1. row' \in [Variants -> Level] /\ draft' \in [Variants -> Level]
    BY <1>1, <1>2 DEF TypeOK, Visible
  <2>2. moved' \in [Variants -> Int]
    BY <1>1, <1>2, MovementType DEF TypeOK
  <2>3. booked' \in [Orders -> [Booked -> Nat]]
    BY <1>1, <1>2 DEF TypeOK
  <2>4. \A w \in Variants : holder'[w] = None => draft'[w] = row'[w]
    BY <1>1, <1>2, <1>4, <1>5 DEF TypeOK, Visible
  <2> QED BY <1>1, <1>2, <1>3, <1>4, <2>1, <2>2, <2>3, <2>4 DEF TypeOK
<1>7. DraftOK'
  <2>1. \A p \in Orders, w \in Variants : p # o => Movement(p, w)' = Movement(p, w)
    BY <1>3 DEF Movement
  <2>2. \A w \in Variants, p \in Orders : holder'[w] = p =>
           (draft[w].onHand = row[w].onHand + Movement(p, w))'
    <3> SUFFICES ASSUME NEW w \in Variants, NEW p \in Orders, holder'[w] = p
                 PROVE  (draft[w].onHand = row[w].onHand + Movement(p, w))'
      OBVIOUS
    <3>1. holder[w] = p /\ p # o /\ p # None
      BY <1>4, StockAssumption DEF StockAssumption
    <3>2. row'[w] = row[w] /\ draft'[w] = draft[w]
      BY <1>1, <1>5, <3>1 DEF Visible
    <3> QED BY <2>1, <3>1, <3>2 DEF IInv, DraftOK
  <2> QED BY <1>4, <2>2 DEF DraftOK
<1>8. OnHandMatchesMovements'
  <2> SUFFICES ASSUME NEW w \in Variants, <<w, "onHand">> \notin raced
               PROVE  row'[w].onHand = InitialOnHand[w] + moved'[w]
    BY <1>1 DEF OnHandMatchesMovements
  <2>1. row[w].onHand = InitialOnHand[w] + moved[w]
    BY DEF IInv, OnHandMatchesMovements
  <2>2. /\ InitialOnHand[w] \in Int /\ moved[w] \in Int /\ Movement(o, w) \in Int
    BY <1>2, MovementType, StockAssumption DEF TypeOK, StockAssumption
  <2>3. CASE holder[w] = o
    <3>1. o # None
      BY StockAssumption DEF StockAssumption
    <3>2. draft[w].onHand = row[w].onHand + Movement(o, w)
      BY <2>3, <3>1 DEF IInv, DraftOK
    <3> QED BY <1>5, <2>1, <2>2, <2>3, <3>2 DEF Visible
  <2>4. CASE holder[w] # o
    <3>1. Movement(o, w) = 0
      BY <1>1, <2>4, NothingElsewhere
    <3> QED BY <1>5, <2>1, <2>2, <2>4, <3>1 DEF Visible
  <2> QED BY <2>3, <2>4
<1>9. AdjustOK'
  BY <1>1 DEF IInv, AdjustOK
<1> QED BY <1>4, <1>6, <1>7, <1>8, <1>9 DEF IInv

LEMMA RollsBack ==
    ASSUME IInv, NEW o \in Orders, Rollback(o)
    PROVE  IInv'
<1>1. /\ draft' = [v \in Variants |-> IF holder[v] = o THEN row[v] ELSE draft[v]]
      /\ holder' = Unlocked(o)
      /\ tx' = [tx EXCEPT ![o] = NoTx]
      /\ UNCHANGED <<row, booked, moved, adjust, raced, overdrawn>>
  BY DEF Rollback
<1>2. TypeOK
  BY DEF IInv
<1>3. tx' \in [Orders -> Tx] /\ tx'[o] = NoTx /\ \A p \in Orders : p # o => tx'[p] = tx[p]
  <2>1. NoTx \in Tx
    BY DEF NoTx, Tx, Ops
  <2> QED BY <1>1, <1>2, <2>1 DEF TypeOK
<1>4. /\ holder' \in [Variants -> Orders \cup {None}]
      /\ \A w \in Variants, p \in Orders : holder'[w] = p <=> holder[w] = p /\ p # o
      /\ LocksOK'
  BY <1>1, <1>3, GivesUp
<1>5. TypeOK'
  <2>1. \A w \in Variants : holder'[w] = None => draft'[w] = row'[w]
    BY <1>1, <1>2, <1>4 DEF TypeOK
  <2> QED BY <1>1, <1>2, <1>3, <1>4, <2>1 DEF TypeOK
<1>6. DraftOK'
  <2>1. \A p \in Orders, w \in Variants : p # o => Movement(p, w)' = Movement(p, w)
    BY <1>3 DEF Movement
  <2>2. \A w \in Variants, p \in Orders : holder'[w] = p =>
           (draft[w].onHand = row[w].onHand + Movement(p, w))'
    <3> SUFFICES ASSUME NEW w \in Variants, NEW p \in Orders, holder'[w] = p
                 PROVE  (draft[w].onHand = row[w].onHand + Movement(p, w))'
      OBVIOUS
    <3>1. holder[w] = p /\ p # o /\ p # None
      BY <1>4, StockAssumption DEF StockAssumption
    <3>2. row'[w] = row[w] /\ draft'[w] = draft[w]
      BY <1>1, <3>1
    <3> QED BY <2>1, <3>1, <3>2 DEF IInv, DraftOK
  <2> QED BY <1>4, <2>2 DEF DraftOK
<1>7. AdjustOK' /\ OnHandMatchesMovements'
  BY <1>1 DEF IInv, AdjustOK, OnHandMatchesMovements
<1> QED BY <1>4, <1>5, <1>6, <1>7 DEF IInv

LEMMA ReadsToAdjust ==
    ASSUME IInv, NEW a \in Admins, NEW v \in Variants, NEW d \in Deltas, AdjustRead(a, v, d)
    PROVE  IInv'
<1> DEFINE next == NonNegative(row[v].onHand + d)
<1>1. /\ adjust' = [adjust EXCEPT ![a].variant = v, ![a].read = row[v].onHand, ![a].next = next]
      /\ adjust[a].done < MaxAdjusts
      /\ UNCHANGED <<row, draft, holder, tx, booked, moved, raced, overdrawn>>
  BY DEF AdjustRead
<1>2. row[v].onHand \in Int /\ d \in Int
  BY StockAssumption DEF StockAssumption, IInv, TypeOK, Level
<1>3. next \in Int
  BY <1>2 DEF NonNegative
<1>4. adjust[a] \in Adjusting /\ adjust \in [Admins -> Adjusting]
  BY DEF IInv, TypeOK
<1>5. adjust'[a] = [adjust[a] EXCEPT !.variant = v, !.read = row[v].onHand, !.next = next]
  BY <1>1, <1>4
<1>6. adjust'[a] \in Adjusting /\ adjust'[a].done = adjust[a].done
  <2> HIDE DEF next
  <2> QED BY <1>2, <1>3, <1>4, <1>5 DEF Adjusting
<1>7. \A b \in Admins : b # a => adjust'[b] = adjust[b]
  BY <1>1, <1>4
<1>8. adjust' \in [Admins -> Adjusting]
  BY <1>1, <1>4, <1>6, <1>7
<1>9. TypeOK'
  BY <1>1, <1>8 DEF IInv, TypeOK
<1>10. AdjustOK'
  BY <1>1, <1>6, <1>7 DEF IInv, AdjustOK
<1>11. LocksOK' /\ DraftOK' /\ OnHandMatchesMovements'
  BY <1>1 DEF IInv, LocksOK, Written, DraftOK, Movement, OnHandMatchesMovements
<1> QED BY <1>9, <1>10, <1>11 DEF IInv

(* Whoever computed onHand from a value that is still there writes what the  *)
(* movement says; whoever did not is a race.                                 *)
LEMMA Adjusts ==
    ASSUME IInv, NEW a \in Admins, AdjustWrite(a)
    PROVE  IInv'
<1> DEFINE v == adjust[a].variant
           next == adjust[a].next
           read == adjust[a].read
<1>1. /\ v # None /\ holder[v] = None
      /\ row' = [row EXCEPT ![v].onHand = next]
      /\ draft' = [draft EXCEPT ![v].onHand = next]
      /\ moved' = [moved EXCEPT ![v] = @ + next - read]
      /\ raced' = IF row[v].onHand # read THEN raced \cup {<<v, "onHand">>} ELSE raced
      /\ overdrawn' \in {overdrawn, overdrawn \cup {v}}
      /\ adjust' = [adjust EXCEPT ![a] = [variant |-> None, read |-> 0, next |-> 0,
                                          done |-> @.done + 1]]
      /\ tx' = TxAfter(None, {v})
      /\ UNCHANGED <<holder, booked>>
  BY DEF AdjustWrite
<1>2. TypeOK /\ adjust[a] \in Adjusting
  BY DEF IInv, TypeOK
<1>3. v \in Variants /\ next \in Int /\ read \in Int /\ adjust[a].done \in 0..MaxAdjusts
  BY <1>1, <1>2 DEF Adjusting
<1>4. adjust[a].done < MaxAdjusts
  BY <1>1 DEF IInv, AdjustOK
<1>5. None \notin Orders
  BY StockAssumption DEF StockAssumption
<1> HIDE DEF v, next, read
<1>6. /\ tx' \in [Orders -> Tx]
      /\ \A p \in Orders : tx'[p].op = tx[p].op /\ tx'[p].line = tx[p].line
  <2>1. {v} \in SUBSET Variants
    BY <1>3
  <2> QED BY <1>1, <1>2, <1>5, <2>1, StaleOnly
<1>7. /\ row'[v] = [row[v] EXCEPT !.onHand = next]
      /\ draft'[v] = [draft[v] EXCEPT !.onHand = next]
      /\ row[v] = draft[v] /\ row[v] \in Level
      /\ \A w \in Variants : w # v => row'[w] = row[w] /\ draft'[w] = draft[w]
  BY <1>1, <1>2, <1>3 DEF TypeOK
<1>8. row'[v] \in Level /\ row'[v] = draft'[v] /\ row'[v].onHand = next
  BY <1>3, <1>7 DEF Level
<1>9. adjust' \in [Admins -> Adjusting] /\ AdjustOK'
  <2>1. adjust[a].done + 1 \in 0..MaxAdjusts
    BY <1>3, <1>4, StockAssumption DEF StockAssumption
  <2>2. adjust'[a] = [variant |-> None, read |-> 0, next |-> 0, done |-> adjust[a].done + 1]
    BY <1>1, <1>2 DEF TypeOK
  <2>3. adjust'[a] \in Adjusting /\ adjust'[a].variant = None
    BY <2>1, <2>2 DEF Adjusting
  <2>4. \A b \in Admins : b # a => adjust'[b] = adjust[b]
    BY <1>1, <1>2 DEF TypeOK
  <2> QED BY <1>1, <1>2, <2>3, <2>4 DEF IInv, TypeOK, AdjustOK
<1>10. TypeOK'
  <2>1. row' \in [Variants -> Level] /\ draft' \in [Variants -> Level]
    BY <1>1, <1>2, <1>7, <1>8 DEF TypeOK
  <2>2. moved' \in [Variants -> Int]
    BY <1>1, <1>2, <1>3 DEF TypeOK
  <2>3. raced' \subseteq Variants \X {"onHand", "reserved"} /\ overdrawn' \subseteq Variants
    BY <1>1, <1>2, <1>3 DEF TypeOK
  <2>4. \A w \in Variants : holder'[w] = None => draft'[w] = row'[w]
    BY <1>1, <1>2, <1>7, <1>8 DEF TypeOK
  <2> QED BY <1>1, <1>2, <1>6, <1>9, <2>1, <2>2, <2>3, <2>4 DEF TypeOK
<1>11. LocksOK'
  <2>1. \A p \in Orders : Written(p)' = Written(p)
    BY <1>6 DEF Written
  <2>2. holder' = holder /\ \A p \in Orders : tx'[p].op = tx[p].op
    BY <1>1, <1>6
  <2>3. LocksOK
    BY DEF IInv
  <2> QED BY <2>1, <2>2, <2>3 DEF LocksOK
<1>12. DraftOK'
  <2>1. \A p \in Orders, w \in Variants : Movement(p, w)' = Movement(p, w)
    BY <1>6 DEF Movement
  <2>2. \A w \in Variants : holder[w] # None => w # v /\ holder[w] \in Orders
    BY <1>1, <1>2 DEF TypeOK
  <2> QED BY <1>1, <1>7, <2>1, <2>2 DEF IInv, DraftOK
<1>13. OnHandMatchesMovements'
  <2> SUFFICES ASSUME NEW w \in Variants, <<w, "onHand">> \notin raced'
               PROVE  row'[w].onHand = InitialOnHand[w] + moved'[w]
    BY DEF OnHandMatchesMovements
  <2>1. row[w].onHand = InitialOnHand[w] + moved[w]
    BY <1>1 DEF IInv, OnHandMatchesMovements
  <2>2. InitialOnHand[w] \in Int /\ moved[w] \in Int
    BY <1>2, StockAssumption DEF TypeOK, StockAssumption
  <2>3. CASE w = v
    <3>1. row[v].onHand = read
      BY <1>1, <2>3
    <3>2. moved'[w] = moved[w] + next - read
      BY <1>1, <1>2, <2>3 DEF TypeOK
    <3> QED BY <1>3, <1>8, <2>1, <2>2, <2>3, <3>1, <3>2
  <2>4. CASE w # v
    <3>1. moved'[w] = moved[w] /\ row'[w] = row[w]
      BY <1>1, <1>2, <1>7, <2>4 DEF TypeOK
    <3> QED BY <2>1, <3>1
  <2> QED BY <2>3, <2>4
<1> QED BY <1>9, <1>10, <1>11, <1>12, <1>13 DEF IInv

-----------------------------------------------------------------------------
LEMMA Steps == IInv /\ [Next]_vars => IInv'
<1> SUFFICES ASSUME IInv, [Next]_vars PROVE IInv'
  OBVIOUS
<1>1. ASSUME NEW o \in Orders, Request(o) PROVE IInv'
  BY <1>1, Opens
<1>2. ASSUME NEW o \in Orders, Continue(o) PROVE IInv'
  <2>1. CASE BeginReserve(o)
    BY <2>1, Opens
  <2>2. CASE ReserveLine(o) \/ CommitLine(o) \/ ReleaseLine(o) \/ ReturnLine(o)
    BY <2>2, LineWrites
  <2>3. CASE ReadLevel(o)
    BY <2>3, Reads
  <2>4. CASE CommitTx(o)
    BY <2>4, Commits
  <2>5. CASE DeadlockVictim(o)
    BY <2>5, RollsBack DEF DeadlockVictim
  <2> QED BY <1>2, <2>1, <2>2, <2>3, <2>4, <2>5 DEF Continue
<1>3. ASSUME NEW o \in Orders, AbortTx(o) PROVE IInv'
  BY <1>3, RollsBack DEF AbortTx
<1>4. ASSUME NEW a \in Admins, NEW v \in Variants, NEW d \in Deltas, AdjustRead(a, v, d)
      PROVE  IInv'
  BY <1>4, ReadsToAdjust
<1>5. ASSUME NEW a \in Admins, AdjustWrite(a) PROVE IInv'
  BY <1>5, Adjusts
<1>6. CASE UNCHANGED vars
  BY <1>6 DEF vars, IInv, TypeOK, LocksOK, Written, DraftOK, Movement, AdjustOK,
              OnHandMatchesMovements
<1> QED BY <1>1, <1>2, <1>3, <1>4, <1>5, <1>6 DEF Next

(* Rows, locks, transactions and counters keep their types: `reserved` is    *)
(* never negative, and a row nobody has locked has no uncommitted version.   *)
THEOREM StockTypes == Spec => []TypeOK
<1>1. IInv => TypeOK
  BY DEF IInv
<1> QED BY <1>1, Starts, Steps, PTL DEF Spec

(* The sales, returns and adjustments explain the units on hand of every     *)
(* variant, except one whose adjustment was computed from an overtaken read. *)
THEOREM LedgerExplains == Spec => []OnHandMatchesMovements
<1>1. IInv => OnHandMatchesMovements
  BY DEF IInv
<1> QED BY <1>1, Starts, Steps, PTL DEF Spec

-----------------------------------------------------------------------------
(* Reservations.  `reserved` of a row is what the open orders hold of it;    *)
(* a transaction under way will add or take its order's units.              *)

(* An order's stock is reserved once, sold or released after that, and a     *)
(* transaction under way is one that its bookings allow.                     *)
LifeOK ==
    \A o \in Orders :
        /\ booked[o]["reserve"] \in {0, 1}
        /\ booked[o]["reserve"] = 0 => booked[o]["commit"] = 0 /\ booked[o]["release"] = 0
        /\ tx[o].op \in {"checked", "reserve"} => booked[o]["reserve"] = 0
        /\ tx[o].op \in {"commit", "release", "return"} => booked[o]["reserve"] = 1
        /\ tx[o].op = "commit" => booked[o]["commit"] = 0
        /\ tx[o].op = "release" => booked[o]["release"] = 0
        /\ tx[o].op = "return" => booked[o]["commit"] > 0

OpenOrders == {o \in Orders : Open(o)}
Held(v) == [o \in Orders |-> Quantity(o, v)]
Calm == \A o \in Orders : Regular(o)
Unraced(v) == <<v, "reserved">> \notin raced

(* What o's transaction does to `reserved` when it commits, unless it sells  *)
(* what was released or releases what was sold.                              *)
Hold(o, v) ==
    CASE tx[o].op = "reserve" -> Quantity(o, v)
      [] tx[o].op \in {"commit", "release"} -> 0 - Quantity(o, v)
      [] OTHER -> 0
Breaking(o) == tx[o].op \in {"commit", "release"} /\ ~Open(o)

HoldOK ==
    Calm => \A v \in Variants, o \in Orders :
        holder[v] = o /\ ~Breaking(o) /\ Unraced(v)
            => draft[v].reserved = row[v].reserved + Hold(o, v)

(* What was in stock at the check still is, but for the rows that changed.   *)
StaleOK ==
    \A o \in Orders, v \in Variants :
        tx[o].op \in {"checked", "reserve"} /\ v \notin tx[o].stale
            => Quantity(o, v) <= Available(row[v])

(* What a transaction is about to reserve is there. *)
PromisedOK ==
    \A o \in Orders, v \in Variants \ overdrawn :
        holder[v] = o /\ tx[o].op = "reserve"
            => row[v].reserved + Quantity(o, v) <= row[v].onHand

HeldInv ==
    /\ LifeOK /\ IsFiniteSet(OpenOrders) /\ HoldOK /\ StaleOK /\ PromisedOK
    /\ ReservedIsOutstanding /\ NoOversell

-----------------------------------------------------------------------------
LEMMA QuantityType ==
    ASSUME NEW o \in Orders, NEW v PROVE Quantity(o, v) \in Nat
<1>1. CASE \E i \in DOMAIN Lines[o] : Lines[o][i].variant = v
  BY <1>1, QuantityOfLine, LineTypes
<1>2. CASE \A i \in DOMAIN Lines[o] : Lines[o][i].variant # v
  BY <1>2, QuantityElsewhere
<1> QED BY <1>1, <1>2

LEMMA OutstandingIsSum ==
    ASSUME NEW v
    PROVE  /\ Outstanding(v) = SumFunctionOnSet(Held(v), OpenOrders)
           /\ Outstanding(v)' = SumFunctionOnSet(Held(v), OpenOrders')
  BY DEF Outstanding, OpenOrders, Held

(* Every open order's units are reserved. *)
LEMMA HoldsItsOwn ==
    ASSUME HeldInv, Calm, NEW v \in Variants, Unraced(v), NEW o \in Orders, Open(o)
    PROVE  Quantity(o, v) <= row[v].reserved
<1>1. o \in OpenOrders /\ OpenOrders \subseteq Orders /\ IsFiniteSet(OpenOrders)
  BY DEF OpenOrders, HeldInv
<1>2. \A p \in OpenOrders : Held(v)[p] \in Nat
  BY <1>1, QuantityType DEF Held
<1>3. Held(v)[o] <= SumFunctionOnSet(Held(v), OpenOrders)
  BY <1>1, <1>2, SumBounds
<1>4. row[v].reserved = Outstanding(v)
  BY DEF HeldInv, ReservedIsOutstanding, Calm, Unraced
<1> QED BY <1>3, <1>4, OutstandingIsSum DEF Held

(* A step that books nothing leaves the open orders and their units alone.   *)
LEMMA NothingBooked ==
    ASSUME UNCHANGED booked
    PROVE  /\ OpenOrders' = OpenOrders /\ Calm' = Calm
           /\ \A v : Outstanding(v)' = Outstanding(v)
           /\ \A o : Open(o)' = Open(o)
  BY DEF OpenOrders, Open, Calm, Regular, Outstanding

(* A step that neither writes a row nor books anything.                      *)
LEMMA LooksOnly ==
    ASSUME IInv, HeldInv, UNCHANGED <<row, draft, holder, booked, raced, overdrawn>>,
           LifeOK', StaleOK',
           \A p \in Orders, w \in Variants : holder[w] = p => tx'[p].op = tx[p].op
    PROVE  HeldInv'
<1>1. /\ OpenOrders' = OpenOrders /\ Calm' = Calm
      /\ \A v : Outstanding(v)' = Outstanding(v)
      /\ \A o : Open(o)' = Open(o)
  BY NothingBooked
<1>2. HoldOK'
  <2> SUFFICES ASSUME Calm, NEW v \in Variants, NEW o \in Orders,
                      holder[v] = o, ~(Breaking(o))', Unraced(v)
               PROVE  draft[v].reserved = row[v].reserved + (Hold(o, v))'
    BY <1>1 DEF HoldOK, Unraced
  <2>1. tx'[o].op = tx[o].op
    OBVIOUS
  <2>2. (Hold(o, v))' = Hold(o, v) /\ (Breaking(o))' = Breaking(o)
    BY <1>1, <2>1 DEF Hold, Breaking
  <2> QED BY <2>2 DEF HeldInv, HoldOK
<1>3. PromisedOK'
  BY DEF HeldInv, PromisedOK
<1>4. ReservedIsOutstanding'
  BY <1>1 DEF HeldInv, ReservedIsOutstanding, Calm
<1>5. NoOversell'
  BY <1>1 DEF HeldInv, NoOversell, Calm
<1> QED BY <1>1, <1>2, <1>3, <1>4, <1>5 DEF HeldInv

LEMMA StartsHeld == Init => HeldInv
<1> SUFFICES ASSUME Init PROVE HeldInv
  OBVIOUS
<1> USE StockAssumption DEF StockAssumption, Init, NoTx, Booked
<1>1. OpenOrders = {}
  BY DEF OpenOrders, Open
<1>2. LifeOK /\ StaleOK /\ PromisedOK /\ HoldOK
  BY DEF LifeOK, StaleOK, PromisedOK, HoldOK
<1>3. \A v : Outstanding(v) = 0
  BY <1>1, OutstandingIsSum, SumEmpty
<1>4. ReservedIsOutstanding /\ NoOversell
  BY <1>3 DEF ReservedIsOutstanding, NoOversell
<1> QED BY <1>1, <1>2, <1>4, FS_EmptySet DEF HeldInv

-----------------------------------------------------------------------------
(* What requests and statements do to reservations *)

LEMMA OpensHeld ==
    ASSUME IInv, HeldInv, NEW o \in Orders, Request(o) \/ BeginReserve(o)
    PROVE  HeldInv'
<1> USE DEF Ops, Booked
<1>1. PICK op \in Ops : Begin(o, op)
  BY DEF Request, Revalidate, BeginReserve, BeginCommit, BeginRelease, BeginReturn
<1>2. UNCHANGED <<row, draft, holder, booked, moved, adjust, raced, overdrawn>> /\ tx[o].op \notin Booked
  BY DEF Request, Revalidate, BeginReserve, BeginCommit, BeginRelease, BeginReturn
<1>3. /\ tx'[o] = [op |-> op, line |-> 1, read |-> Unread, stale |-> tx[o].stale]
      /\ \A p \in Orders : p # o => tx'[p] = tx[p]
  BY <1>1 DEF Begin, NoTx, IInv, TypeOK
<1>4. op = tx'[o].op
  BY <1>3
<1>5. booked[o] \in [Booked -> Nat]
  BY DEF IInv, TypeOK
<1>6. LifeOK'
  <2>1. /\ op \in {"checked", "reserve"} => booked[o]["reserve"] = 0
        /\ op \in {"commit", "release", "return"} => booked[o]["reserve"] = 1
        /\ op = "commit" => booked[o]["commit"] = 0
        /\ op = "release" => booked[o]["release"] = 0
        /\ op = "return" => booked[o]["commit"] > 0
    <3>1. CASE Revalidate(o)
      BY <3>1, <1>4, <1>3 DEF Revalidate, Begin, IInv, TypeOK, NoTx
    <3>2. CASE BeginReserve(o)
      BY <3>2, <1>4, <1>3 DEF BeginReserve, Begin, IInv, TypeOK, NoTx, HeldInv, LifeOK
    <3>3. CASE BeginCommit(o)
      BY <3>3, <1>4, <1>3 DEF BeginCommit, Begin, IInv, TypeOK, NoTx
    <3>4. CASE BeginRelease(o)
      BY <3>4, <1>4, <1>3, <1>5 DEF BeginRelease, Begin, IInv, TypeOK, NoTx
    <3>5. CASE BeginReturn(o)
      <4>1. op = "return" /\ booked[o]["commit"] = 1
        BY <3>5, <1>4, <1>3 DEF BeginReturn, Begin, IInv, TypeOK, NoTx
      <4>2. booked[o]["reserve"] = 1
        BY <4>1 DEF HeldInv, LifeOK
      <4> QED BY <4>1, <4>2
    <3> QED BY <3>1, <3>2, <3>3, <3>4, <3>5 DEF Request
  <2> QED BY <2>1, <1>2, <1>3, <1>4 DEF HeldInv, LifeOK
<1>7. StaleOK'
  <2> SUFFICES ASSUME NEW v \in Variants, op \in {"checked", "reserve"}, v \notin tx[o].stale
               PROVE  Quantity(o, v) <= Available(row[v])
    BY <1>2, <1>3 DEF HeldInv, StaleOK
  <2>1. CASE Revalidate(o)
    <3>1. Available(row[v]) \in Nat
      BY DEF Available, NonNegative, IInv, TypeOK, Level
    <3>2. CASE \E i \in DOMAIN Lines[o] : Lines[o][i].variant = v
      BY <3>2, <2>1, QuantityOfLine DEF Revalidate
    <3>3. CASE \A i \in DOMAIN Lines[o] : Lines[o][i].variant # v
      BY <3>3, <3>1, QuantityElsewhere
    <3> QED BY <3>2, <3>3
  <2>2. CASE BeginReserve(o)
    BY <2>2 DEF BeginReserve, HeldInv, StaleOK
  <2>3. CASE BeginCommit(o) \/ BeginRelease(o) \/ BeginReturn(o)
    BY <2>3, <1>3, <1>4 DEF BeginCommit, BeginRelease, BeginReturn, Begin, IInv, TypeOK, NoTx
  <2> QED BY <2>1, <2>2, <2>3 DEF Request
<1>8. \A p \in Orders, w \in Variants : holder[w] = p => tx'[p].op = tx[p].op
  BY <1>2, <1>3 DEF IInv, LocksOK
<1> QED BY <1>2, <1>6, <1>7, <1>8, LooksOnly

LEMMA ReadsHeld ==
    ASSUME IInv, HeldInv, NEW o \in Orders, ReadLevel(o)
    PROVE  HeldInv'
<1>1. /\ tx' = [tx EXCEPT ![o].read = Visible(o, Variant(o)).reserved]
      /\ tx \in [Orders -> Tx]
      /\ UNCHANGED <<row, draft, holder, booked, raced, overdrawn>>
  BY DEF ReadLevel, IInv, TypeOK
<1>2. \A p \in Orders : tx'[p].op = tx[p].op /\ tx'[p].stale = tx[p].stale
  BY <1>1 DEF Tx
<1>3. LifeOK' /\ StaleOK'
  BY <1>1, <1>2 DEF HeldInv, LifeOK, StaleOK
<1> QED BY <1>1, <1>2, <1>3, LooksOnly

(* A statement that writes a row nobody had locked. *)
LEMMA WritesHeld ==
    ASSUME IInv, HeldInv, NEW o \in Orders, NEW v \in Variants, NEW level \in Level,
           holder[v] = None, Write(o, v, level), NextLine(o),
           UNCHANGED <<row, booked>>, raced \subseteq raced', overdrawn \subseteq overdrawn',
           Calm /\ ~Breaking(o) /\ <<v, "reserved">> \notin raced'
               => level.reserved = row[v].reserved + Hold(o, v),
           tx[o].op = "reserve" /\ v \notin overdrawn'
               => row[v].reserved + Quantity(o, v) <= row[v].onHand
    PROVE  HeldInv'
<1>1. /\ OpenOrders' = OpenOrders /\ Calm' = Calm
      /\ \A w : Outstanding(w)' = Outstanding(w)
      /\ \A p : Open(p)' = Open(p)
  BY NothingBooked
<1>2. \A p \in Orders : tx'[p].op = tx[p].op /\ tx'[p].stale = tx[p].stale
  BY DEF NextLine, IInv, TypeOK, Tx
<1>3. /\ holder'[v] = o /\ draft'[v] = level
      /\ \A w \in Variants : w # v => holder'[w] = holder[w] /\ draft'[w] = draft[w]
  BY DEF Write, IInv, TypeOK
<1>4. \A p \in Orders : \A w : /\ (Hold(p, w))' = Hold(p, w)
                              /\ (Breaking(p))' = Breaking(p)
  BY <1>1, <1>2 DEF Hold, Breaking
<1>5. LifeOK' /\ StaleOK'
  BY <1>2 DEF HeldInv, LifeOK, StaleOK
<1>6. HoldOK'
  <2> SUFFICES ASSUME Calm, NEW w \in Variants, NEW p \in Orders,
                      holder'[w] = p, ~Breaking(p), <<w, "reserved">> \notin raced'
               PROVE  draft'[w].reserved = row[w].reserved + Hold(p, w)
    BY <1>1, <1>4 DEF HoldOK, Unraced
  <2>1. CASE w = v
    BY <2>1, <1>3
  <2>2. CASE w # v
    BY <2>2, <1>3 DEF HeldInv, HoldOK, Unraced
  <2> QED BY <2>1, <2>2
<1>7. PromisedOK'
  <2> SUFFICES ASSUME NEW p \in Orders, NEW w \in Variants, w \notin overdrawn',
                      holder'[w] = p, tx[p].op = "reserve"
               PROVE  row[w].reserved + Quantity(p, w) <= row[w].onHand
    BY <1>2 DEF PromisedOK
  <2>1. CASE w = v
    BY <2>1, <1>3
  <2>2. CASE w # v
    BY <2>2, <1>3 DEF HeldInv, PromisedOK
  <2> QED BY <2>1, <2>2
<1>8. ReservedIsOutstanding'
  BY <1>1 DEF HeldInv, ReservedIsOutstanding, Calm
<1>9. NoOversell'
  BY <1>1 DEF HeldInv, NoOversell, Calm
<1> QED BY <1>1, <1>5, <1>6, <1>7, <1>8, <1>9 DEF HeldInv

(* The four statements: an increment, and numbers computed from a read that  *)
(* is still true or a race.                                                  *)
LEMMA LineWritesHeld ==
    ASSUME IInv, HeldInv, NEW o \in Orders,
           ReserveLine(o) \/ CommitLine(o) \/ ReleaseLine(o) \/ ReturnLine(o)
    PROVE  HeldInv'
<1> DEFINE v == Variant(o)
<1>1. More(o) /\ tx[o].op \in Booked
  BY DEF ReserveLine, CommitLine, ReleaseLine, ReturnLine, Booked
<1>2. v \in Variants /\ Units(o) \in Nat \ {0} /\ Quantity(o, v) = Units(o)
  BY <1>1, NextLineTypes, QuantityOfLine DEF IInv, Variant, Units
<1>3. CanLock(o, v)
  BY DEF ReserveLine, CommitLine, ReleaseLine, ReturnLine, Write
<1>4. holder[v] = None /\ draft[v] = row[v]
  BY <1>1, <1>3, NextIsFree DEF IInv
<1>5. draft[v] \in Level /\ row[v].onHand \in Int /\ row[v].reserved \in Nat
  BY <1>2 DEF IInv, TypeOK, Level
<1>6. tx[o].read \in Int
  <2>1. tx[o] \in Tx
    BY DEF IInv, TypeOK
  <2> QED BY <2>1 DEF Tx, Unread
<1>7. NonNegative(tx[o].read - Units(o)) \in Nat
  BY <1>2, <1>6 DEF NonNegative
<1>8. Overtakes(o, v) = IF row[v].reserved # tx[o].read
                        THEN raced \cup {<<v, "reserved">>} ELSE raced
  BY <1>4 DEF Overtakes
<1>9. ASSUME Calm, tx[o].op \in {"commit", "release"}, ~Breaking(o),
             <<v, "reserved">> \notin Overtakes(o, v)
      PROVE  NonNegative(tx[o].read - Units(o)) = row[v].reserved + Hold(o, v)
  <2>1. row[v].reserved = tx[o].read /\ Unraced(v)
    BY <1>8, <1>9 DEF Unraced
  <2>2. Open(o)
    BY <1>9 DEF Breaking
  <2>3. Units(o) <= row[v].reserved
    BY <1>2, <1>9, <2>1, <2>2, HoldsItsOwn
  <2>4. Hold(o, v) = 0 - Units(o)
    BY <1>2, <1>9 DEF Hold
  <2> QED BY <1>2, <1>5, <2>1, <2>3, <2>4 DEF NonNegative
<1>10. CASE ReserveLine(o)
  <2> DEFINE level == [draft[v] EXCEPT !.reserved = @ + Units(o)]
  <2>1. level \in Level /\ level.reserved = row[v].reserved + Units(o)
    BY <1>2, <1>4, <1>5 DEF Level
  <2>2. Hold(o, v) = Units(o)
    BY <1>2, <1>10 DEF Hold, ReserveLine
  <2>3. overdrawn' = IF v \in tx[o].stale /\ Units(o) > Available(draft[v])
                     THEN overdrawn \cup {v} ELSE overdrawn
    BY <1>10 DEF ReserveLine
  <2>4. v \notin overdrawn' => row[v].reserved + Units(o) <= row[v].onHand
    <3> SUFFICES ASSUME v \notin overdrawn' PROVE row[v].reserved + Units(o) <= row[v].onHand
      OBVIOUS
    <3>1. CASE v \notin tx[o].stale
      <4>1. Units(o) <= Available(row[v])
        BY <1>2, <1>10, <3>1 DEF HeldInv, StaleOK, ReserveLine
      <4> QED BY <4>1, <1>2, <1>5 DEF Available, NonNegative
    <3>2. CASE v \in tx[o].stale
      <4>1. ~(Units(o) > Available(row[v]))
        BY <3>2, <2>3, <1>4
      <4> QED BY <4>1, <1>2, <1>5 DEF Available, NonNegative
    <3> QED BY <3>1, <3>2
  <2>5. Write(o, v, level) /\ NextLine(o) /\ UNCHANGED <<row, booked, raced>>
    BY <1>10 DEF ReserveLine
  <2>6. overdrawn \subseteq overdrawn'
    BY <2>3
  <2> HIDE DEF level, v
  <2> QED BY <1>2, <1>4, <2>1, <2>2, <2>4, <2>5, <2>6, WritesHeld
<1>11. CASE CommitLine(o)
  <2> DEFINE level == [onHand |-> draft[v].onHand - Units(o),
                       reserved |-> NonNegative(tx[o].read - Units(o))]
  <2>1. level \in Level /\ level.reserved = NonNegative(tx[o].read - Units(o))
    BY <1>2, <1>5, <1>7 DEF Level
  <2>2. /\ Write(o, v, level) /\ NextLine(o) /\ UNCHANGED <<row, booked, overdrawn>>
        /\ raced' = Overtakes(o, v) /\ tx[o].op = "commit"
    BY <1>11 DEF CommitLine
  <2>3. raced \subseteq raced'
    BY <1>8, <2>2
  <2> HIDE DEF level, v
  <2> QED BY <1>2, <1>4, <1>9, <2>1, <2>2, <2>3, WritesHeld
<1>12. CASE ReleaseLine(o)
  <2> DEFINE level == [draft[v] EXCEPT !.reserved = NonNegative(tx[o].read - Units(o))]
  <2>1. level \in Level /\ level.reserved = NonNegative(tx[o].read - Units(o))
    BY <1>2, <1>5, <1>7 DEF Level
  <2>2. /\ Write(o, v, level) /\ NextLine(o) /\ UNCHANGED <<row, booked, overdrawn>>
        /\ raced' = Overtakes(o, v) /\ tx[o].op = "release"
    BY <1>12 DEF ReleaseLine
  <2>3. raced \subseteq raced'
    BY <1>8, <2>2
  <2> HIDE DEF level, v
  <2> QED BY <1>2, <1>4, <1>9, <2>1, <2>2, <2>3, WritesHeld
<1>13. CASE ReturnLine(o)
  <2> DEFINE level == [draft[v] EXCEPT !.onHand = @ + Units(o)]
  <2>1. level \in Level /\ level.reserved = row[v].reserved + Hold(o, v)
    BY <1>2, <1>4, <1>5, <1>13 DEF Level, Hold, ReturnLine
  <2>2. /\ Write(o, v, level) /\ NextLine(o) /\ UNCHANGED <<row, booked, raced, overdrawn>>
        /\ tx[o].op = "return"
    BY <1>13 DEF ReturnLine
  <2> HIDE DEF level, v
  <2> QED BY <1>2, <1>4, <2>1, <2>2, WritesHeld
<1> QED BY <1>10, <1>11, <1>12, <1>13

-----------------------------------------------------------------------------
(* The end of a transaction, and adjustments, once more *)

(* What a commit adds to an order's bookings. *)
LEMMA BooksOne ==
    ASSUME IInv, HeldInv, NEW o \in Orders, CommitTx(o)
    PROVE  /\ \A p \in Orders : p # o => booked'[p] = booked[p]
           /\ \A b \in Booked :
                 booked'[o][b] = IF b = tx[o].op THEN booked[o][b] + 1 ELSE booked[o][b]
           /\ LifeOK'
           /\ \A p \in Orders : p # o => Open(p)' = Open(p)
           /\ Calm' => Calm /\ ~Breaking(o)
<1>1. /\ tx[o].op \in Booked
      /\ booked' = [booked EXCEPT ![o][tx[o].op] = @ + 1]
      /\ booked \in [Orders -> [Booked -> Nat]]
      /\ tx' = TxAfter(o, {v \in Variants : row'[v] # row[v]})
  BY DEF CommitTx, IInv, TypeOK
<1>2. /\ \A p \in Orders : p # o => booked'[p] = booked[p]
      /\ \A b \in Booked :
            booked'[o][b] = IF b = tx[o].op THEN booked[o][b] + 1 ELSE booked[o][b]
  BY <1>1
<1>3. \A b \in Booked : booked[o][b] \in Nat
  BY <1>1
<1>4. tx'[o].op = "none" /\ \A p \in Orders : p # o => tx'[p].op = tx[p].op
  <2> DEFINE C == {v \in Variants : row'[v] # row[v]}
  <2>1. C \in SUBSET Variants /\ tx' = TxAfter(o, C) /\ TypeOK
    BY <1>1 DEF IInv
  <2> HIDE DEF C
  <2>2. tx'[o] = NoTx /\ \A p \in Orders : p # o => tx'[p].op = tx[p].op
    BY <2>1, StaleOnly
  <2>3. NoTx.op = "none"
    BY DEF NoTx
  <2> QED BY <2>2, <2>3
<1>5. LifeOK'
  <2>1. ASSUME NEW p \in Orders, p # o
        PROVE  booked'[p] = booked[p] /\ tx'[p].op = tx[p].op
    BY <2>1, <1>2, <1>4
  <2>2. /\ booked'[o]["reserve"] \in {0, 1}
        /\ booked'[o]["reserve"] = 0 => booked'[o]["commit"] = 0 /\ booked'[o]["release"] = 0
    BY <1>1, <1>2, <1>3 DEF HeldInv, LifeOK, Booked
  <2> QED BY <2>1, <2>2, <1>4 DEF HeldInv, LifeOK
<1>6. \A p \in Orders : p # o => Open(p)' = Open(p)
  BY <1>2 DEF Open
<1>7. ASSUME Calm' PROVE Calm /\ ~Breaking(o)
  <2>1. \A p \in Orders : Regular(p)'
    BY <1>7 DEF Calm
  <2>2. \A p \in Orders : p # o => Regular(p)
    BY <1>2, <2>1 DEF Regular
  <2>3. booked'[o]["commit"] + booked'[o]["release"] <= 1
    BY <2>1 DEF Regular
  <2>4. Regular(o) /\ ~Breaking(o)
    BY <1>2, <1>3, <2>3 DEF Regular, Breaking, Open, HeldInv, LifeOK, Booked
  <2> QED BY <2>2, <2>4 DEF Calm
<1> QED BY <1>2, <1>5, <1>6, <1>7

(* ... and to what the open orders hold. *)
LEMMA BooksUnits ==
    ASSUME IInv, HeldInv, NEW o \in Orders, CommitTx(o), Calm'
    PROVE  /\ IsFiniteSet(OpenOrders')
           /\ \A v \in Variants : Outstanding(v)' = Outstanding(v) + Hold(o, v)
<1>1. tx[o].op \in Booked /\ booked[o] \in [Booked -> Nat]
  BY DEF CommitTx, IInv, TypeOK
<1>2. /\ \A b \in Booked :
            booked'[o][b] = IF b = tx[o].op THEN booked[o][b] + 1 ELSE booked[o][b]
      /\ \A p \in Orders : p # o => Open(p)' = Open(p)
      /\ ~Breaking(o)
  BY BooksOne
<1>3. /\ tx[o].op = "reserve" => ~Open(o) /\ Open(o)'
      /\ tx[o].op \in {"commit", "release"} => Open(o) /\ ~Open(o)'
      /\ tx[o].op = "return" => Open(o)' = Open(o)
  BY <1>1, <1>2 DEF Open, Breaking, HeldInv, LifeOK, Booked
<1>4. /\ tx[o].op = "reserve" => o \notin OpenOrders /\ OpenOrders' = OpenOrders \cup {o}
      /\ tx[o].op \in {"commit", "release"} => o \in OpenOrders /\ OpenOrders' = OpenOrders \ {o}
      /\ tx[o].op = "return" => OpenOrders' = OpenOrders
  BY <1>2, <1>3 DEF OpenOrders
<1>5. IsFiniteSet(OpenOrders) /\ OpenOrders \subseteq Orders
  BY DEF HeldInv, OpenOrders
<1>6. IsFiniteSet(OpenOrders')
  BY <1>1, <1>4, <1>5, FS_AddElement, FS_RemoveElement DEF Booked
<1>7. ASSUME NEW v \in Variants
      PROVE  SumFunctionOnSet(Held(v), OpenOrders')
                = SumFunctionOnSet(Held(v), OpenOrders) + Hold(o, v)
  <2>1. \A p \in Orders : Held(v)[p] = Quantity(p, v) /\ Held(v)[p] \in Int
    BY QuantityType DEF Held
  <2>2. SumFunctionOnSet(Held(v), OpenOrders) \in Int
    BY <1>5, <2>1, SumIsInt
  <2>3. CASE tx[o].op = "reserve"
    <3>1. SumFunctionOnSet(Held(v), OpenOrders') = SumFunctionOnSet(Held(v), OpenOrders) + Held(v)[o]
      BY <1>4, <1>5, <2>1, <2>3, SumAdd
    <3> QED BY <3>1, <2>1, <2>3 DEF Hold
  <2>4. CASE tx[o].op \in {"commit", "release"}
    <3>1. SumFunctionOnSet(Held(v), OpenOrders) = Held(v)[o] + SumFunctionOnSet(Held(v), OpenOrders')
      BY <1>4, <1>5, <2>1, <2>4, SumRemove
    <3>2. SumFunctionOnSet(Held(v), OpenOrders') \in Int
      BY <1>4, <1>5, <1>6, <2>1, <2>4, SumIsInt
    <3> QED BY <3>1, <3>2, <2>1, <2>2, <2>4 DEF Hold
  <2>5. CASE tx[o].op = "return"
    BY <1>4, <2>2, <2>5 DEF Hold
  <2> QED BY <1>1, <2>3, <2>4, <2>5 DEF Booked
<1> QED BY <1>6, <1>7, OutstandingIsSum

(* Rows that change become stale for everyone who has checked them. *)
LEMMA StaysChecked ==
    ASSUME TypeOK, StaleOK, NEW o, NEW C \in SUBSET Variants, tx' = TxAfter(o, C),
           \A v \in Variants \ C : row'[v] = row[v]
    PROVE  StaleOK'
<1> SUFFICES ASSUME NEW p \in Orders, NEW v \in Variants,
                    tx'[p].op \in {"checked", "reserve"}, v \notin tx'[p].stale
             PROVE  Quantity(p, v) <= Available(row'[v])
  BY DEF StaleOK
<1>1. tx[p] \in Tx
  BY DEF TypeOK
<1>2. p # o
  BY DEF TxAfter, NoTx
<1>3. tx'[p].op = tx[p].op
  BY <1>2, StaleOnly
<1>4. tx'[p] = [tx[p] EXCEPT !.stale = @ \cup C]
  BY <1>2, <1>3 DEF TxAfter
<1>5. tx'[p].stale = tx[p].stale \cup C
  BY <1>1, <1>4 DEF Tx
<1> QED BY <1>3, <1>5 DEF StaleOK

LEMMA CommitsHeld ==
    ASSUME IInv, HeldInv, NEW o \in Orders, CommitTx(o)
    PROVE  HeldInv'
<1> DEFINE C == {v \in Variants : row'[v] # row[v]}
<1>1. /\ tx[o].op \in Booked /\ ~More(o)
      /\ row' = [v \in Variants |-> Visible(o, v)]
      /\ holder' = Unlocked(o)
      /\ tx' = TxAfter(o, C)
      /\ UNCHANGED <<draft, raced, overdrawn>>
  BY DEF CommitTx
<1>2. C \in SUBSET Variants /\ \A v \in Variants \ C : row'[v] = row[v]
  OBVIOUS
<1> HIDE DEF C
<1>3. /\ \A p \in Orders : p # o => tx'[p].op = tx[p].op /\ tx'[p].line = tx[p].line
      /\ tx'[o] = NoTx
  BY <1>1, <1>2, StaleOnly DEF IInv
<1>4. \A w \in Variants, p \in Orders : holder'[w] = p <=> holder[w] = p /\ p # o
  BY <1>1, <1>3, GivesUp
<1>5. /\ \A p \in Orders : p # o => booked'[p] = booked[p] /\ Open(p)' = Open(p)
      /\ LifeOK' /\ (Calm' => Calm /\ ~Breaking(o))
  BY BooksOne
<1>6. StaleOK'
  BY <1>1, <1>2, StaysChecked DEF IInv, HeldInv
<1>7. IsFiniteSet(OpenOrders')
  <2>1. OpenOrders' \subseteq OpenOrders \cup {o}
    BY <1>5 DEF OpenOrders
  <2>2. IsFiniteSet(OpenOrders \cup {o})
    BY FS_AddElement DEF HeldInv
  <2> QED BY <2>1, <2>2, FS_Subset
<1>8. \A w \in Variants, p \in Orders : holder'[w] = p =>
         /\ holder[w] = p /\ p # o /\ row'[w] = row[w] /\ draft'[w] = draft[w]
         /\ tx'[p].op = tx[p].op /\ Open(p)' = Open(p)
  BY <1>1, <1>3, <1>4, <1>5 DEF Visible
<1>9. HoldOK'
  <2> SUFFICES ASSUME Calm', NEW w \in Variants, NEW p \in Orders,
                      holder'[w] = p, ~(Breaking(p))', Unraced(w)'
               PROVE  draft'[w].reserved = row'[w].reserved + (Hold(p, w))'
    BY DEF HoldOK
  <2>1. /\ holder[w] = p /\ row'[w] = row[w] /\ draft'[w] = draft[w]
        /\ tx'[p].op = tx[p].op /\ Open(p)' = Open(p)
    BY <1>8
  <2>2. (Hold(p, w))' = Hold(p, w) /\ ~Breaking(p) /\ Unraced(w)
    BY <1>1, <2>1 DEF Hold, Breaking, Unraced
  <2>3. draft[w].reserved = row[w].reserved + Hold(p, w)
    BY <1>5, <2>1, <2>2 DEF HeldInv, HoldOK
  <2> QED BY <2>1, <2>2, <2>3
<1>10. PromisedOK'
  <2> SUFFICES ASSUME NEW p \in Orders, NEW w \in Variants, w \notin overdrawn',
                      holder'[w] = p, tx'[p].op = "reserve"
               PROVE  row'[w].reserved + Quantity(p, w) <= row'[w].onHand
    BY DEF PromisedOK
  <2>1. holder[w] = p /\ row'[w] = row[w] /\ tx[p].op = "reserve"
    BY <1>8
  <2> QED BY <1>1, <2>1 DEF HeldInv, PromisedOK
<1>11. \A w \in Variants : /\ row[w].reserved \in Nat /\ row[w].onHand \in Int
                           /\ Quantity(o, w) \in Nat
  BY QuantityType DEF IInv, TypeOK, Level
<1>12. ASSUME Calm', NEW w \in Variants, Unraced(w)
       PROVE  row'[w].reserved = row[w].reserved + Hold(o, w)
  <2>1. CASE holder[w] = o
    <3>1. draft[w].reserved = row[w].reserved + Hold(o, w)
      BY <1>5, <1>12, <2>1 DEF HeldInv, HoldOK
    <3> QED BY <1>1, <2>1, <3>1 DEF Visible
  <2>2. CASE holder[w] # o
    <3>1. Quantity(o, w) = 0
      BY <1>1, <2>2, NothingElsewhere
    <3>2. Hold(o, w) = 0
      BY <3>1 DEF Hold
    <3> QED BY <1>1, <1>11, <2>2, <3>2 DEF Visible
  <2> QED BY <2>1, <2>2
<1>13. ReservedIsOutstanding'
  <2> SUFFICES ASSUME Calm', NEW w \in Variants, Unraced(w)
               PROVE  row'[w].reserved = Outstanding(w)'
    BY <1>1 DEF ReservedIsOutstanding, Calm, Unraced
  <2>1. row[w].reserved = Outstanding(w)
    BY <1>5 DEF HeldInv, ReservedIsOutstanding, Calm, Unraced
  <2>2. Outstanding(w)' = Outstanding(w) + Hold(o, w)
    BY BooksUnits
  <2> QED BY <1>12, <2>1, <2>2
<1>14. NoOversell'
  <2> SUFFICES ASSUME Calm', NEW w \in Variants \ overdrawn,
                      <<w, "onHand">> \notin raced, Unraced(w)
               PROVE  row'[w].reserved <= row'[w].onHand
    BY <1>1 DEF NoOversell, Calm, Unraced
  <2>1. row[w].reserved <= row[w].onHand
    BY <1>5 DEF HeldInv, NoOversell, Calm, Unraced
  <2>2. CASE holder[w] # o
    BY <1>1, <2>1, <2>2 DEF Visible
  <2>3. CASE holder[w] = o
    <3>1. row'[w].reserved = row[w].reserved + Hold(o, w)
      BY <1>12
    <3>2. draft[w].onHand = row[w].onHand + Movement(o, w)
      BY <2>3, StockAssumption DEF StockAssumption, IInv, DraftOK
    <3>3. row'[w].onHand = row[w].onHand + Movement(o, w)
      BY <1>1, <2>3, <3>2 DEF Visible
    <3>4. CASE tx[o].op = "reserve"
      <4>1. row[w].reserved + Quantity(o, w) <= row[w].onHand
        BY <2>3, <3>4 DEF HeldInv, PromisedOK
      <4> QED BY <1>11, <3>1, <3>3, <3>4, <4>1 DEF Hold, Movement
    <3>5. CASE tx[o].op = "commit"
      BY <1>11, <2>1, <3>1, <3>3, <3>5 DEF Hold, Movement
    <3>6. CASE tx[o].op = "release"
      BY <1>11, <2>1, <3>1, <3>3, <3>6 DEF Hold, Movement
    <3>7. CASE tx[o].op = "return"
      BY <1>11, <2>1, <3>1, <3>3, <3>7 DEF Hold, Movement
    <3> QED BY <1>1, <3>4, <3>5, <3>6, <3>7 DEF Booked
  <2> QED BY <2>2, <2>3
<1> QED BY <1>5, <1>6, <1>7, <1>9, <1>10, <1>13, <1>14 DEF HeldInv

LEMMA RollsBackHeld ==
    ASSUME IInv, HeldInv, NEW o \in Orders, Rollback(o)
    PROVE  HeldInv'
<1>1. /\ draft' = [v \in Variants |-> IF holder[v] = o THEN row[v] ELSE draft[v]]
      /\ holder' = Unlocked(o)
      /\ tx' = [tx EXCEPT ![o] = NoTx] /\ tx \in [Orders -> Tx]
      /\ UNCHANGED <<row, booked, raced, overdrawn>>
  BY DEF Rollback, IInv, TypeOK
<1>2. tx'[o] = NoTx /\ \A p \in Orders : p # o => tx'[p] = tx[p]
  BY <1>1
<1>3. /\ OpenOrders' = OpenOrders /\ Calm' = Calm
      /\ \A v : Outstanding(v)' = Outstanding(v)
      /\ \A p : Open(p)' = Open(p)
  BY <1>1, NothingBooked
<1>4. \A w \in Variants, p \in Orders : holder'[w] = p <=> holder[w] = p /\ p # o
  BY <1>1, <1>2, GivesUp
<1>5. tx'[o].op = "none"
  BY <1>2 DEF NoTx
<1>6. LifeOK' /\ StaleOK'
  BY <1>1, <1>2, <1>5 DEF HeldInv, LifeOK, StaleOK
<1>7. HoldOK'
  <2> SUFFICES ASSUME Calm, NEW w \in Variants, NEW p \in Orders,
                      holder'[w] = p, ~(Breaking(p))', Unraced(w)'
               PROVE  draft'[w].reserved = row'[w].reserved + (Hold(p, w))'
    BY <1>3 DEF HoldOK
  <2>1. holder[w] = p /\ tx'[p] = tx[p] /\ draft'[w] = draft[w]
    BY <1>1, <1>2, <1>4
  <2>2. (Hold(p, w))' = Hold(p, w) /\ ~Breaking(p) /\ Unraced(w)
    BY <1>1, <1>3, <2>1 DEF Hold, Breaking, Unraced
  <2>3. draft[w].reserved = row[w].reserved + Hold(p, w)
    BY <2>1, <2>2 DEF HeldInv, HoldOK
  <2> QED BY <1>1, <2>1, <2>2, <2>3
<1>8. PromisedOK'
  BY <1>1, <1>2, <1>4 DEF HeldInv, PromisedOK
<1>9. ReservedIsOutstanding'
  BY <1>1, <1>3 DEF HeldInv, ReservedIsOutstanding, Calm
<1>10. NoOversell'
  BY <1>1, <1>3 DEF HeldInv, NoOversell, Calm
<1> QED BY <1>3, <1>6, <1>7, <1>8, <1>9, <1>10 DEF HeldInv

(* An adjustment below what is reserved is overdrawn; any other leaves room. *)
LEMMA AdjustsHeld ==
    ASSUME IInv, HeldInv, NEW a \in Admins, AdjustWrite(a)
    PROVE  HeldInv'
<1> DEFINE v == adjust[a].variant
           next == adjust[a].next
<1>1. /\ v # None /\ holder[v] = None
      /\ row' = [row EXCEPT ![v].onHand = next]
      /\ draft' = [draft EXCEPT ![v].onHand = next]
      /\ raced \subseteq raced' /\ overdrawn \subseteq overdrawn'
      /\ next < row[v].reserved => v \in overdrawn'
      /\ tx' = TxAfter(None, {v})
      /\ UNCHANGED <<holder, booked>>
  BY DEF AdjustWrite
<1>2. adjust[a] \in Adjusting
  BY DEF IInv, TypeOK
<1>3. v \in Variants /\ next \in Int
  BY <1>1, <1>2 DEF Adjusting
<1>4. None \notin Orders
  BY StockAssumption DEF StockAssumption
<1> HIDE DEF v, next
<1>5. {v} \in SUBSET Variants
  BY <1>3
<1>6. \A p \in Orders : tx'[p].op = tx[p].op
  BY <1>1, <1>4, <1>5, StaleOnly DEF IInv
<1>7. /\ row'[v] = [row[v] EXCEPT !.onHand = next] /\ row[v] \in Level
      /\ \A w \in Variants : w # v => row'[w] = row[w] /\ draft'[w] = draft[w]
  BY <1>1, <1>3 DEF IInv, TypeOK
<1>8. row'[v].reserved = row[v].reserved /\ row'[v].onHand = next /\ row[v].reserved \in Nat
  BY <1>7 DEF Level
<1>9. /\ OpenOrders' = OpenOrders /\ Calm' = Calm
      /\ \A w : Outstanding(w)' = Outstanding(w)
      /\ \A p : Open(p)' = Open(p)
  BY <1>1, NothingBooked
<1>10. \A w \in Variants, p \in Orders : holder'[w] = p =>
          holder[w] = p /\ row'[w] = row[w] /\ draft'[w] = draft[w]
  BY <1>1, <1>4, <1>7
<1>11. StaleOK'
  BY <1>1, <1>5, <1>7, StaysChecked DEF IInv, HeldInv
<1>12. LifeOK'
  BY <1>1, <1>6 DEF HeldInv, LifeOK
<1>13. HoldOK'
  <2> SUFFICES ASSUME Calm, NEW w \in Variants, NEW p \in Orders,
                      holder'[w] = p, ~(Breaking(p))', Unraced(w)'
               PROVE  draft'[w].reserved = row'[w].reserved + (Hold(p, w))'
    BY <1>9 DEF HoldOK
  <2>1. holder[w] = p /\ row'[w] = row[w] /\ draft'[w] = draft[w]
    BY <1>10
  <2>2. (Hold(p, w))' = Hold(p, w) /\ ~Breaking(p) /\ Unraced(w)
    BY <1>1, <1>6, <1>9 DEF Hold, Breaking, Unraced
  <2>3. draft[w].reserved = row[w].reserved + Hold(p, w)
    BY <2>1, <2>2 DEF HeldInv, HoldOK
  <2> QED BY <2>1, <2>2, <2>3
<1>14. PromisedOK'
  BY <1>1, <1>6, <1>10 DEF HeldInv, PromisedOK
<1>15. ReservedIsOutstanding'
  <2> SUFFICES ASSUME Calm, NEW w \in Variants, <<w, "reserved">> \notin raced
               PROVE  row'[w].reserved = Outstanding(w)
    BY <1>1, <1>9 DEF ReservedIsOutstanding, Calm
  <2>1. row[w].reserved = Outstanding(w)
    BY DEF HeldInv, ReservedIsOutstanding, Calm
  <2> QED BY <1>7, <1>8, <2>1
<1>16. NoOversell'
  <2> SUFFICES ASSUME Calm, NEW w \in Variants, w \notin overdrawn',
                      <<w, "onHand">> \notin raced, <<w, "reserved">> \notin raced
               PROVE  row'[w].reserved <= row'[w].onHand
    BY <1>1, <1>9 DEF NoOversell, Calm
  <2>1. CASE w = v
    BY <1>1, <1>3, <1>8, <2>1
  <2>2. CASE w # v
    BY <1>1, <1>7, <2>2 DEF HeldInv, NoOversell, Calm
  <2> QED BY <2>1, <2>2
<1> QED BY <1>9, <1>11, <1>12, <1>13, <1>14, <1>15, <1>16 DEF HeldInv

-----------------------------------------------------------------------------
LEMMA StepsHeld == IInv /\ HeldInv /\ [Next]_vars => HeldInv'
<1> SUFFICES ASSUME IInv, HeldInv, [Next]_vars PROVE HeldInv'
  OBVIOUS
<1>1. ASSUME NEW o \in Orders, Request(o) PROVE HeldInv'
  BY <1>1, OpensHeld
<1>2. ASSUME NEW o \in Orders, Continue(o) PROVE HeldInv'
  <2>1. CASE BeginReserve(o)
    BY <2>1, OpensHeld
  <2>2. CASE ReserveLine(o) \/ CommitLine(o) \/ ReleaseLine(o) \/ ReturnLine(o)
    BY <2>2, LineWritesHeld
  <2>3. CASE ReadLevel(o)
    BY <2>3, ReadsHeld
  <2>4. CASE CommitTx(o)
    BY <2>4, CommitsHeld
  <2>5. CASE DeadlockVictim(o)
    BY <2>5, RollsBackHeld DEF DeadlockVictim
  <2> QED BY <1>2, <2>1, <2>2, <2>3, <2>4, <2>5 DEF Continue
<1>3. ASSUME NEW o \in Orders, AbortTx(o) PROVE HeldInv'
  BY <1>3, RollsBackHeld DEF AbortTx
<1>4. ASSUME UNCHANGED <<row, draft, holder, tx, booked, raced, overdrawn>> PROVE HeldInv'
  <2>1. LifeOK' /\ StaleOK'
    BY <1>4 DEF HeldInv, LifeOK, StaleOK
  <2> QED BY <1>4, <2>1, LooksOnly
<1>5. ASSUME NEW a \in Admins, NEW v \in Variants, NEW d \in Deltas, AdjustRead(a, v, d)
      PROVE  HeldInv'
  BY <1>4, <1>5 DEF AdjustRead
<1>6. ASSUME NEW a \in Admins, AdjustWrite(a) PROVE HeldInv'
  BY <1>6, AdjustsHeld
<1>7. CASE UNCHANGED vars
  BY <1>4, <1>7 DEF vars
<1> QED BY <1>1, <1>2, <1>3, <1>5, <1>6, <1>7 DEF Next

LEMMA HeldAlways == Spec => [](IInv /\ HeldInv)
<1>1. Init => IInv /\ HeldInv
  BY Starts, StartsHeld
<1>2. (IInv /\ HeldInv) /\ [Next]_vars => (IInv /\ HeldInv)'
  BY Steps, StepsHeld
<1> QED BY <1>1, <1>2, PTL DEF Spec

(* What `reserved` of a variant says is what the open orders hold of it,     *)
(* however their transactions interleave, unless a commit or release was     *)
(* computed from an overtaken read, or an order was both sold and released.  *)
THEOREM ReservedIsHeld == Spec => []ReservedIsOutstanding
<1>1. IInv /\ HeldInv => ReservedIsOutstanding
  BY DEF HeldInv
<1> QED BY <1>1, HeldAlways, PTL

(* No variant is promised beyond what is on hand, except one whose stock     *)
(* changed between placeOrder's check and its transaction, or that was       *)
(* adjusted below its reservations, or raced.                                *)
THEOREM NothingOversold == Spec => []NoOversell
<1>1. IInv /\ HeldInv => NoOversell
  BY DEF HeldInv
<1> QED BY <1>1, HeldAlways, PTL
=============================================================================
