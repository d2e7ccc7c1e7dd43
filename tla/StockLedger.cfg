SPECIFICATION FairSpec
CONSTANTS
    o1 = o1
    o2 = o2
    v1 = v1
    v2 = v2
    a1 = a1
    None = None
    Orders = {o1, o2}
    Variants = {v1, v2}
    Lines <- CrossingLines
    InitialOnHand <- OneOrThree
    Prepaid = {o1}
    Admins = {a1}
    Deltas <- MoreOrLess
    MaxAdjusts = 1
INVARIANTS
    TypeOK
    OnHandMatchesMovements
    ReservedIsOutstanding
    NoOversell
PROPERTY
    TransactionsEnd
CHECK_DEADLOCK FALSE
