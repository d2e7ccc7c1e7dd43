SPECIFICATION Spec
CONSTANTS
    o1 = o1
    o2 = o2
    r1 = r1
    r2 = r2
    r3 = r3
    NoOrder = NoOrder
    Orders <- OneOrder
    WithCoupon <- OneOrder
    Customers <- OneOrder
    MaxPayments = 2
    Requests <- ThreeRequests
    AdminTargets = {"CANCELLED"}
    MaxCancels = 1
    MaxFailures = 0
SYMMETRY RequestSymmetry
INVARIANTS
    TypeOK
    SideEffectsExactlyOnce
    CodStaysPending
    PaidIsBackedAndConfirmed
    HandedOverOnce
    ReturnsOnlySoldStock
CHECK_DEADLOCK FALSE
