SPECIFICATION Spec
CONSTANTS
    o1 = o1
    o2 = o2
    r1 = r1
    r2 = r2
    r3 = r3
    NoOrder = NoOrder
    Orders <- OneOrder
    WithCoupon <- OneOrder
    Customers <- OneOrder
    MaxPayments = 1
    Requests <- TwoRequests
    AdminTargets = {"CANCELLED"}
    MaxCancels = 1
    MaxFailures = 0
INVARIANT
    CancelReturnsSoldStock
CHECK_DEADLOCK FALSE
