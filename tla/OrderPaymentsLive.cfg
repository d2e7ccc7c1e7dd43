SPECIFICATION FairSpec
CONSTANTS
    o1 = o1
    o2 = o2
    r1 = r1
    r2 = r2
    r3 = r3
    NoOrder = NoOrder
    Orders <- OneOrder
    WithCoupon <- OneOrder
    Customers <- OneOrder
    MaxPayments = 2
    Requests <- TwoRequests
    AdminTargets = {"PENDING"}
    MaxCancels = 1
    MaxFailures = 1
PROPERTIES
    ImplementsConfirmation
    CapturedIsConfirmed
CHECK_DEADLOCK FALSE
