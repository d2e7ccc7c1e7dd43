SPECIFICATION Spec
CONSTANTS
    o1 = o1
    o2 = o2
    o3 = o3
    c1 = c1
    c2 = c2
    Poller = Poller
    Orders = {o1}
    Slots = {c1, c2}
    MaxParcels = 1
    PollBatch = 1
    Labels <- TwoLabels
    Follow <- Straight
    Unreachable = {}
    AdminTargets = {}
    MaxCalls = 4
    MaxFailures = 0
PROPERTY
    ForwardOnly
CHECK_DEADLOCK FALSE
