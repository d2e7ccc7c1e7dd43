SPECIFICATION FairSpec
CONSTANTS
    o1 = o1
    o2 = o2
    o3 = o3
    c1 = c1
    c2 = c2
    Poller = Poller
    Orders = {o1, o2}
    Slots = {c1}
    MaxParcels = 2
    PollBatch = 1
    Labels <- TwoLabels
    Follow <- Straight
    Unreachable = {1}
    AdminTargets = {}
    MaxCalls = 2
    MaxFailures = 0
PROPERTY
    PollReachesAll
CHECK_DEADLOCK FALSE
