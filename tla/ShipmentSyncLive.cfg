SPECIFICATION UnderwaySpec
CONSTANTS
    o1 = o1
    o2 = o2
    o3 = o3
    c1 = c1
    c2 = c2
    Poller = Poller
    Orders = {o1, o2, o3}
    Slots = {c1}
    MaxParcels = 3
    PollBatch = 2
    Labels <- AttemptLabels
    Follow <- SecondAttempt
    Unreachable = {1}
    AdminTargets = {"CANCELLED"}
    MaxCalls = 1
    MaxFailures = 1
PROPERTY
    DeliveryIsSeen
CHECK_DEADLOCK FALSE
