SPECIFICATION Spec
CONSTANTS
    b1 = b1
    b2 = b2
    v1 = v1
    v2 = v2
    c1 = c1
    c2 = c2
    Browsers = {b1, b2}
    Variants = {v1, v2}
    Quantities = {1}
    InStock <- TwoInStock
    Calls = {c1}
    MaxCarts = 3
    MaxSends = 4
    MaxFailures = 0
INVARIANT
    GuestCartIsKept
CHECK_DEADLOCK FALSE
