SPECIFICATION BuyingSpec
CONSTANTS
    b1 = b1
    b2 = b2
    v1 = v1
    v2 = v2
    c1 = c1
    c2 = c2
    y1 = y1
    y2 = y2
    z1 = z1
    z2 = z2
    l1 = l1
    l2 = l2
    Browsers = {b1, b2}
    Variants = {v1, v2}
    Quantities = {1}
    InStock <- TwoInStock
    Calls = {c1, c2}
    MaxCarts = 2
    MaxSends = 5
    CartSends = 4
    PlainSends = 3
    MaxFailures = 1
    MaxOrders = 4
    UsageLimit = 2
    UserLimit = 1
    MaxPlacements = 4
    MaxJump = 1
    MaxAttempts = 2
    MaxStamps = 1
    Goods = {y1, y2}
    BagStock = 2
    MaxBags = 2
    MaxBagClicks = 3
    MaxBagFailures = 1
    MaxConversions = 1
    Products <- ProductsSold
    MostUnits = 3
    MaxAdds = 3
    MaxSelections = 3
    Pins = {z1, z2}
    Price = 3
    Discount = 1
    MaxTyped = 4
    MaxVerified = 1
    MaxPlaced = 2
    MaxPageFailures = 1
    Lookups = {l1, l2}
    MEM_TTL = 2
    CACHE_TTL = 2
    LOOKUP_TIMEOUT = 1
    MaxClock = 4
    MaxLookups = 3
    MaxEditsByHand = 2
    MaxDbErrors = 1
    Baskets <- BasketsSold
    TaxParts = 123900
    CouponRows <- CouponsGiven
    Minimums = {0, 2000}
    SettingsTtl = 2
    MaxQueryTime = 1
    Shoppers = {1, 2}
    MaxPricingTime = 5
    MaxPriced = 3
    MaxSettingEdits = 2
SYMMETRY BuyingSymmetry
INVARIANTS
    BuyingTypeOK
    OneOpenCart
    WithinStock
    AskedIsOpenOrBought
    CouponWithinLimits
    OrdersAddUp
    ClicksAreMeant
    PageIsTrue
    PinAnswerHolds
CHECK_DEADLOCK FALSE
