SPECIFICATION ShopSpec
CONSTANTS
    p1 = p1
    e1 = e1
    d1 = d1
    d2 = d2
    n1 = n1
    n2 = n2
    g1 = g1
    g2 = g2
    t1 = t1
    t2 = t2
    r1 = r1
    r2 = r2
    w1 = w1
    w2 = w2
    x1 = x1
    i1 = i1
    i2 = i2
    sa = sa
    sb = sb
    sc = sc
    m1 = m1
    m2 = m2
    y1 = y1
    y2 = y2
    u1 = u1
    b1 = b1
    NoWindow = NoWindow
    Phones = {p1}
    Emails = {e1}
    AuthCalls = {d1, d2}
    Cooldown = 1
    Ttl = 2
    MaxResends = 1
    MaxAttempts = 2
    HourlyLimit = 2
    MaxTime = 3
    CallsAndTicks = 5
    MaxChallenges = 2
    MaxCodes = 3
    MaxUsers = 2
    MaxTokens = 3
    MaxAuthSends = 5
    MaxAuthFailures = 1
    Numbers = {n1, n2}
    WidgetLength = 4
    MaxOtpSends = 2
    MaxOtpTries = 2
    MaxOtpFailures = 2
    Products = {g1, g2}
    Tabs = {t1, t2}
    Requests = {r1, r2}
    MaxGestures = 4
    MaxLosses = 1
    Shelved = 3
    Kinds <- SomeKinds
    Sizes = {w1, w2}
    Subs = {x1}
    PriceSet = {1, 2, 3, 4}
    Stops = {2, 3}
    PageSize = 1
    MaxMoves = 3
    MaxNoFacets = 1
    Editors = {i1, i2}
    Slugs = {sa, sb, sc}
    MaxCategories = 3
    MaxEdits = 4
    MaxDepth = 3
    Managers = {m1, m2}
    Places = {0, 2}
    MaxSlides = 4
    MaxHeroEdits = 6
    Windows = {y1, y2}
    Words = {u1}
    Goods = {b1}
    MaxEntries = 3
    MaxClicks = 3
    MaxGivings = 1
    MaxMissed = 1
SYMMETRY ShopSymmetry
INVARIANTS
    ShopTypeOK
    OneTimeCodes
    SessionsAreSound
    SignInIsTrue
    WishlistAgrees
    ListingIsUsable
    ShelvesAreSound
    PlacesAreCompact
CHECK_DEADLOCK FALSE
