SPECIFICATION BackSpec
CONSTANTS
    o1 = o1
    o2 = o2
    o3 = o3
    c1 = c1
    c2 = c2
    Poller = Poller
    q1 = q1
    s1 = s1
    s2 = s2
    a1 = a1
    a2 = a2
    k1 = k1
    k2 = k2
    f1 = f1
    f2 = f2
    h1 = h1
    h2 = h2
    j1 = j1
    w1 = w1
    w2 = w2
    r1 = r1
    r2 = r2
    t1 = t1
    t2 = t2
    z1 = z1
    z2 = z2
    x1 = x1
    Nobody = Nobody
    NoTab = NoTab
    Orders = {o1}
    Slots = {c1, c2}
    MaxParcels = 2
    PollBatch = 1
    Labels <- AttemptLabels
    Follow <- SecondAttempt
    Unreachable = {2}
    AdminTargets = {}
    MaxCalls = 3
    MaxFailures = 0
    Processes = {q1}
    ApiSends = {s1, s2}
    MAX_RETRIES = 1
    MaxLogins = 4
    MaxRequests = 3
    MaxFaults = 2
    MaxRevoked = 2
    Admins = {a1, a2}
    Skus = {k1, k2}
    Prices = {1, 2}
    FormStatus = {"ACTIVE"}
    Statuses = {"DRAFT"}
    MaxWork = 2
    MaxVariants = 4
    MaxTasks = 2
    Forms = {f1, f2}
    Shelf = {h1, h2}
    MaxUploads = 2
    MaxFormSteps = 6
    MaxMediaFaults = 1
    SeedProducts = {j1}
    MaxRuns = 2
    MaxRetries = 1
    MaxStops = 1
    MaxEditsMade = 1
    MaxShopped = 3
    Catalogues <- ProductsOnFile
    CategorySlugs <- TwoCategories
    MaxCsvSteps = 4
    Tabs = {t1, t2}
    People = {w1, w2}
    Staff = {w1}
    Super = {}
    Permissions = {r1, r2}
    Granted <- KeysGiven
    Endpoints <- EndpointsServed
    MaxSent = 3
    MaxAccountEdits = 2
    MaxSilences = 1
    MaxReloads = 2
    DeskStatuses = {"PROCESSING", "CANCELLED"}
    MaxPresses = 4
    MaxUpsets = 1
    Sizes = {z1, z2}
    Colours = {x1}
    SkuBases = {"slug", "name"}
    TypedSkus = {"typed"}
    Amounts = {1, 2, 3}
    Mrp = 2
    Counts = {0}
    MaxFormChanges = 2
SYMMETRY BackSymmetry
INVARIANTS
    BackTypeOK
    OneActiveShipment
    StatusIsReported
    CatalogueIsWhole
    IndexFollowsProduct
    RequestsAreServed
    StorageFollowsProducts
    SeedIsRepeatable
    StaffSideIsTrue
CHECK_DEADLOCK FALSE
