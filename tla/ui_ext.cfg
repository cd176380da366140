SPECIFICATION ExtFairSpec
CONSTANTS
    p1 = p1
    f1 = f1
    f2 = f2
    e1 = e1
    e2 = e2
    e3 = e3
    v1 = v1
    v2 = v2
    w = w
    out = out
    current = current
    Pages = {p1}
    Iframes = {f1, f2}
    PageOf <- MCPageOf
    Ids = {a, b}
    MaxRequests = 3
    None = None
    Failure = Failure
    MaxConcurrent = 1
    MaxConnections = 2
    ArgLists <- MCArgLists
    Extensions = {e1, e2, e3}
    Listings <- MCListings
    ExtOf <- MCExtOf
    MaxExtensions = 2
    Places = {v1, v2, w, out}
    Links = {current}
    HomeOf <- MCHomeOf
    Outside = Outside
    Typed = {current, v1, w, out}
    Loads = {l1}
    Disks <- MCDisks
    Quotas <- MCQuotas
INVARIANTS
    ExtInv
    AnswersBelongToRequests
    AssetsAreNamed
PROPERTIES
    EveryReadSettles
CHECK_DEADLOCK FALSE
