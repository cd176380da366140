SPECIFICATION FairSpec
CONSTANTS
    u1 = u1
    u2 = u2
    u3 = u3
    u4 = u4
    h1 = h1
    h2 = h2
    h3 = h3
    public = public
    local = local
    private = private
    Urls = {u1, u2, u3, u4}
    Hosts = {h1, h2, h3}
    HostOf <- MCHostOf
    GoodUrls = {u1, u2, u3}
    AllowedHosts = {h1, h2}
    Addresses = {public, local, private}
    Forbidden = {local, private}
    Loopback = {local}
    MaxBudget = 2
    ConnectTimeout = 1
    MaxRedirects = 2
    MaxBody = 1
    MaxClock = 9
INVARIANTS
    FetchInv
    OnlyCheckedRequestsAreSent
    WaitsStayWithinBudget
PROPERTIES
    FetchEnds
CHECK_DEADLOCK FALSE
