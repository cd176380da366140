SPECIFICATION ServerFairSpec
CONSTANTS
    r1 = r1
    r2 = r2
    c1 = c1
    c2 = c2
    c3 = c3
    Runs <- TwoRuns
    NoRun = NoRun
    Conns = {c1, c2, c3}
    MaxConnections = 2
    Budget = 3
    SocketTimeout = 2
    Manage = TRUE
INVARIANTS
    RunInv
    AcceptedCancelNeverIngests
    ServerInv
PROPERTIES
    WorkerFreesRegistry
    SlotsComeBack
    StatusGoesForward
