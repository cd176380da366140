SPECIFICATION MCSpec
CONSTANTS
    Clients = {c1, c2}
    TableCount = 3
    MaxOps = 3
    p = p
    q = q
    HOME = HOME
    bad = bad
    PluginIds = {p, q}
    Blank = Blank
    NoName = NoName
    EnvNames = {HOME}
    BadEnvNames = {bad}
SYMMETRY ClientSymmetry
INVARIANTS
    SchemaInv
    ReadyIsAccepted
    CommandInv
    InspectionAgreesWithDiscovery
PROPERTIES
    MarkerComesLast
    ForeignUntouched
CHECK_DEADLOCK FALSE
