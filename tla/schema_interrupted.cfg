SPECIFICATION Spec
CONSTANTS
    Clients = {c1}
    TableCount = 3
    MaxOps = 2
INVARIANT OwnFileIsNeverUnknown
CHECK_DEADLOCK FALSE
