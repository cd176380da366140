SPECIFICATION Spec
CONSTANTS
    Frames <- AllFrames
    Descendants = {d1}
    PipeHolders = {d1}
    QueueCap = 1
    StdinCap = 1
    MaxFrames = 3
    MaxBatch = 2
    HostMaxRecords = 3
    RequestedMax = NoLimit
    NoLimit = NoLimit
    MaxRecordBytes = 2
    MaxLogBytes = 3
    HasToken = TRUE
INVARIANTS
    HostInv
    SuccessIsComplete
    NothingLeaksFromTheHost
    SpoolCountsEveryRecord
PROPERTIES
    AllOrNothing
