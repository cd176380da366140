SPECIFICATION Spec
CONSTANTS
    Frames <- QuietFrames
    Descendants = {d1}
    PipeHolders = {}
    QueueCap = 2
    StdinCap = 5
    MaxFrames = 3
    MaxBatch = 2
    HostMaxRecords = 3
    RequestedMax = 2
    NoLimit = NoLimit
    MaxRecordBytes = 1
    MaxLogBytes = 1
    HasToken = TRUE
INVARIANT
    NoDescendantOutlivesRun
