SPECIFICATION FairSpec
CONSTANTS
    Frames <- QuietFrames
    Descendants = {d1}
    PipeHolders = {d1}
    QueueCap = 2
    StdinCap = 1
    MaxFrames = 3
    MaxBatch = 2
    HostMaxRecords = 3
    RequestedMax = 2
    NoLimit = NoLimit
    MaxRecordBytes = 1
    MaxLogBytes = 3
    HasToken = FALSE
PROPERTIES
    OnlyPipesOutlastDeadline
