SPECIFICATION FairSdkSpec
CONSTANTS
    Frames <- MCFrames
    Descendants = {}
    PipeHolders = {}
    QueueCap = 1
    StdinCap = 3
    MaxFrames = 4
    MaxBatch = 2
    HostMaxRecords = 5
    RequestedMax = 3
    NoLimit = NoLimit
    MaxRecordBytes = 9
    MaxLogBytes = 9
    HasToken = TRUE
    MaxCalls = 2
INVARIANTS
    SdkInv
    ConformingRunIsAccepted
    RepliesAreNotLost
PROPERTIES
    PluginEndsAfterCallback
    RefinesPluginHost
