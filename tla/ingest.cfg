SPECIFICATION ReadSpec
CONSTANTS
    w1 = w1
    w2 = w2
    Writers <- TwoWriters
    k1 = k1
    k2 = k2
    k3 = k3
    a = a
    b = b
    day = day
    s1 = s1
    s2 = s2
    Keys = {k1, k2, k3}
    Contents = {a, b}
    Dates = {day}
    NoDate = NoDate
    NoRow = NoRow
    Batches <- MCBatches
    MaxTx = 3
    Readers = {r1}
    Sources = {s1, s2}
    SourceOf <- MCSourceOf
    AnySource = AnySource
    Limits = {1, 3}
    Offsets = {0, 1}
    MaxLimit = 2
    MaxAssetIds = 1
SYMMETRY Symmetry
INVARIANTS
    TxInv
    ReadInv
    WalkSeesEveryPost
    ToldPostsAreFound
    CountsFit
PROPERTIES
    StoreChangesByWholeBatches
    PostsAreDurable
    UpdatedTracksContent
CHECK_DEADLOCK FALSE
