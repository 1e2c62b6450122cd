CONSTANTS
    Workers = {w1, w2}
    Closers = {c1, c2}
    Snapshots = {s1}
    Handles = {h1, h2}
    NoOne = NoOne
    NoStore = NoStore
SPECIFICATION FairSpec
INVARIANTS StoreOpenWhileUsed NoLeakedStore CancelReachesInflight OkMeansWholeIndex NoDanglingTx
PROPERTIES RefinesSpec CloseReturns
