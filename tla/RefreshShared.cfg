CONSTANTS
    Repos = {r1}
    Tui = tui
    Clis = {c1}
    Parallelism = 1
    MaxTime = 2
SPECIFICATION FairSpec
INVARIANTS NeverFresherThanSeen
PROPERTIES CacheStaysWhole ZeroMeansSaved CancelReturns
