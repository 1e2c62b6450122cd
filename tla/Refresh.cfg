CONSTANTS
    Repos = {r1, r2}
    Tui = tui
    Clis = {}
    Parallelism = 1
    MaxTime = 2
SPECIFICATION FairSpec
INVARIANTS PendingHasEnd WithinParallelism SpinnerTurns
PROPERTIES PendingEnds
