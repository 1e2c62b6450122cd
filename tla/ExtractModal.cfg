CONSTANTS
    Roots = {r1, r2}
    DefaultRoot = r1
    NoRoot = NoRoot
    Selections <- MCSelections
    Occupied <- MCOccupied
    RememberTarget = TRUE
    MaxModals = 1
    MaxRuns = 3
    MaxGen = 4
SPECIFICATION FairSpec
INVARIANTS TypeOK RunningHasEnd SudoHasEnd TerminalMeansOver PublishedHere
PROPERTIES CancelIsSeen
CHECK_DEADLOCK FALSE
