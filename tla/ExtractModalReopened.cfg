CONSTANTS
    Roots = {r1}
    DefaultRoot = r1
    NoRoot = NoRoot
    Selections <- MCSelections
    Occupied <- MCUnoccupied
    RememberTarget = TRUE
    MaxModals = 2
    MaxRuns = 2
    MaxGen = 3
SPECIFICATION Spec
INVARIANTS OneLiveRun StagingKept
CHECK_DEADLOCK FALSE
