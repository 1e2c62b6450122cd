CONSTANTS
    Roots = {r1, r2}
    DefaultRoot = r1
    NoRoot = NoRoot
    Selections <- MCSelections
    Occupied <- MCUnoccupied
    RememberTarget = TRUE
    MaxModals = 1
    MaxRuns = 3
    MaxGen = 4
SPECIFICATION Spec

PROPERTIES CancelStopsExtract
CHECK_DEADLOCK FALSE
