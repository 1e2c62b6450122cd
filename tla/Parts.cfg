CONSTANTS
    Budgets <- MCBudgets
    Snaps <- MCSnaps
    Refreshed <- MCRefreshed
    SnapDirs <- MCSnapDirs
    Queries = 2
    DiffDirs <- MCDiffDirs
    Procs = {p, q}
    Dirs = {d1, d2}
    Nobody = Nobody
    NoDir = NoDir
    Prompt = TRUE
    Snapshots = {"s1", "s2"}
    Tree <- MCTree
    BatchRows = 2
    CheckRows = 3
    NoTx = NoTx
    Cap = 1
    Lines = 3
    Errors = 2
    Patterns = 2
    None = None
    Repos <- MCRepos
    GroupBy <- MCGroupBy
    Letters = {"a", "b"}
    QueryMax = 2
    Shells = {s1, s2}
    First = s1
SPECIFICATION Spec
INVARIANTS TypeOK ShownAnswersQuestion NothingWorksUnseen LiveSessionKept NothingLeftBehind IndexIsExact VerdictIsTrue AlgorithmsAgree
PROPERTIES SelectionStays Settles CallReturns
CHECK_DEADLOCK FALSE
