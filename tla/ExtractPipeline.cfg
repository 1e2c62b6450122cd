CONSTANTS
    Nodes <- MCNodes
    Dirs = {"root", "dir"}
    Root = "root"
    Up <- MCUp
    Runs = {r1, r2}
    Sudo = {r1}
    NoRun = NoRun
SPECIFICATION FairSpec
INVARIANTS PublishedWhole OneOwner OkMeansPublished LeftoverReported
PROPERTIES RefinesTargets RunEnds
CHECK_DEADLOCK FALSE
