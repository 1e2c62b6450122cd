CONSTANTS
    Nodes <- MCNodes
    Dirs = {"root", "dir"}
    Root = "root"
    Up <- MCUp
    Runs = {r1, r2}
    Sudo = {r1}
    NoRun = NoRun
SPECIFICATION Spec
PROPERTIES ClaimsOnlyOwn
CHECK_DEADLOCK FALSE
