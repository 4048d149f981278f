CONSTANTS
    f1 = f1
    f2 = f2
    f3 = f3
    Paths = {f1, f2, f3}
    PathInfo <- MCPathInfo
    InitContent <- HeaderTree
    MaxAudits = 2
SPECIFICATION Spec
CHECK_DEADLOCK FALSE
INVARIANT CorrectedTreeVerified
