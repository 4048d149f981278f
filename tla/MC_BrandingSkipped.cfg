CONSTANTS
    f1 = f1
    f2 = f2
    f3 = f3
    g1 = g1
    c1 = c1
    Paths = {f1, f2, f3, g1, c1}
    PathInfo <- MCPathInfoChecks
    KeyFiles = {f1, f2, c1}
    GithubFiles = {g1}
    InitContent <- SkippedTree
    MaxAudits = 1
    MaxChecks = 1
INIT Init2
NEXT Next2
CHECK_DEADLOCK FALSE
INVARIANT AuditPassesChecks
