\* What the handbook says of acceptances that went stale.
SPECIFICATION GSpec
CONSTANTS
    Stages = {"review", "build", "closeout"}
    DependsOn <- MCDependsOn
    Conditional = {"build"}
    Reviewers = {}
    Deciders = {}
    Closers = {"closeout"}
    ReadOnly = {"review"}
    NumGates = 2
    Owner <- MCOwner
    Contents = {w0, w1}
    w0 = w0
    Base = w0
    Dispatches = {d1, d2, d3}
    None = None
    Findings <- MCFindings
    MayFind <- MCMayFind
    MaxRecords = 3
    MaxRefreshes = 1
SYMMETRY MCSymmetry
INVARIANT StaleAcceptancesCanBeRefreshed
CHECK_DEADLOCK FALSE
