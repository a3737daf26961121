\* Accepted risks: two Medium findings, two gates, three commits, one refresh or retirement.
SPECIFICATION Spec
CONSTANTS
    NumGates = 2
    pA = pA
    pB = pB
    Policies = {pA}
    Conditional <- MCConditional
    Branches = {main}
    Commits = {c1, c2, c3}
    Artifacts = {report}
    Versions = {v1}
    Findings = {f1, f2}
    MaxMedium = 2
    MaxStops = 0
    MaxRetired = 1
    MaxArchives = 0
    None = None
SYMMETRY Permutable
INVARIANTS CompletedRunIsCovered RefreshHasRoom
PROPERTIES TransitionTrustsLedger AuditTrailKept
CHECK_DEADLOCK FALSE
