\* Policies, branches, evidence edits, human stops and archives.
SPECIFICATION Spec
CONSTANTS
    NumGates = 2
    pA = pA
    pB = pB
    Policies = {pA, pB}
    Conditional <- MCConditional
    Branches = {main, dev}
    Commits = {c1, c2}
    Artifacts = {report}
    Versions = {v1, v2}
    Findings = {f1}
    MaxMedium = 0
    MaxStops = 1
    MaxRetired = 0
    MaxArchives = 1
    None = None
SYMMETRY Permutable
INVARIANTS LedgerInvariant ReportRestores
PROPERTIES ImplementsGateLedger
CHECK_DEADLOCK FALSE
