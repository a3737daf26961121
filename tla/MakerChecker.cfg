\* One revision, two findings of two severities, three invocations and their aborts.
SPECIFICATION Spec
CONSTANTS
    Kinds <- MCKinds
    Artifacts = {a1, a2}
    Blockers = {f1, f2}
    MaxSeverity = 2
    MaxRevisions = 1
    Clean = Clean
    Torn = Torn
    None = None
    MaxLaunches = 3
INVARIANTS SnapshotTellsAll ReviewedIsApplied RunsRecoverable
PROPERTIES ImplementsLoop InvocationsReturn
CHECK_DEADLOCK FALSE
