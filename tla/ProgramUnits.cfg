CONSTANTS
    Manifest <- MCManifest
    RunGates <- MCRunGates
    Areas <- MCAreas
    MaxAttempts = 2
    SpawnCap = 2
    Ceiling = 2
    MaxOutput = 1
    MaxRevisions = 2
    MaxFaults = 1
    None = None
SPECIFICATION Spec
INVARIANTS DocumentHolds OnlyOwnersChange VerifiedIsBuiltOn BudgetsHold
PROPERTIES ImplementsProgramOrder
CHECK_DEADLOCK FALSE
