\* A review panel and a build, two releases of the coordinator, two invocations.
SPECIFICATION XSpec
CONSTANTS
    Stages = {"review", "risk", "build"}
    DependsOn <- MCDependsOn
    Conditional = {"risk"}
    Reviewers = {"risk"}
    Deciders = {"build"}
    ReadOnly = {"review", "risk"}
    NumGates = 1
    Owner <- MCOwner
    Contents = {w0, w1}
    w0 = w0
    Base = w0
    Dispatches = {1, 2, 3, 4, 5, 6}
    None = None
    Findings <- MCFindings
    MayFind <- MCMayFind
    MaxRecords = 8
    Coordinators = {"new", "old"}
    Locks = {"root", "legacy"}
    LocksOf <- MCLocksOf
    Order <- MCOrder
    Panel = {"review", "risk"}
    Outcomes <- MCOutcomes
    MaxRetries = 1
    DecisionOf <- MCDecisionOf
    MaxInvocations = 2
    MaxMeddling = 1
INVARIANTS OwnsItsAttempts 
PROPERTIES ImplementsManagedStages InvocationsReturn
CHECK_DEADLOCK FALSE
