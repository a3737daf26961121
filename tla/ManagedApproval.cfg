\* Two coordinators, two policies, two commits, a clock of two ticks.
SPECIFICATION Spec
CONSTANTS
    c1 = c1
    p1 = p1
    t1 = t1
    a1 = a1
    p2 = p2
    a2 = a2
    Coordinators = {x, y}
    Commits = {c1, c2}
    Attempts = {a1, a2}
    Texts = {t1}
    Policies = {p1, p2}
    Scopes <- MCScopes
    Sources <- MCSources
    Asked <- MCAsked
    Envelopes <- MCEnvelopes
    MaxAge = 0
    MaxTime = 2
    None = None
SYMMETRY Permutable
INVARIANTS OneInForce ReceiptsAreTrue
PROPERTIES NothingIsRevised
CHECK_DEADLOCK FALSE
