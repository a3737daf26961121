\* Two workers behind two adapters or one, a retry each.
SPECIFICATION Spec
CONSTANTS
    w1 = w1
    w2 = w2
    claude = claude
    codex = codex
    Workers = {w1, w2}
    Adapters = {claude, codex}
    Adapter <- MCAdapter
    MaxAttempts = 2
    MaxRetries = 1
INVARIANTS LiveHostsAreOwned InterruptionsConfirmed
PROPERTIES ImplementsContract WaitsReturn
CHECK_DEADLOCK FALSE
