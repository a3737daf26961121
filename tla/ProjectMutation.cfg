\* Two protected entries, two ledger commands, two transactions, two interruptions.
SPECIFICATION Spec
CONSTANTS
    NumEntries = 2
    Writers = {w1, w2}
    MaxTransactions = 2
    MaxCrashes = 2
    None = None
INVARIANTS AllOrNothing WritesKept NoLostUpdate
PROPERTIES EveryoneReturns
CHECK_DEADLOCK FALSE
