\* Two workers, two kills and two edits anywhere.
SPECIFICATION Spec
CONSTANTS
    Workers = {w1, w2}
    MaxKills = 2
    MaxEdits = 2
INVARIANT OwnershipHolds
PROPERTY WorkIsKept
CHECK_DEADLOCK FALSE
