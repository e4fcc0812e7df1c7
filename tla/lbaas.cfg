SPECIFICATION Spec
CONSTANTS
    Unset = Unset
    None = None
    MaxKeys = 2
    MaxSets = 1
CHECK_DEADLOCK FALSE
INVARIANTS TypeOK SentIsMeant DoneIsObeyed Unaliased
