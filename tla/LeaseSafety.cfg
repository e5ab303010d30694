SPECIFICATION Spec
CONSTANTS
    w1 = w1
    w2 = w2
    Workers = {w1, w2}
    Classic = {w2}
    MaxAttempts = 1
    ClaimTTL = 1
    ConfirmTTL = 2
    PruneAfter = 1
    MaxTime = 5
    RowLocks = TRUE
    NoLease = NoLease
INVARIANT LeaseInv
INVARIANT ConfirmedContactIsKept
PROPERTY ImplementsLeaseLock
CHECK_DEADLOCK FALSE
