\* Two requests at a time, three tokens, a lock after two failures.
SPECIFICATION Spec
CONSTANTS
    Workers = {w1, w2}
    MaxTokens = 3
    MaxAttempts = 2
    MaxFails = 2
SYMMETRY Symmetry
INVARIANTS
    TypeOK
    EndedStaysEnded
    ShutOutHoldsNothing
    OneTokenPerLogin
    CountIsExact
    ApprovedCanSignIn
PROPERTY
    LockHolds
CHECK_DEADLOCK FALSE
