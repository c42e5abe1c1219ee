\* One payment, three workers, officers, retries and a crash.
SPECIFICATION Spec
CONSTANTS
    p1 = p1
    p2 = p2
    a1 = a1
    w1 = w1
    w2 = w2
    w3 = w3
    Payments <- OnePayment
    Assessments = {a1}
    Target <- SameTarget
    NoPayment = NoPayment
    Workers = {w1, w2, w3}
    RetryAllowed = TRUE
    Officers = TRUE
    MaxCrashes = 1
INVARIANTS
    TypeOK
    VerifiedOnlyIfPaid
    ClosedHoldsNothing
    SyncedUnlessOverlapped
PROPERTIES
    FinalIsNotReverified
SYMMETRY Swaps
CHECK_DEADLOCK FALSE
