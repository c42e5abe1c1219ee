\* One attempt per session and no officers: no handler can lose a race.
SPECIFICATION FairSpec
CONSTANTS
    p1 = p1
    p2 = p2
    a1 = a1
    w1 = w1
    w2 = w2
    w3 = w3
    Payments <- OnePayment
    Assessments = {a1}
    Target <- SameTarget
    NoPayment = NoPayment
    Workers = {w1, w2}
    RetryAllowed = FALSE
    Officers = FALSE
    MaxCrashes = 1
INVARIANTS
    GaveUpOnlyIfUnpaid
    VerifiedKeepsItsMoney
PROPERTIES
    LinkedIsSettled
    ImplementsOnlinePayment
CHECK_DEADLOCK FALSE
