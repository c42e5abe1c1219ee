\* Two payments of one assessment, two requests at a time.
SPECIFICATION Spec
CONSTANTS
    p1 = p1
    p2 = p2
    a1 = a1
    w1 = w1
    w2 = w2
    w3 = w3
    Payments <- TwoPayments
    Assessments = {a1}
    Target <- SameTarget
    NoPayment = NoPayment
    Workers = {w1, w2}
    RetryAllowed = FALSE
    Officers = FALSE
    MaxCrashes = 0
INVARIANTS
    QuietMeansSynced
CHECK_DEADLOCK FALSE
