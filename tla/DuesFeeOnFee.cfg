\* Two daily runs after the due date.
SPECIFICATION Spec
CONSTANTS
    Households = {h1}
    Workers = {cron}
    Cron = cron
    MaxNumber = 3
    MaxMoves = 1
INVARIANTS
    FeesAreForDues
CHECK_DEADLOCK FALSE
