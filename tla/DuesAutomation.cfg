\* Two households, the scheduled job and one more request at a time.
SPECIFICATION FairSpec
CONSTANTS
    Households = {h1, h2}
    Workers = {cron, w1}
    Cron = cron
    MaxNumber = 4
    MaxMoves = 1
INVARIANTS
    TypeOK
PROPERTIES
    BillsOnce
    FeesOnce
    WaivedStays
    EveryoneIsBilled
CHECK_DEADLOCK FALSE
