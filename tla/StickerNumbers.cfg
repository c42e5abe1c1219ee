\* A request for two stickers, numbers up to 3, two requests at a time.
SPECIFICATION Spec
CONSTANTS
    r1 = r1
    Requests = {r1}
    Quantity <- TwoEach
    Workers = {w1, w2}
    MaxNumber = 3
    Nobody = Nobody
SYMMETRY Symmetry
INVARIANTS
    TypeOK
    SequenceIsFree
    IssuedAsApproved
CHECK_DEADLOCK FALSE
