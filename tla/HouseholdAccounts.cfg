\* Three people, two requests at a time.
SPECIFICATION Spec
CONSTANTS
    People = {p1, p2, p3}
    Workers = {w1, w2}
    Nobody = Nobody
SYMMETRY Symmetry
INVARIANTS
    TypeOK
    SomePresident
PROPERTIES
    NewHolderIsAlone
