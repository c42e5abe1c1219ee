\* One invoice, two sessions, two requests at a time.
SPECIFICATION Spec
CONSTANTS
    Invoices = {i1}
    MaxSessions = 2
    Workers = {w1, w2}
    NoInvoice = NoInvoice
SYMMETRY Symmetry
INVARIANTS
    TypeOK
    SuspendedOwes
    PaidIsExpensedOnce
PROPERTIES
    PaidStaysPaid
    PaidSessionIsKept
