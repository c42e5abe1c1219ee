\* Officers use credit, residents never spend it on a payment.
SPECIFICATION Spec
CONSTANTS
    Dues <- TwoDues
    Amount <- TwoAmounts
    Late = {1}
    Managed = {1}
    CreditAmounts = {1}
    ApplyCredit = FALSE
    Advances = FALSE
    Edits = TRUE
    CheckoutErrors = TRUE
    MaxPayments = 2
    MaxCredits = 2
    MaxUses = 2
INVARIANTS
    TypeOK
    PaidMatchesLedger
    PaidStatusHonest
    SpentCreditCounts
PROPERTIES
    SettledByOfficerOnly
