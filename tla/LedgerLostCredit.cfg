\* Credit is spent again where it was reversed before.
SPECIFICATION Spec
CONSTANTS
    Dues <- TwoDues
    Amount <- TwoAmounts
    Late = {}
    Managed = {}
    CreditAmounts = {1}
    ApplyCredit = TRUE
    Advances = FALSE
    Edits = FALSE
    CheckoutErrors = FALSE
    MaxPayments = 3
    MaxCredits = 2
    MaxUses = 3
INVARIANTS
    SpentCreditCounts
