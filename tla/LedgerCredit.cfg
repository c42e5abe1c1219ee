\* Residents spend credit on payments; every checkout opens.
SPECIFICATION Spec
CONSTANTS
    Dues <- TwoDues
    Amount <- TwoAmounts
    Late = {}
    Managed = {}
    CreditAmounts = {1}
    ApplyCredit = TRUE
    Advances = TRUE
    Edits = FALSE
    CheckoutErrors = FALSE
    MaxPayments = 2
    MaxCredits = 1
    MaxUses = 2
INVARIANTS
    CreditWithinGrant
    CashHeldExactly
    NoCreditHeldByDeadPayment
