SPECIFICATION FairPaidSpec
CONSTANTS
    s1 = s1
    s2 = s2
    b1 = b1
    b2 = b2
    None = None
    Callers <- TwoCallers
    Contents <- TwoContents
    Bodies <- SameOrNot
    Rebuilt = FALSE
    FullPrice = 100
    DiscountPercent = 50
    DiscountUses = 1
    MaxFaults = 2
INVARIANTS
    RequestTypeOK
    AnswersAgree
    PaidForEffect
    ChargesAreReserved
PROPERTIES
    KeptRetryingSettles
