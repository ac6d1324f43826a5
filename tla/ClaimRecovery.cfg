SPECIFICATION FairPaidSpec
CONSTANTS
    s1 = s1
    s2 = s2
    b1 = b1
    b2 = b2
    None = None
    Callers <- OneCaller
    Contents <- TwoContents
    Bodies <- SameOrNot
    Rebuilt = TRUE
    FullPrice = 100
    DiscountPercent = 50
    DiscountUses = 1
    MaxFaults = 1
PROPERTIES
    ClaimIsRecovered
