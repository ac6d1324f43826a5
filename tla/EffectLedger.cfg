SPECIFICATION Spec
CONSTANTS
    a1 = a1
    a2 = a2
    e1 = e1
    e2 = e2
    p1 = p1
    c1 = c1
    c2 = c2
    t1 = t1
    gas = gas
    x402 = x402
    None = None
    Credentials = {}
    Challenges = {}
    Templates <- AllTemplates
    Lifetime <- MCLifetime
    TemplateOf <- MCTemplateOf
    GrantedActions <- MCGrantedActions
    GrantedTemplates <- MCGrantedTemplates
    GrantedBuckets <- MCGrantedBuckets
    PerAction <- MCPerAction
    PerRun <- MCPerRun
    Rolling <- MCRolling
    DraftTtl = 9
    ChallengeTtl = 2
    Authorizations <- TwoAuthorizations
    Effects <- ThreeEffects
    PaymentEffects <- Payments
    Fingerprints = {f1}
    Commands <- TwoRuns
    Buckets <- GasAndPayment
    Amounts = {0, 1}
    Actuals = {0, 2}
    Hashes = {x1}
    Day = 1
    MaxLag = 1
    MaxTime = 2
SYMMETRY Alike
INVARIANTS
    LedgerTypeOK
    LinesWithinPolicy
    RunBudgetHolds
    RollingBudgetHolds
PROPERTIES
    EffectsOnlyAdvance
    EndedGrantReservesNothing
CHECK_DEADLOCK FALSE
