SPECIFICATION LifecycleSpec
CONSTANTS
    a1 = a1
    e1 = e1
    e2 = e2
    c1 = c1
    t1 = t1
    gas = gas
    w1 = w1
    w2 = w2
    None = None
    Workers <- MCWorkers
    MaxNonce = 1
    Gas = gas
    Credentials = {}
    Challenges = {}
    Templates <- MCTemplates
    Lifetime <- MCLifetime
    TemplateOf <- MCTemplateOf
    GrantedActions <- MCGrantedActions
    GrantedTemplates <- MCGrantedTemplates
    GrantedBuckets <- MCGrantedBuckets
    PerAction <- MCPerAction
    PerRun <- MCPerRun
    Rolling <- MCRolling
    DraftTtl = 2
    ChallengeTtl = 2
    Authorizations <- MCAuthorizations
    Effects <- MCEffects
    PaymentEffects = {}
    Fingerprints = {f1}
    Commands <- MCCommands
    Buckets <- MCBuckets
    Amounts = {1, 2}
    Actuals = {1, 2}
    Hashes <- MCHashes
    Day = 1
    MaxLag = 0
    MaxTime = 0
SYMMETRY Alike
INVARIANTS
    LifecycleTypeOK
    SentIsOnRecord
    MinedOnce
PROPERTIES
    ReconciledIsSettled
    ImplementsEffectOnce
CHECK_DEADLOCK FALSE
