SPECIFICATION RequestsSpec
CONSTANTS
    a1 = a1
    a2 = a2
    Authorizations <- MCAuthorizations
    Lifetime <- MCLifetime
    c1 = c1
    c2 = c2
    l1 = l1
    l2 = l2
    Credentials <- MCCredentials
    Challenges = {h1, h2}
    Templates = {t1}
    DraftTtl = 2
    ChallengeTtl = 2
    MaxTime = 3
    None = None
    Nonces = {}
    Logins = {}
    Exchanges = {}
    Calls = {}
    NonceTtl = 1
    SessionTtl = 1
    AccessTokenTtl = 1
INVARIANTS
    RevocationEndsCredential
CHECK_DEADLOCK FALSE
