SPECIFICATION RequestsSpec
CONSTANTS
    a1 = a1
    a2 = a2
    Authorizations <- MCAuthorizations
    Lifetime <- MCLifetime
    c1 = c1
    c2 = c2
    l1 = l1
    l2 = l2
    Credentials <- MCCredentials
    Challenges = {h1}
    Templates = {t1}
    DraftTtl = 2
    ChallengeTtl = 2
    MaxTime = 2
    None = None
    Nonces = {n1}
    Logins <- MCLogins
    Exchanges = {x1}
    Calls = {r1}
    NonceTtl = 1
    SessionTtl = 2
    AccessTokenTtl = 2
SYMMETRY Alike
INVARIANTS
    AccessTypeOK
    SingleGrant
    OneCredentialPerSignature
    ServedWasLive
    OneSessionPerNonce
PROPERTIES
    EndedGrantsStayEnded
CHECK_DEADLOCK FALSE
