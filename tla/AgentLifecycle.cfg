SPECIFICATION FairAgentSpec
CONSTANTS
    t1 = t1
    t2 = t2
    None = None
    Tabs <- TwoTabs
    Settings = {"name", "swaps", "permissions"}
    MaxAttempts = 2
    Budgets <- MCBudgets
INVARIANTS
    AgentTypeOK
    OneOpenAttempt
    RelayedOnce
    VerifiedIsRegistered
PROPERTIES
    RevokedIsFinal
    EditsAreKept
    HumanIsKept
    LandedIsRecognised
CHECK_DEADLOCK FALSE
