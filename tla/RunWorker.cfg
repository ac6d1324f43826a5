SPECIFICATION RunSpec
CONSTANTS
    w1 = w1
    w2 = w2
    k1 = k1
    None = None
    Workers <- TwoWorkers
    Tasks <- OneTask
    Authorities = {"platform_chat"}
    ImmediateRetries = 1
    MaxSends = 2
    MaxAnswers = 1
SYMMETRY Alike
INVARIANTS
    RunTypeOK
    OneLiveSend
    SentIsJournaled
    CompletedHasKey
PROPERTIES
    JournalKeepsHashes
CHECK_DEADLOCK FALSE
