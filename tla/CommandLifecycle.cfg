SPECIFICATION CommandSpec
CONSTANTS
    c1 = c1
    c2 = c2
    r1 = r1
    None = None
    Commands <- MCCommands
    Runs <- MCRuns
    MaxCycles = 1
    Budgets <- MCBudgets
INVARIANTS
    CommandTypeOK
    LinksAgree
    QuestionIsOpen
PROPERTIES
    FinalStaysFinal
    DecidedOrDone
CHECK_DEADLOCK FALSE
