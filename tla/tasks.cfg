SPECIFICATION FairSpec
CONSTANTS
    MaxTasks = 2
    Calls = {c1}
    NoCommand = NoCommand
INVARIANTS
    TypeOK
    DrainInv
    AtMostOnce
    FirstInFirstOut
    HandedOverIsKept
    CompletionExplained
    ListIsFresh
    CurlStaysInitialised
    AddOutcomeExplained
PROPERTIES
    ImplementsLifecycle
    TaskCompletes
    TaskCompletesWhenListed
    DeferredDdlLeaves
