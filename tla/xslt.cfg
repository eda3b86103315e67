SPECIFICATION FairSpec
CONSTANT MaxPairs = 3
INVARIANTS
    ResultIsComplete
    DetachedThreadsAreOnTheirOwn
PROPERTIES
    CallReturns
    EveryStepIsProgress
\* The threads end and the call returns.
CHECK_DEADLOCK FALSE
