SPECIFICATION FairSpec
CONSTANTS
    Flow = {f1, f2}
    Depth = 2
    None = None
INVARIANTS
    RunsAtMostOnce
    NoHalfDoneFlow
    ChainInOrder
PROPERTIES
    FirstResultStays
    LoopReturns
    TriggeredRuns
