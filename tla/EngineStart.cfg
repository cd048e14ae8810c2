SPECIFICATION Spec
CONSTANTS
    Core = {0, 1, 2}
    Primary = 2
    WordBits = 2
    MaxWait = 2
INVARIANTS
    StartedHasRings
    PoolMissedOnlyInWindow
    NoMutualMiss
