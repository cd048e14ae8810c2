SPECIFICATION FairSpec
CONSTANTS
    Timer = {t1, t2, t3}
    Delays = {0, 1, 2}
    MaxClock = 4
    None = None
INVARIANTS
    FiresOnce
PROPERTIES
    NextTurn
    NothingDueLeft
    EveryTimerFires
