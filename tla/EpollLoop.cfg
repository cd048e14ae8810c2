SPECIFICATION FairSpec
CONSTANTS
    Timer = {t1, t2}
    Delays = {1, 4}
    MaxClock = 5
    MaxTasks = 2
    IntLimit = 3
INVARIANTS
    SleepBounded
PROPERTIES
    SeenTimerFires
    QueuedTaskRuns
