CONSTANTS
    t1 = t1
    t2 = t2
    t3 = t3
    None = None
    Elsewhere = Elsewhere
    Session = {s1}
    Client = {"", "id"}
    Topic = {t1, t2, t3}
    Hash <- MCHash
    Cap = 8
    NameLen = 1
    WordLen = 1
    TopicLen = 1
    PayloadLens = {0, 1}
    LowBits = {0, 127}
    MaxSubs = 1
SPECIFICATION FairSpec
CHECK_DEADLOCK FALSE
INVARIANTS
    ChainKept
    ServedAfterConnack
PROPERTIES
    ImplementsSubscriptions
    QuietSessionEnds
