SPECIFICATION FairSpec
CONSTANTS
    Attempt = {a1, a2, a3}
INVARIANTS
    OpenSocketAccounted
    SessionIffDelivered
PROPERTY
    EveryAttemptAnswered
