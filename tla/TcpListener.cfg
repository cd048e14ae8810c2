SPECIFICATION FairSpec
CONSTANTS
    Loops = 2
    MaxConn = 4
    MaxSessions = 6
    FdLimit = 2
INVARIANTS
    LoopsConserved
PROPERTIES
    ImplementsRendezvous
    EveryConnectionHandled
