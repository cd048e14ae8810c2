CONSTANTS
    Cap = 2
    TxCap = 1
    Needs = {0, 2}
    SendLens = {1, 2}
    Runners = {"immediate", "center"}
    MaxIn = 3
    MaxWaits = 2
    MaxOut = 2
SPECIFICATION FairSpec
INVARIANTS WriteArmed WireInOrder NoStarvedWait DataStillThere StreamIntact
PROPERTIES TimedWaitEnds SendsEnd
