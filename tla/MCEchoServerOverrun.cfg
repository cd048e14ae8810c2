CONSTANTS
    Cap = 3
    TxCap = 2
    Needs = {0}
    SendLens = {1}
    Runners = {"center"}
    MaxIn = 5
    MaxWaits = 4
    MaxOut = 0
    TimeoutText <- MCTimeoutText
SPECIFICATION EchoSpec
INVARIANT EchoesInput
