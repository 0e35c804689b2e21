SPECIFICATION FairSpec
CONSTANTS
    Traded = {1, 2, 3}
    MaxTime = 3
    Limit = 2
    Cap = 2
    NPairs = 2
    Runs = {r1, r2}
    FirstRun = 1
    MaxFaults = 1
INVARIANTS SuccessInv NothingElseLost
PROPERTIES SuccessIsComplete EveryCandleStored
