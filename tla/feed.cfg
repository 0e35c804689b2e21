SPECIFICATION FairSpec
CONSTANTS
    Traded = {1, 2, 4, 5, 6}
    MaxTime = 6
    Limit = 2
    Cap = 2
    MaxHistory = 3
    MaxFaults = 1
INVARIANTS FeedInv NothingElseMissed
PROPERTIES EveryCandleComes StopIsObeyed
