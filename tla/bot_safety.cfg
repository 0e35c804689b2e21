SPECIFICATION Spec
CONSTANTS
    Lots = {l1, l2, l3}
    None = None
    Pending = Pending
    InitialCapital = 3
    MaxEquity = 4
    MaxHigh = 2
    DrawdownNum = 1
    DrawdownDen = 2
    MaxSells = 2
    MaxCuts = 2
SYMMETRY Symmetry
INVARIANTS BotInv NothingElseForgotten NothingElseSoldTwice IdleIsSavedButHighs
