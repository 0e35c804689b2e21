SPECIFICATION RunSpec
CONSTANTS
    Prices = {3, 5}
    Den = 4
    StopNum = 2
    TakeNum = 2
    TrailNum = 1
    Scale = 60
    Definitions <- MCDefinitions
    MaxHistory = 3
    MaxCandles = 6
    Capital = 1000
    CostDen = 10
    FeeNum = 1
    SlipNum = 1
    NaN = NaN
    None = None
INVARIANTS RunInv LatestIsBatch CurveIsMarked DrawdownIsWorst
CHECK_DEADLOCK FALSE
