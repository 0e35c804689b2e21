SPECIFICATION Spec
CONSTANTS
    Prices = {2, 3, 4, 5, 6}
    Den = 4
    StopNum = 1
    TakeNum = 2
    TrailNum = 1
    None = None
    MaxFaults = 2
INVARIANTS LiveInv
PROPERTIES SameTrades
