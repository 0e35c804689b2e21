SPECIFICATION HFairSpec
CONSTANTS
    Bots = {b1}
    Pids = {p1, p2}
    NoBot = NoBot
    NoPid = NoPid
    MaxRestarts = 1
    Window = 2
    MaxFaults = 0
PROPERTIES TrippedStaysHalted
