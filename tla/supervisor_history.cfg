SPECIFICATION HSpec
CONSTANTS
    Bots = {b1, b2}
    Pids = {p1, p2}
    NoBot = NoBot
    NoPid = NoPid
    MaxRestarts = 1
    Window = 3
    MaxFaults = 0
SYMMETRY Symmetry
INVARIANTS SpawnRateBounded GivenUpIsMarked
PROPERTIES RestartOnlyAfterToggle
