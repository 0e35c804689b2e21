SPECIFICATION FairSpec
CONSTANTS
    Bots = {b1, b2}
    Pids = {p1, p2}
    NoBot = NoBot
    NoPid = NoPid
    MaxRestarts = 1
    Window = 2
    MaxFaults = 1
INVARIANTS SupervisorInv OneProcessPerBot
PROPERTIES StoppedGoesDown DesiredComesUp ImplementsReconciler
