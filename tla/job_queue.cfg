SPECIFICATION FairSpec
CONSTANTS
    Strategies = {s1}
    Jobs = {j1, j2}
    Workers = {w1, w2}
    None = None
    MaxFaults = 1
INVARIANTS JobInv ExecutedOnce
PROPERTIES AnswerHasResult EveryJobEnds
CHECK_DEADLOCK FALSE
