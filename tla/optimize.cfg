SPECIFICATION FairSpec
CONSTANTS
    MaxTime = 6
    Periods = {1, 2, 3}
    NTrials = 2
    Parameters <- MCParameters
    Metrics = {1, 2}
    Worst <- MCWorst
    NaN = NaN
    None = None
INVARIANTS OptimizeInv NoPeeking BestIsBest EachTestedOnce
PROPERTIES Terminates
CHECK_DEADLOCK FALSE
