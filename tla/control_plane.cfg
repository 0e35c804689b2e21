SPECIFICATION FairSpec
CONSTANTS
    Strategies = {s1}
    Credentials = {c1}
    Bots = {b1}
    Requests = {r1, r2}
    None = None
INVARIANTS ControlInv BuildFindsWhatItNeeds RefusedMeansDeleted OneOrderAfterDelete
PROPERTIES DeletedGoesDown
CHECK_DEADLOCK FALSE
