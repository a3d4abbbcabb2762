SPECIFICATION FairSpec
CONSTANTS
    c1 = c1
    Caller = {c1}
    NoCaller = none
    Op = {1}
    MaxGen = 1
    Sizes = {"small", "big"}
PROPERTIES
    Returns
CHECK_DEADLOCK FALSE
