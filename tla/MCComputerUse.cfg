SPECIFICATION FairSpec
CONSTANTS
    c1 = c1
    c2 = c2
    Caller = {c1, c2}
    NoCaller = none
    Op = {1, 2}
    MaxGen = 2
    Sizes = {"small", "big"}
INVARIANTS
    TypeOK
    NoOrphan
    OneInFlight
PROPERTIES
    SettledIsFinal
    ImplementsSerialTool
    ReturnsUnlessBlocked
CHECK_DEADLOCK FALSE
