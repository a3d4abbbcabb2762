CONSTANTS
    m1 = m1
    m2 = m2
    a = a
    b = b
    Model = {m1, m2}
    Id = {a, b}
    MaxAttempts = 2
    maxPauseContinuations = 1
    MaxEvents = 5
    MaxTurns = 2
SYMMETRY Symmetry
SPECIFICATION Spec
CHECK_DEADLOCK FALSE
INVARIANTS
    TypeOK
    PairedInOrder
    ResultsFollowUses
    RefusedIffBroken
    UsageCountedOnce
