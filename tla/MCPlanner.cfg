SPECIFICATION FairSpec
CONSTANTS
    Wire = {"messages", "responses", "chat"}
    MaxAttempts = 3
    MaxInstructions = 3
    MaxPlan = 5
INVARIANTS
    TypeOK
    NeverSpliced
    NoPlanOfBadResponse
PROPERTIES
    OnlyFailuresAreRetried
    PlanReturns
CHECK_DEADLOCK FALSE
