SPECIFICATION Spec
CONSTANTS
    a1 = a1
    a2 = a2
    w1 = w1
    w2 = w2
    e1 = e1
    Nothing = Nothing
    App <- MCApp
    Order <- MCOrder
    Win <- MCWin
    Elem <- MCElem
    Owner <- MCOwner
    Parent <- MCParent
    Field <- MCElem
    N = 2
    WithText = {2}
    MaxSteps = 2
    DryRuns = {TRUE, FALSE}
INVARIANT DryRunRunsNoTool
CHECK_DEADLOCK FALSE
