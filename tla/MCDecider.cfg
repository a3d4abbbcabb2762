SPECIFICATION FairSpec
CONSTANTS
    a1 = a1
    a2 = a2
    w1 = w1
    w2 = w2
    e1 = e1
    Nothing = Nothing
    App <- MCOneApp
    Order <- MCOneOrder
    Win <- MCWin
    Elem <- MCElem
    Owner <- MCOneOwner
    Parent <- MCParent
    Field <- MCElem
    N = 2
    WithText = {2}
    MaxSteps = 3
    DryRuns = {TRUE, FALSE}
INVARIANT TypeOK
INVARIANT TokensAgree
INVARIANT ActsOnWhatWasShown
INVARIANT BudgetRespected
INVARIANT DoneIsEvidenced
PROPERTY PursueReturnsUnlessBlocked
CHECK_DEADLOCK FALSE
