SPECIFICATION FairSpec
CONSTANTS
    w1 = w1  w2 = w2  w3 = w3
    Writes = {w1, w2, w3}
    Sizes <- MCSizes
    Orders = {TRUE, FALSE}
    Budgets <- MCBudgets
    Low = 2
    High = 4
    Endpoints = 2
INVARIANTS TypeOK SizeAccounting HandlersMatchQueue SuccessMeansSentWhileOpen NoStalledWriter ReadArmed LifecycleOrder
PROPERTIES ClosedForever EveryWriteAnswered
CHECK_DEADLOCK FALSE
