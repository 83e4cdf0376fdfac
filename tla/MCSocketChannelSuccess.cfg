SPECIFICATION Spec
CONSTANTS
    w1 = w1  w2 = w2  w3 = w3
    Writes = {w1, w2, w3}
    Sizes <- MCFullSizes
    Orders = {TRUE}
    Budgets <- MCBudgets
    Low = 2
    High = 4
    Endpoints = 2
INVARIANT SuccessMeansSent
CHECK_DEADLOCK FALSE
