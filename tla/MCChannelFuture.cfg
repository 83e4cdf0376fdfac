SPECIFICATION FairSpec
CONSTANTS
    c1 = c1  c2 = c2  r1 = r1  r2 = r2  w1 = w1  w2 = w2
    Threads = {c1, c2, r1, r2, w1, w2}
    Completers = {c1, c2}
    Registrars = {r1, r2}
    Waiters = {w1, w2}
    Listeners = {l1, l2}
    ProgressListeners = {l1}
    Cancellable = TRUE
    MaxRegs = 3
    CallBudgets <- MCBudgets
    MaxDisturbances = 2
INVARIANTS TypeOK WaitersCounted ExactlyOnce ToldInOrder
PROPERTIES ListsFrozenWhenDone ImplementsOnce AwaitReturns EveryListenerTold
CHECK_DEADLOCK FALSE
