SPECIFICATION Spec
CONSTANTS
    na = na  nb = nb  nc = nc
    Names = {na, nb, nc}
    Kinds <- MCKinds
    Events = {e}
    Built <- MCTwoHandlers
    MaxCalls = 1
    MaxCtx = 3
INVARIANT RemovableAnyTime
CHECK_DEADLOCK FALSE
