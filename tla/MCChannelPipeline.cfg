SPECIFICATION FairSpec
CONSTANTS
    na = na  nb = nb  nc = nc
    Names = {na, nb, nc}
    Kinds <- MCKinds
    Events = {e}
    Built <- MCBuilt
    MaxCalls = 2
    MaxCtx = 5
INVARIANTS TypeOK ListMirrored NamesMatchList ChainsCoverList
PROPERTIES EventsMoveForward EventsEnd
CHECK_DEADLOCK FALSE
