SPECIFICATION Spec
CONSTANTS
    PoolSize = 2
    PeersLeave = {FALSE}
    MaxServers = 1
    MaxChildren = 2
INVARIANT NoneStartedAfterClose
CHECK_DEADLOCK FALSE
