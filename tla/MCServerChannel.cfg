SPECIFICATION FairSpec
CONSTANTS
    PoolSize = 2
    PeersLeave = {TRUE, FALSE}
    MaxServers = 2
    MaxChildren = 4
INVARIANTS TypeOK AcceptArmed AtMostOneLate SameThreadOrder
PROPERTIES AcceptLoopEnds
CHECK_DEADLOCK FALSE
