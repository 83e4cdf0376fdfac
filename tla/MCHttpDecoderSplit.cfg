SPECIFICATION Spec
CONSTANTS
    Setups <- MCSplitSetups
INVARIANT InitialLineComplete
CHECK_DEADLOCK FALSE
