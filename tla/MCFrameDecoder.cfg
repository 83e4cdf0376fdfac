SPECIFICATION FairSpec
CONSTANTS
    Setups <- MCSetups
    MaxStream = 5
    Garbage <- MCGarbage
INVARIANTS TypeOK SplitIndependent BufferBounded
PROPERTIES CallsReturn
CHECK_DEADLOCK FALSE
