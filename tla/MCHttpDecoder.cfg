SPECIFICATION Spec
CONSTANTS
    Setups <- MCSetups
INVARIANTS TypeOK RequestsIntact
CHECK_DEADLOCK FALSE
