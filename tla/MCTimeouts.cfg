SPECIFICATION Spec
CONSTANTS
    Writes = {w1}
    Configured <- MCConfigured
    PerMilli = 2
    WriteMillis = 2
    AddPoints = {"before", "after"}
    Pointers = {"null", "garbage"}
    MaxLag = 1
    MaxTime = 5
    MaxChanges = 3
INVARIANTS TypeOK OneTimeout DetectedInTime CancelReaches WriteTimeoutMet
PROPERTIES ReportsSpaced
CHECK_DEADLOCK FALSE
