SPECIFICATION Spec
CONSTANTS
    Requests = {r1, r2}
    MaxAttempts = 2
    Second = 3
    Lifetime = 6
    MaxCodes = 2
    MaxFaults = 1
    Cap = 9
CHECK_DEADLOCK FALSE
SYMMETRY Symmetry
VIEW View
INVARIANTS TypeOK GuessesBounded CounterCoversCode UsesBounded LockoutEnds
