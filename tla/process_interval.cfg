SPECIFICATION Spec
CONSTANTS
    Requests = {"r1"}
    Durations = {0, 1}
    KeyLengths = {32}
INVARIANTS
    SweepIsPeriodic
