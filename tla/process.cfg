SPECIFICATION FairSpec
CONSTANTS
    Requests = {"r1", "r2"}
    Durations = {0, 1, 2}
    KeyLengths = {31, 32}
INVARIANTS
    NobodyIsCutOff
    ExitTellsTheTruth
PROPERTIES
    SignalStopsProcess
