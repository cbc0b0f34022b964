SPECIFICATION Spec
CONSTANTS
    SendTimeout = 2
    AgeBound = 14
    Interval = 2
    RetryWait = 1
    LockTimeout = 2
    StatementTime = 1
    PassTime = 1
    Behind = 1
    MaxTime = 21
    MaxFaults = 1
INVARIANTS
    QuotaBackInTime
PROPERTIES
    NoPrintAfterResolution
