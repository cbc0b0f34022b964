SPECIFICATION PoolFairSpec
CONSTANTS
    alice = alice
    Calls = {1, 2, 3, 4, 5, 6}
    Kind <- SixKinds
    UserOf <- AllOfAlice
    MaxConns = 2
    NoCall = NoCall
INVARIANTS
    PoolTypeOK
    NoCircularWait
PROPERTIES
    EveryCallReturns
    ReadyAnswers
