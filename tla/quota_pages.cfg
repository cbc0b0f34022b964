SPECIFICATION HomeFairSpec
CONSTANTS
    alice = alice
    N = 2
    Users <- OneUser
    Owner <- OneUserOwner
    Cost <- SomeCosts
    NoSession = NoSession
    GrantAmounts = {1, 2}
    MaxGranted = 3
INVARIANTS
    NoOverspend
    ReadStaysAffordable
    ResultMatchesRow
    PageIsConsistent
PROPERTIES
    ImplementsLedger
    EveryCallReturns
