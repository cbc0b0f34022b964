SPECIFICATION Spec
CONSTANTS
    alice = alice
    bob = bob
    N = 2
    Users <- OneUser
    Owner <- OneUserOwner
    Cost <- TwoCosts
    Grant <- GrantForOne
    Destinations = {d1}
    NoDest = NoDest
    MaxAttempts = 2
    BatchLimit = 1
    MaxFaults = 1
    MaxCrashes = 0
    HonestPrinter = TRUE
    AgeBoundCoversHandler = TRUE
INVARIANTS
    ChargedIffPrinted
