SPECIFICATION Spec
CONSTANTS
    alice = alice
    bob = bob
    N = 3
    Users <- TwoUsers
    Owner <- TwoUsersOwner
    Cost <- ThreeCosts
    Grant <- GrantForTwo
    Destinations = {d1}
    NoDest = NoDest
    MaxAttempts = 2
    BatchLimit = 1
    MaxFaults = 1
    MaxCrashes = 1
    HonestPrinter = TRUE
    AgeBoundCoversHandler = TRUE
INVARIANTS
    PageTellsThePaper
    ChargedIffPrintedUntilFault
PROPERTIES
    NoPrintAfterResolution
