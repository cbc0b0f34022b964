SPECIFICATION Spec
CONSTANTS
    alice = alice
    bob = bob
    Users <- TwoUsers
    Codes <- ThreeCodes
    Logins = {1, 2}
    Profiles <- ThreeProfiles
    Dates <- TwoDates
    Defaults = {250, 300}
    NoUser = NoUser
    NoAmount = NoAmount
    MaxFaults = 1
    MaxCrashes = 1
INVARIANTS
    OneAmountPerSemester
    GrantsAreRightful
    SessionIsProvisioned
    CalendarAgrees
PROPERTIES
    AmountsAreKept
