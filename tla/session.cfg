SPECIFICATION Spec
CONSTANTS
    Tabs = {t1, t2}
    Groups <- SomeGroups
    TTL = 3
    Second = 2
    MaxTime = 5
    None = None
PROPERTIES
    RevocationTakesEffect
    SessionLasts
    StaffGetIn
