SPECIFICATION LoginFairSpec
CONSTANTS
    Tabs = {"t1", "t2"}
    Numbers = {1, 2, 3}
    Keys = {1, 2}
    None = None
INVARIANTS
    TabsDoNotMix
PROPERTIES
    LoginEnds
