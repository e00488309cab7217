\* Two users who share a browser with two tabs, with fairness.
SPECIFICATION FairSpec
CONSTANTS
    alice = alice  bob = bob  left = left  right = right
    Users <- TwoUsers
    NoUser = NoUser
    Tabs <- TwoTabs
    MaxSignIns = 1
    MaxOther = 1
INVARIANTS
    TypeOK
    ExitLeavesNothing
    NotStuckLoading
PROPERTIES
    ExitHolds
    TabsSettle
CHECK_DEADLOCK FALSE
