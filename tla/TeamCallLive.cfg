\* A request, a connection, a repetition and a lost webhook, with fairness.
SPECIFICATION FairSpec
CONSTANTS
    Users = {caller, callee}
    Caller = caller
    NoOne = NoOne
    RingTimeout = 1
    MaxDuration = 1
    Grace = 1
    Horizon = 2
    Busy = 1
    Limit <- Troubled
PROPERTIES EveryCallEnds RoomSettles
CHECK_DEADLOCK FALSE
