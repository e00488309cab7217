\* Two requests after the start, one connection, one removal.
SPECIFICATION Spec
CONSTANTS
    Users = {caller, callee}
    Caller = caller
    NoOne = NoOne
    RingTimeout = 1
    MaxDuration = 1
    Grace = 1
    Horizon = 2
    Busy = 2
    Limit <- Removing
INVARIANTS TypeOK RowsAgree OutcomeIsTrue RoomMatchesRows RemovedHaveNotJoined
PROPERTY ContractKept
CHECK_DEADLOCK FALSE
