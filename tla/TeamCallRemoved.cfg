\* A member is removed, against the comment of the revocation.
SPECIFICATION Spec
CONSTANTS
    Users = {caller, callee}
    Caller = caller
    NoOne = NoOne
    RingTimeout = 1
    MaxDuration = 1
    Grace = 1
    Horizon = 2
    Busy = 2
    Limit <- Removing
INVARIANT RemovedAreOut
CHECK_DEADLOCK FALSE
