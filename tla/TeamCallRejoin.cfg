\* A user joins again, against the comment of the revocation job.
SPECIFICATION Spec
CONSTANTS
    Users = {caller, callee}
    Caller = caller
    NoOne = NoOne
    RingTimeout = 1
    MaxDuration = 1
    Grace = 1
    Horizon = 2
    Busy = 2
    Limit <- Rejoining
PROPERTY RejoinSurvives
CHECK_DEADLOCK FALSE
