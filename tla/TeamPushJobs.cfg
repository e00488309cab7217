\* A message and a call, two workers that may outlive their locks.
SPECIFICATION Spec
CONSTANTS
    Messages <- OneMessage
    Calls <- OneCall
    Devices = {phone}
    Workers = {job, task}
    Limit = 2
    MaxAttempts = 2
    MaxSlow = 1
    MaxFaults = 1
SYMMETRY Interchangeable
INVARIANTS
    TypeOK
    OneWorker
    ShownOnce
    AttemptLeft
CHECK_DEADLOCK FALSE
