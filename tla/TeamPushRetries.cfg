\* A message and two devices, two workers that may outlive their locks, with fairness.
SPECIFICATION FairSpec
CONSTANTS
    Messages <- OneMessage
    Calls = {}
    Devices = {phone, laptop}
    Workers = {job, task}
    Limit = 1
    MaxAttempts = 2
    MaxSlow = 1
    MaxFaults = 1
INVARIANTS
    OutboxIsTrue
PROPERTIES
    FinalStays
    ItemsSettle
CHECK_DEADLOCK FALSE
