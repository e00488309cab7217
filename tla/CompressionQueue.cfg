\* Two jobs, two attempts, a crash and two faults, with fairness.
CONSTANTS
    j1 = j1  j2 = j2
    Jobs <- TwoJobs
    NoJob = nojob
    MaxAttempts = 2
    MaxCrashes = 1
    MaxFaults = 2
SPECIFICATION FairSpec
INVARIANTS
    TypeOK
    SourceHeld
    QueuedCanRun
    QueuedWillRun
    NotTakenFromWorker
    NoSourceLeft
PROPERTIES
    CompletedIsFinal
    JobsSettle
