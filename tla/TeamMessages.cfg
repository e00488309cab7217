\* One message each way, a connection that breaks and a request that fails.
SPECIFICATION FairSpec
CONSTANTS
    hello = hello  hi = hi
    Mine <- Own
    Theirs <- Others
    PageLimit = 1
    MaxPages = 2
    MaxKept = 1
    MaxBreaks = 1
    MaxFaults = 1
INVARIANTS
    TypeOK
    NothingIsLost
    StoredOnce
    ConnectionIsComplete

    
CHECK_DEADLOCK FALSE
