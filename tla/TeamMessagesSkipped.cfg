\* A connection breaks unnoticed: a message of others is never replayed.
SPECIFICATION FairSpec
CONSTANTS
    hello = hello  hi = hi
    Mine <- Own
    Theirs <- Others
    PageLimit = 2
    MaxPages = 2
    MaxKept = 2
    MaxBreaks = 1
    MaxFaults = 0
PROPERTIES
    NothingIsSkipped
CHECK_DEADLOCK FALSE
