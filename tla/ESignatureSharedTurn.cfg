\* Sequential routing where two recipients share a signing order, against what the sender is told.
CONSTANTS
    ann = ann  bob = bob  cyd = cyd  d1 = d1  d2 = d2
    Signers <- People
    Docs = {d1, d2}
    Order <- SharedOrder
    Assigned <- Fields
    Sequential = TRUE
    SelfSigner = nobody
    Requests = {r1, r2}
    Nobody = nobody
    MaxFaults = 0
SPECIFICATION Spec
INVARIANTS
    InvitedAfterPrevious
