\* Sequential routing where two recipients share a signing order, with fairness.
CONSTANTS
    ann = ann  bob = bob  cyd = cyd  d1 = d1  d2 = d2
    Signers <- People
    Docs = {d1, d2}
    Order <- SharedOrder
    Assigned <- Fields
    Sequential = TRUE
    SelfSigner = ann
    Requests = {r1, r2}
    Nobody = nobody
    MaxFaults = 1
SPECIFICATION FairSpec
INVARIANTS
    TypeOK
    LinksAreSound
    SigningOrderRespected
    CompletionIsEarned
    NoSignatureLost
PROPERTIES
    ContractKept
    SigningSettles
