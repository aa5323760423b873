SPECIFICATION FairSpec
CONSTANTS
    p1 = p1
    p2 = p2
    Producers <- MCProducers
    Weights <- MCWeights
    Capacity = 3
    BatchEvents = 2
    BatchBytes = 2
    MaxIssued = 2
INVARIANTS
    StreamSound
PROPERTIES
    Progress
    KeepsPromise
