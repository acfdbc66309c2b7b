SPECIFICATION PublisherSpec
CONSTANTS
    Model = {m1, m2}
    Claim = {c1}
    Caller = {g1}
    Worker = {w1, w2}
    Free = Free
    NoModel = NoModel
    MaxSize = 1
    ModelSize = 1
    ScanSizes <- MCScanSizes
    MaxSpawned = 2
INVARIANTS
    SliceIsCurrent
