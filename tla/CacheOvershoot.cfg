SPECIFICATION Spec
CONSTANTS
    Model = {m1, m2, m3}
    Claim = {c1, c2}
    Caller = {g1, g2}
    Free = Free
    NoModel = NoModel
    MaxSize = 2
    ModelSize = 1
    ScanSizes <- MCScanSizes
    MaxSpawned = 1
INVARIANT
    SizeWithinMax
