SPECIFICATION Spec
CONSTANTS
    Model = {m1, m2}
    Claim = {c1, c2}
    Caller = {g1, g2}
    Fetcher = {g1, g2}
    GcsFetcher = {}
    File = {f1, f2}
    Rev <- TwoRevs
    MaxSize = 2
    Enabled = {"huggingface"}
    DeviceName <- Plain
    Org <- Plain
    Before <- NothingLeft
    ClaimSpec <- FromHuggingFace
    Empty = Empty
    Failing = {"huggingface"}
    MaxFailures = 1
    MaxCrashes = 1
    MaxPushes = 1
    Free = Free
    None = None
    m1 = m1
    m2 = m2
    org = org
    orgModel = orgModel
    dashed = dashed
    nameless = nameless
    ModelSize = 1
SYMMETRY Symmetric
INVARIANTS
    SentinelMeansComplete
    OneDownload
    AddedMeansComplete
PROPERTIES
    RunningKeepsFiles
CHECK_DEADLOCK FALSE
