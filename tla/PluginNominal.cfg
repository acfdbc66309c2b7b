SPECIFICATION FairSpec
CONSTANTS
    Model = {m1, m2}
    Claim = {c1, c2}
    Caller = {g1, h1}
    Fetcher = {g1}
    GcsFetcher = {h1}
    File = {f1, f2}
    Rev <- OneRev
    MaxSize = 2
    Enabled = {"huggingface", "gcs"}
    DeviceName <- Plain
    Org <- Plain
    Before <- NothingLeft
    ClaimSpec <- OneForEach
    Empty = Empty
    Failing = {"gcs"}
    MaxFailures = 1
    MaxCrashes = 0
    MaxPushes = 1
    Free = Free
    None = None
    m1 = m1
    m2 = m2
    org = org
    orgModel = orgModel
    dashed = dashed
    nameless = nameless
    ModelSize = 1
INVARIANTS
    SliceMeansComplete
PROPERTIES
    StartsOnlyWhenComplete
    ClaimsServed
CHECK_DEADLOCK FALSE
