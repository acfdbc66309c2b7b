SPECIFICATION Spec
CONSTANTS
    Model = {org, orgModel, dashed, nameless}
    Claim = {c1, c2}
    Caller = {g1, h1, h2}
    Fetcher = {g1}
    GcsFetcher = {h1, h2}
    File = {f1}
    Rev <- OneRev
    MaxSize = 1
    Enabled = {"huggingface", "gcs"}
    DeviceName <- Names
    Org <- Orgs
    Before <- SomethingLeft
    ClaimSpec <- Meeting
    Empty = nameless
    Failing = {}
    MaxFailures = 0
    MaxCrashes = 0
    MaxPushes = 1
    Free = Free
    None = None
    m1 = m1
    m2 = m2
    org = org
    orgModel = orgModel
    dashed = dashed
    nameless = nameless
    ModelSize = 1
SYMMETRY SymmetricClaims
INVARIANTS
    TypeOK
    OneDownload
    AddedMeansComplete
    PreparedKeepsMount
    OnlyNamedModels
    PreparesWhatWasAsked
CHECK_DEADLOCK FALSE
