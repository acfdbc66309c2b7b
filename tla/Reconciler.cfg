SPECIFICATION FairSpec
CONSTANTS
    p1 = p1
    p2 = p2
    c1 = c1
    c2 = c2
    main = main
    side = side
    other = other
    cpu = cpu
    gpu = gpu
    orig = orig
    Pod = {p1}
    Claim = {c1, c2}
    Name = {main, side, other}
    Container = {main, side}
    Image = {cpu, gpu}
    Original = cpu
    None = None
    ClaimsOf <- TwoClaimsOf
    ConfigsOf <- FallbackConfigsOf
    Gated = {c1, c2}
    MaxCrashes = 1
    MaxTimeouts = 1
INVARIANTS
    TypeOK
    BoundUnlessMisled
    ConditionNeedsAllocation
PROPERTY
    PodsProceed
CHECK_DEADLOCK FALSE
