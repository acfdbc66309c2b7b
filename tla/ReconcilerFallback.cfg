SPECIFICATION Spec
CONSTANTS
    p1 = p1
    p2 = p2
    c1 = c1
    c2 = c2
    main = main
    side = side
    other = other
    cpu = cpu
    gpu = gpu
    orig = orig
    Pod = {p1}
    Claim = {c1}
    Name = {main}
    Container = {main}
    Image = {cpu, gpu}
    Original = cpu
    None = None
    ClaimsOf <- OneClaimsOf
    ConfigsOf <- OneConfigsOf
    Gated = {c1}
    MaxCrashes = 0
    MaxTimeouts = 1
INVARIANT
    BoundPodsPatched
CHECK_DEADLOCK FALSE
