SPECIFICATION Spec
CONSTANTS
    p1 = p1
    p2 = p2
    c1 = c1
    c2 = c2
    main = main
    side = side
    other = other
    cpu = cpu
    gpu = gpu
    orig = orig
    Pod = {p1, p2}
    Claim = {c1}
    Name = {main}
    Container = {main}
    Image = {gpu, orig}
    Original = orig
    None = None
    ClaimsOf <- SharedClaimsOf
    ConfigsOf <- SharedConfigsOf
    Gated = {c1}
    MaxCrashes = 1
    MaxTimeouts = 1
INVARIANT
    BoundPodsPatched
CHECK_DEADLOCK FALSE
