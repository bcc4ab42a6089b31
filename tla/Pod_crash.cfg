\* Two names, each used once, with a crash or a failed call.
SPECIFICATION Spec
CONSTANTS
    k1 = k1
    k2 = k2
    a1 = a1
    a2 = a2
    NoIP = NoIP
    Requests = {NoIP}
    MaxUid <- TwoEach
    Keys = {k1, k2}
    StsKeys = {}
    Addresses = {a1, a2}
    MaxFaults = 1
    Starts <- OnceEach
    GCInterval = 0
SYMMETRY Symmetry
CHECK_DEADLOCK FALSE
INVARIANTS
    AllocatedConnected
    LiveExclusive
