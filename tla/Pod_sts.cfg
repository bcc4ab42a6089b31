\* A StatefulSet pod removed and created again, with a crash or a failed call.
SPECIFICATION Spec
CONSTANTS
    k1 = k1
    k2 = k2
    a1 = a1
    a2 = a2
    NoIP = NoIP
    Requests = {NoIP}
    MaxUid <- TwoEach
    Keys = {k1}
    StsKeys = {k1}
    Addresses = {a1, a2}
    MaxFaults = 1
    Starts <- Twice
    GCInterval = 0
SYMMETRY Symmetry
CHECK_DEADLOCK FALSE
INVARIANTS
    TypeOK
PROPERTIES
    StsAddressKept
