\* One name used by two pods, or by one with two crashes or failed calls, with
\* the GC.
SPECIFICATION FairSpec
CONSTANTS
    k1 = k1
    k2 = k2
    a1 = a1
    a2 = a2
    NoIP = NoIP
    Requests = {NoIP}
    MaxUid <- TwoEach
    Keys = {k1}
    StsKeys = {}
    Addresses = {a1}
    MaxFaults = 2
    Starts <- TwiceOrFaults
    GCInterval = 1
CHECK_DEADLOCK FALSE
PROPERTIES
    LivePodsHavePorts
    PortsRecycled
