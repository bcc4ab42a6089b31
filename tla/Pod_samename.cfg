\* One name used by two pods: is a new pod spared by the clean-up of the old?
SPECIFICATION FairSpec
CONSTANTS
    k1 = k1
    k2 = k2
    a1 = a1
    a2 = a2
    NoIP = NoIP
    Keys = {k1}
    StsKeys = {}
    Addresses = {a1}
    Requests = {NoIP}
    MaxUid <- TwoEach
    Starts <- Twice
    MaxFaults = 0
    GCInterval = 1
CHECK_DEADLOCK FALSE
PROPERTIES
    LivePodsConnect
