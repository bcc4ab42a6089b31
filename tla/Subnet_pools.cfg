SPECIFICATION Spec
CONSTANTS
    Addr = {0, 1, 2, 3, 4}
    Pods = {"a", "b"}
    Nics = {"a0", "a1", "b0"}
    PodOf <- MCPodOf
    PoolNames = {"p"}
    Macs = {m1, m2, m3, m4}
    m1 = m1
    m2 = m2
    m3 = m3
    m4 = m4
    NoIP = NoIP
    NoMac = NoMac
    NoPod = NoPod
    Nil = Nil
    SubnetConfigs <- MCConfigs4
    PoolConfigs <- MCPoolConfigs4
    MacRequests <- MCMacs4
    StaticRequests <- MCStatic4
    GatewayMacs = {m1}
    DrawnMacs = {m2, m3, m4}
    SkipSets <- MCSkip4
    CheckConflicts = {TRUE}
SYMMETRY MacSymmetry
INVARIANTS
    TypeOK
    ExclusiveLeases
    AddressesAccounted
    PoolsPartition
    RandomServesAvailable
