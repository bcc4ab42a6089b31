SPECIFICATION Spec
CONSTANTS
    Addr = {0, 1, 2, 3}
    Pods = {"a", "b"}
    Nics = {"a0", "a1", "b0"}
    PodOf <- MCPodOf
    PoolNames = {}
    Macs = {m1, m2, m3, m4}
    m1 = m1
    m2 = m2
    m3 = m3
    m4 = m4
    NoIP = NoIP
    NoMac = NoMac
    NoPod = NoPod
    Nil = Nil
    SubnetConfigs <- MCConfigs
    PoolConfigs = {}
    MacRequests <- MCMacs
    StaticRequests <- MCStatic
    GatewayMacs = {m3}
    DrawnMacs = {m1, m2, m4}
    SkipSets <- MCSkip
    CheckConflicts = {TRUE}
SYMMETRY MacSymmetry
INVARIANTS
    NoLeakedAddress
    MacsExclusive
    NoLeakedMac
    ReleasedPodHasNothing
    FailedRandomKeepsLeases
PROPERTY
    ImplementsLease
