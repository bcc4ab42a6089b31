SPECIFICATION Spec
CONSTANTS
    e1 = e1
    r1 = r1
    r2 = r2
    a1 = a1
    NoIP = NoIP
    Eips = {e1}
    Rules = {r1, r2}
    EipOf <- OnEip
    Inner <- OwnInner
    Port <- OnePort
    Addresses = {a1}
    Static <- Random
    MaxMakes = 2
    MaxFaults = 0
    Scenarios <- Two
CHECK_DEADLOCK FALSE
INVARIANTS
    DnatPortsExclusive
