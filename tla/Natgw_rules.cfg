\* EIPs and rules come, change and go, and a pod restarts, with patient users.
SPECIFICATION FairSpec
CONSTANTS
    Gws <- MCGws
    Eips <- MCEips
    Rules <- MCRules
    Inners <- MCInners
    GwOf <- MCGwOf
    Scenarios <- MCScenarios
    g1 = g1
    e1 = e1
    e2 = e2
    r1 = r1
    r2 = r2
    i1 = i1
    i2 = i2
    None = None
    Patient = TRUE
INVARIANTS
    TypeOK
    ReadyRuleInstalled
    
PROPERTIES
    
    RulesGo
    
CHECK_DEADLOCK FALSE
