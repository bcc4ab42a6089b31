SPECIFICATION FairSpec
CONSTANTS
  Starts <- MCStarts
  GracePeriod = 1
  StablePeriod = 1
  Backoffs <- MCBackoffs
  ChildBackoffs <- MCChildBackoffs
  CircuitOpen = 3
  FailureThreshold = 2
  MaxLag = 1
INVARIANTS
  TypeOK
  BudgetKept
  InheritedSpared
PROPERTIES
  
  ChildComesBack
  StillTried
  BudgetRestored
