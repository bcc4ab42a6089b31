SPECIFICATION Spec
CONSTANTS
    Width = 4
    Points = {4, 5, 6, 7, 9, 11}
    Ranges <- MCRanges
    Skips <- MCSkips
INVARIANTS
    ListsCanonical
    CIDRsMinimal
PROPERTY
    ImplementsSet
