SPECIFICATION FairSpec
CONSTANTS
    Goroutines = {g1, g2, g3}
    RefMod = 4
    FD = 3
INVARIANTS Safety
PROPERTIES EventuallyClosed HandleSpec
