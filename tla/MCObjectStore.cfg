SPECIFICATION Spec
CONSTANTS
    Creators = {c1, c2, c3}
    Size = 2
    Failing = {c1, c2, c3}
    Crashing = {c1, c2, c3}
    MayDelete = TRUE
SYMMETRY CreatorSymmetry
INVARIANTS ObjectsWhole TaggedWhenQuiet
CHECK_DEADLOCK FALSE
