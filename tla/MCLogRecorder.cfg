SPECIFICATION Spec
CONSTANTS
    BatchSize = 2
    MaxRecords = 5
    Pieces = 2
INVARIANTS SegmentSound
PROPERTIES ExitReturns
CHECK_DEADLOCK FALSE
