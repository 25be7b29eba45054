SPECIFICATION Spec
CONSTANTS
    BatchSizes <- ThreeBatches
    FrameCells = 2
    DataCells = 2
    Uses <- SoundUses
INVARIANTS LogIntact
PROPERTIES ReachesEnd
CHECK_DEADLOCK FALSE
