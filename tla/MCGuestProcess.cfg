SPECIFICATION Spec
CONSTANTS
    Sleepers = {2}
    Durations <- MCDurations
    MaxDelay = 1
INVARIANTS ProcessReleased CloseWaits
PROPERTIES NeverEarly PollTimesOut KilledEnds
CHECK_DEADLOCK FALSE
