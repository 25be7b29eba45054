SPECIFICATION Spec
CONSTANTS
    Word = 8
    ENOSYS = 5
    MaxDeep = 3
    NumRecords = 2
    ReadSize = 3
INVARIANTS
    ReplayFaithful
    ReplayEndsAtLog
    OnlyTheRecordedCall
    ReadsBack
    StreamsShown
CHECK_DEADLOCK FALSE
