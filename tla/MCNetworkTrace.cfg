SPECIFICATION Spec
CONSTANTS
    FDs = {1, 2}
    NumConns = 2
    Bounds <- TraceBounds
    None = None
INVARIANTS EventsFollowSocket AnswersItsRequest NothingMasked
CHECK_DEADLOCK FALSE
