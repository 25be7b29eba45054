SPECIFICATION Spec
CONSTANTS
    Modes <- MCModes
    MaxSends <- MCSends
    MaxHeard = 2
    NonBlock <- MCNonBlock
    QueueSize = 2
    None = None
INVARIANTS NothingLeft DataIntact SecureWhenAsked
PROPERTIES SocketCloseReturns EndReachesHost
CHECK_DEADLOCK FALSE
