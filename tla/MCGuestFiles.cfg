SPECIFICATION GSpec
CONSTANTS
    Threads = {t1, t2}
    Nodes <- MCNodes
    Root = "root"
    Outside = {"top", "out"}
    Trees <- MCTrees
    Requests <- MCRequests
    MaxFD = 5
    MaxCalls = 2
    MaxAgain = 1
    CloseDuringOpen = FALSE
    Images <- MCImages
    Asked <- MCAsked
    MaxOpens = 3
    MaxReads = 3
    MaxSteps = 5
    ReadSizes <- MCReadSizes
    BufferSize = 5
    MaxFollowSymlink = 4
    None = None
SYMMETRY Symmetric
INVARIANTS
    DescriptorsSound
    Confined
    LookupAgrees
    MergedView
    ListingExact
    LayersOwned
CHECK_DEADLOCK FALSE
