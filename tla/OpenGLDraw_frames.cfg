SPECIFICATION Spec
CONSTANTS
    w0 = w0
    w1 = w1
    w2 = w2
    NumPipes = 2
    Windows = {w0, w1, w2}
    PipeOf <- MCPipeOf
    Apps = {A, B}
    NoApp = NoApp
    ClusterActive = FALSE
    MayClose = TRUE
INVARIANTS
    TypeOK
    SwapAfterAllRendered
    QuiescentBetweenFrames
    PipesRunThroughFrame
    DrawnContextsInitialised
    OrphansAreClosing
    ClosedIsClean
    IInv
PROPERTIES
    ImplementsFrameLock
CHECK_DEADLOCK FALSE
SYMMETRY MCSymmetry
