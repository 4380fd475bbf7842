SPECIFICATION FairSpec
CONSTANTS
    w0 = w0
    w1 = w1
    w2 = w2
    NumPipes = 2
    Windows = {w0, w1}
    PipeOf <- MCPipeOf
    Apps = {A}
    NoApp = NoApp
    ClusterActive = TRUE
    MayClose = FALSE
PROPERTIES
    FramesComplete
    ClosingWindowsClosed
    SettledWindowsHandled
