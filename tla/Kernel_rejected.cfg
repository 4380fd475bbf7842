CONSTANTS
    appA = appA
    appB = appB
    appC = appC
    gl = gl
    d3d = d3d
    NoApp = NoApp
    NoManager = NoManager
    Apps = {appA}
    DrawManagers = {gl, d3d}
    DrawManagerOf <- MCDrawManagerOf
    Rejected = {appA}
    Users = {u}
    Waiters = {w}
    ClusterActive = FALSE
SPECIFICATION FairSpec
PROPERTY StopEndsKernel
CHECK_DEADLOCK FALSE
