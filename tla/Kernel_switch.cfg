CONSTANTS
    appA = appA
    appB = appB
    appC = appC
    gl = gl
    d3d = d3d
    NoApp = NoApp
    NoManager = NoManager
    Apps = {appA, appB, appC}
    DrawManagers = {gl, d3d}
    DrawManagerOf <- MCDrawManagerOf
    Rejected = {}
    Users = {u, v}
    Waiters = {w}
    ClusterActive = TRUE
SPECIFICATION FairSpec
INVARIANTS TypeOK FrameHasItsManagers OldApplicationsUnreferenced
PROPERTIES ImplementsAppCallbacks LatestApplicationRuns StopEndsKernel
CHECK_DEADLOCK FALSE
