CONSTANTS
    device = device
    proxy = proxy
    gesture = gesture
    scene = scene
    app = app
    input = input
    Elements = {device, scene}
    Handlers = {app, input}
    DependsOn <- MCShortDependsOn
    CanHandle <- MCCanHandle
    FirstHandlers <- MCFirstHandlers
    MayFail = {scene}
    Patient = FALSE
    UnlockedAdds = TRUE
    MayShutdown = TRUE
    MaxEntries = 2
    MaxCopies = 1
SPECIFICATION FairSpec
INVARIANT LostDependentsPending
PROPERTIES ImplementsConfigRequests ReconfigurationEnds
