CONSTANTS
    device = device
    proxy = proxy
    gesture = gesture
    scene = scene
    app = app
    input = input
    Elements = {device, proxy, gesture, scene}
    Handlers = {app, input}
    DependsOn <- MCSharedDependsOn
    CanHandle <- MCCanHandle
    FirstHandlers <- MCFirstHandlers
    MayFail = {}
    Patient = TRUE
    UnlockedAdds = FALSE
    MayShutdown = FALSE
    MaxEntries = 6
    MaxCopies = 2
SPECIFICATION Spec
INVARIANT ActiveOnce
