CONSTANTS
    device = device
    proxy = proxy
    gesture = gesture
    scene = scene
    app = app
    input = input
    Elements = {device, scene}
    Handlers = {app, input}
    DependsOn <- MCShortDependsOn
    CanHandle <- MCCanHandle
    FirstHandlers <- MCFirstHandlers
    MayFail = {scene}
    Patient = TRUE
    UnlockedAdds = FALSE
    MayShutdown = FALSE
    MaxEntries = 2
    MaxCopies = 1
SPECIFICATION FairSpec
PROPERTY PossibleAdditionsDone
