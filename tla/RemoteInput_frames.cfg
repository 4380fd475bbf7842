SPECIFICATION Spec
CONSTANTS
    box = box
    tracker = tracker
    stick = stick
    d1 = d1
    d2 = d2
    button = button
    alias = alias
    byAlias = byAlias
    MAX_BUFFER_SIZE = 1
    Devices = {box, tracker, stick}
    NoDevice = NoDevice
    Types = {"analog", "digital"}
    Channels <- MCChannels
    SwapOrder <- MCChannels
    Polled = {stick}
    MaxSamples <- MCMaxSamples
    DeviceNames = {d1, d2}
    NameOf <- MCNameOf
    Proxies = {button}
    NoProxy = NoProxy
    DeviceOf <- MCDeviceOf
    TypeOf <- MCTypeOf
    Aliases = {alias}
    Interfaces = {byAlias}
    Asks <- MCAsks
    On = {1}
    Modes = {FALSE, TRUE}
INVARIANTS
    TypeOK
    ProxiesFollowTable
    InterfacesFollowTables
    RunningIsReachable
    ProxiesShowDevices
    TypesTogether
    StatesFollowFrames
    SameInput
PROPERTIES
    ImplementsInputFrames
    StopsReturn
    SamplesAreShown
CHECK_DEADLOCK FALSE
