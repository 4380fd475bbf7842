---------------------------- MODULE InputManager ----------------------------
(***************************************************************************)
(* The input manager of one node, driven by the kernel's thread: the       *)
(* tables of devices, proxies and aliases, the device interfaces of the    *)
(* application, their configuration in whatever order the requests come,   *)
(* and the update of all of them between two frames.                       *)
(*                                                                         *)
(* The kernel's thread is in checkForReconfig() at "config", and what the  *)
(* application does in a frame is "frame".  Objects are destroyed with     *)
(* their last reference, and the destructor of a device joins its thread:  *)
(* the kernel's thread waits while something is Dropped.                   *)
(***************************************************************************)
EXTENDS InputDevices

CONSTANTS
    DeviceNames, NameOf,    \* the name of each device object
    Proxies,                \* the proxies, by their names
    NoProxy,                \* NULL, for which an interface has its dummy
    DeviceOf, TypeOf,       \* mDeviceName and DEV_TYPE of each proxy
    Aliases, Interfaces,
    Asks,                   \* mProxyName of each interface: a proxy or an alias
    On                      \* the samples taken while the button was pressed

ASSUME ProxiesAssumption ==
    /\ NameOf \in [Devices -> DeviceNames]
    /\ NoProxy \notin Proxies /\ Devices \cap Proxies = {} /\ DeviceOf \in [Proxies -> DeviceNames]
    /\ TypeOf \in [Proxies -> Types]
    /\ Aliases \cap Proxies = {} /\ Asks \in [Interfaces -> Proxies \cup Aliases]

VARIABLES
    clusterActive,  \* ClusterManager::isClusterActive(); does not change
    mDevTable, mProxyTable, mProxyAliases,
    mStupefied, mTypedDevice,   \* of each proxy
    mData,          \* of each proxy: the sample, and for a button its state
    mNeedUpdate,    \* the devices and proxies that have it set
    mProxyPtr,      \* of each interface
    kpc,            \* where the kernel's thread is
    pos,            \* the channel it swaps next
    target,         \* the device that is being updated, or stopped
    reconfigured,   \* is this update the end of configAdd() or configRemove()?
    shown, quiet    \* what each proxy gave in the last frame, and whether nothing
                    \* has been configured since (history)

tableVars   == <<mDevTable, mProxyTable, mProxyAliases>>
proxyVars   == <<mStupefied, mTypedDevice, mData>>
stepVars    == <<pos, target, reconfigured>>
historyVars == <<shown, quiet>>
managerVars == <<tableVars, proxyVars, mNeedUpdate, mProxyPtr, kpc, stepVars,
                 historyVars, clusterActive>>

InTable == {mDevTable[n] : n \in DeviceNames} \ {NoDevice}

\* The proxies that something refers to, and the devices.
Held(p) == p \in mProxyTable \/ \E i \in Interfaces : mProxyPtr[i] = p
Referenced(o) == o \in InTable \/ \E p \in Proxies : Held(p) /\ mTypedDevice[p] = o

Running(o) == thread[o] # "none"

\* The devices whose destructor runs.
Dropped == {o \in Devices : Running(o) /\ ~Referenced(o)}

KernelAt(s) == kpc = s /\ Dropped = {}

ManagerInit ==
    /\ mDevTable = [n \in DeviceNames |-> NoDevice]
    /\ mProxyTable = {} /\ mProxyAliases = [a \in Aliases |-> NoProxy]
    /\ mStupefied = [p \in Proxies |-> TRUE]
    /\ mTypedDevice = [p \in Proxies |-> NoDevice]
    /\ mData = [p \in Proxies |-> [sample |-> 0, state |-> "OFF"]]
    /\ mNeedUpdate = Devices \cup Proxies
    /\ mProxyPtr = [i \in Interfaces |-> NoProxy]
    /\ kpc = "config" /\ pos = 1 /\ target = NoDevice /\ reconfigured = FALSE
    /\ shown = [p \in Proxies |-> "OFF"] /\ quiet = FALSE

-----------------------------------------------------------------------------
(* Lookups. *)

\* TypedProxy::refresh() finds a device of its type.
Finds(table, p) ==
    LET o == table[DeviceOf[p]]
    IN  o # NoDevice /\ HasType(o, TypeOf[p])

\* A proxy that finds none is stupefied and keeps the device it had.  Mutant: only
\* proxies without a device look for one.
refreshStupefiedProxies(table) ==
    LET looks(p) == p \in mProxyTable /\ (mStupefied[p] \/ table[DeviceOf[p]] = NoDevice)
    IN  /\ mStupefied' = [p \in Proxies |->
              IF looks(p) THEN ~Finds(table, p) ELSE mStupefied[p]]
        /\ mTypedDevice' = [p \in Proxies |->
              IF looks(p) /\ Finds(table, p) THEN table[DeviceOf[p]] ELSE mTypedDevice[p]]
refreshAllProxies(table) ==
    /\ mStupefied' = [p \in Proxies |->
          IF p \in mProxyTable THEN ~Finds(table, p) ELSE mStupefied[p]]
    /\ mTypedDevice' = [p \in Proxies |->
          IF p \in mProxyTable /\ Finds(table, p) THEN table[DeviceOf[p]]
          ELSE mTypedDevice[p]]

\* getProxy(): a proxy, or the one that an alias names.
getProxy(name) ==
    IF name \in mProxyTable THEN name
    ELSE IF name \in Aliases /\ mProxyAliases[name] \in mProxyTable
         THEN mProxyAliases[name] ELSE NoProxy

\* DigitalProxy::updateData(): the state from the state it had and the newest sample.
\* Mutant: a release shows as off at once.
ToggledWithoutRelease(old, on) ==
    IF on THEN IF old \in {"OFF", "TOGGLE_OFF"} THEN "TOGGLE_ON" ELSE "ON"
    ELSE "OFF"
Toggled(old, on) ==
    IF on THEN IF old \in {"OFF", "TOGGLE_OFF"} THEN "TOGGLE_ON" ELSE "ON"
    ELSE IF old \in {"OFF", "TOGGLE_OFF"} THEN "OFF" ELSE "TOGGLE_OFF"

DataFrom(old, n, t) ==
    [sample |-> n, state |-> IF t = "digital" THEN Toggled(old.state, n \in On) ELSE "OFF"]

\* What a proxy gives the application.
StateOf(p) == IF mStupefied[p] THEN "OFF" ELSE mData[p].state

-----------------------------------------------------------------------------
(* configAdd() and configRemove(); what succeeds is followed by an update.   *)

ConfigDone ==
    /\ kpc' = "reset" /\ reconfigured' = TRUE /\ quiet' = FALSE
    /\ UNCHANGED <<pos, shown, clusterActive>>

\* The start of the driver and addDevice(), which replaces a device of the same name.
configureDevice(o) ==
    LET table == [mDevTable EXCEPT ![NameOf[o]] = o]
    IN  /\ startSampling(o)
        /\ mDevTable' = table
        /\ refreshAllProxies(table)
        /\ UNCHANGED <<mProxyTable, mProxyAliases, mData, mNeedUpdate, mProxyPtr>>

configAddDevice(o) ==
    /\ KernelAt("config") /\ ~clusterActive
    /\ configureDevice(o)
    /\ ConfigDone /\ UNCHANGED target

\* removeDevice() stupefies the proxies and stops the device; the rest follows the join.
removeDevice(n) ==
    LET o == mDevTable[n]
    IN  /\ KernelAt("config") /\ ~clusterActive /\ o # NoDevice
        /\ mStupefied' = [p \in Proxies |->
              mStupefied[p] \/ (p \in mProxyTable /\ mTypedDevice[p] = o)]
        /\ raiseExitFlag(o)
        /\ kpc' = "stop" /\ target' = o
        /\ UNCHANGED <<tableVars, mTypedDevice, mData, mNeedUpdate, mProxyPtr, pos,
                       reconfigured, historyVars, clusterActive>>

RemoveStopped ==
    LET table == [mDevTable EXCEPT ![NameOf[target]] = NoDevice]
    IN  /\ KernelAt("stop") /\ Joined(target)
        /\ mDevTable' = table
        /\ refreshAllProxies(table)
        /\ ConfigDone /\ target' = NoDevice
        /\ UNCHANGED <<driverVars, mProxyTable, mProxyAliases, mData, mNeedUpdate,
                       mProxyPtr>>

\* A proxy is configured after its device.  It is a new object.
configureProxy(p) ==
    LET o == mDevTable[DeviceOf[p]]
    IN  /\ KernelAt("config") /\ p \notin mProxyTable
        /\ o # NoDevice
        /\ mProxyTable' = mProxyTable \cup {p}
        /\ mStupefied' = [mStupefied EXCEPT ![p] = ~Finds(mDevTable, p)]
        /\ mTypedDevice' = [mTypedDevice EXCEPT ![p] =
              IF Finds(mDevTable, p) THEN o ELSE NoDevice]
        /\ mData' = [mData EXCEPT ![p] = [sample |-> 0, state |-> "OFF"]]
        /\ mNeedUpdate' = mNeedUpdate \cup {p}
        /\ ConfigDone
        /\ UNCHANGED <<driverVars, mDevTable, mProxyAliases, mProxyPtr, target>>

\* The proxy object goes with the last interface that refers to it.
Forget(gone) ==
    /\ mStupefied' = [p \in Proxies |-> p \in gone \/ mStupefied[p]]
    /\ mTypedDevice' = [p \in Proxies |-> IF p \in gone THEN NoDevice ELSE mTypedDevice[p]]

removeProxy(p) ==
    /\ KernelAt("config") /\ p \in mProxyTable
    /\ mProxyTable' = mProxyTable \ {p}
    /\ Forget(IF \E i \in Interfaces : mProxyPtr[i] = p THEN {} ELSE {p})
    /\ ConfigDone
    /\ UNCHANGED <<driverVars, mDevTable, mProxyAliases, mData, mNeedUpdate, mProxyPtr,
                   target>>

AliasBecomes(a, p) ==
    /\ KernelAt("config")
    /\ mProxyAliases' = [mProxyAliases EXCEPT ![a] = p]
    /\ ConfigDone
    /\ UNCHANGED <<driverVars, mDevTable, mProxyTable, proxyVars, mNeedUpdate, mProxyPtr,
                   target>>

\* An alias is configured after its proxy; one that exists gets a new one.
configureProxyAlias(a, p) == p \in mProxyTable /\ AliasBecomes(a, p)
removeProxyAlias(a) == mProxyAliases[a] # NoProxy /\ AliasBecomes(a, NoProxy)

\* Every interface looks its name up again, and lets go of the proxy it had.
\* Mutant: only those that have none do.
refreshEmptyInterfaces ==
    /\ mProxyPtr' = [i \in Interfaces |->
          IF mProxyPtr[i] = NoProxy THEN getProxy(Asks[i]) ELSE mProxyPtr[i]]
    /\ UNCHANGED <<mStupefied, mTypedDevice>>
refreshAllInterfaces ==
    LET found == [i \in Interfaces |-> getProxy(Asks[i])]
    IN  /\ mProxyPtr' = found
        /\ Forget({p \in Proxies \ mProxyTable : \A i \in Interfaces : found[i] # p})

RefreshInterfaces ==
    /\ KernelAt("interfaces")
    /\ refreshAllInterfaces
    /\ kpc' = "config" /\ reconfigured' = FALSE
    /\ UNCHANGED <<driverVars, tableVars, mData, mNeedUpdate, pos, target, historyVars,
                   clusterActive>>

\* A device that nothing refers to any more is destroyed, which stops it.
DestroyDevice(o) ==
    /\ o \in Dropped /\ ~mExitFlag[o]
    /\ raiseExitFlag(o)
    /\ UNCHANGED managerVars

-----------------------------------------------------------------------------
(* The kernel's loop: the update of everything, and the frame. *)

Others == UNCHANGED <<tableVars, mStupefied, mTypedDevice, mProxyPtr, clusterActive>>

\* checkForReconfig() is over.
EndReconfig ==
    /\ KernelAt("config") /\ kpc' = "reset"
    /\ UNCHANGED <<driverVars, mData, mNeedUpdate, stepVars, historyVars>> /\ Others

\* Mutant: the proxies are not reset.
resetDevices ==
    /\ KernelAt("reset") /\ kpc' = "devices"
    /\ mNeedUpdate' = mNeedUpdate \cup InTable
    /\ UNCHANGED <<driverVars, mData, stepVars, historyVars>> /\ Others
resetAllDevicesAndProxies ==
    /\ KernelAt("reset") /\ kpc' = "devices"
    /\ mNeedUpdate' = mNeedUpdate \cup InTable \cup mProxyTable
    /\ UNCHANGED <<driverVars, mData, stepVars, historyVars>> /\ Others

\* updateAllDevices(): updateDataIfNeeded() of each, one buffer after the other.
updateDevice(o) ==
    /\ KernelAt("devices")
    /\ o \notin Polled
    /\ target = o \/ (target = NoDevice /\ o \in InTable \cap mNeedUpdate)
    /\ swapChannel(o, pos)
    /\ mNeedUpdate' = mNeedUpdate \ {o}
    /\ LET last == pos = Len(SwapOrder[o])
       IN  /\ pos' = IF last THEN 1 ELSE pos + 1
           /\ target' = IF last THEN NoDevice ELSE o
    /\ UNCHANGED <<mData, kpc, reconfigured, historyVars>> /\ Others

updatePolledDevice(o) ==
    /\ KernelAt("devices") /\ target = NoDevice
    /\ o \in Polled \cap InTable \cap mNeedUpdate
    /\ pollData(o)
    /\ mNeedUpdate' = mNeedUpdate \ {o}
    /\ UNCHANGED <<mData, kpc, stepVars, historyVars>> /\ Others

DevicesUpdated == KernelAt("devices") /\ target = NoDevice /\ InTable \cap mNeedUpdate = {}

\* In a cluster, postPostFrame() comes between the devices and the proxies of a frame.
DevicesDone ==
    /\ DevicesUpdated
    /\ kpc' = IF clusterActive /\ ~reconfigured THEN "postPostFrame" ELSE "proxies"
    /\ UNCHANGED <<driverVars, mData, mNeedUpdate, stepVars, historyVars>> /\ Others

\* Each reads the stable buffer, which only this thread touches.
updateAllProxies ==
    /\ KernelAt("proxies")
    /\ mData' = [p \in Proxies |->
          IF p \in mProxyTable \cap mNeedUpdate /\ ~mStupefied[p]
          THEN DataFrom(mData[p], getData(samples[mTypedDevice[p]][TypeOf[p]]), TypeOf[p])
          ELSE mData[p]]
    /\ mNeedUpdate' = mNeedUpdate \ mProxyTable
    /\ kpc' = IF reconfigured THEN "interfaces" ELSE "frame"
    /\ UNCHANGED <<driverVars, stepVars, historyVars>> /\ Others

\* The application has had its frame.
EndFrame ==
    /\ KernelAt("frame") /\ kpc' = "config"
    /\ shown' = [p \in Proxies |-> StateOf(p)] /\ quiet' = TRUE
    /\ UNCHANGED <<driverVars, mData, mNeedUpdate, stepVars>> /\ Others

-----------------------------------------------------------------------------
(* shutdown(): every device is stopped, and the tables are cleared. *)

shutdownDevice(o) ==
    /\ KernelAt("config") \/ (KernelAt("shutdown") /\ Joined(target))
    /\ o \in InTable /\ Running(o)
    /\ raiseExitFlag(o)
    /\ kpc' = "shutdown" /\ target' = o
    /\ UNCHANGED <<mData, mNeedUpdate, pos, reconfigured, historyVars>> /\ Others

shutdown ==
    /\ KernelAt("config") \/ (KernelAt("shutdown") /\ Joined(target))
    /\ ~\E o \in InTable : Running(o)
    /\ mDevTable' = [n \in DeviceNames |-> NoDevice] /\ mProxyTable' = {}
    /\ Forget({p \in Proxies : \A i \in Interfaces : mProxyPtr[i] # p})
    /\ kpc' = "off" /\ target' = NoDevice
    /\ UNCHANGED <<driverVars, mProxyAliases, mData, mNeedUpdate, mProxyPtr, pos,
                   reconfigured, historyVars, clusterActive>>

-----------------------------------------------------------------------------
(* Properties. *)

States == {"OFF", "ON", "TOGGLE_ON", "TOGGLE_OFF"}
Data == [sample : Nat, state : States]
Buffers == [ready : Seq(Nat), stable : Seq(Nat)]

DriversTypeOK ==
    /\ created \subseteq Devices
    /\ thread \in [Devices -> {"none", "test", "sample"}]
    /\ mExitFlag \in [Devices -> BOOLEAN]
    /\ taken \in [Devices -> Nat]
    /\ adding \in [Devices -> Nat \ {0}]
    /\ \A o \in Devices : adding[o] <= Len(Channels[o])
    /\ samples \in [Devices -> [Types -> Buffers]]

ManagerTypeOK ==
    /\ clusterActive \in BOOLEAN
    /\ mDevTable \in [DeviceNames -> Devices \cup {NoDevice}]
    /\ mProxyTable \subseteq Proxies
    /\ mProxyAliases \in [Aliases -> Proxies \cup {NoProxy}]
    /\ mStupefied \in [Proxies -> BOOLEAN]
    /\ mTypedDevice \in [Proxies -> Devices \cup {NoDevice}]
    /\ mData \in [Proxies -> Data]
    /\ mNeedUpdate \subseteq Devices \cup Proxies
    /\ mProxyPtr \in [Interfaces -> Proxies \cup {NoProxy}]
    /\ kpc \in {"config", "stop", "interfaces", "reset", "devices", "postPostFrame",
                "receive", "proxies", "frame", "shutdown", "off"}
    /\ pos \in Nat \ {0} /\ target \in Devices \cup {NoDevice}
    /\ reconfigured \in BOOLEAN
    /\ shown \in [Proxies -> States] /\ quiet \in BOOLEAN

\* However devices come, go and are replaced, a proxy that is configured refers to the
\* device that has its device's name now, and is stupefied if there is none or it is of
\* another type (refreshAllProxies(), TypedProxy::refresh()).
ProxiesFollowTable ==
    kpc # "stop" => \A p \in mProxyTable :
        /\ mStupefied[p] = ~Finds(mDevTable, p)
        /\ ~mStupefied[p] => mTypedDevice[p] = mDevTable[DeviceOf[p]]

\* In a frame every interface of the application refers to the proxy that its name
\* stands for, by itself or as an alias, or has its dummy
\* (BaseDeviceInterface::refreshAllInterfaces(), configAdd(), configRemove()).
InterfacesFollowTables ==
    kpc = "frame" => \A i \in Interfaces : mProxyPtr[i] = getProxy(Asks[i])

\* A driver whose thread runs in a frame has not been told to stop, and something can
\* still stop it: it is in the table, or it was replaced by one of another type and a
\* stupefied proxy has it (removeDevice(), addDevice(), the drivers' destructors).
RunningIsReachable ==
    kpc \in {"frame", "off"} /\ Dropped = {} => \A o \in Devices : Running(o) =>
        /\ ~mExitFlag[o]
        /\ \/ o \in InTable
           \/ \E p \in Proxies : mTypedDevice[p] = o /\ mStupefied[p]

\* In a frame a proxy gives the newest data its device was updated to, and every proxy
\* and device has been updated for the frame (updateAllDevices(), updateAllProxies()).
ProxiesShowDevices ==
    kpc = "frame" =>
        /\ mNeedUpdate \cap (InTable \cup mProxyTable) = {}
        /\ \A p \in mProxyTable : ~mStupefied[p] =>
              mData[p].sample = getData(samples[mTypedDevice[p]][TypeOf[p]])

\* Each type of data has a mutex of its own, so what a frame shows of one device may be
\* of different samples.  In the order in which updateData() swaps them a type is never
\* older than the one before, save by the one sample that the thread was adding
\* (sample() and updateData() of the drivers with several types).
AddedBefore(o, t, u) ==
    \E j, k \in 1 .. Len(Channels[o]) : j < k /\ Channels[o][j] = t /\ Channels[o][k] = u
TypesTogether ==
    kpc = "frame" => \A o \in InTable \ Polled : \A i, j \in 1 .. Len(SwapOrder[o]) :
        LET t == SwapOrder[o][i]
            u == SwapOrder[o][j]
        IN  i < j => getData(samples[o][u]) + (IF AddedBefore(o, t, u) THEN 1 ELSE 0)
                         >= getData(samples[o][t])

\* In every frame the four states of a button tell whether it is pressed.  They tell as
\* well what changed since the last frame, as long as no element was configured between
\* the two: the update that ends configAdd() and configRemove() is one the application
\* does not see (DigitalProxy::updateData()).
StatesFollowFrames ==
    kpc = "frame" => \A p \in mProxyTable : TypeOf[p] = "digital" =>
        /\ ~mStupefied[p] =>
              (StateOf(p) \in {"ON", "TOGGLE_ON"}
                  <=> getData(samples[mTypedDevice[p]]["digital"]) \in On)
        /\ quiet => (StateOf(p) \in {"ON", "TOGGLE_OFF"} <=> shown[p] \in {"ON", "TOGGLE_ON"})

\* How many samples of a type sample() has added.
Added(o, t) ==
    IF thread[o] = "sample" /\ \E k \in adding[o] .. Len(Channels[o]) : Channels[o][k] = t
    THEN taken[o] - 1 ELSE taken[o]

\* What an application sees of the devices is what Input::updateData() promises.
Units == UNION {{<<o, Channels[o][k]>> : k \in DOMAIN Channels[o]} : o \in Devices}
Updated(o, t) ==
    /\ kpc \in {"devices", "postPostFrame", "receive", "proxies", "interfaces", "frame"}
    /\ o \in InTable \ mNeedUpdate
    /\ target = o => \E k \in 1 .. pos - 1 : SwapOrder[o][k] = t

Phase == IF kpc = "frame" THEN "frame" ELSE "update"
Live == {u \in Units : u[1] \in InTable}
Fresh == {u \in Units : Updated(u[1], u[2])}
Published == [u \in Units |-> Added(u[1], u[2])]
Displayed == [u \in Units |-> getData(samples[u[1]][u[2]])]

Promise == INSTANCE InputFrames WITH phase <- Phase, live <- Live, fresh <- Fresh,
                                     published <- Published, shown <- Displayed

\* Data that a frame shows are the newest there were at the update and do not change
\* during the frame, whatever the sampling threads add (Input.h: updateData()).
ImplementsInputFrames == Promise!Spec
=============================================================================
