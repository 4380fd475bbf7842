---------------------------- MODULE RemoteInput ----------------------------
(***************************************************************************)
(* Input on one node, and in a cluster of a master that has the devices    *)
(* and a slave that is sent their data.                                    *)
(*                                                                         *)
(* The master's side is InputManager.  Its remote input plug-in makes a    *)
(* device server of each device it configures, tells the slave to make a   *)
(* virtual device, and sends the stable samples in every postPostFrame().  *)
(* The link is a connection of ClusterNetwork: what is sent arrives, in    *)
(* order.  The configuration of a cluster is loaded when it starts and     *)
(* does not change; the slave has the same proxies as the master.          *)
(***************************************************************************)
EXTENDS InputManager

CONSTANT Modes      \* the values of clusterActive

ASSUME ModesAssumption == Modes \subseteq BOOLEAN

VARIABLES
    loading,        \* is the master in its first checkForReconfig()?
    mDeviceServers, \* the devices that have a device server
    link,           \* what the slave has not received yet
    ends,           \* the end blocks of the slave the master has not received yet
    rpc,            \* where the slave's kernel thread is
    mVirtualDevices,    \* the device servers the slave has a virtual device for
    remoteTable,    \* the slave's mDevTable; a virtual device is named like its server
    remoteSamples,  \* the buffers of the virtual devices
    remoteData,     \* mData of the slave's proxies
    frame, remoteFrame  \* the frame of each node: 0, 1, and then 2 and 3 in turn

slaveVars == <<rpc, mVirtualDevices, remoteTable, remoteSamples, remoteData, remoteFrame>>
pluginVars == <<mDeviceServers, link, ends, slaveVars>>
vars == <<driverVars, managerVars, loading, frame, pluginVars>>

NextFrame(f) == IF f = 3 THEN 2 ELSE f + 1

Init ==
    /\ DriversInit /\ ManagerInit
    /\ clusterActive \in Modes
    /\ loading = TRUE
    /\ mDeviceServers = <<>> /\ link = <<>> /\ ends = 0
    /\ rpc = "frame" /\ mVirtualDevices = {}
    /\ remoteTable = [n \in DeviceNames |-> NoDevice]
    /\ remoteSamples = [o \in Devices |-> [t \in Types |-> EmptyBuffer]]
    /\ remoteData = [p \in Proxies |-> [sample |-> 0, state |-> "OFF"]]
    /\ frame = 0 /\ remoteFrame = 0

NoSamples == [t \in Types |-> <<>>]
ACK(o)        == [type |-> "RIM_DEVICE_ACK", id |-> o, data |-> NoSamples]
DATA(o, data) == [type |-> "RIM_DATA_PACKET", id |-> o, data |-> data]
END           == [type |-> "END_BLOCK", id |-> NoDevice, data |-> NoSamples]

\* What is in the stable buffers of a device, as writeObject() writes it.
\* Mutant: it writes the ready buffers.
writeReadyObject(o) == [t \in Types |-> samples[o][t].ready]
writeObject(o) == [t \in Types |-> samples[o][t].stable]

-----------------------------------------------------------------------------
(* The master. *)

\* configAdd() of the plug-in.  A cluster's configuration names a device once.
pluginConfigAdd(o) ==
    /\ KernelAt("config") /\ clusterActive /\ loading
    /\ mDevTable[NameOf[o]] = NoDevice
    /\ configureDevice(o)
    /\ mDeviceServers' = Append(mDeviceServers, o)
    /\ link' = Append(link, ACK(o))
    /\ quiet' = FALSE
    /\ UNCHANGED <<kpc, stepVars, shown, clusterActive, loading, frame, ends, slaveVars>>

\* The data of every device server, and then the end of the block.
postPostFrame ==
    /\ KernelAt("postPostFrame") /\ kpc' = "receive"
    /\ link' = link \o [i \in DOMAIN mDeviceServers |->
                           DATA(mDeviceServers[i], writeObject(mDeviceServers[i]))]
                    \o <<END>>
    /\ UNCHANGED <<driverVars, mData, mNeedUpdate, stepVars, historyVars, loading, frame,
                   mDeviceServers, ends, slaveVars>>
    /\ Others

receiveEnd ==
    /\ KernelAt("receive") /\ ends > 0
    /\ ends' = ends - 1 /\ kpc' = "proxies"
    /\ UNCHANGED <<driverVars, mData, mNeedUpdate, stepVars, historyVars, loading, frame,
                   mDeviceServers, link, slaveVars>>
    /\ Others

\* The steps of the input manager.  Nothing is removed in a cluster, and nothing added
\* twice.
Removes ==
    \/ \E n \in DeviceNames : removeDevice(n)
    \/ \E p \in Proxies : removeProxy(p)
    \/ \E a \in Aliases : removeProxyAlias(a)

Adds ==
    \/ \E o \in Devices : configAddDevice(o)
    \/ \E p \in Proxies : configureProxy(p)
    \/ \E a \in Aliases, p \in Proxies :
          (clusterActive => mProxyAliases[a] = NoProxy) /\ configureProxyAlias(a, p)

Configures ==
    /\ \/ (clusterActive => loading) /\ Adds
       \/ ~clusterActive /\ Removes
    /\ UNCHANGED <<loading, frame, pluginVars>>

StartsUpdate == EndReconfig /\ loading' = FALSE /\ UNCHANGED <<frame, pluginVars>>

Updates ==
    /\ \/ RemoveStopped \/ RefreshInterfaces \/ \E o \in Devices : DestroyDevice(o)
       \/ resetAllDevicesAndProxies \/ DevicesDone
       \/ \E o \in Devices : updateDevice(o) \/ updatePolledDevice(o)
       \/ EndFrame
    /\ UNCHANGED <<loading, frame, pluginVars>>

UpdatesProxies ==
    /\ updateAllProxies
    /\ frame' = IF reconfigured \/ ~clusterActive THEN frame ELSE NextFrame(frame)
    /\ UNCHANGED <<loading, pluginVars>>

ShutsDown ==
    /\ ~clusterActive
    /\ shutdown \/ \E o \in Devices : shutdownDevice(o)
    /\ UNCHANGED <<loading, frame, pluginVars>>

Samples(o) ==
    /\ Sampling(o)
    /\ UNCHANGED <<managerVars, loading, frame, pluginVars>>

-----------------------------------------------------------------------------
(* The slave. *)

\* Its virtual devices have nothing to update, and its plug-in nothing to send.
remotePostPostFrame ==
    /\ clusterActive /\ rpc = "frame" /\ rpc' = "receive"
    /\ ends' = ends + 1
    /\ UNCHANGED <<mDeviceServers, link, mVirtualDevices, remoteTable, remoteSamples,
                   remoteData, remoteFrame>>

Receives(type) == rpc = "receive" /\ link # <<>> /\ Head(link).type = type

\* A second device of a name is refused.
handleDeviceAck ==
    LET o == Head(link).id
    IN  /\ Receives("RIM_DEVICE_ACK")
        /\ link' = Tail(link)
        /\ IF \E v \in mVirtualDevices : NameOf[v] = NameOf[o]
           THEN UNCHANGED <<mVirtualDevices, remoteTable>>
           ELSE /\ mVirtualDevices' = mVirtualDevices \cup {o}
                /\ remoteTable' = [remoteTable EXCEPT ![NameOf[o]] = o]
        /\ UNCHANGED <<mDeviceServers, ends, rpc, remoteSamples, remoteData, remoteFrame>>

\* Data of a device the slave has not heard of are thrown away.
handleDataPacket ==
    LET m == Head(link)
    IN  /\ Receives("RIM_DATA_PACKET")
        /\ link' = Tail(link)
        /\ remoteSamples' = IF m.id \notin mVirtualDevices THEN remoteSamples
              ELSE [remoteSamples EXCEPT ![m.id] = [t \in Types |->
                       readObject(remoteSamples[m.id][t], m.data[t])]]
        /\ UNCHANGED <<mDeviceServers, ends, rpc, mVirtualDevices, remoteTable, remoteData,
                       remoteFrame>>

handleEndBlock ==
    /\ Receives("END_BLOCK")
    /\ link' = Tail(link) /\ rpc' = "proxies"
    /\ UNCHANGED <<mDeviceServers, ends, mVirtualDevices, remoteTable, remoteSamples,
                   remoteData, remoteFrame>>

\* The frame of the slave follows at once.
remoteUpdateAllProxies ==
    /\ rpc = "proxies" /\ rpc' = "frame"
    /\ remoteFrame' = NextFrame(remoteFrame)
    /\ remoteData' = [p \in Proxies |->
          IF Finds(remoteTable, p)
          THEN DataFrom(remoteData[p],
                        getData(remoteSamples[remoteTable[DeviceOf[p]]][TypeOf[p]]), TypeOf[p])
          ELSE remoteData[p]]
    /\ UNCHANGED <<mDeviceServers, link, ends, mVirtualDevices, remoteTable, remoteSamples>>

Slave ==
    /\ \/ remotePostPostFrame \/ handleDeviceAck \/ handleDataPacket \/ handleEndBlock
       \/ remoteUpdateAllProxies
    /\ UNCHANGED <<driverVars, managerVars, loading, frame>>

-----------------------------------------------------------------------------
Kernel == StartsUpdate \/ Updates \/ UpdatesProxies \/ ShutsDown
          \/ postPostFrame \/ receiveEnd

Next == Configures \/ (\E o \in Devices : pluginConfigAdd(o)) \/ Kernel
        \/ (\E o \in Devices : Samples(o)) \/ Slave

\* Nothing stops a thread for good, whereas no one has to change the configuration.
Fairness ==
    /\ WF_vars(Kernel) /\ WF_vars(Slave)
    /\ \A o \in Devices : WF_vars(Samples(o))

Spec == Init /\ [][Next]_vars /\ Fairness

-----------------------------------------------------------------------------
(* Properties. *)

Messages ==
    [type : {"RIM_DEVICE_ACK", "RIM_DATA_PACKET"}, id : Devices, data : [Types -> Seq(Nat)]]
    \cup [type : {"END_BLOCK"}, id : {NoDevice}, data : [Types -> Seq(Nat)]]

PluginTypeOK ==
    /\ loading \in BOOLEAN
    /\ mDeviceServers \in Seq(Devices)
    /\ link \in Seq(Messages) /\ ends \in Nat
    /\ rpc \in {"frame", "receive", "proxies"}
    /\ mVirtualDevices \subseteq Devices
    /\ remoteTable \in [DeviceNames -> Devices \cup {NoDevice}]
    /\ remoteSamples \in [Devices -> [Types -> Buffers]]
    /\ remoteData \in [Proxies -> Data]
    /\ frame \in 0 .. 3 /\ remoteFrame \in 0 .. 3

\* Every variable has a value of its type.
TypeOK == DriversTypeOK /\ ManagerTypeOK /\ PluginTypeOK

\* While both nodes are in the same frame, their proxies have the same data: the same
\* sample, and from the second frame on the same state of a button.  In the first one
\* the master's proxies have seen the updates of its configuration, which the slave's
\* have not (RIMPlugin::postPostFrame(), handlePacket()).
SameInput ==
    clusterActive /\ kpc = "frame" /\ rpc = "frame" /\ frame = remoteFrame =>
        \A p \in mProxyTable :
            /\ Finds(remoteTable, p) = ~mStupefied[p]
            /\ ~mStupefied[p] =>
                  /\ remoteData[p].sample = mData[p].sample
                  /\ frame > 1 => remoteData[p].state = mData[p].state

\* The kernel's thread gets on: whatever it stops or destroys does stop, and the
\* exchange with the other node ends (stopSampling() of the drivers, shutdown()).
Waits == kpc \in {"stop", "shutdown", "receive"} \/ Dropped # {}
StopsReturn == []<>~Waits

\* A device that gives no more samples, for a while, has all of them shown, or removed
\* with it; in a cluster the slave shows them as well (SampleBuffer, updateAllDevices(),
\* DeviceServer).
Shown(o, t) ==
    /\ getData(samples[o][t]) = Added(o, t)
    /\ clusterActive => getData(remoteSamples[o][t]) = Added(o, t)
SamplesAreShown == []<>(\A u \in Units : u[1] \in InTable => Shown(u[1], u[2]))
=============================================================================
