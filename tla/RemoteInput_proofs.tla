-------------------------- MODULE RemoteInput_proofs --------------------------
(***************************************************************************)
(* Proofs about RemoteInput, for any devices, proxies, aliases and         *)
(* interfaces.                                                             *)
(***************************************************************************)
EXTENDS RemoteInput, SequenceLemmas

-----------------------------------------------------------------------------
(* The buffers. *)

\* What addSample() does to a buffer.
LEMMA AddSample ==
  ASSUME NEW b \in Buffers, NEW n \in Nat
  PROVE  /\ addSample(b, n) \in Buffers
         /\ addSample(b, n).ready # <<>>
         /\ addSample(b, n).ready[Len(addSample(b, n).ready)] = n
         /\ addSample(b, n).stable = b.stable
<1> DEFINE q == Append(b.ready, n)
<1>1. b.ready \in Seq(Nat) /\ b.stable \in Seq(Nat) /\ MAX_BUFFER_SIZE \in Nat \ {0}
  BY BufferAssumption DEF Buffers
<1>2. q \in Seq(Nat) /\ Len(q) \in Nat \ {0} /\ q[Len(q)] = n
  BY <1>1
<1>3. addSample(b, n) = [ready |-> Kept(q), stable |-> b.stable]
  BY DEF addSample, Buffers
<1> HIDE DEF q
<1>4. Kept(q) \in Seq(Nat) /\ Kept(q) # <<>> /\ Kept(q)[Len(Kept(q))] = n
  <2>1. CASE Len(q) > MAX_BUFFER_SIZE
    <3> DEFINE k == Len(q) - MAX_BUFFER_SIZE + 1
    <3>1. Kept(q) = SubSeq(q, k, Len(q)) /\ k \in 1 .. Len(q)
      BY <1>1, <1>2, <2>1 DEF Kept
    <3> HIDE DEF k
    <3>2. /\ Kept(q) \in Seq(Nat) /\ Len(Kept(q)) = Len(q) - k + 1
          /\ \A i \in 1 .. Len(q) - k + 1 : Kept(q)[i] = q[k + i - 1]
      BY <1>2, <3>1, SuffixProperties
    <3>3. Len(q) - k + 1 \in 1 .. Len(q) - k + 1 /\ k + (Len(q) - k + 1) - 1 = Len(q)
      BY <1>2, <3>1
    <3>4. Kept(q)[Len(Kept(q))] = n
      BY <1>2, <3>2, <3>3
    <3>5. Len(Kept(q)) \in Nat \ {0}
      BY <1>2, <3>1, <3>2
    <3>6. Kept(q) # <<>>
      BY <3>5
    <3> QED BY <3>2, <3>4, <3>6
  <2>2. CASE ~(Len(q) > MAX_BUFFER_SIZE)
    BY <1>2, <2>2 DEF Kept
  <2> QED BY <2>1, <2>2
<1> QED BY <1>1, <1>3, <1>4 DEF Buffers

\* The newest sample of a buffer: that of the ready buffer, if it has any.
Latest(b) == IF b.ready # <<>> THEN b.ready[Len(b.ready)] ELSE getData(b)

\* What swapBuffers() shows is the newest sample, and nothing is newer then.
LEMMA SwapBuffers ==
  ASSUME NEW b \in Buffers
  PROVE  /\ swapBuffers(b) \in Buffers
         /\ getData(swapBuffers(b)) = Latest(b)
         /\ Latest(swapBuffers(b)) = Latest(b)
         /\ getData(b) \in Nat /\ Latest(b) \in Nat
<1>1. b.ready \in Seq(Nat) /\ b.stable \in Seq(Nat)
  BY DEF Buffers
<1>2. CASE b.ready = <<>>
  BY <1>1, <1>2 DEF swapBuffers, Latest, getData, Buffers
<1>3. CASE b.ready # <<>>
  <2>1. swapBuffers(b) = [ready |-> <<>>, stable |-> b.ready]
    BY <1>3 DEF swapBuffers
  <2>2. Len(b.ready) > 0 /\ b.ready[Len(b.ready)] \in Nat
    BY <1>1, <1>3
  <2>3. b.stable # <<>> => b.stable[Len(b.stable)] \in Nat
    BY <1>1
  <2> QED BY <1>1, <1>3, <2>1, <2>2, <2>3 DEF Latest, getData, Buffers
<1> QED BY <1>2, <1>3

\* readObject() makes the samples of the other node the newest, if there are any.
LEMMA ReadObject ==
  ASSUME NEW b \in Buffers, NEW data \in Seq(Nat)
  PROVE  readObject(b, data) \in Buffers
<1>1. b.ready \in Seq(Nat) /\ b.stable \in Seq(Nat) /\ MAX_BUFFER_SIZE \in Nat \ {0}
  BY BufferAssumption DEF Buffers
<1> DEFINE q == b.ready \o data
<1>2. q \in Seq(Nat) /\ Len(q) \in Nat
  BY <1>1
<1> HIDE DEF q
<1>3. Kept(q) \in Seq(Nat)
  <2>1. CASE Len(q) > MAX_BUFFER_SIZE
    <3> DEFINE k == Len(q) - MAX_BUFFER_SIZE + 1
    <3>1. Kept(q) = SubSeq(q, k, Len(q)) /\ k \in 1 .. Len(q)
      BY <1>1, <1>2, <2>1 DEF Kept
    <3> HIDE DEF k
    <3> QED BY <1>2, <3>1, SuffixProperties
  <2>2. CASE ~(Len(q) > MAX_BUFFER_SIZE)
    BY <1>2, <2>2 DEF Kept
  <2> QED BY <2>1, <2>2
<1>4. [b EXCEPT !.ready = Kept(q)] \in Buffers
  BY <1>1, <1>3 DEF Buffers
<1> QED BY <1>4, SwapBuffers DEF readObject, q

-----------------------------------------------------------------------------
(* Types. *)

\* What the steps do to the drivers.
DriverStep ==
    \/ UNCHANGED driverVars
    \/ \E o \in Devices : Sampling(o) \/ startSampling(o) \/ raiseExitFlag(o)
    \/ \E o \in Devices : swapChannel(o, pos) \/ (o \in Polled /\ pollData(o))

\* Only the device of an action is touched by it.
LEMMA DriverSteps == TypeOK /\ Next => DriverStep
<1> SUFFICES ASSUME TypeOK, Next PROVE DriverStep
  OBVIOUS
<1>1. CASE Configures
  <2>1. CASE \E o \in Devices : configAddDevice(o)
    BY <2>1 DEF configAddDevice, configureDevice, DriverStep
  <2>2. CASE \E n \in DeviceNames : removeDevice(n)
    BY <2>2 DEF removeDevice, DriverStep, TypeOK, ManagerTypeOK
  <2>3. CASE \E p \in Proxies : configureProxy(p) \/ removeProxy(p)
    BY <2>3 DEF configureProxy, removeProxy, DriverStep, driverVars
  <2>4. CASE \/ \E a \in Aliases, p \in Proxies : configureProxyAlias(a, p)
             \/ \E a \in Aliases : removeProxyAlias(a)
    BY <2>4 DEF configureProxyAlias, removeProxyAlias, AliasBecomes, DriverStep, driverVars
  <2> QED BY <1>1, <2>1, <2>2, <2>3, <2>4 DEF Configures, Adds, Removes
<1>2. CASE \E o \in Devices : pluginConfigAdd(o)
  BY <1>2 DEF pluginConfigAdd, configureDevice, DriverStep
<1>3. CASE StartsUpdate \/ UpdatesProxies \/ postPostFrame \/ receiveEnd
  BY <1>3 DEF StartsUpdate, EndReconfig, UpdatesProxies, updateAllProxies, postPostFrame,
              receiveEnd, DriverStep, driverVars
<1>4. CASE Updates
  <2>1. CASE RemoveStopped \/ RefreshInterfaces \/ resetAllDevicesAndProxies \/ DevicesDone
             \/ EndFrame
    BY <2>1 DEF RemoveStopped, RefreshInterfaces, resetAllDevicesAndProxies, DevicesDone,
                EndFrame, DriverStep, driverVars
  <2>2. CASE \E o \in Devices : DestroyDevice(o) \/ updateDevice(o) \/ updatePolledDevice(o)
    BY <2>2 DEF DestroyDevice, updateDevice, updatePolledDevice, DriverStep
  <2> QED BY <1>4, <2>1, <2>2 DEF Updates
<1>5. CASE ShutsDown
  BY <1>5 DEF ShutsDown, shutdown, shutdownDevice, DriverStep, driverVars
<1>6. CASE \E o \in Devices : Samples(o)
  BY <1>6 DEF Samples, DriverStep
<1>7. CASE Slave
  BY <1>7 DEF Slave, DriverStep, driverVars
<1> QED BY <1>1, <1>2, <1>3, <1>4, <1>5, <1>6, <1>7 DEF Next, Kernel

\* The drivers' variables keep their types.
LEMMA DriversType == DriversTypeOK /\ DriverStep => DriversTypeOK'
<1> SUFFICES ASSUME DriversTypeOK, DriverStep PROVE DriversTypeOK'
  OBVIOUS
<1> USE DevicesAssumption DEF DriversTypeOK
<1>1. CASE UNCHANGED driverVars
  BY <1>1 DEF driverVars
<1>2. ASSUME NEW o \in Devices, controlLoopExits(o) PROVE DriversTypeOK'
  BY <1>2 DEF controlLoopExits
<1>3. ASSUME NEW o \in Devices, sample(o) PROVE DriversTypeOK'
  BY <1>3 DEF sample
<1>4. ASSUME NEW o \in Devices, addDeviceSample(o) PROVE DriversTypeOK'
  <2> DEFINE t == Channels[o][adding[o]]
  <2>1. Channels[o] \in Seq(Types) /\ Len(Channels[o]) \in Nat /\ adding[o] \in 1 .. Len(Channels[o])
    OBVIOUS
  <2>2. t \in Types
    BY <2>1
  <2>3. addSample(samples[o][t], taken[o]) \in Buffers
    BY <2>2, AddSample
  <2>4. samples' \in [Devices -> [Types -> Buffers]]
    BY <1>4, <2>3 DEF addDeviceSample
  <2>5. adding' \in [Devices -> Nat \ {0}] /\ \A d \in Devices : adding'[d] <= Len(Channels[d])
    BY <1>4, <2>1 DEF addDeviceSample
  <2>6. UNCHANGED <<created, mExitFlag, taken>> /\ thread' \in [Devices -> {"none", "test", "sample"}]
    BY <1>4 DEF addDeviceSample
  <2> QED BY <2>4, <2>5, <2>6
<1>5. ASSUME NEW o \in Devices, startSampling(o) \/ raiseExitFlag(o) PROVE DriversTypeOK'
  BY <1>5 DEF startSampling, raiseExitFlag
<1>6. ASSUME NEW o \in Devices, swapChannel(o, pos) PROVE DriversTypeOK'
  <2>1. \A t \in Types : swapBuffers(samples[o][t]) \in Buffers
    BY SwapBuffers
  <2> QED BY <1>6, <2>1 DEF swapChannel
<1>7. ASSUME NEW o \in Devices, pollData(o) PROVE DriversTypeOK'
  <2>1. PICK n \in {taken[o], taken[o] + 1} \cap (0 .. MaxSamples[o]) :
          /\ taken' = [taken EXCEPT ![o] = n]
          /\ samples' = [samples EXCEPT ![o] = [t \in Types |->
                IF HasType(o, t) THEN swapBuffers(addSample(@[t], n)) ELSE @[t]]]
    BY <1>7, Zenon DEF pollData
  <2>2. \A t \in Types : swapBuffers(addSample(samples[o][t], n)) \in Buffers
    BY AddSample, SwapBuffers
  <2> QED BY <1>7, <2>1, <2>2 DEF pollData
<1> QED BY <1>1, <1>2, <1>3, <1>4, <1>5, <1>6, <1>7 DEF DriverStep, Sampling

\* What a proxy reads is a sample and a state.
LEMMA ProxyData ==
  ASSUME NEW old \in Data, NEW n \in Nat, NEW t
  PROVE  DataFrom(old, n, t) \in Data
BY DEF DataFrom, Data, Toggled, States

\* A lookup finds a proxy, or none.
LEMMA Lookup ==
  ASSUME ManagerTypeOK, NEW name \in Proxies \cup Aliases
  PROVE  /\ getProxy(name) \in Proxies \cup {NoProxy}
         /\ getProxy(name) # NoProxy => getProxy(name) \in mProxyTable
BY ProxiesAssumption DEF ManagerTypeOK, getProxy

\* A proxy that is not stupefied has a device.
TypedInv == \A p \in Proxies : ~mStupefied[p] => mTypedDevice[p] # NoDevice

\* The input manager's variables keep their types.
LEMMA ManagersType == TypeOK /\ TypedInv /\ Next => (ManagerTypeOK /\ TypedInv)'
<1> SUFFICES ASSUME TypeOK, TypedInv, Next PROVE (ManagerTypeOK /\ TypedInv)'
  OBVIOUS
<1> USE ProxiesAssumption, DevicesAssumption
    DEF TypeOK, ManagerTypeOK, TypedInv, tableVars, proxyVars, stepVars, historyVars, managerVars, Others
<1>1. ASSUME NEW o \in Devices, configureDevice(o) PROVE
        /\ mDevTable' \in [DeviceNames -> Devices \cup {NoDevice}]
        /\ mStupefied' \in [Proxies -> BOOLEAN]
        /\ mTypedDevice' \in [Proxies -> Devices \cup {NoDevice}]
        /\ TypedInv'
        /\ UNCHANGED <<mProxyTable, mProxyAliases, mData, mNeedUpdate, mProxyPtr>>
  BY <1>1 DEF configureDevice, refreshAllProxies, Finds
<1>2. ASSUME NEW o \in Devices, configAddDevice(o) PROVE (ManagerTypeOK /\ TypedInv)'
  BY <1>1, <1>2 DEF configAddDevice, ConfigDone
<1>3. ASSUME NEW p \in Proxies, configureProxy(p) PROVE (ManagerTypeOK /\ TypedInv)'
  BY <1>3 DEF configureProxy, ConfigDone, Finds, Data, States
<1>4. ASSUME NEW a \in Aliases, NEW p \in Proxies, configureProxyAlias(a, p)
      PROVE  (ManagerTypeOK /\ TypedInv)'
  BY <1>4 DEF configureProxyAlias, AliasBecomes, ConfigDone
<1>5. ASSUME NEW n \in DeviceNames, removeDevice(n) PROVE (ManagerTypeOK /\ TypedInv)'
  BY <1>5 DEF removeDevice
<1>6. ASSUME NEW p \in Proxies, removeProxy(p) PROVE (ManagerTypeOK /\ TypedInv)'
  BY <1>6 DEF removeProxy, Forget, ConfigDone
<1>7. ASSUME NEW a \in Aliases, removeProxyAlias(a) PROVE (ManagerTypeOK /\ TypedInv)'
  BY <1>7 DEF removeProxyAlias, AliasBecomes, ConfigDone
<1>8. ASSUME NEW o \in Devices, pluginConfigAdd(o) PROVE (ManagerTypeOK /\ TypedInv)'
  BY <1>1, <1>8 DEF pluginConfigAdd
<1>9. CASE StartsUpdate
  BY <1>9 DEF StartsUpdate, EndReconfig
<1>10. CASE RemoveStopped
  BY <1>10 DEF RemoveStopped, refreshAllProxies, Finds, ConfigDone
<1>11. CASE RefreshInterfaces
  <2>1. \A i \in Interfaces : getProxy(Asks[i]) \in Proxies \cup {NoProxy}
    BY Lookup
  <2> QED BY <1>11, <2>1 DEF RefreshInterfaces, refreshAllInterfaces, Forget
<1>12. ASSUME NEW o \in Devices, DestroyDevice(o) PROVE (ManagerTypeOK /\ TypedInv)'
  BY <1>12 DEF DestroyDevice
<1>13. CASE resetAllDevicesAndProxies
  BY <1>13 DEF resetAllDevicesAndProxies, InTable
<1>14. CASE DevicesDone
  BY <1>14 DEF DevicesDone
<1>15. ASSUME NEW o \in Devices, updateDevice(o) PROVE (ManagerTypeOK /\ TypedInv)'
  BY <1>15 DEF updateDevice
<1>16. ASSUME NEW o \in Devices, updatePolledDevice(o) PROVE (ManagerTypeOK /\ TypedInv)'
  BY <1>16 DEF updatePolledDevice
<1>17. CASE EndFrame
  BY <1>17 DEF EndFrame, StateOf, Data, States
<1>18. CASE updateAllProxies
  <2>1. \A p \in Proxies : ~mStupefied[p] =>
           DataFrom(mData[p], getData(samples[mTypedDevice[p]][TypeOf[p]]), TypeOf[p]) \in Data
    BY SwapBuffers, ProxyData DEF DriversTypeOK
  <2> QED BY <1>18, <2>1 DEF updateAllProxies
<1>19. CASE shutdown
  BY <1>19 DEF shutdown, Forget
<1>20. ASSUME NEW o \in Devices, shutdownDevice(o) PROVE (ManagerTypeOK /\ TypedInv)'
  BY <1>20 DEF shutdownDevice
<1>21. CASE postPostFrame \/ receiveEnd
  BY <1>21 DEF postPostFrame, receiveEnd
<1>22. CASE Slave \/ \E o \in Devices : Samples(o)
  BY <1>22 DEF Slave, Samples
<1> QED BY <1>2, <1>3, <1>4, <1>5, <1>6, <1>7, <1>8, <1>9, <1>10, <1>11, <1>12, <1>13,
           <1>14, <1>15, <1>16, <1>17, <1>18, <1>19, <1>20, <1>21, <1>22
        DEF Next, Kernel, Configures, Adds, Removes, Updates, UpdatesProxies, ShutsDown

\* What the nodes send each other are messages.
LEMMA MessageTypes ==
  /\ END \in Messages
  /\ \A o \in Devices : ACK(o) \in Messages
  /\ \A o \in Devices, data \in [Types -> Seq(Nat)] : DATA(o, data) \in Messages
BY DEF END, ACK, DATA, NoSamples, Messages

\* The variables of the plug-in and of the slave keep their types.
LEMMA PluginsType == TypeOK /\ Next => PluginTypeOK'
<1> SUFFICES ASSUME TypeOK, Next PROVE PluginTypeOK'
  OBVIOUS
<1> USE DEF TypeOK, PluginTypeOK, slaveVars, pluginVars
<1>1. CASE Configures \/ StartsUpdate \/ Updates \/ ShutsDown \/ UpdatesProxies
           \/ \E o \in Devices : Samples(o)
  <2>1. UNCHANGED pluginVars /\ loading' \in BOOLEAN
    BY <1>1 DEF Configures, StartsUpdate, Updates, UpdatesProxies, ShutsDown, Samples
  <2>2. NextFrame(frame) \in 0 .. 3
    BY DEF NextFrame
  <2>3. frame' \in {frame, NextFrame(frame)}
    BY <1>1 DEF Configures, StartsUpdate, Updates, UpdatesProxies, ShutsDown, Samples
  <2> QED BY <2>1, <2>2, <2>3
<1>2. ASSUME NEW o \in Devices, pluginConfigAdd(o) PROVE PluginTypeOK'
  BY <1>2, MessageTypes DEF pluginConfigAdd
<1>3. CASE postPostFrame
  <2> DEFINE data == [i \in DOMAIN mDeviceServers |->
                         DATA(mDeviceServers[i], writeObject(mDeviceServers[i]))]
  <2>1. \A o \in Devices : writeObject(o) \in [Types -> Seq(Nat)]
    BY DEF writeObject, DriversTypeOK, Buffers
  <2>2. DOMAIN mDeviceServers = 1 .. Len(mDeviceServers) /\ Len(mDeviceServers) \in Nat
    OBVIOUS
  <2>3. \A i \in 1 .. Len(mDeviceServers) : mDeviceServers[i] \in Devices
    OBVIOUS
  <2>4. data \in [1 .. Len(mDeviceServers) -> Messages]
    BY <2>1, <2>2, <2>3, MessageTypes
  <2>5. data \in Seq(Messages)
    BY <2>2, <2>4, SeqDef
  <2>6. link' = link \o data \o <<END>>
    BY <1>3 DEF postPostFrame
  <2> HIDE DEF data
  <2>7. link' \in Seq(Messages)
    BY <2>5, <2>6, MessageTypes
  <2> QED BY <1>3, <2>7 DEF postPostFrame
<1>4. CASE receiveEnd
  BY <1>4 DEF receiveEnd
<1>5. CASE remotePostPostFrame /\ UNCHANGED <<loading, frame>>
  BY <1>5 DEF remotePostPostFrame
<1>6. CASE handleDeviceAck /\ UNCHANGED <<loading, frame>>
  <2>1. Head(link) \in Messages /\ Tail(link) \in Seq(Messages)
    BY <1>6 DEF handleDeviceAck, Receives
  <2>2. Head(link).id \in Devices
    BY <1>6, <2>1 DEF handleDeviceAck, Receives, Messages
  <2> QED BY <1>6, <2>1, <2>2 DEF handleDeviceAck
<1>7. CASE handleDataPacket /\ UNCHANGED <<loading, frame>>
  <2>1. Head(link) \in Messages /\ Tail(link) \in Seq(Messages)
    BY <1>7 DEF handleDataPacket, Receives
  <2>2. Head(link).id \in Devices /\ Head(link).data \in [Types -> Seq(Nat)]
    BY <1>7, <2>1 DEF handleDataPacket, Receives, Messages
  <2>3. \A t \in Types : readObject(remoteSamples[Head(link).id][t], Head(link).data[t]) \in Buffers
    BY <2>2, ReadObject
  <2>4. remoteSamples' \in [Devices -> [Types -> Buffers]]
    BY <1>7, <2>2, <2>3 DEF handleDataPacket
  <2> QED BY <1>7, <2>1, <2>4 DEF handleDataPacket
<1>8. CASE handleEndBlock /\ UNCHANGED <<loading, frame>>
  BY <1>8 DEF handleEndBlock, Receives
<1>9. CASE remoteUpdateAllProxies /\ UNCHANGED <<loading, frame>>
  <2>1. \A p \in Proxies : Finds(remoteTable, p) =>
           DataFrom(remoteData[p],
                    getData(remoteSamples[remoteTable[DeviceOf[p]]][TypeOf[p]]), TypeOf[p]) \in Data
    BY ProxiesAssumption, SwapBuffers, ProxyData DEF Finds
  <2> QED BY <1>9, <2>1 DEF remoteUpdateAllProxies, NextFrame
<1> QED BY <1>1, <1>2, <1>3, <1>4, <1>5, <1>6, <1>7, <1>8, <1>9 DEF Next, Kernel, Slave

\* The nodes start with values of their types.
LEMMA InitTypes == Init => TypeOK /\ TypedInv
<1> SUFFICES ASSUME Init PROVE TypeOK /\ TypedInv
  OBVIOUS
<1>1. EmptyBuffer \in Buffers
  BY DEF EmptyBuffer, Buffers
<1>2. DriversTypeOK
  BY <1>1, DevicesAssumption DEF Init, DriversInit, DriversTypeOK
<1>3. ManagerTypeOK /\ TypedInv
  <2>1. clusterActive \in BOOLEAN
    BY ModesAssumption DEF Init
  <2>2. mData \in [Proxies -> Data] /\ shown \in [Proxies -> States]
    BY DEF Init, ManagerInit, Data, States
  <2>3. mStupefied \in [Proxies -> BOOLEAN] /\ TypedInv
    BY DEF Init, ManagerInit, TypedInv
  <2>4. mDevTable \in [DeviceNames -> Devices \cup {NoDevice}]
        /\ mTypedDevice \in [Proxies -> Devices \cup {NoDevice}]
    BY DEF Init, ManagerInit
  <2>5. mProxyAliases \in [Aliases -> Proxies \cup {NoProxy}]
        /\ mProxyPtr \in [Interfaces -> Proxies \cup {NoProxy}]
    BY DEF Init, ManagerInit
  <2>6. /\ mProxyTable \subseteq Proxies /\ mNeedUpdate \subseteq Devices \cup Proxies
        /\ kpc = "config" /\ pos \in Nat \ {0} /\ target \in Devices \cup {NoDevice}
    BY DEF Init, ManagerInit
  <2>7. reconfigured \in BOOLEAN /\ quiet \in BOOLEAN
    BY Zenon DEF Init, ManagerInit
  <2> QED BY <2>1, <2>2, <2>3, <2>4, <2>5, <2>6, <2>7 DEF ManagerTypeOK
<1>4. PluginTypeOK
  BY <1>1 DEF Init, PluginTypeOK, Data, States
<1> QED BY <1>2, <1>3, <1>4 DEF TypeOK

\* Every variable has a value of its type, in whatever order elements are configured and
\* however the threads and the nodes run.
THEOREM TypeCorrect == Spec => [](TypeOK /\ TypedInv)
<1>1. TypeOK /\ TypedInv /\ UNCHANGED vars => (TypeOK /\ TypedInv)'
  BY DEF vars, driverVars, managerVars, tableVars, proxyVars, stepVars, historyVars, pluginVars,
         slaveVars, TypeOK, DriversTypeOK, ManagerTypeOK, PluginTypeOK, TypedInv
<1>2. TypeOK /\ TypedInv /\ Next => (TypeOK /\ TypedInv)'
  BY DriverSteps, DriversType, ManagersType, PluginsType DEF TypeOK
<1> QED BY <1>1, <1>2, InitTypes, PTL DEF Spec

-----------------------------------------------------------------------------
(* Where the kernel's thread is, and what refers to what.                    *)

\* What the kernel's thread knows of the device and the channel it works on.
PlaceInv ==
    /\ target # NoDevice => kpc \in {"devices", "stop", "shutdown"}
    /\ kpc \in {"config", "stop", "frame", "postPostFrame", "receive", "shutdown"}
          => ~reconfigured
    /\ kpc \in {"stop", "shutdown"} => target \in InTable
    /\ IF kpc = "devices" /\ target # NoDevice
       THEN /\ pos \in 2 .. Len(SwapOrder[target])
            /\ target \in (InTable \ Polled) \ mNeedUpdate
       ELSE pos = 1

\* The table has each device under its name.
TableInv == \A n \in DeviceNames : mDevTable[n] # NoDevice =>
    NameOf[mDevTable[n]] = n /\ mDevTable[n] \in created

\* The interfaces have the proxies they ask for, until a proxy or an alias changes.
InterfacesInv ==
    kpc # "off" /\ ~reconfigured => \A i \in Interfaces : mProxyPtr[i] = getProxy(Asks[i])

\* What is to stop is the device that the kernel's thread waits for, or is gone.
ExitInv == \A o \in Devices : Running(o) /\ mExitFlag[o] =>
    \/ kpc \in {"stop", "shutdown"} /\ target = o
    \/ ~Referenced(o)

\* After shutdown() the proxies that interfaces still hold have no device that runs.
OffInv == kpc = "off" =>
    /\ InTable = {} /\ mProxyTable = {}
    /\ \A i \in Interfaces, p \in Proxies :
          mProxyPtr[i] = p /\ ~mStupefied[p] => ~Running(mTypedDevice[p])

\* What has been updated, and from what.
ShowInv ==
    /\ kpc \in {"devices", "postPostFrame", "receive", "proxies"} => mProxyTable \subseteq mNeedUpdate
    /\ kpc \in {"postPostFrame", "receive", "proxies", "interfaces", "frame"} =>
          mNeedUpdate \cap InTable = {}
    /\ kpc \in {"interfaces", "frame"} =>
          /\ mNeedUpdate \cap mProxyTable = {}
          /\ \A p \in mProxyTable : ~mStupefied[p] =>
                mData[p].sample = getData(samples[mTypedDevice[p]][TypeOf[p]])

\* What the four states tell, of the sample the proxy has and of what was shown before.
StatesTell == kpc = "frame" => \A p \in mProxyTable : TypeOf[p] = "digital" =>
    /\ ~mStupefied[p] => (mData[p].state \in {"ON", "TOGGLE_ON"} <=> mData[p].sample \in On)
    /\ quiet => (StateOf(p) \in {"ON", "TOGGLE_OFF"} <=> shown[p] \in {"ON", "TOGGLE_ON"})

\* What was shown, as long as nothing has been configured since.
QuietInv ==
    /\ kpc = "interfaces" => reconfigured
    /\ reconfigured => ~quiet
    /\ quiet /\ kpc \in {"config", "reset", "devices", "postPostFrame", "receive", "proxies"}
          => \A p \in mProxyTable : shown[p] = StateOf(p)
    /\ StatesTell

\* A thread adds one sample to every channel, beginning with the first.
ThreadInv == \A o \in Devices :
    /\ thread[o] # "sample" => adding[o] = 1
    /\ thread[o] = "sample" => taken[o] > 0
    /\ o \in Polled \/ o \notin created => thread[o] = "none"

\* The newest sample in the buffers is the newest that was added.
NewestInv == \A o \in Devices, t \in Types :
    HasType(o, t) => Latest(samples[o][t]) = Added(o, t)

\* What the buffers show was added.
ShownInv == \A o \in Devices, t \in Types :
    HasType(o, t) => getData(samples[o][t]) <= Added(o, t)

\* The proxies' and the interfaces' references are looked up again after each change.
LEMMA LookupStep ==
  TypeOK /\ TypedInv /\ PlaceInv /\ ProxiesFollowTable /\ InterfacesInv /\ Next
     => (ProxiesFollowTable /\ InterfacesInv)'
<1> SUFFICES ASSUME TypeOK, TypedInv, PlaceInv, ProxiesFollowTable, InterfacesInv, Next
             PROVE  (ProxiesFollowTable /\ InterfacesInv)'
  OBVIOUS
<1> USE ProxiesAssumption, DevicesAssumption
    DEF TypeOK, ManagerTypeOK, PlaceInv, ProxiesFollowTable, InterfacesInv, getProxy, Finds,
        KernelAt, tableVars, proxyVars, stepVars, historyVars, managerVars, Others
<1>1. ASSUME NEW o \in Devices, configAddDevice(o) PROVE (ProxiesFollowTable /\ InterfacesInv)'
  BY <1>1 DEF configAddDevice, configureDevice, refreshAllProxies, ConfigDone
<1>2. ASSUME NEW o \in Devices, pluginConfigAdd(o) PROVE (ProxiesFollowTable /\ InterfacesInv)'
  BY <1>2 DEF pluginConfigAdd, configureDevice, refreshAllProxies
<1>3. ASSUME NEW p \in Proxies, configureProxy(p) PROVE (ProxiesFollowTable /\ InterfacesInv)'
  <2>1. InterfacesInv'
    BY <1>3 DEF configureProxy, ConfigDone
  <2>2. /\ mProxyTable' = mProxyTable \cup {p} /\ mDevTable' = mDevTable
        /\ mStupefied' = [mStupefied EXCEPT ![p] = ~Finds(mDevTable, p)]
        /\ mTypedDevice' = [mTypedDevice EXCEPT ![p] =
              IF Finds(mDevTable, p) THEN mDevTable[DeviceOf[p]] ELSE NoDevice]
    BY <1>3, Zenon DEF configureProxy
  <2>3. \A q \in mProxyTable : q # p =>
           /\ mStupefied'[q] = ~Finds(mDevTable, q)
           /\ ~mStupefied'[q] => mTypedDevice'[q] = mDevTable[DeviceOf[q]]
    BY <1>3, <2>2 DEF configureProxy
  <2>4. /\ mStupefied'[p] = ~Finds(mDevTable, p)
        /\ ~mStupefied'[p] => mTypedDevice'[p] = mDevTable[DeviceOf[p]]
    BY <2>2
  <2>5. ProxiesFollowTable'
    BY <2>2, <2>3, <2>4
  <2> QED BY <2>1, <2>5
<1>4. ASSUME NEW p \in Proxies, removeProxy(p) PROVE (ProxiesFollowTable /\ InterfacesInv)'
  BY <1>4 DEF removeProxy, Forget, ConfigDone
<1>5. ASSUME NEW a \in Aliases, NEW p \in Proxies \cup {NoProxy}, AliasBecomes(a, p)
      PROVE  (ProxiesFollowTable /\ InterfacesInv)'
  BY <1>5 DEF AliasBecomes, ConfigDone
<1>6. ASSUME NEW n \in DeviceNames, removeDevice(n) PROVE (ProxiesFollowTable /\ InterfacesInv)'
  BY <1>6 DEF removeDevice
<1>7. CASE RemoveStopped
  BY <1>7 DEF RemoveStopped, refreshAllProxies, ConfigDone
<1>8. CASE RefreshInterfaces
  BY <1>8 DEF RefreshInterfaces, refreshAllInterfaces, Forget
<1>9. CASE shutdown
  BY <1>9 DEF shutdown, Forget
<1>10. CASE StartsUpdate \/ resetAllDevicesAndProxies \/ DevicesDone \/ EndFrame
            \/ postPostFrame \/ receiveEnd
  BY <1>10 DEF StartsUpdate, EndReconfig, resetAllDevicesAndProxies, DevicesDone, DevicesUpdated,
               EndFrame, postPostFrame, receiveEnd
<1>11. CASE updateAllProxies
  BY <1>11 DEF updateAllProxies
<1>12. ASSUME NEW o \in Devices, updateDevice(o) \/ updatePolledDevice(o) \/ shutdownDevice(o)
       PROVE  (ProxiesFollowTable /\ InterfacesInv)'
  BY <1>12 DEF updateDevice, updatePolledDevice, shutdownDevice
<1>13. CASE UNCHANGED managerVars
  BY <1>13
<1> QED BY <1>1, <1>2, <1>3, <1>4, <1>5, <1>6, <1>7, <1>8, <1>9, <1>10, <1>11, <1>12, <1>13
        DEF Next, Kernel, Configures, Adds, Removes, Updates, UpdatesProxies, ShutsDown,
            configureProxyAlias, removeProxyAlias, DestroyDevice, Samples, Slave

\* Each step knows the device and the channel it is at.
LEMMA PlaceStep ==
  TypeOK /\ PlaceInv /\ TableInv /\ Next => (PlaceInv /\ TableInv)'
<1> SUFFICES ASSUME TypeOK, PlaceInv, TableInv, Next PROVE (PlaceInv /\ TableInv)'
  OBVIOUS
<1> USE ProxiesAssumption, DevicesAssumption
    DEF TypeOK, ManagerTypeOK, PlaceInv, TableInv, InTable, KernelAt,
        driverVars, tableVars, proxyVars, stepVars, historyVars, managerVars, Others
<1>1. ASSUME NEW o \in Devices, configAddDevice(o) PROVE (PlaceInv /\ TableInv)'
  BY <1>1 DEF configAddDevice, configureDevice, startSampling, ConfigDone
<1>2. ASSUME NEW o \in Devices, pluginConfigAdd(o) PROVE (PlaceInv /\ TableInv)'
  BY <1>2 DEF pluginConfigAdd, configureDevice, startSampling
<1>3. ASSUME NEW p \in Proxies, configureProxy(p) \/ removeProxy(p) PROVE (PlaceInv /\ TableInv)'
  BY <1>3 DEF configureProxy, removeProxy, ConfigDone
<1>4. ASSUME NEW a \in Aliases, NEW p \in Proxies \cup {NoProxy}, AliasBecomes(a, p)
      PROVE  (PlaceInv /\ TableInv)'
  BY <1>4 DEF AliasBecomes, ConfigDone
<1>5. ASSUME NEW n \in DeviceNames, removeDevice(n) PROVE (PlaceInv /\ TableInv)'
  BY <1>5 DEF removeDevice, raiseExitFlag
<1>6. CASE RemoveStopped
  BY <1>6 DEF RemoveStopped, ConfigDone
<1>7. CASE RefreshInterfaces
  BY <1>7 DEF RefreshInterfaces
<1>8. CASE shutdown
  BY <1>8 DEF shutdown
<1>9. ASSUME NEW o \in Devices, shutdownDevice(o) PROVE (PlaceInv /\ TableInv)'
  BY <1>9 DEF shutdownDevice, raiseExitFlag
<1>10. CASE StartsUpdate \/ resetAllDevicesAndProxies \/ DevicesDone \/ EndFrame
            \/ postPostFrame \/ receiveEnd
  BY <1>10 DEF StartsUpdate, EndReconfig, resetAllDevicesAndProxies, DevicesDone, DevicesUpdated,
               EndFrame, postPostFrame, receiveEnd
<1>11. CASE updateAllProxies
  BY <1>11 DEF updateAllProxies
<1>12. ASSUME NEW o \in Devices, updateDevice(o) PROVE (PlaceInv /\ TableInv)'
  <2>1. Len(SwapOrder[o]) \in Nat \ {0}
    <3>1. SwapOrder[o] \in Seq(Types) /\ Channels[o] \in Seq(Types) /\ 1 \in 1 .. Len(Channels[o])
      OBVIOUS
    <3>2. \E j \in 1 .. Len(SwapOrder[o]) : SwapOrder[o][j] = Channels[o][1]
      BY <3>1, SwapOrderAssumption
    <3> QED BY <3>1, <3>2
  <2>2. TableInv' /\ mDevTable' = mDevTable /\ kpc' = kpc /\ reconfigured' = reconfigured
    BY <1>12 DEF updateDevice, swapChannel
  <2>3. /\ kpc = "devices" /\ o \notin Polled /\ o \in InTable
        /\ pos \in 1 .. Len(SwapOrder[o])
        /\ mNeedUpdate' = mNeedUpdate \ {o}
        /\ pos' = (IF pos = Len(SwapOrder[o]) THEN 1 ELSE pos + 1)
        /\ target' = (IF pos = Len(SwapOrder[o]) THEN NoDevice ELSE o)
    BY <1>12, <2>1 DEF updateDevice
  <2>4. PlaceInv'
    BY <2>1, <2>2, <2>3
  <2> QED BY <2>2, <2>4
<1>13. ASSUME NEW o \in Devices, updatePolledDevice(o) PROVE (PlaceInv /\ TableInv)'
  BY <1>13 DEF updatePolledDevice, pollData
<1>14. CASE UNCHANGED managerVars /\ created' = created
  BY <1>14
<1>15. (\E o \in Devices : DestroyDevice(o) \/ Samples(o)) \/ Slave
          => UNCHANGED managerVars /\ created' = created
  BY DEF DestroyDevice, raiseExitFlag, Samples, Sampling, controlLoopExits, sample,
         addDeviceSample, Slave
<1> QED BY <1>1, <1>2, <1>3, <1>4, <1>5, <1>6, <1>7, <1>8, <1>9, <1>10, <1>11, <1>12, <1>13,
           <1>14, <1>15
        DEF Next, Kernel, Configures, Adds, Removes, Updates, UpdatesProxies, ShutsDown,
            configureProxyAlias, removeProxyAlias

\* While the kernel's thread works, nothing that runs is to stop but what it waits for.
LEMMA NothingDropped ==
  ASSUME ExitInv, Dropped = {}
  PROVE  \A o \in Devices : Running(o) /\ mExitFlag[o] => kpc \in {"stop", "shutdown"} /\ target = o
BY DEF ExitInv, Dropped

\* The sampling threads stop and do not start by themselves.
LEMMA ThreadsStop ==
  ASSUME TypeOK, NEW o \in Devices, Sampling(o)
  PROVE  mExitFlag' = mExitFlag /\ \A d \in Devices : Running(d)' => Running(d)
BY DEF TypeOK, DriversTypeOK, Sampling, controlLoopExits, sample, addDeviceSample, Running

\* What is told to stop is waited for, or is gone for good.
LEMMA ExitStep ==
  TypeOK /\ TypedInv /\ PlaceInv /\ ProxiesFollowTable /\ InterfacesInv /\ ExitInv /\ OffInv /\ Next
     => (ExitInv /\ OffInv)'
<1> SUFFICES ASSUME TypeOK, TypedInv, PlaceInv, ProxiesFollowTable, InterfacesInv, ExitInv, OffInv, Next
             PROVE  (ExitInv /\ OffInv)'
  OBVIOUS
<1> USE DEF KernelAt
<1>1. ASSUME KernelAt("config") \/ KernelAt("stop") \/ KernelAt("interfaces"),
             kpc' # "off", UNCHANGED driverVars, Joined(target) \/ kpc # "stop"
      PROVE  (ExitInv /\ OffInv)'
  BY <1>1, NothingDropped DEF ExitInv, OffInv, driverVars, Running, Joined
<1>2. ASSUME NEW o \in Devices, KernelAt("config"), startSampling(o), kpc' # "off"
      PROVE  (ExitInv /\ OffInv)'
  BY <1>2, NothingDropped DEF ExitInv, OffInv, Running, startSampling, TypeOK, DriversTypeOK
<1>3. ASSUME NEW o \in Devices, KernelAt("config") \/ (KernelAt("shutdown") /\ Joined(target)),
             raiseExitFlag(o), target' = o, kpc' \in {"stop", "shutdown"}
      PROVE  (ExitInv /\ OffInv)'
  BY <1>3, NothingDropped DEF ExitInv, OffInv, Running, raiseExitFlag, Joined, TypeOK, DriversTypeOK
<1>4. CASE Configures
  <2>1. CASE \E o \in Devices : configAddDevice(o)
    BY <1>2, <2>1 DEF configAddDevice, configureDevice, ConfigDone
  <2>2. CASE \E n \in DeviceNames : removeDevice(n)
    BY <1>3, <2>2 DEF removeDevice, TypeOK, ManagerTypeOK
  <2>3. CASE \E p \in Proxies : configureProxy(p) \/ removeProxy(p)
    BY <1>1, <2>3 DEF configureProxy, removeProxy, ConfigDone
  <2>4. CASE \E a \in Aliases, p \in Proxies \cup {NoProxy} : AliasBecomes(a, p)
    BY <1>1, <2>4 DEF AliasBecomes, ConfigDone
  <2> QED BY <1>4, <2>1, <2>2, <2>3, <2>4
          DEF Configures, Adds, Removes, configureProxyAlias, removeProxyAlias
<1>5. ASSUME NEW o \in Devices, pluginConfigAdd(o) PROVE (ExitInv /\ OffInv)'
  BY <1>2, <1>5 DEF pluginConfigAdd, configureDevice
<1>6. CASE RemoveStopped \/ RefreshInterfaces \/ StartsUpdate
  BY <1>1, <1>6 DEF RemoveStopped, RefreshInterfaces, StartsUpdate, EndReconfig, ConfigDone
<1>7. ASSUME NEW o \in Devices, shutdownDevice(o) PROVE (ExitInv /\ OffInv)'
  BY <1>3, <1>7 DEF shutdownDevice
<1>8. CASE shutdown
  <2>1. UNCHANGED driverVars /\ kpc' = "off" /\ mProxyPtr' = mProxyPtr
    BY <1>8 DEF shutdown
  <2>2. \A o \in Devices : ~(Running(o) /\ mExitFlag[o])
    BY <1>8, NothingDropped DEF shutdown, Joined, Running
  <2>3. ExitInv'
    BY <2>1, <2>2 DEF ExitInv, driverVars, Running
  <2>4. InTable' = {} /\ mProxyTable' = {}
    BY <1>8 DEF shutdown, InTable
  <2>5. ASSUME NEW i \in Interfaces, NEW p \in Proxies, mProxyPtr[i] = p, ~mStupefied'[p]
        PROVE  ~Running(mTypedDevice'[p])
    <3>1. p \in mProxyTable
      BY <1>8, <2>5, Lookup, ProxiesAssumption
         DEF shutdown, PlaceInv, InterfacesInv, TypeOK
    <3>2. mStupefied'[p] = mStupefied[p] /\ mTypedDevice'[p] = mTypedDevice[p]
      BY <1>8, <2>5 DEF shutdown, Forget, TypeOK, ManagerTypeOK
    <3>3. mTypedDevice[p] = mDevTable[DeviceOf[p]] /\ Finds(mDevTable, p)
      BY <1>8, <2>5, <3>1, <3>2 DEF shutdown, ProxiesFollowTable, TypeOK, ManagerTypeOK
    <3>4. mTypedDevice[p] \in InTable
      BY <3>3, ProxiesAssumption DEF Finds, InTable
    <3> QED BY <1>8, <3>2, <3>4 DEF shutdown, InTable, TypeOK, ManagerTypeOK
  <2>6. OffInv'
    BY <2>1, <2>4, <2>5 DEF OffInv, Running, driverVars
  <2> QED BY <2>3, <2>6
<1>9. ASSUME Dropped = {}, ~(kpc \in {"stop", "shutdown", "off"}), kpc' # "off",
             thread' = thread, mExitFlag' = mExitFlag
      PROVE  (ExitInv /\ OffInv)'
  BY <1>9, NothingDropped DEF ExitInv, OffInv, Running
<1>10. CASE \/ resetAllDevicesAndProxies \/ DevicesDone \/ EndFrame \/ updateAllProxies
            \/ postPostFrame \/ receiveEnd
            \/ \E o \in Devices : updateDevice(o) \/ updatePolledDevice(o)
  BY <1>9, <1>10 DEF resetAllDevicesAndProxies, DevicesDone, DevicesUpdated, EndFrame,
        updateAllProxies, postPostFrame, receiveEnd, updateDevice, updatePolledDevice,
        swapChannel, pollData, driverVars
<1>11. ASSUME UNCHANGED managerVars, mExitFlag' = mExitFlag,
              \A d \in Devices : Running(d)' => Running(d)
       PROVE  (ExitInv /\ OffInv)'
  <2>1. \A o \in Devices : Referenced(o)' <=> Referenced(o)
    BY <1>11 DEF Referenced, Held, InTable, managerVars, tableVars, proxyVars
  <2>2. ExitInv'
    BY <1>11, <2>1 DEF ExitInv, managerVars, stepVars
  <2>3. OffInv'
    BY <1>11 DEF OffInv, InTable, managerVars, tableVars, proxyVars, TypeOK, ManagerTypeOK, TypedInv
  <2> QED BY <2>2, <2>3
<1>12. CASE Slave \/ \E o \in Devices : Samples(o)
  BY <1>11, <1>12, ThreadsStop DEF Slave, Samples, driverVars, Running
<1>13. ASSUME NEW o \in Devices, DestroyDevice(o) PROVE (ExitInv /\ OffInv)'
  <2>1. \A d \in Devices : Referenced(d)' <=> Referenced(d)
    BY <1>13 DEF DestroyDevice, Referenced, Held, InTable, managerVars, tableVars, proxyVars
  <2>2. /\ UNCHANGED managerVars /\ thread' = thread /\ mExitFlag' = [mExitFlag EXCEPT ![o] = TRUE]
        /\ ~Referenced(o)
    BY <1>13 DEF DestroyDevice, Dropped, raiseExitFlag
  <2>3. ExitInv'
    BY <2>1, <2>2 DEF ExitInv, Running, managerVars, stepVars, TypeOK, DriversTypeOK
  <2>4. OffInv'
    BY <2>2 DEF OffInv, InTable, Running, managerVars, tableVars, proxyVars
  <2> QED BY <2>3, <2>4
<1> QED BY <1>4, <1>5, <1>6, <1>7, <1>8, <1>10, <1>12, <1>13
        DEF Next, Kernel, Updates, UpdatesProxies, ShutsDown

\* addSample() changes what is newest, and swapBuffers() what is shown.
LEMMA BufferOps ==
  ASSUME NEW b \in Buffers, NEW n \in Nat
  PROVE  /\ Latest(addSample(b, n)) = n
         /\ getData(addSample(b, n)) = getData(b)
BY AddSample DEF Latest, getData

\* The channels that are left to add to.
LEMMA AddedIs ==
  ASSUME TypeOK, NEW o \in Devices, NEW t \in Types
  PROVE  /\ Added(o, t) \in Int
         /\ thread[o] # "sample" => Added(o, t) = taken[o]
         /\ thread[o] = "sample" /\ adding[o] = 1 /\ HasType(o, t) => Added(o, t) = taken[o] - 1
<1>1. taken[o] \in Nat /\ DOMAIN Channels[o] = 1 .. Len(Channels[o])
  BY DevicesAssumption DEF TypeOK, DriversTypeOK
<1> QED BY <1>1 DEF Added, HasType

\* addDeviceSample() adds to one channel more.
LEMMA AddedStep ==
  ASSUME TypeOK, ThreadInv, NEW o \in Devices, addDeviceSample(o),
         NEW u, u = Channels[o][adding[o]]
  PROVE  /\ u \in Types /\ HasType(o, u)
         /\ Added(o, u) = taken[o] - 1 /\ Added(o, u)' = taken[o]
         /\ \A t \in Types \ {u} : HasType(o, t) => Added(o, t)' = Added(o, t)
         /\ \A d \in Devices \ {o}, t \in Types : Added(d, t)' = Added(d, t)
<1> DEFINE c == Channels[o]
<1>1. PICK k \in 1 .. Len(c) : k = adding[o]
  BY DevicesAssumption DEF TypeOK, DriversTypeOK
<1>2. c \in Seq(Types) /\ Len(c) \in Nat /\ DOMAIN c = 1 .. Len(c) /\ c[k] = u
      /\ \A i, j \in 1 .. Len(c) : c[i] = c[j] => i = j
  BY <1>1, DevicesAssumption, SwapOrderAssumption
<1>3. thread[o] = "sample" /\ taken' = taken
      /\ adding' = [adding EXCEPT ![o] = IF k = Len(c) THEN 1 ELSE k + 1]
      /\ thread' = [thread EXCEPT ![o] = IF k = Len(c) THEN "test" ELSE "sample"]
  BY <1>1 DEF addDeviceSample
<1>4. /\ adding'[o] = (IF k = Len(c) THEN 1 ELSE k + 1)
      /\ thread'[o] = (IF k = Len(c) THEN "test" ELSE "sample")
      /\ \A d \in Devices \ {o} : adding'[d] = adding[d] /\ thread'[d] = thread[d]
  BY <1>3 DEF TypeOK, DriversTypeOK
<1>5. u \in Types /\ HasType(o, u)
  BY <1>2 DEF HasType
<1>6. Added(o, u) = taken[o] - 1
  BY <1>1, <1>2, <1>3 DEF Added
<1>7. Added(o, u)' = taken[o]
  <2>1. CASE k = Len(c)
    BY <1>3, <1>4, <2>1 DEF Added
  <2>2. CASE k # Len(c)
    <3>1. ~\E j \in k + 1 .. Len(c) : c[j] = u
      BY <1>2
    <3> QED BY <1>3, <1>4, <2>2, <3>1 DEF Added
  <2> QED BY <2>1, <2>2
<1>8. ASSUME NEW t \in Types \ {u}, HasType(o, t) PROVE Added(o, t)' = Added(o, t)
  <2>1. PICK i \in 1 .. Len(c) : c[i] = t
    BY <1>2, <1>8 DEF HasType
  <2>2. i # k /\ \A j \in 1 .. Len(c) : c[j] = t => j = i
    BY <1>2, <2>1
  <2>3. CASE k = Len(c)
    BY <1>1, <1>2, <1>3, <1>4, <2>2, <2>3 DEF Added
  <2>4. CASE k # Len(c)
    BY <1>1, <1>2, <1>3, <1>4, <2>1, <2>2, <2>4 DEF Added
  <2> QED BY <2>3, <2>4
<1>9. ASSUME NEW d \in Devices \ {o}, NEW t \in Types PROVE Added(d, t)' = Added(d, t)
  BY <1>3, <1>4 DEF Added
<1> QED BY <1>5, <1>6, <1>7, <1>8, <1>9

\* Starts, ends and flags leave the buffers alone, and what sample() reads is not added yet.
LEMMA QuietSteps ==
  ASSUME TypeOK, ThreadInv, NEW o \in Devices,
         controlLoopExits(o) \/ sample(o) \/ startSampling(o) \/ raiseExitFlag(o)
  PROVE  /\ samples' = samples
         /\ \A d \in Devices, t \in Types : HasType(d, t) => Added(d, t)' = Added(d, t)
<1>1. CASE controlLoopExits(o)
  BY <1>1 DEF controlLoopExits, Added, TypeOK, DriversTypeOK
<1>2. CASE sample(o)
  <2>1. ASSUME NEW d \in Devices, NEW t \in Types, HasType(d, t) PROVE Added(d, t)' = Added(d, t)
    <3>1. CASE d # o
      BY <1>2, <3>1 DEF sample, Added, TypeOK, DriversTypeOK
    <3>2. CASE d = o
      <4>1. \E j \in 1 .. Len(Channels[o]) : Channels[o][j] = t
        BY <2>1, <3>2, DevicesAssumption DEF HasType
      <4>2. /\ adding'[o] = 1 /\ thread'[o] = "sample" /\ taken'[o] = taken[o] + 1
            /\ thread[o] = "test" /\ taken[o] \in Nat
        BY <1>2 DEF sample, ThreadInv, TypeOK, DriversTypeOK
      <4> QED BY <3>2, <4>1, <4>2 DEF Added
    <3> QED BY <3>1, <3>2
  <2> QED BY <1>2, <2>1 DEF sample
<1>3. CASE startSampling(o) \/ raiseExitFlag(o)
  BY <1>3 DEF startSampling, raiseExitFlag, ThreadInv, Added, TypeOK, DriversTypeOK
<1> QED BY <1>1, <1>2, <1>3

\* updateData() shows the newest sample of the channel it swaps.
LEMMA SwapStep ==
  ASSUME TypeOK, NEW o \in Devices, swapChannel(o, pos), NEW d \in Devices, NEW t \in Types
  PROVE  /\ samples'[d][t] = IF d = o /\ t = SwapOrder[o][pos] THEN swapBuffers(samples[d][t])
                             ELSE samples[d][t]
         /\ Added(d, t)' = Added(d, t)
<1>1. UNCHANGED <<created, thread, mExitFlag, taken, adding>>
  BY DEF swapChannel
<1>2. Added(d, t)' = Added(d, t)
  BY <1>1 DEF Added
<1>3. samples'[d][t] = IF d = o /\ t = SwapOrder[o][pos] THEN swapBuffers(samples[d][t])
                       ELSE samples[d][t]
  BY DEF swapChannel, TypeOK, DriversTypeOK
<1> QED BY <1>2, <1>3

\* A polled driver adds and shows its sample at once.
LEMMA PollStep ==
  ASSUME TypeOK, ThreadInv, NEW o \in Devices, o \in Polled, pollData(o)
  PROVE  \E n \in Nat :
           /\ n >= taken[o] /\ taken' = [taken EXCEPT ![o] = n]
           /\ UNCHANGED <<created, thread, mExitFlag, adding>> /\ thread[o] = "none"
           /\ \A t \in Types : HasType(o, t) =>
                 /\ Latest(samples'[o][t]) = n /\ getData(samples'[o][t]) = n
                 /\ Added(o, t)' = n /\ Added(o, t) = taken[o]
           /\ \A d \in Devices \ {o}, t \in Types :
                 samples'[d][t] = samples[d][t] /\ Added(d, t)' = Added(d, t)
<1>1. PICK n \in {taken[o], taken[o] + 1} \cap (0 .. MaxSamples[o]) :
        /\ taken' = [taken EXCEPT ![o] = n]
        /\ samples' = [samples EXCEPT ![o] = [t \in Types |->
              IF HasType(o, t) THEN swapBuffers(addSample(@[t], n)) ELSE @[t]]]
  BY Zenon DEF pollData
<1>2. taken[o] \in Nat /\ n \in Nat /\ n >= taken[o]
  BY <1>1 DEF TypeOK, DriversTypeOK
<1>3. UNCHANGED <<created, thread, mExitFlag, adding>> /\ thread[o] = "none"
  BY DEF ThreadInv, pollData
<1>4. ASSUME NEW t \in Types, HasType(o, t)
      PROVE  /\ Latest(samples'[o][t]) = n /\ getData(samples'[o][t]) = n
             /\ Added(o, t)' = n /\ Added(o, t) = taken[o]
  <2>1. samples'[o][t] = swapBuffers(addSample(samples[o][t], n))
    BY <1>1, <1>4 DEF TypeOK, DriversTypeOK
  <2>2. Added(o, t)' = n /\ Added(o, t) = taken[o]
    BY <1>1, <1>3 DEF Added, TypeOK, DriversTypeOK
  <2>3. samples[o][t] \in Buffers
    BY DEF TypeOK, DriversTypeOK
  <2>4. addSample(samples[o][t], n) \in Buffers /\ Latest(addSample(samples[o][t], n)) = n
    BY <1>2, <2>3, AddSample, BufferOps
  <2>5. Latest(samples'[o][t]) = n /\ getData(samples'[o][t]) = n
    BY <2>1, <2>4, SwapBuffers
  <2> QED BY <2>2, <2>5
<1>5. ASSUME NEW d \in Devices \ {o}, NEW t \in Types
      PROVE  samples'[d][t] = samples[d][t] /\ Added(d, t)' = Added(d, t)
  BY <1>1, <1>3 DEF Added, TypeOK, DriversTypeOK
<1> QED BY <1>1, <1>2, <1>3, <1>4, <1>5

\* What threads and updates do to the buffers.
LEMMA BuffersStep ==
  TypeOK /\ ThreadInv /\ NewestInv /\ ShownInv /\ DriverStep
     => (ThreadInv /\ NewestInv /\ ShownInv)'
<1> SUFFICES ASSUME TypeOK, ThreadInv, NewestInv, ShownInv, DriverStep
             PROVE  (ThreadInv /\ NewestInv /\ ShownInv)'
  OBVIOUS
<1> DEFINE Goal == ThreadInv /\ NewestInv /\ ShownInv
<1>1. \A o \in Devices, t \in Types :
         samples[o][t] \in Buffers /\ taken[o] \in Nat /\ Added(o, t) \in Int
  BY AddedIs DEF TypeOK, DriversTypeOK
<1>2. ASSUME samples' = samples,
             \A o \in Devices, t \in Types : HasType(o, t) => Added(o, t)' = Added(o, t)
      PROVE  NewestInv' /\ ShownInv'
  BY <1>2 DEF NewestInv, ShownInv
<1>3. CASE UNCHANGED driverVars
  BY <1>3 DEF ThreadInv, NewestInv, ShownInv, Added, driverVars
<1>4. ASSUME NEW o \in Devices,
             controlLoopExits(o) \/ sample(o) \/ startSampling(o) \/ raiseExitFlag(o)
      PROVE  Goal'
  <2>1. ThreadInv'
    BY <1>4, DevicesAssumption
       DEF controlLoopExits, sample, startSampling, raiseExitFlag, ThreadInv, TypeOK, DriversTypeOK
  <2> QED BY <1>2, <1>4, <2>1, QuietSteps
<1>5. ASSUME NEW o \in Devices, addDeviceSample(o) PROVE Goal'
  <2> PICK c : c = Channels[o][adding[o]]
    OBVIOUS
  <2>1. ThreadInv'
    BY <1>5 DEF addDeviceSample, ThreadInv, TypeOK, DriversTypeOK
  <2>2. samples' = [samples EXCEPT ![o][c] = addSample(@, taken[o])]
    BY <1>5 DEF addDeviceSample
  <2>3. c \in Types /\ Added(o, c) = taken[o] - 1 /\ Added(o, c)' = taken[o] /\ HasType(o, c)
    BY <1>5, AddedStep
  <2>4. /\ Latest(samples'[o][c]) = taken[o]
        /\ getData(samples'[o][c]) = getData(samples[o][c])
    <3>1. samples'[o][c] = addSample(samples[o][c], taken[o])
      BY <2>2, <2>3 DEF TypeOK, DriversTypeOK
    <3> QED BY <1>1, <2>3, <3>1, BufferOps
  <2>5. ASSUME NEW d \in Devices, NEW t \in Types, HasType(d, t), d # o \/ t # c
        PROVE  samples'[d][t] = samples[d][t] /\ Added(d, t)' = Added(d, t)
    <3>1. samples'[d][t] = samples[d][t]
      BY <2>2, <2>5 DEF TypeOK, DriversTypeOK
    <3>2. Added(d, t)' = Added(d, t)
      BY <1>5, <2>5, AddedStep
    <3> QED BY <3>1, <3>2
  <2>6. getData(samples[o][c]) \in Nat /\ getData(samples[o][c]) <= taken[o] - 1
    BY <1>1, <2>3, SwapBuffers DEF ShownInv
  <2>7. ASSUME NEW d \in Devices, NEW t \in Types, HasType(d, t)
        PROVE  Latest(samples'[d][t]) = Added(d, t)' /\ getData(samples'[d][t]) <= Added(d, t)'
    <3>1. CASE d = o /\ t = c
      BY <1>1, <2>3, <2>4, <2>6, <3>1
    <3>2. CASE d # o \/ t # c
      BY <2>5, <2>7, <3>2 DEF NewestInv, ShownInv
    <3> QED BY <3>1, <3>2
  <2>8. NewestInv' /\ ShownInv'
    BY <2>7 DEF NewestInv, ShownInv
  <2> QED BY <2>1, <2>8
<1>6. ASSUME NEW o \in Devices, swapChannel(o, pos) PROVE Goal'
  <2>1. ThreadInv'
    BY <1>6 DEF swapChannel, ThreadInv
  <2>2. ASSUME NEW d \in Devices, NEW t \in Types
        PROVE  /\ Latest(samples'[d][t]) = Latest(samples[d][t])
               /\ \/ getData(samples'[d][t]) = getData(samples[d][t])
                  \/ getData(samples'[d][t]) = Latest(samples[d][t])
               /\ Added(d, t)' = Added(d, t)
    <3>1. samples'[d][t] = samples[d][t] \/ samples'[d][t] = swapBuffers(samples[d][t])
      BY <1>6, SwapStep
    <3> QED BY <1>1, <1>6, <3>1, SwapStep, SwapBuffers
  <2> QED BY <1>1, <2>1, <2>2 DEF NewestInv, ShownInv
<1>7. ASSUME NEW o \in Devices, o \in Polled, pollData(o) PROVE Goal'
  <2>1. PICK n \in Nat :
          /\ n >= taken[o] /\ taken' = [taken EXCEPT ![o] = n]
          /\ UNCHANGED <<created, thread, mExitFlag, adding>> /\ thread[o] = "none"
          /\ \A t \in Types : HasType(o, t) =>
                /\ Latest(samples'[o][t]) = n /\ getData(samples'[o][t]) = n
                /\ Added(o, t)' = n /\ Added(o, t) = taken[o]
          /\ \A d \in Devices \ {o}, t \in Types :
                samples'[d][t] = samples[d][t] /\ Added(d, t)' = Added(d, t)
    BY <1>7, PollStep
  <2>2. ThreadInv'
    BY <2>1 DEF ThreadInv, TypeOK, DriversTypeOK
  <2>3. NewestInv'
    BY <2>1 DEF NewestInv
  <2>4. ShownInv'
    BY <2>1 DEF ShownInv
  <2> QED BY <2>2, <2>3, <2>4
<1> QED BY <1>3, <1>4, <1>5, <1>6, <1>7 DEF DriverStep, Sampling

\* Between two updates the proxies show what the buffers show, and the buffers do not change.
LEMMA ShowStep ==
  TypeOK /\ TypedInv /\ PlaceInv /\ ShowInv /\ Next => ShowInv'
<1> SUFFICES ASSUME TypeOK, TypedInv, PlaceInv, ShowInv, Next PROVE ShowInv'
  OBVIOUS
<1> USE ProxiesAssumption, DevicesAssumption
    DEF TypeOK, ManagerTypeOK, PlaceInv, ShowInv, InTable, KernelAt,
        driverVars, tableVars, proxyVars, stepVars, historyVars, managerVars, Others
<1>1. CASE Configures
  BY <1>1 DEF Configures, Adds, Removes, configAddDevice, configureProxy, configureProxyAlias,
              removeDevice, removeProxy, removeProxyAlias, AliasBecomes, ConfigDone
<1>2. ASSUME NEW o \in Devices, pluginConfigAdd(o) PROVE ShowInv'
  BY <1>2 DEF pluginConfigAdd
<1>3. CASE StartsUpdate \/ RemoveStopped \/ RefreshInterfaces
  BY <1>3 DEF StartsUpdate, EndReconfig, RemoveStopped, RefreshInterfaces, ConfigDone
<1>4. CASE resetAllDevicesAndProxies
  BY <1>4 DEF resetAllDevicesAndProxies
<1>5. CASE DevicesDone \/ EndFrame \/ postPostFrame \/ receiveEnd
  BY <1>5 DEF DevicesDone, DevicesUpdated, EndFrame, postPostFrame, receiveEnd
<1>6. ASSUME NEW o \in Devices, updateDevice(o) PROVE ShowInv'
  BY <1>6 DEF updateDevice
<1>7. ASSUME NEW o \in Devices, updatePolledDevice(o) PROVE ShowInv'
  BY <1>7 DEF updatePolledDevice
<1>8. CASE updateAllProxies
  <2>1. /\ mNeedUpdate' = mNeedUpdate \ mProxyTable /\ kpc' \in {"interfaces", "frame"}
        /\ mNeedUpdate \cap InTable = {} /\ mProxyTable \subseteq mNeedUpdate
        /\ UNCHANGED <<mDevTable, mProxyTable, mStupefied, mTypedDevice, samples>>
    BY <1>8 DEF updateAllProxies
  <2>2. \A p \in mProxyTable : ~mStupefied[p] =>
           mData'[p].sample = getData(samples[mTypedDevice[p]][TypeOf[p]])
    BY <1>8, <2>1 DEF updateAllProxies, DataFrom
  <2> QED BY <2>1, <2>2
<1>9. CASE ShutsDown
  BY <1>9 DEF ShutsDown, shutdown, shutdownDevice
<1>10. ASSUME UNCHANGED managerVars,
              \A o \in Devices, t \in Types : getData(samples'[o][t]) = getData(samples[o][t])
       PROVE  ShowInv'
  <2>1. \A p \in Proxies : ~mStupefied[p] =>
           getData(samples'[mTypedDevice[p]][TypeOf[p]]) = getData(samples[mTypedDevice[p]][TypeOf[p]])
    BY <1>10 DEF TypedInv
  <2>2. UNCHANGED <<kpc, mNeedUpdate, mDevTable, mProxyTable, mStupefied, mTypedDevice, mData>>
    BY <1>10
  <2>3. ASSUME kpc \in {"interfaces", "frame"}, NEW p \in mProxyTable, ~mStupefied[p]
        PROVE  mData'[p].sample = getData(samples'[mTypedDevice[p]][TypeOf[p]])
    BY <2>1, <2>2, <2>3
  <2> QED BY <2>2, <2>3
<1>11. CASE Slave \/ \E o \in Devices : DestroyDevice(o)
  BY <1>10, <1>11 DEF Slave, DestroyDevice, raiseExitFlag
<1>12. ASSUME NEW o \in Devices, Samples(o) PROVE ShowInv'
  <2>1. \A d \in Devices, t \in Types : getData(samples'[d][t]) = getData(samples[d][t])
    <3>1. CASE addDeviceSample(o)
      <4>1. \A d \in Devices, t \in Types :
               \/ samples'[d][t] = samples[d][t]
               \/ samples'[d][t] = addSample(samples[d][t], taken[o])
        BY <3>1 DEF addDeviceSample, DriversTypeOK
      <4>2. \A d \in Devices, t \in Types : samples[d][t] \in Buffers /\ taken[o] \in Nat
        BY DEF DriversTypeOK
      <4>3. \A b \in Buffers, n \in Nat : getData(addSample(b, n)) = getData(b)
        BY BufferOps
      <4>4. ASSUME NEW d \in Devices, NEW t \in Types
            PROVE  getData(samples'[d][t]) = getData(samples[d][t])
        <5>1. getData(addSample(samples[d][t], taken[o])) = getData(samples[d][t])
          BY <4>2, <4>3, Zenon
        <5> QED BY <4>1, <5>1, Zenon
      <4> QED BY <4>4, Zenon
    <3>2. CASE ~addDeviceSample(o)
      BY <1>12, <3>2 DEF Samples, Sampling, controlLoopExits, sample
    <3> QED BY <3>1, <3>2
  <2> QED BY <1>10, <1>12, <2>1 DEF Samples
<1> QED BY <1>1, <1>2, <1>3, <1>4, <1>5, <1>6, <1>7, <1>8, <1>9, <1>11, <1>12
        DEF Next, Kernel, Updates, UpdatesProxies

\* What the application was shown in the last frame is what the proxies still give, until
\* their next update, which turns it into the four states, or until something is configured.
LEMMA QuietStep ==
  TypeOK /\ PlaceInv /\ ShowInv /\ QuietInv /\ Next => QuietInv'
<1> SUFFICES ASSUME TypeOK, PlaceInv, ShowInv, QuietInv, Next PROVE QuietInv'
  OBVIOUS
<1> USE DEF QuietInv, StatesTell, StateOf, KernelAt,
            driverVars, tableVars, proxyVars, stepVars, historyVars, managerVars, Others
<1>1. CASE Configures
  <2>1. CASE \E n \in DeviceNames : removeDevice(n)
    BY <2>1 DEF removeDevice, PlaceInv
  <2>2. CASE ~\E n \in DeviceNames : removeDevice(n)
    <3>1. kpc' = "reset" /\ quiet' = FALSE
      BY <1>1, <2>2 DEF Configures, Adds, Removes, configAddDevice, configureProxy, removeProxy,
            configureProxyAlias, removeProxyAlias, AliasBecomes, ConfigDone
    <3> QED BY <3>1
  <2> QED BY <2>1, <2>2
<1>2. ASSUME NEW o \in Devices, pluginConfigAdd(o) PROVE QuietInv'
  BY <1>2 DEF pluginConfigAdd, PlaceInv
<1>3. CASE StartsUpdate \/ RemoveStopped \/ RefreshInterfaces
  BY <1>3 DEF StartsUpdate, EndReconfig, RemoveStopped, RefreshInterfaces, ConfigDone
<1>4. CASE resetAllDevicesAndProxies \/ DevicesDone \/ postPostFrame \/ receiveEnd
  BY <1>4 DEF resetAllDevicesAndProxies, DevicesDone, DevicesUpdated, postPostFrame, receiveEnd
<1>5. CASE EndFrame
  BY <1>5 DEF EndFrame, TypeOK, ManagerTypeOK, PlaceInv
<1>6. ASSUME NEW o \in Devices, updateDevice(o) \/ updatePolledDevice(o) PROVE QuietInv'
  BY <1>6 DEF updateDevice, updatePolledDevice
<1>7. CASE updateAllProxies
  <2>1. /\ kpc' = IF reconfigured THEN "interfaces" ELSE "frame"
        /\ UNCHANGED <<mProxyTable, mStupefied, reconfigured, shown, quiet>>
        /\ kpc = "proxies" /\ mProxyTable \subseteq mNeedUpdate
    BY <1>7 DEF updateAllProxies, ShowInv
  <2>2. ASSUME ~reconfigured, NEW p \in mProxyTable, TypeOf[p] = "digital"
        PROVE  /\ ~mStupefied[p] =>
                     (mData'[p].state \in {"ON", "TOGGLE_ON"} <=> mData'[p].sample \in On)
               /\ quiet => (StateOf(p)' \in {"ON", "TOGGLE_OFF"}
                               <=> shown[p] \in {"ON", "TOGGLE_ON"})
    <3>1. p \in Proxies /\ (quiet => shown[p] = StateOf(p)) /\ mData[p].state \in States
      BY <2>1, <2>2 DEF TypeOK, ManagerTypeOK, Data
    <3>2. CASE mStupefied[p]
      BY <2>1, <3>1, <3>2
    <3>3. CASE ~mStupefied[p]
      <4> DEFINE n == getData(samples[mTypedDevice[p]][TypeOf[p]])
                 on == n \in On
      <4>1. mData'[p] = DataFrom(mData[p], n, TypeOf[p])
        BY <1>7, <2>1, <2>2, <3>1, <3>3 DEF updateAllProxies
      <4>2. mData'[p].state = Toggled(mData[p].state, on) /\ mData'[p].sample = n
        BY <2>2, <4>1 DEF DataFrom
      <4>3. on <=> mData'[p].sample \in On
        BY <4>2
      <4> HIDE DEF on
      <4>4. on <=> mData'[p].state \in {"ON", "TOGGLE_ON"}
        <5>1. CASE on
          BY <4>2, <5>1 DEF Toggled
        <5>2. CASE ~on
          BY <4>2, <5>2 DEF Toggled
        <5> QED BY <5>1, <5>2
      <4>5. quiet => (StateOf(p)' \in {"ON", "TOGGLE_OFF"} <=> shown[p] \in {"ON", "TOGGLE_ON"})
        BY <2>1, <3>1, <3>3, <4>2 DEF Toggled, States
      <4> QED BY <4>3, <4>4, <4>5
    <3> QED BY <3>2, <3>3
  <2> QED BY <2>1, <2>2
<1>8. CASE ShutsDown
  BY <1>8 DEF ShutsDown, shutdown, shutdownDevice
<1>9. CASE Slave \/ (\E o \in Devices : DestroyDevice(o)) \/ \E o \in Devices : Samples(o)
  BY <1>9 DEF Slave, DestroyDevice, Samples
<1> QED BY <1>1, <1>2, <1>3, <1>4, <1>5, <1>6, <1>7, <1>8, <1>9
        DEF Next, Kernel, Updates, UpdatesProxies

-----------------------------------------------------------------------------
(* The theorems. *)

IInv == /\ TypeOK /\ TypedInv /\ PlaceInv /\ TableInv
        /\ ProxiesFollowTable /\ InterfacesInv /\ ExitInv /\ OffInv
        /\ ThreadInv /\ NewestInv /\ ShownInv /\ ShowInv /\ QuietInv

\* The constructors establish it.
LEMMA InitIInv == Init => IInv
<1> SUFFICES ASSUME Init PROVE IInv
  OBVIOUS
<1> USE DEF Init, DriversInit, ManagerInit
<1>1. TypeOK /\ TypedInv
  BY InitTypes
<1>2. PlaceInv /\ TableInv
  BY DEF PlaceInv, TableInv
<1>3. ProxiesFollowTable /\ InterfacesInv
  BY ProxiesAssumption DEF ProxiesFollowTable, InterfacesInv, getProxy
<1>4. ExitInv /\ OffInv /\ ThreadInv
  BY DEF ExitInv, OffInv, ThreadInv, Running
<1>5. NewestInv /\ ShownInv
  BY DEF NewestInv, ShownInv, Latest, getData, Added, EmptyBuffer
<1>6. ShowInv /\ QuietInv
  BY DEF ShowInv, QuietInv, StatesTell
<1> QED BY <1>1, <1>2, <1>3, <1>4, <1>5, <1>6 DEF IInv

\* One step.
LEMMA StepIInv == IInv /\ [Next]_vars => IInv'
<1>1. IInv /\ UNCHANGED vars => IInv'
  <2> SUFFICES ASSUME IInv, UNCHANGED vars PROVE IInv'
    OBVIOUS
  <2> USE DEF vars, driverVars, managerVars, tableVars, proxyVars, stepVars, historyVars,
              pluginVars, slaveVars
  <2>1. (TypeOK /\ TypedInv)'
    BY DEF IInv, TypeOK, DriversTypeOK, ManagerTypeOK, PluginTypeOK, TypedInv
  <2>2. (PlaceInv /\ TableInv /\ ProxiesFollowTable /\ InterfacesInv)'
    BY DEF IInv, PlaceInv, TableInv, ProxiesFollowTable, Finds, InterfacesInv, getProxy, InTable
  <2>3. (ExitInv /\ OffInv)'
    BY DEF IInv, ExitInv, OffInv, Running, Referenced, Held, InTable
  <2>4. (ThreadInv /\ NewestInv /\ ShownInv /\ ShowInv)'
    BY DEF IInv, ThreadInv, NewestInv, ShownInv, Added, ShowInv, InTable
  <2>5. QuietInv'
    BY DEF IInv, QuietInv, StatesTell, StateOf
  <2> QED BY <2>1, <2>2, <2>3, <2>4, <2>5 DEF IInv
<1>2. IInv /\ Next => IInv'
  BY DriverSteps, DriversType, ManagersType, PluginsType, LookupStep, PlaceStep, ExitStep,
     BuffersStep, ShowStep, QuietStep DEF IInv, TypeOK
<1> QED BY <1>1, <1>2

\* The input manager, the drivers and the plug-in keep what each expects of the others.
THEOREM Invariance == Spec => []IInv
BY InitIInv, StepIInv, PTL DEF Spec

\* refreshAllProxies(): whatever is configured, removed or replaced, proxies refer to the
\* device that has their device's name.
THEOREM ProxiesRefreshed == Spec => []ProxiesFollowTable
<1>1. IInv => ProxiesFollowTable
  BY DEF IInv
<1> QED BY <1>1, Invariance, PTL

\* refreshAllInterfaces(): in a frame the interfaces have the proxies they ask for.
THEOREM InterfacesRefreshed == Spec => []InterfacesFollowTables
<1>1. IInv => InterfacesFollowTables
  BY DEF IInv, PlaceInv, InterfacesInv, InterfacesFollowTables
<1> QED BY <1>1, Invariance, PTL

\* removeDevice(), addDevice() and the drivers' destructors: a thread that runs in a frame
\* or after shutdown() was not told to stop, and can be.
THEOREM NoThreadIsLost == Spec => []RunningIsReachable
<1>1. IInv => RunningIsReachable
  <2> SUFFICES ASSUME IInv, kpc \in {"frame", "off"}, Dropped = {}, NEW o \in Devices, Running(o)
               PROVE  /\ ~mExitFlag[o]
                      /\ \/ o \in InTable
                         \/ \E p \in Proxies : mTypedDevice[p] = o /\ mStupefied[p]
    BY DEF RunningIsReachable
  <2>1. Referenced(o)
    BY DEF Dropped
  <2>2. ~mExitFlag[o]
    BY NothingDropped DEF IInv
  <2>3. ASSUME o \notin InTable
        PROVE  \E p \in Proxies : mTypedDevice[p] = o /\ mStupefied[p]
    <3>1. PICK p \in Proxies : Held(p) /\ mTypedDevice[p] = o
      BY <2>1, <2>3 DEF Referenced
    <3>2. CASE kpc = "frame"
      <4>1. p \in mProxyTable
        BY <3>1, <3>2, Lookup, ProxiesAssumption
           DEF Held, IInv, PlaceInv, InterfacesInv, TypeOK
      <4>2. mStupefied[p]
        BY <2>3, <3>1, <3>2, <4>1, ProxiesAssumption
           DEF IInv, ProxiesFollowTable, Finds, InTable
      <4> QED BY <3>1, <4>2
    <3>3. CASE kpc = "off"
      <4>1. mStupefied[p]
        BY <3>1, <3>3 DEF IInv, OffInv, Held
      <4> QED BY <3>1, <4>1
    <3> QED BY <3>2, <3>3
  <2> QED BY <2>2, <2>3
<1> QED BY <1>1, Invariance, PTL

\* updateAllDevices() and updateAllProxies(): in a frame everything has been updated, and
\* a proxy gives what its device shows.
THEOREM FramesShowDevices == Spec => []ProxiesShowDevices
<1>1. IInv => ProxiesShowDevices
  BY DEF IInv, ShowInv, ProxiesShowDevices
<1> QED BY <1>1, Invariance, PTL

\* DigitalProxy::updateData(): in every frame the four states of a button say whether it is
\* pressed, and while nothing is configured also what has changed since the frame before.
THEOREM StatesAreEdges == Spec => []StatesFollowFrames
<1>1. IInv => StatesFollowFrames
  <2>1. IInv => StatesTell /\ ShowInv
    BY DEF IInv, QuietInv
  <2> QED BY <2>1 DEF StatesTell, ShowInv, StatesFollowFrames, StateOf
<1> QED BY <1>1, Invariance, PTL

-----------------------------------------------------------------------------
(* The drivers, their buffers and the input manager implement InputFrames.   *)

\* A unit is a device and one of its types.
LEMMA UnitsAre ==
  /\ \A u \in Units : u[1] \in Devices /\ u[2] \in Types /\ HasType(u[1], u[2])
                      /\ u = <<u[1], u[2]>>
  /\ \A o \in Devices, t \in Types : HasType(o, t) => <<o, t>> \in Units
<1>1. \A o \in Devices : \A k \in DOMAIN Channels[o] : Channels[o][k] \in Types
  BY DevicesAssumption
<1>2. ASSUME NEW u \in Units
      PROVE  u[1] \in Devices /\ u[2] \in Types /\ HasType(u[1], u[2]) /\ u = <<u[1], u[2]>>
  <2>1. PICK o \in Devices : \E k \in DOMAIN Channels[o] : u = <<o, Channels[o][k]>>
    BY DEF Units
  <2> QED BY <1>1, <2>1 DEF HasType
<1>3. ASSUME NEW o \in Devices, NEW t \in Types, HasType(o, t) PROVE <<o, t>> \in Units
  BY <1>3 DEF Units, HasType
<1> QED BY <1>2, <1>3

\* What the proof has to show of a step.
Promised == [Promise!Next]_<<Phase, Live, Fresh, Published, Displayed>>

\* A step that updates no unit.
UpdatesNone == Fresh' \subseteq Fresh /\ Displayed' = Displayed

\* A step that shows and adds nothing is a stutter, or starts the update again.
LEMMA NothingNew ==
  ASSUME kpc # "frame", kpc' # "frame",
         \A u \in Units : /\ Added(u[1], u[2])' = Added(u[1], u[2])
                          /\ getData(samples'[u[1]][u[2]]) = getData(samples[u[1]][u[2]]),
         Fresh' = {} \/ (Fresh' = Fresh /\ InTable' = InTable)
  PROVE  Promised /\ UpdatesNone
<1>1. Phase' = Phase /\ Phase = "update" /\ Published' = Published /\ Displayed' = Displayed
  BY DEF Phase, Published, Displayed
<1>2. Live' \in SUBSET Units
  BY DEF Live
<1>3. CASE Fresh' = {}
  BY <1>1, <1>2, <1>3 DEF UpdatesNone, Promised, Promise!Next, Promise!Configure
<1>4. CASE Fresh' = Fresh /\ InTable' = InTable
  BY <1>1, <1>4 DEF UpdatesNone, Promised, Live
<1> QED BY <1>3, <1>4

\* The threads and the slave change neither the tables nor what is shown.
LEMMA UnchangedManager ==
  ASSUME UNCHANGED managerVars
  PROVE  Phase' = Phase /\ Live' = Live /\ Fresh' = Fresh
BY DEF managerVars, tableVars, proxyVars, stepVars, historyVars, Phase, Live, Fresh, Updated, InTable

\* The samples that threads add are published one by one.
LEMMA SamplesPublish ==
  ASSUME IInv, NEW o \in Devices, Samples(o)
  PROVE  Promised
<1>1. Phase' = Phase /\ Live' = Live /\ Fresh' = Fresh
  BY UnchangedManager DEF Samples
<1>2. CASE controlLoopExits(o) \/ sample(o)
  <2>1. Published' = Published /\ Displayed' = Displayed
    BY <1>2, UnitsAre, QuietSteps DEF IInv, Published, Displayed
  <2> QED BY <1>1, <2>1 DEF Promised
<1>3. CASE addDeviceSample(o)
  <2> PICK t : t = Channels[o][adding[o]]
    OBVIOUS
  <2> DEFINE u == <<o, t>>
  <2>1. /\ t \in Types /\ HasType(o, t) /\ taken[o] \in Nat
        /\ Added(o, t) = taken[o] - 1 /\ Added(o, t)' = taken[o]
    BY <1>3, AddedStep DEF IInv, TypeOK, DriversTypeOK
  <2>2. u \in Units /\ u[1] = o /\ u[2] = t
    BY <2>1, UnitsAre
  <2>3. ASSUME NEW v \in Units, v # u PROVE Added(v[1], v[2])' = Added(v[1], v[2])
    BY <1>3, <2>2, <2>3, UnitsAre, AddedStep DEF IInv
  <2>4. Published' = [Published EXCEPT ![u] = @ + 1]
    <3>1. Published' = [v \in Units |-> Added(v[1], v[2])']
      BY DEF Published
    <3>2. Published'[u] = Published[u] + 1
      BY <2>1, <2>2, <3>1 DEF Published
    <3>3. \A v \in Units \ {u} : Published'[v] = Published[v]
      BY <2>3, <3>1 DEF Published
    <3> QED BY <3>1, <3>2, <3>3 DEF Published
  <2>5. \A d \in Devices, r \in Types : getData(samples'[d][r]) = getData(samples[d][r])
    <3>1. \A d \in Devices, r \in Types :
             \/ samples'[d][r] = samples[d][r]
             \/ samples'[d][r] = addSample(samples[d][r], taken[o])
      BY <1>3 DEF addDeviceSample, IInv, TypeOK, DriversTypeOK
    <3>2. \A d \in Devices, r \in Types : samples[d][r] \in Buffers
      BY DEF IInv, TypeOK, DriversTypeOK
    <3>3. \A b \in Buffers, n \in Nat : getData(addSample(b, n)) = getData(b)
      BY BufferOps
    <3> QED BY <2>1, <3>1, <3>2, <3>3
  <2>6. Displayed' = Displayed
    BY <2>5, UnitsAre DEF Displayed
  <2> QED BY <1>1, <2>2, <2>4, <2>6 DEF Promised, Promise!Next, Promise!Publish
<1> QED BY <1>2, <1>3 DEF Samples, Sampling

\* What has been updated is in the table and has no update left.
LEMMA FreshIs ==
  ASSUME NEW o \in Devices, NEW t \in Types, HasType(o, t)
  PROVE  <<o, t>> \in Fresh <=> Updated(o, t)
BY UnitsAre DEF Fresh

\* updateData() of a thread's driver goes on to the next of its types.
LEMMA UpdateStep ==
  ASSUME IInv, NEW o \in Devices, updateDevice(o)
  PROVE  /\ kpc = "devices" /\ kpc' = "devices" /\ InTable' = InTable
         /\ swapChannel(o, pos) /\ pos \in 1 .. Len(SwapOrder[o])
         /\ \A r \in Types : HasType(o, r) =>
               /\ Updated(o, r) <=> \E j \in 1 .. pos - 1 : SwapOrder[o][j] = r
               /\ Updated(o, r)' <=> \E j \in 1 .. pos : SwapOrder[o][j] = r
         /\ \A d \in Devices \ {o}, r \in Types : Updated(d, r)' <=> Updated(d, r)
<1> PICK n \in Nat : n = Len(SwapOrder[o])
  BY DevicesAssumption
<1>1. /\ kpc = "devices" /\ kpc' = "devices" /\ mDevTable' = mDevTable
      /\ swapChannel(o, pos) /\ o \in InTable /\ InTable' = InTable
      /\ mNeedUpdate' = mNeedUpdate \ {o}
      /\ pos' = (IF pos = n THEN 1 ELSE pos + 1)
      /\ target' = (IF pos = n THEN NoDevice ELSE o)
      /\ \/ target = o /\ o \notin mNeedUpdate
         \/ target = NoDevice /\ o \in mNeedUpdate /\ pos = 1
  BY DevicesAssumption DEF updateDevice, KernelAt, Others, tableVars, InTable, IInv, PlaceInv
<1>2. pos \in 1 .. n
  <2>1. CASE target = o
    BY <1>1, <2>1, DevicesAssumption DEF IInv, PlaceInv
  <2>2. CASE target = NoDevice /\ pos = 1
    <3>1. 1 \in 1 .. Len(Channels[o])
      BY DevicesAssumption
    <3>2. \E j \in 1 .. n : SwapOrder[o][j] = Channels[o][1]
      BY <3>1, SwapOrderAssumption
    <3> QED BY <2>2, <3>2
  <2> QED BY <1>1, <2>1, <2>2
<1>3. \A r \in Types : HasType(o, r) => \E j \in 1 .. n : SwapOrder[o][j] = r
  <2> SUFFICES ASSUME NEW r \in Types, HasType(o, r) PROVE \E j \in 1 .. n : SwapOrder[o][j] = r
    OBVIOUS
  <2>1. PICK k \in 1 .. Len(Channels[o]) : Channels[o][k] = r
    BY DevicesAssumption DEF HasType
  <2> QED BY <2>1, SwapOrderAssumption
<1>4. \A r \in Types : HasType(o, r) =>
         /\ Updated(o, r) <=> \E j \in 1 .. pos - 1 : SwapOrder[o][j] = r
         /\ Updated(o, r)' <=> \E j \in 1 .. pos : SwapOrder[o][j] = r
  <2> SUFFICES ASSUME NEW r \in Types, HasType(o, r)
               PROVE  /\ Updated(o, r) <=> \E j \in 1 .. pos - 1 : SwapOrder[o][j] = r
                      /\ Updated(o, r)' <=> \E j \in 1 .. pos : SwapOrder[o][j] = r
    OBVIOUS
  <2>1. Updated(o, r) <=> \E j \in 1 .. pos - 1 : SwapOrder[o][j] = r
    BY <1>1, <1>2 DEF Updated
  <2>2. CASE pos = n
    <3>1. Updated(o, r)'
      BY <1>1, <2>2, DevicesAssumption DEF Updated
    <3> QED BY <1>3, <2>1, <2>2, <3>1
  <2>3. CASE pos # n
    <3>1. pos' = pos + 1 /\ target' = o /\ pos' - 1 = pos
      BY <1>1, <1>2, <2>3
    <3>2. Updated(o, r)' <=> \E j \in 1 .. pos : SwapOrder[o][j] = r
      BY <1>1, <3>1 DEF Updated
    <3> QED BY <2>1, <3>2
  <2> QED BY <2>2, <2>3
<1>5. ASSUME NEW d \in Devices \ {o}, NEW r \in Types PROVE Updated(d, r)' <=> Updated(d, r)
  BY <1>1, DevicesAssumption DEF Updated
<1> QED BY <1>1, <1>2, <1>4, <1>5

\* Of the units it shows one more.
LEMMA DeviceUpdates ==
  ASSUME IInv, NEW o \in Devices, updateDevice(o)
  PROVE  Promised
<1> PICK t : t = SwapOrder[o][pos]
  OBVIOUS
<1> PICK n \in Nat : n = Len(SwapOrder[o])
  BY DevicesAssumption
<1> DEFINE u == <<o, t>>
<1>1. /\ kpc = "devices" /\ kpc' = "devices" /\ InTable' = InTable
      /\ swapChannel(o, pos) /\ pos \in 1 .. n
  BY UpdateStep
<1>2. t \in Types /\ HasType(o, t) /\ u \in Units
  <2>1. SwapOrder[o] \in Seq(Types) /\ pos \in 1 .. Len(SwapOrder[o])
    BY <1>1, DevicesAssumption
  <2>2. t \in Types
    BY <2>1
  <2>3. HasType(o, t)
    BY <2>1, SwapOrderAssumption, Zenon
  <2> QED BY <2>2, <2>3, UnitsAre
<1>3. \A i, j \in 1 .. n : SwapOrder[o][i] = SwapOrder[o][j] => i = j
  BY SwapOrderAssumption
<1>4. \A r \in Types : HasType(o, r) =>
         /\ Updated(o, r) <=> \E j \in 1 .. pos - 1 : SwapOrder[o][j] = r
         /\ Updated(o, r)' <=> \E j \in 1 .. pos : SwapOrder[o][j] = r
  BY UpdateStep
<1>5. \A d \in Devices \ {o}, r \in Types : Updated(d, r)' <=> Updated(d, r)
  BY UpdateStep
<1>6. u \notin Fresh
  <2>1. ~\E j \in 1 .. pos - 1 : SwapOrder[o][j] = t
    BY <1>1, <1>3
  <2> QED BY <1>2, <1>4, <2>1, FreshIs
<1>7. Fresh' = Fresh \cup {u}
  <2>1. ASSUME NEW v \in Units, v[1] = o, v # u PROVE Updated(v[1], v[2])' <=> Updated(v[1], v[2])
    <3>1. v[2] \in Types /\ HasType(o, v[2]) /\ v[2] # t
      BY <2>1, UnitsAre
    <3>2. (\E j \in 1 .. pos : SwapOrder[o][j] = v[2]) <=> \E j \in 1 .. pos - 1 : SwapOrder[o][j] = v[2]
      BY <1>1, <3>1
    <3> QED BY <1>4, <2>1, <3>1, <3>2
  <2>2. ASSUME NEW v \in Units, v[1] # o PROVE Updated(v[1], v[2])' <=> Updated(v[1], v[2])
    BY <1>5, <2>2, UnitsAre
  <2>3. Updated(u[1], u[2])'
    BY <1>1, <1>2, <1>4
  <2> QED BY <1>2, <2>1, <2>2, <2>3 DEF Fresh
<1>8. Published' = Published
  BY <1>1, SwapStep, UnitsAre DEF IInv, Published
<1>9. Displayed' = [v \in Units |-> IF v \in {u} THEN Published'[v] ELSE Displayed[v]]
  <2>1. ASSUME NEW v \in Units, v # u
        PROVE  getData(samples'[v[1]][v[2]]) = getData(samples[v[1]][v[2]])
    BY <1>1, <2>1, SwapStep, UnitsAre DEF IInv
  <2>2. getData(samples'[o][t]) = Added(o, t)
    <3>1. samples'[o][t] = swapBuffers(samples[o][t]) /\ samples[o][t] \in Buffers
      BY <1>1, <1>2, SwapStep DEF IInv, TypeOK, DriversTypeOK
    <3> QED BY <1>2, <3>1, SwapBuffers DEF IInv, NewestInv
  <2>3. Published'[u] = Added(o, t)
    BY <1>2, <1>8 DEF Published
  <2> QED BY <1>2, <2>1, <2>2, <2>3 DEF Displayed
<1>10. Phase = "update" /\ Phase' = Phase /\ Live' = Live
  BY <1>1 DEF Phase, Live
<1>11. \A v \in {u} : Published'[v] >= Published[v]
  BY <1>2, <1>8, AddedIs DEF IInv, Published
<1>12. Published' = [v \in Units |-> IF v \in {u} THEN Published'[v] ELSE Published[v]]
  BY <1>8 DEF Published
<1>13. Promise!Update({u})
  BY <1>6, <1>7, <1>9, <1>10, <1>11, <1>12 DEF Promise!Update
<1> QED BY <1>2, <1>13 DEF Promised, Promise!Next

\* updateData() of a polled driver updates all its units, and may publish in them.
LEMMA PolledUpdates ==
  ASSUME IInv, NEW o \in Devices, updatePolledDevice(o)
  PROVE  Promised
<1> DEFINE us == {u \in Units : u[1] = o}
<1>1. /\ kpc = "devices" /\ kpc' = "devices" /\ InTable' = InTable /\ o \in InTable
      /\ mNeedUpdate' = mNeedUpdate \ {o} /\ o \in mNeedUpdate
      /\ target = NoDevice /\ target' = NoDevice /\ o \in Polled /\ pollData(o)
  BY DEF updatePolledDevice, KernelAt, Others, tableVars, stepVars, InTable
<1>2. PICK n \in Nat :
        /\ n >= taken[o] /\ taken' = [taken EXCEPT ![o] = n]
        /\ UNCHANGED <<created, thread, mExitFlag, adding>> /\ thread[o] = "none"
        /\ \A t \in Types : HasType(o, t) =>
              /\ Latest(samples'[o][t]) = n /\ getData(samples'[o][t]) = n
              /\ Added(o, t)' = n /\ Added(o, t) = taken[o]
        /\ \A d \in Devices \ {o}, t \in Types :
              samples'[d][t] = samples[d][t] /\ Added(d, t)' = Added(d, t)
  BY <1>1, PollStep DEF IInv
<1>3. us \in SUBSET Units /\ Phase = "update" /\ Phase' = Phase /\ Live' = Live
  BY <1>1 DEF Phase, Live
<1>4. us \cap Fresh = {} /\ Fresh' = Fresh \cup us
  <2>1. \A u \in Units : Updated(u[1], u[2])' <=> (Updated(u[1], u[2]) \/ u[1] = o)
    BY <1>1, UnitsAre, DevicesAssumption DEF Updated
  <2>2. \A u \in us : ~Updated(u[1], u[2])
    BY <1>1 DEF Updated
  <2> QED BY <2>1, <2>2 DEF Fresh
<1>5. \A u \in us : Published'[u] >= Published[u] /\ Displayed'[u] = Published'[u]
  BY <1>2, UnitsAre DEF Published, Displayed
<1>6. \A u \in Units \ us : Published'[u] = Published[u] /\ Displayed'[u] = Displayed[u]
  BY <1>2, UnitsAre DEF Published, Displayed
<1>7. /\ Published' = [u \in Units |-> IF u \in us THEN Published'[u] ELSE Published[u]]
      /\ Displayed' = [u \in Units |-> IF u \in us THEN Published'[u] ELSE Displayed[u]]
  <2>1. Published' = [u \in Units |-> Published'[u]] /\ Displayed' = [u \in Units |-> Displayed'[u]]
    BY DEF Published, Displayed
  <2> QED BY <1>5, <1>6, <2>1
<1> HIDE DEF us
<1>8. Promise!Update(us)
  BY <1>3, <1>4, <1>5, <1>7 DEF Promise!Update
<1> QED BY <1>3, <1>8 DEF Promised, Promise!Next

\* The kernel's other steps: the configuration, the proxies' update and the frame.
LEMMA OtherSteps ==
  ASSUME IInv, Next, ~\E o \in Devices : updateDevice(o) \/ updatePolledDevice(o) \/ Samples(o)
  PROVE  Promised /\ UpdatesNone
<1>1. ASSUME UNCHANGED driverVars
               \/ \E o \in Devices : startSampling(o) \/ raiseExitFlag(o)
      PROVE  \A u \in Units : /\ Added(u[1], u[2])' = Added(u[1], u[2])
                              /\ getData(samples'[u[1]][u[2]]) = getData(samples[u[1]][u[2]])
  <2>1. CASE UNCHANGED driverVars
    BY <2>1 DEF driverVars, Added
  <2>2. CASE \E o \in Devices : startSampling(o) \/ raiseExitFlag(o)
    BY <2>2, UnitsAre, QuietSteps DEF IInv
  <2> QED BY <1>1, <2>1, <2>2
<1>2. kpc' \in {"config", "stop", "reset", "shutdown", "off"} => Fresh' = {}
  BY DEF Fresh, Updated
<1>3. CASE Configures
  <2>1. kpc # "frame" /\ kpc' \in {"reset", "stop"}
    BY <1>3 DEF Configures, Adds, Removes, configAddDevice, configureProxy, configureProxyAlias,
       removeDevice, removeProxy, removeProxyAlias, AliasBecomes, ConfigDone, KernelAt
  <2>2. UNCHANGED driverVars \/ \E o \in Devices : startSampling(o) \/ raiseExitFlag(o)
    <3>1. CASE \E o \in Devices : configAddDevice(o)
      BY <3>1 DEF configAddDevice, configureDevice
    <3>2. CASE \E n \in DeviceNames : removeDevice(n)
      BY <3>2 DEF removeDevice, IInv, TypeOK, ManagerTypeOK
    <3>3. CASE \/ \E p \in Proxies : configureProxy(p) \/ removeProxy(p)
               \/ \E a \in Aliases, p \in Proxies : configureProxyAlias(a, p)
               \/ \E a \in Aliases : removeProxyAlias(a)
      BY <3>3 DEF configureProxy, removeProxy, configureProxyAlias, removeProxyAlias, AliasBecomes
    <3> QED BY <1>3, <3>1, <3>2, <3>3 DEF Configures, Adds, Removes
  <2> QED BY <1>1, <1>2, <2>1, <2>2, NothingNew
<1>4. ASSUME NEW o \in Devices, pluginConfigAdd(o) PROVE Promised /\ UpdatesNone
  <2>1. kpc = "config" /\ kpc' = "config" /\ startSampling(o)
    BY <1>4 DEF pluginConfigAdd, configureDevice, KernelAt
  <2> QED BY <1>1, <1>2, <2>1, NothingNew
<1>5. CASE StartsUpdate \/ RemoveStopped \/ RefreshInterfaces
  <2>1. kpc # "frame" /\ kpc' \in {"config", "reset"} /\ UNCHANGED driverVars
    BY <1>5 DEF StartsUpdate, EndReconfig, RemoveStopped, RefreshInterfaces, ConfigDone, KernelAt
  <2> QED BY <1>1, <1>2, <2>1, NothingNew
<1>6. CASE resetAllDevicesAndProxies
  <2>1. kpc # "frame" /\ kpc' = "devices" /\ UNCHANGED driverVars /\ InTable' \subseteq mNeedUpdate'
    BY <1>6 DEF resetAllDevicesAndProxies, KernelAt, Others, tableVars, InTable
  <2>2. Fresh' = {}
    BY <2>1 DEF Fresh, Updated
  <2> QED BY <1>1, <2>1, <2>2, NothingNew
<1>7. CASE ShutsDown
  <2>1. kpc # "frame" /\ kpc' \in {"shutdown", "off"}
        /\ (UNCHANGED driverVars \/ \E o \in Devices : raiseExitFlag(o))
    BY <1>7 DEF ShutsDown, shutdown, shutdownDevice, KernelAt
  <2> QED BY <1>1, <1>2, <2>1, NothingNew
<1>8. CASE DevicesDone \/ postPostFrame \/ receiveEnd
  <2>1. /\ kpc \in {"devices", "postPostFrame", "receive"}
        /\ kpc' \in {"postPostFrame", "receive", "proxies"}
        /\ UNCHANGED driverVars /\ InTable' = InTable /\ mNeedUpdate' = mNeedUpdate
        /\ target = NoDevice /\ target' = NoDevice
    BY <1>8 DEF DevicesDone, DevicesUpdated, postPostFrame, receiveEnd, KernelAt, Others, tableVars,
                stepVars, InTable, IInv, PlaceInv
  <2>2. Fresh' = Fresh
    BY <2>1, UnitsAre, DevicesAssumption DEF Fresh, Updated
  <2> QED BY <1>1, <2>1, <2>2, NothingNew
<1>9. CASE updateAllProxies
  <2>1. /\ kpc = "proxies" /\ kpc' = (IF reconfigured THEN "interfaces" ELSE "frame")
        /\ UNCHANGED driverVars /\ InTable' = InTable
        /\ mNeedUpdate' = mNeedUpdate \ mProxyTable /\ mProxyTable \subseteq Proxies
        /\ target = NoDevice /\ target' = NoDevice /\ mNeedUpdate \cap InTable = {}
    BY <1>9 DEF updateAllProxies, KernelAt, Others, tableVars, stepVars, InTable, IInv, PlaceInv,
                ShowInv, TypeOK, ManagerTypeOK
  <2>2. Fresh' = Fresh /\ Fresh = Live
    BY <2>1, UnitsAre, DevicesAssumption DEF Fresh, Live, Updated
  <2>3. CASE reconfigured
    BY <1>1, <2>1, <2>2, <2>3, NothingNew
  <2>4. CASE ~reconfigured
    <3>1. Phase = "update" /\ Phase' = "frame" /\ Live' = Live
      BY <2>1, <2>4 DEF Phase, Live
    <3>2. Published' = Published /\ Displayed' = Displayed
      BY <1>1, <2>1 DEF Published, Displayed
    <3> QED BY <2>2, <3>1, <3>2 DEF UpdatesNone, Promised, Promise!Next, Promise!Begin
  <2> QED BY <2>3, <2>4
<1>10. CASE EndFrame
  <2>1. kpc = "frame" /\ kpc' = "config" /\ UNCHANGED driverVars /\ InTable' = InTable
    BY <1>10 DEF EndFrame, KernelAt, Others, tableVars, InTable
  <2>2. Phase = "frame" /\ Phase' = "update" /\ Live' = Live
    BY <2>1 DEF Phase, Live
  <2>3. Published' = Published /\ Displayed' = Displayed
    BY <1>1, <2>1 DEF Published, Displayed
  <2> QED BY <1>2, <2>1, <2>2, <2>3 DEF UpdatesNone, Promised, Promise!Next, Promise!End
<1>11. CASE Slave \/ \E o \in Devices : DestroyDevice(o)
  <2>1. UNCHANGED managerVars
        /\ (UNCHANGED driverVars \/ \E o \in Devices : raiseExitFlag(o))
    BY <1>11 DEF Slave, DestroyDevice
  <2>2. Published' = Published /\ Displayed' = Displayed
    BY <1>1, <2>1 DEF Published, Displayed
  <2> QED BY <2>1, <2>2, UnchangedManager DEF UpdatesNone, Promised
<1> QED BY <1>3, <1>4, <1>5, <1>6, <1>7, <1>8, <1>9, <1>10, <1>11
        DEF Next, Kernel, Updates, UpdatesProxies

\* Input::updateData(): what a frame shows is the newest there was at the update, and does
\* not change in the frame, whatever the devices, the threads and the requests do.
THEOREM Refinement == Spec => ImplementsInputFrames
<1>1. Init => Promise!Init
  <2> SUFFICES ASSUME Init PROVE Promise!Init
    OBVIOUS
  <2>1. Phase = "update" /\ Live = {} /\ Fresh = {}
    BY DEF Init, ManagerInit, Phase, Live, Fresh, Updated, InTable
  <2>2. Published = [u \in Units |-> 0] /\ Displayed = [u \in Units |-> 0]
    BY UnitsAre DEF Init, DriversInit, Published, Displayed, Added, getData, EmptyBuffer
  <2> QED BY <2>1, <2>2 DEF Promise!Init
<1>2. IInv /\ [Next]_vars => [Promise!Next]_<<Phase, Live, Fresh, Published, Displayed>>
  <2>1. ASSUME IInv, Next PROVE Promised
    BY <2>1, DeviceUpdates, PolledUpdates, SamplesPublish, OtherSteps
  <2>2. ASSUME UNCHANGED vars PROVE Promised
    <3>1. UNCHANGED managerVars /\ UNCHANGED driverVars
      BY <2>2 DEF vars
    <3>2. Published' = Published /\ Displayed' = Displayed
      BY <3>1 DEF driverVars, Published, Displayed, Added
    <3> QED BY <3>1, <3>2, UnchangedManager DEF Promised
  <2> QED BY <2>1, <2>2 DEF Promised
<1> QED BY <1>1, <1>2, Invariance, PTL DEF Spec, ImplementsInputFrames, Promise!Spec, Promise!vars

-----------------------------------------------------------------------------
(* The types of one device in one frame.                                     *)

\* What the application is shown of two types, once the later one has been updated.
Behind(o, t, u) == IF AddedBefore(o, t, u) THEN 1 ELSE 0

TogetherInv == \A o \in Devices \ Polled : \A i, j \in 1 .. Len(SwapOrder[o]) :
    i < j /\ Updated(o, SwapOrder[o][j]) =>
        getData(samples[o][SwapOrder[o][j]]) + Behind(o, SwapOrder[o][i], SwapOrder[o][j])
            >= getData(samples[o][SwapOrder[o][i]])

\* A thread that has added its sample to one type and not to another adds to that one first.
LEMMA AddedInOrder ==
  ASSUME TypeOK, NEW o \in Devices, NEW t \in Types, NEW u \in Types, HasType(o, t), HasType(o, u)
  PROVE  Added(o, u) + Behind(o, t, u) >= Added(o, t)
<1> DEFINE c == Channels[o]
<1>1. /\ taken[o] \in Nat /\ adding[o] \in 1 .. Len(c) /\ Len(c) \in Nat
      /\ DOMAIN c = 1 .. Len(c)
  BY DevicesAssumption DEF TypeOK, DriversTypeOK
<1>2. CASE Added(o, u) = taken[o]
  BY <1>1, <1>2 DEF Added, Behind
<1>3. CASE Added(o, u) # taken[o]
  <2>1. thread[o] = "sample" /\ \E k \in adding[o] .. Len(c) : c[k] = u
    BY <1>3 DEF Added
  <2>2. PICK k \in adding[o] .. Len(c) : c[k] = u
    BY <2>1
  <2>3. CASE \E j \in adding[o] .. Len(c) : c[j] = t
    BY <1>1, <2>1, <2>3 DEF Added, Behind
  <2>4. CASE ~\E j \in adding[o] .. Len(c) : c[j] = t
    <3>1. PICK j \in 1 .. Len(c) : c[j] = t
      BY <1>1 DEF HasType
    <3>2. j < k /\ k \in 1 .. Len(c)
      BY <1>1, <2>2, <2>4, <3>1
    <3>3. Behind(o, t, u) = 1
      BY <2>2, <3>1, <3>2 DEF Behind, AddedBefore
    <3> QED BY <1>1, <3>3 DEF Added
  <2> QED BY <2>3, <2>4
<1> QED BY <1>2, <1>3

\* No other step updates a device with a thread, or changes what it shows.
LEMMA NotUpdated ==
  ASSUME IInv, Next, NEW d \in Devices \ Polled, ~updateDevice(d), NEW t \in Types, HasType(d, t)
  PROVE  /\ Updated(d, t)' => Updated(d, t)
         /\ getData(samples'[d][t]) = getData(samples[d][t])
<1> DEFINE Goal == /\ Updated(d, t)' => Updated(d, t)
                   /\ getData(samples'[d][t]) = getData(samples[d][t])
<1>1. ASSUME NEW o \in Devices, updateDevice(o) PROVE Goal
  <2>1. d # o
    BY <1>1
  <2> QED BY <1>1, <2>1, UpdateStep, SwapStep DEF IInv
<1>2. ASSUME NEW o \in Devices, updatePolledDevice(o) PROVE Goal
  <2>1. d # o /\ pollData(o) /\ o \in Polled
    BY <1>2 DEF updatePolledDevice
  <2>2. samples'[d][t] = samples[d][t]
    BY <2>1, PollStep DEF IInv
  <2>3. Updated(d, t)' => Updated(d, t)
    BY <1>2, <2>1, DevicesAssumption
       DEF updatePolledDevice, KernelAt, Others, tableVars, stepVars, InTable, Updated
  <2> QED BY <2>2, <2>3
<1>3. ASSUME NEW o \in Devices, Samples(o) PROVE Goal
  <2>1. Updated(d, t)' = Updated(d, t)
    BY <1>3 DEF Samples, managerVars, tableVars, stepVars, Updated, InTable
  <2>2. samples'[d][t] = samples[d][t] \/ samples'[d][t] = addSample(samples[d][t], taken[o])
    <3>1. CASE addDeviceSample(o)
      BY <3>1 DEF addDeviceSample, IInv, TypeOK, DriversTypeOK
    <3>2. CASE ~addDeviceSample(o)
      BY <1>3, <3>2 DEF Samples, Sampling, controlLoopExits, sample
    <3> QED BY <3>1, <3>2
  <2>3. samples[d][t] \in Buffers /\ taken[o] \in Nat
    BY DEF IInv, TypeOK, DriversTypeOK
  <2> QED BY <2>1, <2>2, <2>3, BufferOps
<1>4. ASSUME ~\E o \in Devices : updateDevice(o) \/ updatePolledDevice(o) \/ Samples(o) PROVE Goal
  <2>1. Fresh' \subseteq Fresh /\ Displayed' = Displayed
    BY <1>4, OtherSteps DEF UpdatesNone
  <2>2. <<d, t>> \in Units
    BY UnitsAre
  <2> QED BY <2>1, <2>2 DEF Fresh, Displayed
<1> QED BY <1>1, <1>2, <1>3, <1>4

\* updateData() shows of each type what has been added to it by then, and each later one
\* has got at least as far.
LEMMA TogetherStep == IInv /\ TogetherInv /\ Next => TogetherInv'
<1> SUFFICES ASSUME IInv, TogetherInv, Next,
                    NEW o \in Devices \ Polled,
                    NEW i \in 1 .. Len(SwapOrder[o]), NEW j \in 1 .. Len(SwapOrder[o]),
                    i < j, Updated(o, SwapOrder[o][j])'
             PROVE  getData(samples'[o][SwapOrder[o][j]])
                      + Behind(o, SwapOrder[o][i], SwapOrder[o][j])
                        >= getData(samples'[o][SwapOrder[o][i]])
  BY DEF TogetherInv, Behind, AddedBefore
<1> PICK t, u : t = SwapOrder[o][i] /\ u = SwapOrder[o][j]
  OBVIOUS
<1>1. t \in Types /\ u \in Types /\ HasType(o, t) /\ HasType(o, u)
  BY DevicesAssumption, SwapOrderAssumption
<1>2. CASE ~updateDevice(o)
  BY <1>1, <1>2, NotUpdated DEF TogetherInv
<1>3. CASE updateDevice(o)
  <2>1. /\ swapChannel(o, pos) /\ pos \in 1 .. Len(SwapOrder[o])
        /\ Updated(o, u) <=> \E k \in 1 .. pos - 1 : SwapOrder[o][k] = u
        /\ Updated(o, u)' <=> \E k \in 1 .. pos : SwapOrder[o][k] = u
    BY <1>1, <1>3, UpdateStep
  <2>2. \A k, l \in 1 .. Len(SwapOrder[o]) : SwapOrder[o][k] = SwapOrder[o][l] => k = l
    BY SwapOrderAssumption
  <2>3. j \in 1 .. pos
    BY <2>1, <2>2
  <2>4. samples'[o][t] = samples[o][t]
    <3>1. SwapOrder[o][pos] # t
      BY <2>1, <2>2, <2>3
    <3> QED BY <1>1, <2>1, <3>1, SwapStep DEF IInv
  <2>5. CASE j = pos
    <3>1. samples'[o][u] = swapBuffers(samples[o][u]) /\ samples[o][u] \in Buffers
      BY <1>1, <2>1, <2>5, SwapStep DEF IInv, TypeOK, DriversTypeOK
    <3>2. getData(samples'[o][u]) = Added(o, u)
      BY <1>1, <3>1, SwapBuffers DEF IInv, NewestInv
    <3>3. getData(samples[o][t]) <= Added(o, t)
      BY <1>1 DEF IInv, ShownInv
    <3>4. samples[o][t] \in Buffers /\ getData(samples[o][t]) \in Nat
      BY <1>1, SwapBuffers DEF IInv, TypeOK, DriversTypeOK
    <3>5. Added(o, t) \in Int /\ Added(o, u) \in Int /\ Behind(o, t, u) \in {0, 1}
      BY <1>1, AddedIs DEF IInv, Behind
    <3>6. Added(o, u) + Behind(o, t, u) >= Added(o, t)
      BY <1>1, AddedInOrder DEF IInv
    <3> QED BY <2>4, <3>2, <3>3, <3>4, <3>5, <3>6
  <2>6. CASE j # pos
    <3>1. Updated(o, u) /\ SwapOrder[o][pos] # u
      BY <2>1, <2>2, <2>3, <2>6
    <3>2. samples'[o][u] = samples[o][u]
      BY <1>1, <2>1, <3>1, SwapStep DEF IInv
    <3> QED BY <2>4, <3>1, <3>2 DEF TogetherInv
  <2> QED BY <2>5, <2>6
<1> QED BY <1>2, <1>3

\* sample() and updateData(): of one device a frame shows the later types at most one sample
\* behind the earlier ones, in the order they are swapped, for drivers of any types.
THEOREM TypesOfOneUpdate == Spec => []TypesTogether
<1>1. Init => TogetherInv
  BY DEF Init, ManagerInit, TogetherInv, Updated
<1>2. IInv /\ TogetherInv /\ [Next]_vars => TogetherInv'
  <2>1. ASSUME TogetherInv, UNCHANGED vars PROVE TogetherInv'
    <3>1. \A o \in Devices : \A t : Updated(o, t)' <=> Updated(o, t)
      BY <2>1 DEF vars, managerVars, tableVars, stepVars, Updated, InTable
    <3>2. samples' = samples
      BY <2>1 DEF vars, driverVars
    <3> QED BY <2>1, <3>1, <3>2 DEF TogetherInv, Behind, AddedBefore
  <2> QED BY <2>1, TogetherStep
<1>3. IInv /\ TogetherInv => TypesTogether
  <2> SUFFICES ASSUME IInv, TogetherInv, kpc = "frame", NEW o \in InTable \ Polled,
                      NEW i \in 1 .. Len(SwapOrder[o]), NEW j \in 1 .. Len(SwapOrder[o]), i < j
               PROVE  getData(samples[o][SwapOrder[o][j]])
                        + Behind(o, SwapOrder[o][i], SwapOrder[o][j])
                          >= getData(samples[o][SwapOrder[o][i]])
    BY DEF TypesTogether, Behind
  <2>1. o \in Devices /\ o # NoDevice
    BY DevicesAssumption DEF InTable, IInv, TypeOK, ManagerTypeOK
  <2>2. Updated(o, SwapOrder[o][j])
    BY <2>1 DEF Updated, IInv, PlaceInv, ShowInv
  <2> QED BY <2>1, <2>2 DEF TogetherInv
<1> QED BY <1>1, <1>2, <1>3, Invariance, PTL DEF Spec

=============================================================================
