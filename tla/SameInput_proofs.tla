--------------------------- MODULE SameInput_proofs ---------------------------
(***************************************************************************)
(* In a cluster the proxies of the two nodes show the same data, for any   *)
(* devices, proxies, samples and interleavings of the nodes: SameInput.    *)
(*                                                                         *)
(* The invariant is an account of the exchange.  Of the messages of the    *)
(* master, the slave has first an acknowledgement of each device server,   *)
(* and then blocks, each with the data of every server and an end.         *)
(* Neither node is more than a frame ahead, so that at most two blocks are *)
(* on their way.                                                           *)
(***************************************************************************)
EXTENDS RemoteInput_proofs

-----------------------------------------------------------------------------
(* The account of a cluster. *)

Bit(b) == IF b THEN 1 ELSE 0

\* The master has sent the block of its next frame; it has had the slave's end as well.
Sent == kpc = "receive" \/ (kpc = "proxies" /\ ~reconfigured)
Answered == kpc = "proxies" /\ ~reconfigured

Servers == Len(mDeviceServers)

\* The device servers are those of the table.
ServersInv ==
    /\ \A i, j \in 1 .. Servers : mDeviceServers[i] = mDeviceServers[j] => i = j
    /\ \A i \in 1 .. Servers : mDevTable[NameOf[mDeviceServers[i]]] = mDeviceServers[i]
    /\ \A n \in DeviceNames : mDevTable[n] # NoDevice =>
          \E i \in 1 .. Servers : mDeviceServers[i] = mDevTable[n]

\* All of the configuration is loaded before the first frame.
LoadInv ==
    /\ kpc \notin {"stop", "shutdown", "off"}
    /\ loading => frame = 0 /\ (kpc = "config" \/ reconfigured)
    /\ ~loading => ~reconfigured
    /\ kpc = "frame" => frame > 0

\* The master is d frames ahead.  How many blocks the slave has not had the end of.
Blocks(d) == d + Bit(Sent) - Bit(rpc = "proxies")
FramesInv(d) ==
    /\ ends = Bit(rpc # "frame") - d - Bit(Answered)
    /\ Blocks(d) >= 0
    /\ d = 0 => frame = remoteFrame
    /\ d = 1 => frame = NextFrame(remoteFrame)
    /\ d = -1 => remoteFrame = NextFrame(frame)

\* The x-th message: counted are the acknowledgements, and the blocks not yet over.
IsData(msg, i) == msg.type = "RIM_DATA_PACKET" /\ msg.id = mDeviceServers[i]
Fits(msg, x) ==
    /\ x <= Servers => msg = ACK(mDeviceServers[x])
    /\ x \in Servers + 1 .. 2 * Servers => IsData(msg, x - Servers)
    /\ x = 2 * Servers + 1 \/ x = 3 * Servers + 2 => msg = END
    /\ x \in 2 * Servers + 2 .. 3 * Servers + 1 => IsData(msg, x - (2 * Servers + 1))

\* The slave has had g messages.
Total(blocks) == IF blocks = 0 THEN Servers
                 ELSE IF blocks = 1 THEN 2 * Servers + 1 ELSE 3 * Servers + 2
LinkInv(d, g) ==
    /\ g <= 2 * Servers /\ Len(link) + g = Total(Blocks(d))
    /\ remoteFrame > 0 \/ rpc = "proxies" => g >= Servers
    /\ rpc # "receive" => g <= Servers
    /\ \A i \in 1 .. Len(link) : Fits(link[i], g + i)

VirtualInv(g) ==
    /\ \A o \in Devices : o \in mVirtualDevices <=>
          \E i \in 1 .. Servers : i <= g /\ mDeviceServers[i] = o
    /\ \A n \in DeviceNames :
          remoteTable[n] = IF mDevTable[n] \in mVirtualDevices THEN mDevTable[n] ELSE NoDevice
    /\ \A o \in Devices, t \in Types : remoteSamples[o][t].ready = <<>>

\* The proxies that have a device, what the buffers of it show on each node, and what the
\* last block had of it.
Used == {p \in mProxyTable : ~mStupefied[p]}
Stable(p) == samples[mTypedDevice[p]][TypeOf[p]].stable
Current(p) == getData(samples[mTypedDevice[p]][TypeOf[p]])
Received(p) == getData(remoteSamples[mTypedDevice[p]][TypeOf[p]])
Posted(p) == IF Sent THEN Current(p) ELSE IF frame > 0 THEN mData[p].sample ELSE 0

\* A device that has shown no data yet has none at all.
EmptyInv == frame > 0 => \A p \in Used : Stable(p) = <<>> => mData[p].sample = 0

\* What a buffer shows that has the data of a message read into it.
Brings(data, old, new) == new = IF data = <<>> THEN old ELSE data[Len(data)]

\* What the slave shows, and will with each of the blocks.
First(d, p) == IF Blocks(d) = 2 THEN mData[p].sample ELSE Posted(p)
BlockOf(d, g, p) ==
    /\ Blocks(d) = 0 => Received(p) = Posted(p)
    /\ Blocks(d) = 1 /\ rpc = "proxies" => Received(p) = mData[p].sample
    /\ Blocks(d) > 0 => \A i \in 1 .. Servers : mDeviceServers[i] = mTypedDevice[p] =>
          IF Servers + i <= g THEN Received(p) = First(d, p)
          ELSE Brings(link[Servers + i - g].data[TypeOf[p]], Received(p), First(d, p))
    /\ Blocks(d) = 2 => \A i \in 1 .. Servers : mDeviceServers[i] = mTypedDevice[p] =>
          Brings(link[2 * Servers + 1 + i - g].data[TypeOf[p]], mData[p].sample, Current(p))
BlockInv(d, g) ==
    /\ frame = 0 /\ ~Sent => \A o \in Devices, t \in Types : getData(remoteSamples[o][t]) = 0
    /\ \A p \in Used : BlockOf(d, g, p)

\* After the first frame the state of a button follows from two samples.
Matches(p, data) ==
    IF TypeOf[p] = "digital" THEN (data.state \in {"ON", "TOGGLE_ON"}) = (data.sample \in On)
    ELSE data.state = "OFF"
Edge(p, before, now) ==
    IF TypeOf[p] # "digital" THEN "OFF"
    ELSE IF now \in On THEN IF before \in On THEN "ON" ELSE "TOGGLE_ON"
    ELSE IF before \in On THEN "TOGGLE_OFF" ELSE "OFF"

\* What the proxies of the two nodes have.
DataOf(d, p) ==
    /\ frame > 0 => Matches(p, mData[p])
    /\ remoteFrame > 0 => Matches(p, remoteData[p])
    /\ d = 0 /\ frame > 0 =>
          /\ remoteData[p].sample = mData[p].sample
          /\ frame > 1 => remoteData[p].state = mData[p].state
    /\ d = 1 /\ remoteFrame > 0 =>
          mData[p].state = Edge(p, remoteData[p].sample, mData[p].sample)
    /\ d = -1 =>
          /\ remoteData[p].sample = Current(p)
          /\ frame > 0 =>
                remoteData[p].state = Edge(p, mData[p].sample, remoteData[p].sample)
DataInv(d) == \A p \in Used : DataOf(d, p)

Sync(d, g) == FramesInv(d) /\ LinkInv(d, g) /\ VirtualInv(g) /\ BlockInv(d, g) /\ DataInv(d)
MasterInv == ServersInv /\ LoadInv /\ EmptyInv
ClusterInv == clusterActive => MasterInv /\ \E d \in {-1, 0, 1}, g \in Nat : Sync(d, g)

-----------------------------------------------------------------------------
(* The buffers and the states of a button. *)

\* A buffer that holds nothing unread shows the last sample that is read into it, if any is.
LEMMA ReadObjectShows ==
  ASSUME NEW b \in Buffers, b.ready = <<>>, NEW data \in Seq(Nat)
  PROVE  /\ readObject(b, data).ready = <<>>
         /\ Brings(data, getData(b), getData(readObject(b, data)))
<1>1. b.stable \in Seq(Nat) /\ MAX_BUFFER_SIZE \in Nat \ {0}
  BY BufferAssumption DEF Buffers
<1>2. b.ready \o data = data
  <2>1. <<>> \o data = data
    OBVIOUS
  <2> QED BY <2>1
<1>3. readObject(b, data) = swapBuffers([ready |-> Kept(data), stable |-> b.stable])
  <2>1. [b EXCEPT !.ready = Kept(@ \o data)] = [b EXCEPT !.ready = Kept(data)]
    BY <1>2, Zenon
  <2>2. [b EXCEPT !.ready = Kept(data)] = [ready |-> Kept(data), stable |-> b.stable]
    <3> DEFINE k == Kept(data)
    <3>1. b \in [ready : Seq(Nat), stable : Seq(Nat)]
      BY DEF Buffers
    <3> HIDE DEF k
    <3>2. [b EXCEPT !.ready = k] = [ready |-> k, stable |-> b.stable]
      BY <3>1
    <3> QED BY <3>2 DEF k
  <2> QED BY <2>1, <2>2, Zenon DEF readObject
<1>4. CASE data = <<>>
  <2>1. Kept(data) = <<>>
    BY <1>1, <1>4 DEF Kept
  <2> QED BY <1>3, <1>4, <2>1 DEF swapBuffers, Brings, getData
<1>5. CASE data # <<>>
  <2>1. Len(data) \in Nat \ {0}
    BY <1>5
  <2>2. Kept(data) # <<>> /\ Kept(data)[Len(Kept(data))] = data[Len(data)]
    <3>1. CASE Len(data) > MAX_BUFFER_SIZE
      <4> DEFINE k == Len(data) - MAX_BUFFER_SIZE + 1
      <4>1. Kept(data) = SubSeq(data, k, Len(data)) /\ k \in 1 .. Len(data)
        BY <1>1, <2>1, <3>1 DEF Kept
      <4> HIDE DEF k
      <4>2. /\ Kept(data) \in Seq(Nat) /\ Len(Kept(data)) = Len(data) - k + 1
            /\ \A i \in 1 .. Len(data) - k + 1 : Kept(data)[i] = data[k + i - 1]
        BY <2>1, <4>1, SuffixProperties
      <4>3. Len(data) - k + 1 \in 1 .. Len(data) - k + 1 /\ k + (Len(data) - k + 1) - 1 = Len(data)
        BY <2>1, <4>1
      <4>4. Kept(data)[Len(Kept(data))] = data[Len(data)]
        BY <2>1, <4>2, <4>3
      <4>5. Len(Kept(data)) \in Nat \ {0}
        BY <2>1, <4>1, <4>2
      <4>6. Kept(data) # <<>>
        BY <4>5
      <4> QED BY <4>4, <4>6
    <3>2. CASE ~(Len(data) > MAX_BUFFER_SIZE)
      BY <1>5, <3>2 DEF Kept
    <3> QED BY <3>1, <3>2
  <2>3. readObject(b, data) = [ready |-> <<>>, stable |-> Kept(data)]
    BY <1>3, <2>2 DEF swapBuffers
  <2> QED BY <1>5, <2>2, <2>3 DEF Brings, getData
<1> QED BY <1>4, <1>5

\* What an update makes of a button whose state is that of its sample.
LEMMA UpdatedData ==
  ASSUME NEW p \in Proxies, NEW old \in Data, NEW n \in Nat
  PROVE  /\ DataFrom(old, n, TypeOf[p]).sample = n
         /\ Matches(p, DataFrom(old, n, TypeOf[p]))
         /\ Matches(p, old) => DataFrom(old, n, TypeOf[p]).state = Edge(p, old.sample, n)
BY DEF DataFrom, Matches, Edge, Toggled, Data, States

-----------------------------------------------------------------------------
(* What the steps of the master do. *)

\* Nothing but the configuration of the plug-in, the exchange with the other node, and the
\* update of the proxies for a frame touches what the account is about.
KeepsAccount ==
    /\ UNCHANGED <<frame, pluginVars, mDevTable>>
    /\ (Sent' <=> Sent) /\ (Answered' <=> Answered)
    /\ frame > 0 \/ Sent =>
          /\ UNCHANGED Used
          /\ \A p \in Used :
                /\ UNCHANGED <<mTypedDevice[p], mData[p]>>
                /\ Stable(p)' = <<>> => Stable(p) = <<>>
                /\ Sent => UNCHANGED Current(p)

\* The configuration of a cluster is loaded before its first frame, and stays.
LEMMA LoadStep == TypeOK /\ PlaceInv /\ clusterActive /\ LoadInv /\ Next => (clusterActive /\ LoadInv)'
<1> SUFFICES ASSUME TypeOK, PlaceInv, clusterActive, LoadInv, Next PROVE (clusterActive /\ LoadInv)'
  OBVIOUS
<1> USE DEF LoadInv, PlaceInv, KernelAt, Others, ConfigDone
<1>1. CASE Configures
  BY <1>1 DEF Configures, Adds, Removes, configAddDevice, configureProxy, configureProxyAlias,
              AliasBecomes
<1>2. ASSUME NEW o \in Devices, pluginConfigAdd(o) PROVE (clusterActive /\ LoadInv)'
  BY <1>2 DEF pluginConfigAdd, stepVars
<1>3. CASE StartsUpdate
  BY <1>3 DEF StartsUpdate, EndReconfig, stepVars
<1>4. CASE RemoveStopped
  BY <1>4 DEF RemoveStopped
<1>5. CASE Updates
  <2>1. UNCHANGED <<loading, frame>>
    BY <1>5 DEF Updates
  <2>2. CASE RefreshInterfaces
    BY <2>1, <2>2 DEF RefreshInterfaces
  <2>3. CASE resetAllDevicesAndProxies
    BY <2>1, <2>3 DEF resetAllDevicesAndProxies, stepVars
  <2>4. CASE DevicesDone
    BY <2>1, <2>4 DEF DevicesDone, DevicesUpdated, stepVars
  <2>5. CASE EndFrame
    BY <2>1, <2>5 DEF EndFrame, stepVars
  <2>6. ASSUME NEW o \in Devices, DestroyDevice(o) PROVE (clusterActive /\ LoadInv)'
    BY <2>1, <2>6 DEF DestroyDevice, managerVars, stepVars
  <2>7. ASSUME NEW o \in Devices, updateDevice(o) PROVE (clusterActive /\ LoadInv)'
    BY <2>1, <2>7 DEF updateDevice
  <2>8. ASSUME NEW o \in Devices, updatePolledDevice(o) PROVE (clusterActive /\ LoadInv)'
    BY <2>1, <2>8 DEF updatePolledDevice, stepVars
  <2> QED BY <1>4, <1>5, <2>2, <2>3, <2>4, <2>5, <2>6, <2>7, <2>8 DEF Updates
<1>6. CASE UpdatesProxies
  <2>1. NextFrame(frame) > 0
    BY DEF NextFrame, TypeOK, PluginTypeOK
  <2> QED BY <1>6, <2>1 DEF UpdatesProxies, updateAllProxies, stepVars
<1>7. CASE postPostFrame \/ receiveEnd
  <2>1. ~reconfigured /\ kpc # "config"
    BY <1>7 DEF postPostFrame, receiveEnd
  <2>2. UNCHANGED <<clusterActive, loading, frame, reconfigured>> /\ kpc' \in {"receive", "proxies"}
    BY <1>7 DEF postPostFrame, receiveEnd, stepVars
  <2> QED BY <2>1, <2>2
<1>8. CASE ShutsDown
  BY <1>8 DEF ShutsDown
<1>9. CASE Slave \/ \E o \in Devices : Samples(o)
  <2>1. UNCHANGED <<clusterActive, loading, frame, reconfigured, kpc>>
    BY <1>9 DEF Slave, Samples, managerVars, stepVars
  <2> QED BY <2>1
<1> QED BY <1>1, <1>2, <1>3, <1>5, <1>6, <1>7, <1>8, <1>9 DEF Next, Kernel

\* A buffer that shows something keeps showing something, and adding shows nothing.
LEMMA StableStep ==
  ASSUME TypeOK, DriverStep, NEW o \in Devices, NEW t \in Types
  PROVE  /\ samples'[o][t].stable = <<>> => samples[o][t].stable = <<>>
         /\ (\E d \in Devices : Sampling(d)) \/ UNCHANGED driverVars
               => samples'[o][t].stable = samples[o][t].stable
<1> USE DevicesAssumption DEF TypeOK, DriversTypeOK
<1>1. samples[o][t] \in Buffers
  OBVIOUS
<1>2. ASSUME NEW d \in Devices, Sampling(d) PROVE samples'[o][t].stable = samples[o][t].stable
  <2>1. CASE addDeviceSample(d)
    <3>1. samples'[o][t] = samples[o][t] \/ samples'[o][t] = addSample(samples[o][t], taken[d])
      BY <2>1 DEF addDeviceSample
    <3> QED BY <1>1, <3>1, AddSample
  <2>2. CASE ~addDeviceSample(d)
    BY <1>2, <2>2 DEF Sampling, controlLoopExits, sample
  <2> QED BY <2>1, <2>2
<1>3. CASE UNCHANGED driverVars
  BY <1>3 DEF driverVars
<1>4. ASSUME NEW b \in Buffers, swapBuffers(b).stable = <<>> PROVE b.stable = <<>>
  BY <1>4 DEF swapBuffers, Buffers
<1>5. ASSUME NEW d \in Devices, startSampling(d) \/ raiseExitFlag(d) PROVE samples' = samples
  BY <1>5 DEF startSampling, raiseExitFlag
<1>6. ASSUME NEW d \in Devices, swapChannel(d, pos)
      PROVE  samples'[o][t] = samples[o][t] \/ samples'[o][t] = swapBuffers(samples[o][t])
  BY <1>6, SwapStep
<1>7. ASSUME NEW d \in Devices, pollData(d)
      PROVE  samples'[o][t] = samples[o][t]
             \/ \E n \in Nat : samples'[o][t] = swapBuffers(addSample(samples[o][t], n))
  <2>1. PICK n \in {taken[d], taken[d] + 1} \cap (0 .. MaxSamples[d]) :
          samples' = [samples EXCEPT ![d] = [u \in Types |->
             IF HasType(d, u) THEN swapBuffers(addSample(@[u], n)) ELSE @[u]]]
    BY <1>7, Zenon DEF pollData
  <2> QED BY <2>1
<1>8. ASSUME samples'[o][t].stable = <<>> PROVE samples[o][t].stable = <<>>
  <2>1. CASE samples'[o][t] = samples[o][t]
    BY <1>8, <2>1
  <2>2. CASE samples'[o][t] = swapBuffers(samples[o][t])
    BY <1>1, <1>4, <1>8, <2>2
  <2>3. ASSUME NEW n \in Nat, samples'[o][t] = swapBuffers(addSample(samples[o][t], n))
        PROVE  samples[o][t].stable = <<>>
    <3>1. addSample(samples[o][t], n) \in Buffers
          /\ addSample(samples[o][t], n).stable = samples[o][t].stable
      BY <1>1, AddSample
    <3> QED BY <1>4, <1>8, <2>3, <3>1
  <2> QED BY <1>2, <1>3, <1>5, <1>6, <1>7, <1>8, <2>1, <2>2, <2>3 DEF DriverStep, driverVars
<1> QED BY <1>2, <1>3, <1>8

\* A proxy that is used has a device.
LEMMA UsedDevice ==
  ASSUME TypeOK, TypedInv, NEW p \in Used
  PROVE  /\ p \in Proxies /\ p \in mProxyTable /\ ~mStupefied[p]
         /\ mTypedDevice[p] \in Devices /\ TypeOf[p] \in Types
BY ProxiesAssumption DEF TypeOK, ManagerTypeOK, TypedInv, Used

\* Steps that leave the plug-in, the proxies and what is shown alone.
LEMMA KeepsIf ==
  ASSUME TypeOK, TypedInv, DriverStep,
         UNCHANGED <<frame, pluginVars, mDevTable>>, Sent' <=> Sent, Answered' <=> Answered,
         frame > 0 \/ Sent =>
            /\ UNCHANGED <<mProxyTable, mData>>
            /\ \A p \in mProxyTable : UNCHANGED <<mStupefied[p], mTypedDevice[p]>>,
         Sent => \A o \in Devices, t \in Types : samples'[o][t].stable = samples[o][t].stable
  PROVE  KeepsAccount
<1>1. ASSUME frame > 0 \/ Sent
      PROVE  /\ UNCHANGED Used
             /\ \A p \in Used :
                   /\ UNCHANGED <<mTypedDevice[p], mData[p]>>
                   /\ Stable(p)' = <<>> => Stable(p) = <<>>
                   /\ Sent => UNCHANGED Current(p)
  <2>1. UNCHANGED Used
    BY <1>1 DEF Used
  <2>2. ASSUME NEW p \in Used
        PROVE  /\ UNCHANGED <<mTypedDevice[p], mData[p]>>
               /\ Stable(p)' = <<>> => Stable(p) = <<>>
               /\ Sent => UNCHANGED Current(p)
    <3>1. p \in mProxyTable /\ mTypedDevice[p] \in Devices /\ TypeOf[p] \in Types
      BY UsedDevice
    <3>2. mTypedDevice'[p] = mTypedDevice[p] /\ mData'[p] = mData[p]
      BY <1>1, <3>1
    <3>3. samples'[mTypedDevice[p]][TypeOf[p]].stable = <<>>
             => samples[mTypedDevice[p]][TypeOf[p]].stable = <<>>
      BY <3>1, StableStep
    <3>4. Sent => samples'[mTypedDevice[p]][TypeOf[p]].stable
                     = samples[mTypedDevice[p]][TypeOf[p]].stable
      BY <3>1
    <3> QED BY <3>2, <3>3, <3>4 DEF Stable, Current, getData
  <2> QED BY <2>1, <2>2
<1> QED BY <1>1 DEF KeepsAccount

\* The steps that matter.
LEMMA MasterSteps ==
  ASSUME TypeOK, TypedInv, PlaceInv, clusterActive, LoadInv, Next
  PROVE  \/ KeepsAccount
         \/ \E o \in Devices : pluginConfigAdd(o)
         \/ postPostFrame \/ receiveEnd \/ (UpdatesProxies /\ ~reconfigured) \/ Slave
<1>0. DriverStep
  BY DriverSteps
<1> USE DEF KernelAt, Others
<1>1. CASE Configures
  <2>1. frame = 0 /\ ~Sent /\ ~Answered /\ ~Sent' /\ ~Answered'
        /\ UNCHANGED <<frame, pluginVars, mDevTable>>
    BY <1>1 DEF Configures, LoadInv, Adds, configAddDevice, configureProxy, configureProxyAlias,
                AliasBecomes, ConfigDone, Sent, Answered
  <2> QED BY <1>0, <2>1, KeepsIf
<1>2. CASE StartsUpdate
  <2>1. ~Sent /\ ~Answered /\ ~Sent' /\ ~Answered'
    BY <1>2 DEF StartsUpdate, EndReconfig, Sent, Answered
  <2>2. UNCHANGED <<frame, pluginVars, mDevTable, mProxyTable, mData, mStupefied, mTypedDevice>>
    BY <1>2 DEF StartsUpdate, EndReconfig, tableVars
  <2> QED BY <1>0, <2>1, <2>2, KeepsIf
<1>3. CASE Updates
  <2>1. UNCHANGED <<frame, pluginVars>>
    BY <1>3 DEF Updates
  <2>2. CASE RemoveStopped
    BY <2>2 DEF RemoveStopped, LoadInv
  <2>3. CASE RefreshInterfaces
    <3>1. ~Sent /\ ~Answered /\ ~Sent' /\ ~Answered'
      BY <2>3 DEF RefreshInterfaces, Sent, Answered
    <3>2. UNCHANGED <<mDevTable, mProxyTable, mData>>
      BY <2>3 DEF RefreshInterfaces, tableVars
    <3>3. \A p \in mProxyTable : UNCHANGED <<mStupefied[p], mTypedDevice[p]>>
      BY <2>3 DEF RefreshInterfaces, refreshAllInterfaces, Forget, TypeOK, ManagerTypeOK
    <3> QED BY <1>0, <2>1, <3>1, <3>2, <3>3, KeepsIf
  <2>4. CASE resetAllDevicesAndProxies \/ DevicesDone \/ EndFrame
    <3>1. UNCHANGED <<mDevTable, mProxyTable, mData, mStupefied, mTypedDevice, clusterActive,
                      reconfigured>>
      BY <2>4 DEF resetAllDevicesAndProxies, DevicesDone, EndFrame, tableVars, stepVars
    <3>2. ~Sent /\ ~Answered
      BY <2>4 DEF resetAllDevicesAndProxies, DevicesDone, DevicesUpdated, EndFrame, Sent, Answered
    <3>3. ~Sent' /\ ~Answered'
      BY <2>4, <3>1 DEF resetAllDevicesAndProxies, DevicesDone, EndFrame, Sent, Answered
    <3> QED BY <1>0, <2>1, <3>1, <3>2, <3>3, KeepsIf
  <2>5. ASSUME NEW o \in Devices, DestroyDevice(o) PROVE KeepsAccount
    <3>1. UNCHANGED <<kpc, reconfigured, samples, mDevTable, mProxyTable, mData, mStupefied,
                      mTypedDevice>>
      BY <2>5 DEF DestroyDevice, raiseExitFlag, managerVars, tableVars, proxyVars, stepVars
    <3>2. (Sent' <=> Sent) /\ (Answered' <=> Answered)
      BY <3>1 DEF Sent, Answered
    <3> QED BY <1>0, <2>1, <3>1, <3>2, KeepsIf
  <2>6. ASSUME NEW o \in Devices, updateDevice(o) \/ updatePolledDevice(o) PROVE KeepsAccount
    <3>1. UNCHANGED <<kpc, mDevTable, mProxyTable, mData, mStupefied, mTypedDevice>>
      BY <2>6 DEF updateDevice, updatePolledDevice, tableVars
    <3>2. ~Sent /\ ~Answered /\ ~Sent' /\ ~Answered'
      BY <2>6, <3>1 DEF updateDevice, updatePolledDevice, Sent, Answered
    <3> QED BY <1>0, <2>1, <3>1, <3>2, KeepsIf
  <2> QED BY <1>3, <2>2, <2>3, <2>4, <2>5, <2>6 DEF Updates, KeepsAccount
<1>4. CASE UpdatesProxies /\ reconfigured
  <2>1. frame = 0 /\ ~Sent /\ ~Answered /\ ~Sent' /\ ~Answered'
        /\ UNCHANGED <<frame, pluginVars, mDevTable>>
    BY <1>4 DEF UpdatesProxies, updateAllProxies, LoadInv, Sent, Answered, tableVars
  <2> QED BY <1>0, <2>1, KeepsIf
<1>5. CASE ShutsDown
  BY <1>5 DEF ShutsDown
<1>6. ASSUME NEW o \in Devices, Samples(o) PROVE KeepsAccount
  <2>1. UNCHANGED <<frame, pluginVars, kpc, reconfigured, mDevTable, mProxyTable, mData,
                    mStupefied, mTypedDevice>>
    BY <1>6 DEF Samples, managerVars, tableVars, proxyVars, stepVars
  <2>2. (Sent' <=> Sent) /\ (Answered' <=> Answered)
    BY <2>1 DEF Sent, Answered
  <2>3. \A d \in Devices, t \in Types : samples'[d][t].stable = samples[d][t].stable
    BY <1>0, <1>6, StableStep DEF Samples
  <2> QED BY <1>0, <2>1, <2>2, <2>3, KeepsIf
<1> QED BY <1>1, <1>2, <1>3, <1>4, <1>5, <1>6 DEF Next, Kernel

-----------------------------------------------------------------------------
(* Each of the steps keeps the account. *)

\* Before the master has sent its first block, the slave can only have asked for it.
LEMMA BeforeFirst ==
  ASSUME TypeOK, NEW d \in {-1, 0, 1}, FramesInv(d), frame = 0, ~Sent
  PROVE  d = 0 /\ Blocks(d) = 0 /\ remoteFrame = 0 /\ rpc # "proxies"
<1>1. d # 1
  BY DEF FramesInv, NextFrame, TypeOK, PluginTypeOK
<1>2. Bit(Sent) = 0 /\ Bit(rpc = "proxies") \in {0, 1}
  BY DEF Bit
<1>3. d = 0 /\ Bit(rpc = "proxies") = 0
  BY <1>1, <1>2 DEF FramesInv, Blocks
<1> QED BY <1>2, <1>3 DEF FramesInv, Blocks, Bit

\* Steps that do not touch it.
LEMMA KeptAccount ==
  ASSUME TypeOK, TypedInv, (TypeOK /\ TypedInv)', ServersInv, EmptyInv, KeepsAccount,
         NEW d \in {-1, 0, 1}, NEW g \in Nat, Sync(d, g)
  PROVE  (ServersInv /\ EmptyInv /\ Sync(d, g))'
<1>1. UNCHANGED <<frame, mDevTable, mDeviceServers, link, ends, rpc, mVirtualDevices, remoteTable,
                  remoteSamples, remoteData, remoteFrame>>
  BY DEF KeepsAccount, pluginVars, slaveVars
<1>2. Servers' = Servers /\ Blocks(d)' = Blocks(d)
      /\ Bit(Answered)' = Bit(Answered) /\ (Sent' <=> Sent)
  BY <1>1 DEF KeepsAccount, Servers, Blocks, Bit
<1>3. ServersInv'
  BY <1>1, <1>2 DEF ServersInv
<1>4. FramesInv(d)'
  BY <1>1, <1>2 DEF Sync, FramesInv
<1>5. LinkInv(d, g)'
  BY <1>1, <1>2 DEF Sync, LinkInv, Total, Fits, IsData
<1>6. VirtualInv(g)'
  BY <1>1, <1>2 DEF Sync, VirtualInv
<1>7. CASE frame = 0 /\ ~Sent
  <2>1. d = 0 /\ Blocks(d) = 0 /\ remoteFrame = 0 /\ rpc # "proxies"
    BY <1>7, BeforeFirst DEF Sync
  <2>2. \A o \in Devices, t \in Types : getData(remoteSamples[o][t]) = 0
    BY <1>7 DEF Sync, BlockInv
  <2>3. \A p \in Used' : mTypedDevice'[p] \in Devices /\ TypeOf[p] \in Types
    BY ProxiesAssumption DEF TypeOK, ManagerTypeOK, TypedInv, Used
  <2>4. \A p \in Used' : Received(p)' = 0 /\ Posted(p)' = 0
    BY <1>1, <1>2, <1>7, <2>2, <2>3 DEF Received, Posted
  <2>5. \A p \in Used' : BlockOf(d, g, p)'
    BY <1>1, <1>2, <2>1, <2>4 DEF BlockOf
  <2>6. BlockInv(d, g)'
    BY <1>1, <2>2, <2>5 DEF BlockInv
  <2>7. EmptyInv' /\ DataInv(d)'
    BY <1>1, <1>7, <2>1 DEF EmptyInv, DataInv, DataOf
  <2> QED BY <1>3, <1>4, <1>5, <1>6, <2>6, <2>7 DEF Sync
<1>8. CASE frame > 0 \/ Sent
  <2>1. /\ Used' = Used
        /\ \A p \in Used : /\ mTypedDevice'[p] = mTypedDevice[p] /\ mData'[p] = mData[p]
                           /\ Stable(p)' = <<>> => Stable(p) = <<>>
                           /\ Sent => Current(p)' = Current(p)
    BY <1>8 DEF KeepsAccount
  <2>2. EmptyInv'
    BY <1>1, <2>1 DEF EmptyInv
  <2>3. \A p \in Used : /\ Received(p)' = Received(p) /\ Posted(p)' = Posted(p)
                        /\ First(d, p)' = First(d, p)
    BY <1>1, <1>2, <2>1 DEF Received, Posted, First
  <2>4. Blocks(d) = 2 \/ d = -1 => Sent
    BY DEF Sync, FramesInv, Blocks, Bit
  <2>5. ASSUME NEW p \in Used PROVE BlockOf(d, g, p)'
    <3>1. BlockOf(d, g, p)
      BY DEF Sync, BlockInv
    <3> QED BY <1>1, <1>2, <2>1, <2>3, <2>4, <3>1 DEF BlockOf
  <2>6. BlockInv(d, g)'
    BY <1>1, <1>2, <2>1, <2>5 DEF Sync, BlockInv
  <2>7. ASSUME NEW p \in Used PROVE DataOf(d, p)'
    <3>1. DataOf(d, p)
      BY DEF Sync, DataInv
    <3> QED BY <1>1, <2>1, <2>4, <3>1 DEF DataOf
  <2>8. DataInv(d)'
    BY <2>1, <2>7 DEF DataInv
  <2> QED BY <1>3, <1>4, <1>5, <1>6, <2>2, <2>6, <2>8 DEF Sync
<1>9. frame = 0 \/ frame > 0
  BY DEF TypeOK, PluginTypeOK
<1> QED BY <1>7, <1>8, <1>9

\* A device server more, and its acknowledgement.
LEMMA ServerAdded ==
  ASSUME TypeOK, TypedInv, (TypeOK /\ TypedInv)', LoadInv, ServersInv,
         NEW o \in Devices, pluginConfigAdd(o),
         NEW d \in {-1, 0, 1}, NEW g \in Nat, Sync(d, g)
  PROVE  (ServersInv /\ EmptyInv /\ Sync(d, g))'
<1>1. /\ kpc = "config" /\ kpc' = "config" /\ loading /\ mDevTable[NameOf[o]] = NoDevice
      /\ mDevTable' = [mDevTable EXCEPT ![NameOf[o]] = o]
      /\ mDeviceServers' = Append(mDeviceServers, o) /\ link' = Append(link, ACK(o))
      /\ UNCHANGED <<frame, ends, slaveVars>>
  BY DEF pluginConfigAdd, configureDevice, KernelAt
<1>2. ~Sent /\ ~Answered /\ ~Sent' /\ ~Answered' /\ frame = 0
  BY <1>1 DEF Sent, Answered, LoadInv
<1>3. d = 0 /\ Blocks(d) = 0 /\ remoteFrame = 0 /\ rpc # "proxies"
  BY <1>2, BeforeFirst DEF Sync
<1>4. UNCHANGED <<rpc, mVirtualDevices, remoteTable, remoteSamples, remoteData, remoteFrame>>
  BY <1>1 DEF slaveVars
<1>5. Blocks(d)' = 0 /\ Bit(Answered)' = Bit(Answered)
  BY <1>2, <1>3, <1>4 DEF Blocks, Bit
<1>6. /\ mDeviceServers \in Seq(Devices) /\ link \in Seq(Messages)
      /\ mDevTable \in [DeviceNames -> Devices \cup {NoDevice}]
      /\ NameOf[o] \in DeviceNames /\ \A v \in Devices : NameOf[v] \in DeviceNames
  BY ProxiesAssumption DEF TypeOK, ManagerTypeOK, PluginTypeOK
<1>7. /\ Servers \in Nat /\ Servers' = Servers + 1 /\ mDeviceServers'[Servers + 1] = o
      /\ \A i \in 1 .. Servers : mDeviceServers'[i] = mDeviceServers[i] /\ mDeviceServers[i] \in Devices
  BY <1>1, <1>6 DEF Servers
<1>8. \A i \in 1 .. Servers : mDeviceServers[i] # o /\ NameOf[mDeviceServers[i]] # NameOf[o]
  BY <1>1, <1>7, DevicesAssumption DEF ServersInv
<1>9. ServersInv'
  <2>1. \A i, j \in 1 .. Servers' : mDeviceServers'[i] = mDeviceServers'[j] => i = j
    BY <1>7, <1>8 DEF ServersInv
  <2>2. \A i \in 1 .. Servers' : mDevTable'[NameOf[mDeviceServers'[i]]] = mDeviceServers'[i]
    BY <1>1, <1>6, <1>7, <1>8 DEF ServersInv
  <2>3. \A n \in DeviceNames : mDevTable'[n] # NoDevice =>
           \E i \in 1 .. Servers' : mDeviceServers'[i] = mDevTable'[n]
    <3>1. ASSUME NEW n \in DeviceNames, mDevTable'[n] # NoDevice, n # NameOf[o]
          PROVE  \E i \in 1 .. Servers' : mDeviceServers'[i] = mDevTable'[n]
      <4>1. PICK i \in 1 .. Servers : mDeviceServers[i] = mDevTable[n]
        BY <1>1, <1>6, <3>1 DEF ServersInv
      <4>2. mDevTable'[n] = mDevTable[n]
        BY <1>1, <1>6, <3>1
      <4>3. i \in 1 .. Servers' /\ mDeviceServers'[i] = mDevTable'[n]
        BY <1>7, <4>1, <4>2
      <4> QED BY <4>3
    <3>2. Servers + 1 \in 1 .. Servers' /\ mDeviceServers'[Servers + 1] = mDevTable'[NameOf[o]]
      BY <1>1, <1>6, <1>7
    <3> QED BY <3>1, <3>2
  <2> QED BY <2>1, <2>2, <2>3 DEF ServersInv
<1>10. FramesInv(d)'
  BY <1>1, <1>4, <1>5 DEF Sync, FramesInv
<1>11. LinkInv(d, g)'
  <2>1. Len(link) + g = Servers /\ g <= Servers /\ Len(link) \in Nat
    BY <1>3, <1>6, <1>7 DEF Sync, LinkInv, Total
  <2>2. /\ Len(link') = Len(link) + 1 /\ link'[Len(link) + 1] = ACK(o)
        /\ \A i \in 1 .. Len(link) : link'[i] = link[i]
    BY <1>1, <1>6, <2>1
  <2>3. \A i \in 1 .. Len(link) : link[i] = ACK(mDeviceServers[g + i])
    BY <1>7, <2>1 DEF Sync, LinkInv, Fits
  <2>4. \A i \in 1 .. Len(link') : g + i <= Servers' /\ link'[i] = ACK(mDeviceServers'[g + i])
    <3>1. ASSUME NEW i \in 1 .. Len(link)
          PROVE  g + i <= Servers' /\ link'[i] = ACK(mDeviceServers'[g + i])
      <4>1. g + i \in 1 .. Servers
        BY <1>7, <2>1
      <4> QED BY <1>7, <2>2, <2>3, <4>1
    <3>2. g + (Len(link) + 1) = Servers + 1
      BY <1>7, <2>1
    <3>3. g + (Len(link) + 1) <= Servers'
          /\ link'[Len(link) + 1] = ACK(mDeviceServers'[g + (Len(link) + 1)])
      BY <1>7, <2>2, <3>2
    <3> QED BY <2>1, <2>2, <3>1, <3>3
  <2>5. \A i \in 1 .. Len(link') : Fits(link[i], g + i)'
    BY <1>7, <2>1, <2>2, <2>4 DEF Fits
  <2>6. Total(Blocks(d))' = Servers'
    BY <1>5 DEF Total
  <2>7. g <= 2 * Servers' /\ Len(link') + g = Servers'
    BY <1>7, <2>1, <2>2
  <2>8. /\ remoteFrame' > 0 \/ rpc' = "proxies" => g >= Servers'
        /\ rpc' # "receive" => g <= Servers'
    BY <1>3, <1>4, <1>7, <2>1
  <2> QED BY <2>5, <2>6, <2>7, <2>8 DEF LinkInv
<1>12. VirtualInv(g)'
  <2>1. g <= Servers
    BY <1>3, <1>6, <1>7 DEF Sync, LinkInv, Total
  <2>2. \A v \in Devices : v \in mVirtualDevices' <=>
           \E i \in 1 .. Servers' : i <= g /\ mDeviceServers'[i] = v
    BY <1>4, <1>7, <2>1 DEF Sync, VirtualInv
  <2>3. o \notin mVirtualDevices /\ NoDevice \notin mVirtualDevices
    BY <1>8, DevicesAssumption DEF Sync, VirtualInv, TypeOK, PluginTypeOK
  <2>4. \A n \in DeviceNames : remoteTable'[n] =
           IF mDevTable'[n] \in mVirtualDevices' THEN mDevTable'[n] ELSE NoDevice
    BY <1>1, <1>4, <1>6, <2>3 DEF Sync, VirtualInv
  <2> QED BY <1>4, <2>2, <2>4 DEF Sync, VirtualInv
<1>13. BlockInv(d, g)'
  <2>1. \A v \in Devices, t \in Types : getData(remoteSamples[v][t]) = 0
    BY <1>2 DEF Sync, BlockInv
  <2>2. \A p \in Used' : mTypedDevice'[p] \in Devices /\ TypeOf[p] \in Types
    BY ProxiesAssumption DEF TypeOK, ManagerTypeOK, TypedInv, Used
  <2>3. \A p \in Used' : Received(p)' = 0 /\ Posted(p)' = 0
    BY <1>1, <1>2, <1>4, <2>1, <2>2 DEF Received, Posted
  <2>4. \A p \in Used' : BlockOf(d, g, p)'
    BY <1>5, <2>3 DEF BlockOf
  <2> QED BY <1>4, <2>1, <2>4 DEF BlockInv
<1>14. EmptyInv' /\ DataInv(d)'
  BY <1>1, <1>2, <1>3, <1>4 DEF EmptyInv, DataInv, DataOf
<1> QED BY <1>9, <1>10, <1>11, <1>12, <1>13, <1>14 DEF Sync

\* The device of a used proxy has a device server.
LEMMA UsedServer ==
  ASSUME TypeOK, TypedInv, ProxiesFollowTable, LoadInv, ServersInv, NEW p \in Used
  PROVE  /\ Finds(mDevTable, p) /\ mTypedDevice[p] = mDevTable[DeviceOf[p]]
         /\ DeviceOf[p] \in DeviceNames
         /\ \E i \in 1 .. Servers : mDeviceServers[i] = mTypedDevice[p]
<1>1. /\ p \in mProxyTable /\ ~mStupefied[p] /\ DeviceOf[p] \in DeviceNames
      /\ mTypedDevice[p] \in Devices
  BY UsedDevice, ProxiesAssumption
<1>2. Finds(mDevTable, p) /\ mTypedDevice[p] = mDevTable[DeviceOf[p]]
  BY <1>1 DEF ProxiesFollowTable, LoadInv
<1> QED BY <1>1, <1>2, DevicesAssumption DEF ServersInv

\* How many blocks there can be, and when.
LEMMA BlocksAre ==
  ASSUME TypeOK, NEW d \in {-1, 0, 1}, FramesInv(d)
  PROVE  /\ Blocks(d) \in {0, 1, 2}
         /\ Blocks(d) = 2 => d = 1 /\ Sent /\ rpc # "proxies"
         /\ d = -1 => Sent /\ rpc # "proxies" /\ Blocks(d) = 0
         /\ Answered => d \in {-1, 0}
         /\ ~Sent => Blocks(d) \in {0, 1} /\ d \in {0, 1}
<1>1. Bit(Sent) \in {0, 1} /\ Bit(rpc = "proxies") \in {0, 1} /\ Bit(Answered) \in {0, 1}
      /\ Bit(rpc # "frame") \in {0, 1}
  BY DEF Bit
<1>2. /\ Blocks(d) = d + Bit(Sent) - Bit(rpc = "proxies") /\ Blocks(d) >= 0
  BY DEF FramesInv, Blocks
<1>3. Blocks(d) \in {0, 1, 2}
  BY <1>1, <1>2
<1>4. Blocks(d) = 2 => d = 1 /\ Bit(Sent) = 1 /\ Bit(rpc = "proxies") = 0
  BY <1>1, <1>2
<1>5. d = -1 => Bit(Sent) = 1 /\ Bit(rpc = "proxies") = 0 /\ Blocks(d) = 0
  BY <1>1, <1>2
<1>6. Bit(Sent) = 0 => Blocks(d) \in {0, 1} /\ d \in {0, 1}
  BY <1>1, <1>2
<1>7. Bit(Answered) = 1 => d \in {-1, 0}
  BY <1>1 DEF FramesInv, TypeOK, PluginTypeOK
<1> QED BY <1>3, <1>4, <1>5, <1>6, <1>7 DEF Bit

\* The master sends a block.
LEMMA BlockSent ==
  ASSUME TypeOK, TypedInv, LoadInv, ServersInv, EmptyInv, postPostFrame,
         NEW d \in {-1, 0, 1}, NEW g \in Nat, Sync(d, g)
  PROVE  (ServersInv /\ EmptyInv /\ Sync(d, g))'
<1> DEFINE block == [i \in DOMAIN mDeviceServers |->
                        DATA(mDeviceServers[i], writeObject(mDeviceServers[i]))]
<1>1. /\ kpc = "postPostFrame" /\ kpc' = "receive" /\ link' = link \o block \o <<END>>
      /\ UNCHANGED <<samples, mData, frame, mDeviceServers, mDevTable, mProxyTable, mStupefied,
                     mTypedDevice, ends, slaveVars>>
  BY DEF postPostFrame, KernelAt, Others, driverVars, tableVars
<1>2. UNCHANGED <<rpc, mVirtualDevices, remoteTable, remoteSamples, remoteData, remoteFrame>>
  BY <1>1 DEF slaveVars
<1>3. ~Sent /\ ~Answered /\ Sent' /\ ~Answered'
  BY <1>1 DEF Sent, Answered
<1>4. /\ Blocks(d) \in {0, 1} /\ Blocks(d)' = Blocks(d) + 1
      /\ Bit(Answered)' = Bit(Answered) /\ d \in {0, 1}
      /\ Blocks(d) = 0 /\ rpc = "proxies" => d = 1
      /\ Blocks(d) = 1 => d = 1
  BY <1>2, <1>3, BlocksAre DEF Sync, FramesInv, Blocks, Bit
<1>5. /\ mDeviceServers \in Seq(Devices) /\ link \in Seq(Messages)
      /\ Servers \in Nat /\ Servers' = Servers /\ Len(link) \in Nat
      /\ \A i \in 1 .. Servers : mDeviceServers[i] \in Devices
  BY <1>1 DEF TypeOK, PluginTypeOK, Servers
<1>6. block \in Seq(Messages) /\ Len(block) = Servers
      /\ \A i \in 1 .. Servers : block[i] = DATA(mDeviceServers[i], writeObject(mDeviceServers[i]))
  <2>1. \A o \in Devices : writeObject(o) \in [Types -> Seq(Nat)]
    BY DEF writeObject, TypeOK, DriversTypeOK, Buffers
  <2>2. DOMAIN mDeviceServers = 1 .. Servers
    BY <1>5 DEF Servers
  <2>3. block \in [1 .. Servers -> Messages]
    BY <1>5, <2>1, <2>2, MessageTypes
  <2>4. block \in Seq(Messages) /\ Len(block) = Servers
    BY <1>5, <2>3, SeqDef
  <2> QED BY <2>2, <2>4
<1> HIDE DEF block
<1>7. /\ Len(link') = Len(link) + Servers + 1
      /\ \A i \in 1 .. Len(link) : link'[i] = link[i]
      /\ \A i \in 1 .. Servers : link'[Len(link) + i] = block[i]
      /\ link'[Len(link) + Servers + 1] = END
  <2>1. END \in Messages /\ link \o block \in Seq(Messages)
    BY <1>5, <1>6, MessageTypes
  <2>2. /\ Len(link \o block) = Len(link) + Servers
        /\ \A i \in 1 .. Len(link) + Servers : (link \o block)[i] =
              IF i <= Len(link) THEN link[i] ELSE block[i - Len(link)]
    BY <1>5, <1>6, ConcatProperties
  <2> DEFINE before == link \o block
  <2> HIDE DEF before
  <2>3. before \in Seq(Messages) /\ Len(before) = Len(link) + Servers
        /\ (\A i \in 1 .. Len(link) + Servers : before[i] =
              IF i <= Len(link) THEN link[i] ELSE block[i - Len(link)])
        /\ link' = before \o <<END>>
    BY <1>1, <2>1, <2>2 DEF before
  <2>4. Len(before \o <<END>>) = Len(before) + 1 /\ (before \o <<END>>)[Len(before) + 1] = END
        /\ \A i \in 1 .. Len(before) : (before \o <<END>>)[i] = before[i]
    BY <2>1, <2>3
  <2>5. ASSUME NEW i \in 1 .. Len(link) PROVE link'[i] = link[i]
    <3>1. i \in 1 .. Len(link) + Servers /\ i <= Len(link)
      BY <1>5
    <3>2. before[i] = link[i]
      BY <2>3, <3>1
    <3> QED BY <2>3, <2>4, <3>1, <3>2
  <2>6. ASSUME NEW i \in 1 .. Servers PROVE link'[Len(link) + i] = block[i]
    <3> DEFINE j == Len(link) + i
    <3>1. j \in 1 .. Len(link) + Servers /\ ~(j <= Len(link)) /\ j - Len(link) = i
      BY <1>5
    <3> HIDE DEF j
    <3>2. link'[j] = block[i]
      BY <2>3, <2>4, <3>1
    <3> QED BY <3>2 DEF j
  <2> QED BY <1>5, <2>3, <2>4, <2>5, <2>6
<1>8. Len(link) + g = Total(Blocks(d)) /\ g <= 2 * Servers
  BY DEF Sync, LinkInv
<1>9. Servers \in Nat /\ Servers' = Servers /\ Len(link) \in Nat /\ Len(link') = Len(link) + Servers + 1
  BY <1>5, <1>7
<1>10. UNCHANGED Used /\ \A p \in Used : UNCHANGED <<Stable(p), Current(p), Received(p)>>
  BY <1>1, <1>2 DEF Used, Stable, Current, Received
<1>11. (ServersInv /\ EmptyInv)'
  <2>1. ServersInv'
    BY <1>1, <1>5 DEF ServersInv
  <2> QED BY <1>1, <1>10, <2>1 DEF EmptyInv
<1>12. FramesInv(d)'
  BY <1>1, <1>2, <1>4 DEF Sync, FramesInv
<1>13. LinkInv(d, g)'
  <2>1. Len(link') + g = Total(Blocks(d))'
    <3>1. CASE Blocks(d) = 0
      <4>1. Blocks(d)' = 1
        BY <1>4, <3>1
      <4>2. Total(Blocks(d)) = Servers /\ Total(Blocks(d))' = 2 * Servers + 1
        BY <1>5, <3>1, <4>1 DEF Total
      <4> QED BY <1>8, <1>9, <4>2
    <3>2. CASE Blocks(d) = 1
      <4>1. Blocks(d)' = 2
        BY <1>4, <3>2
      <4>2. Total(Blocks(d)) = 2 * Servers + 1 /\ Total(Blocks(d))' = 3 * Servers + 2
        BY <1>5, <3>2, <4>1 DEF Total
      <4> QED BY <1>8, <1>9, <4>2
    <3> QED BY <1>4, <3>1, <3>2
  <2>2. ASSUME NEW i \in 1 .. Len(link') PROVE Fits(link[i], g + i)'
    <3>1. CASE i \in 1 .. Len(link)
      <4>1. Fits(link[i], g + i)
        BY <3>1 DEF Sync, LinkInv
      <4>2. link'[i] = link[i]
        BY <1>7, <3>1
      <4> QED BY <1>1, <1>9, <4>1, <4>2 DEF Fits, IsData
    <3>2. CASE i \in Len(link) + 1 .. Len(link) + Servers
      <4> DEFINE j == i - Len(link)
      <4>1. j \in 1 .. Servers /\ i = Len(link) + j /\ g + i = Total(Blocks(d)) + j
        BY <1>5, <1>8, <3>2
      <4> HIDE DEF j
      <4>2. link'[i] = DATA(mDeviceServers[j], writeObject(mDeviceServers[j]))
        BY <1>6, <1>7, <4>1
      <4>3. link'[i].type = "RIM_DATA_PACKET" /\ link'[i].id = mDeviceServers'[j]
        BY <1>1, <4>2 DEF DATA
      <4>4. CASE Blocks(d) = 0
        <5>1. g + i = Servers + j
          BY <4>1, <4>4 DEF Total
        <5> QED BY <1>9, <4>1, <4>3, <5>1 DEF Fits, IsData
      <4>5. CASE Blocks(d) = 1
        <5>1. g + i = 2 * Servers + 1 + j
          BY <4>1, <4>5 DEF Total
        <5> QED BY <1>9, <4>1, <4>3, <5>1 DEF Fits, IsData
      <4> QED BY <1>4, <4>4, <4>5
    <3>3. CASE i = Len(link) + Servers + 1
      <4>1. link'[i] = END
        BY <1>7, <3>3
      <4>2. g + i = 2 * Servers + 1 \/ g + i = 3 * Servers + 2
        BY <1>4, <1>8, <1>9, <3>3 DEF Total
      <4> QED BY <1>9, <4>1, <4>2 DEF Fits
    <3>4. \/ i \in 1 .. Len(link) \/ i \in Len(link) + 1 .. Len(link) + Servers
          \/ i = Len(link) + Servers + 1
      <4> DEFINE k == Len(link)
                 kk == Len(link')
      <4>1. k \in Nat /\ kk = k + Servers + 1 /\ i \in 1 .. kk /\ Servers \in Nat
        BY <1>9
      <4> HIDE DEF k, kk
      <4>2. i \in 1 .. k \/ i \in k + 1 .. k + Servers \/ i = k + Servers + 1
        BY <4>1
      <4> QED BY <4>2 DEF k
    <3> QED BY <3>1, <3>2, <3>3, <3>4, Zenon
  <2> QED BY <1>2, <1>8, <1>9, <2>1, <2>2 DEF Sync, LinkInv
<1>14. VirtualInv(g)'
  BY <1>1, <1>2, <1>5 DEF Sync, VirtualInv
<1>15. BlockInv(d, g)'
  <2>1. ASSUME NEW p \in Used PROVE BlockOf(d, g, p)'
    <3>1. BlockOf(d, g, p) /\ mTypedDevice[p] \in Devices /\ TypeOf[p] \in Types
      BY UsedDevice DEF Sync, BlockInv
    <3>2. Posted(p)' = Current(p) /\ (frame > 0 => Posted(p) = mData[p].sample)
          /\ (frame = 0 => Posted(p) = 0)
      BY <1>3, <1>10 DEF Posted
    <3>3. frame = 0 \/ (frame > 0 /\ (Stable(p) = <<>> => mData[p].sample = 0))
      BY DEF EmptyInv, TypeOK, PluginTypeOK
    <3>4. d = 1 => frame > 0
      BY DEF Sync, FramesInv, NextFrame, TypeOK, PluginTypeOK
    <3>5. ASSUME NEW i \in 1 .. Servers, mDeviceServers[i] = mTypedDevice[p]
          PROVE  block[i].data[TypeOf[p]] = Stable(p)
      BY <1>6, <3>1, <3>5 DEF DATA, writeObject, Stable
    <3>6. Stable(p) = <<>> => Current(p) = 0
      BY DEF Stable, Current, getData
    <3>7. Stable(p) # <<>> => Current(p) = Stable(p)[Len(Stable(p))]
      BY DEF Stable, Current, getData
    <3>8. CASE Blocks(d) = 0
      <4>1. Received(p) = Posted(p) /\ First(d, p)' = Current(p) /\ Received(p)' = Received(p)
        BY <1>4, <1>10, <3>1, <3>2, <3>8 DEF BlockOf, First
      <4>2. Brings(Stable(p), Received(p), Current(p))
        BY <3>2, <3>3, <3>6, <3>7, <4>1 DEF Brings
      <4>3. rpc' = "proxies" => Received(p)' = mData'[p].sample
        BY <1>1, <1>2, <1>4, <3>2, <3>4, <3>8, <4>1
      <4>4. Len(link) + g = Servers
        BY <1>8, <3>8 DEF Total
      <4>5. ASSUME NEW i \in 1 .. Servers', mDeviceServers'[i] = mTypedDevice'[p]
            PROVE  ~(Servers' + i <= g)
                   /\ Brings(link'[Servers' + i - g].data[TypeOf[p]], Received(p)', First(d, p)')
        <5>1. Servers' + i - g = Len(link) + i /\ ~(Servers' + i <= g) /\ i \in 1 .. Servers
          BY <1>5, <4>4
        <5>2. link'[Servers' + i - g] = block[i]
          BY <1>7, <5>1
        <5> QED BY <1>1, <3>5, <4>1, <4>2, <4>5, <5>1, <5>2
      <4>6. Blocks(d)' = 1
        BY <1>4, <3>8
      <4> QED BY <4>3, <4>5, <4>6 DEF BlockOf
    <3>9. CASE Blocks(d) = 1
      <4>1. First(d, p) = mData[p].sample /\ First(d, p)' = mData[p].sample
            /\ Received(p)' = Received(p) /\ Current(p)' = Current(p) /\ mData'[p] = mData[p]
        BY <1>1, <1>4, <1>10, <3>2, <3>4, <3>9 DEF First
      <4>2. Brings(Stable(p), mData[p].sample, Current(p))
        BY <1>4, <3>3, <3>4, <3>6, <3>7, <3>9 DEF Brings
      <4>3. Len(link) + g = 2 * Servers + 1
        BY <1>8, <3>9 DEF Total
      <4>4. Blocks(d)' = 2
        BY <1>4, <3>9
      <4>5. ASSUME NEW i \in 1 .. Servers', mDeviceServers'[i] = mTypedDevice'[p]
            PROVE  /\ IF Servers' + i <= g THEN Received(p)' = First(d, p)'
                      ELSE Brings(link'[Servers' + i - g].data[TypeOf[p]], Received(p)', First(d, p)')
                   /\ Brings(link'[2 * Servers' + 1 + i - g].data[TypeOf[p]],
                             mData'[p].sample, Current(p)')
        <5>1. i \in 1 .. Servers /\ mDeviceServers[i] = mTypedDevice[p]
              /\ 2 * Servers' + 1 + i - g = Len(link) + i
              /\ (~(Servers + i <= g) => Servers + i - g \in 1 .. Len(link))
          BY <1>1, <1>5, <4>3, <4>5
        <5>2. link'[2 * Servers' + 1 + i - g] = block[i]
          BY <1>7, <5>1
        <5>3. IF Servers + i <= g THEN Received(p) = First(d, p)
              ELSE Brings(link[Servers + i - g].data[TypeOf[p]], Received(p), First(d, p))
          BY <3>1, <3>9, <5>1 DEF BlockOf
        <5>4. ~(Servers + i <= g) => link'[Servers + i - g] = link[Servers + i - g]
          BY <1>7, <5>1
        <5>5. Brings(link'[2 * Servers' + 1 + i - g].data[TypeOf[p]], mData'[p].sample, Current(p)')
          BY <3>5, <4>1, <4>2, <5>1, <5>2
        <5> QED BY <1>5, <4>1, <5>3, <5>4, <5>5
      <4> QED BY <4>4, <4>5 DEF BlockOf
    <3> QED BY <1>4, <3>8, <3>9
  <2> QED BY <1>3, <1>10, <2>1 DEF BlockInv
<1>16. DataInv(d)'
  <2>1. ASSUME NEW p \in Used PROVE DataOf(d, p)'
    <3>1. DataOf(d, p)
      BY DEF Sync, DataInv
    <3> QED BY <1>1, <1>2, <1>4, <3>1 DEF DataOf
  <2> QED BY <1>10, <2>1 DEF DataInv
<1> QED BY <1>11, <1>12, <1>13, <1>14, <1>15, <1>16 DEF Sync

\* The master has the end of the slave's block.
LEMMA EndReceived ==
  ASSUME PlaceInv, ServersInv, EmptyInv, receiveEnd,
         NEW d \in {-1, 0, 1}, NEW g \in Nat, Sync(d, g)
  PROVE  (ServersInv /\ EmptyInv /\ Sync(d, g))'
<1>1. /\ kpc = "receive" /\ kpc' = "proxies" /\ ends' = ends - 1
      /\ UNCHANGED <<samples, mData, frame, mDeviceServers, mDevTable, mProxyTable, mStupefied,
                     mTypedDevice, link, slaveVars, reconfigured>>
      /\ ~reconfigured
  BY DEF receiveEnd, KernelAt, Others, driverVars, tableVars, stepVars, PlaceInv
<1>2. UNCHANGED <<rpc, mVirtualDevices, remoteTable, remoteSamples, remoteData, remoteFrame>>
  BY <1>1 DEF slaveVars
<1>3. Sent /\ ~Answered /\ Sent' /\ Answered'
  BY <1>1 DEF Sent, Answered
<1>4. Servers' = Servers /\ Blocks(d)' = Blocks(d) /\ Bit(Answered) = 0 /\ Bit(Answered)' = 1
  BY <1>1, <1>2, <1>3 DEF Servers, Blocks, Bit
<1>5. UNCHANGED Used /\ \A p \in Used : UNCHANGED <<Stable(p), Current(p), Received(p), Posted(p), First(d, p)>>
  BY <1>1, <1>2, <1>3, <1>4 DEF Used, Stable, Current, Received, Posted, First
<1>6. (ServersInv /\ EmptyInv)'
  BY <1>1, <1>4, <1>5 DEF ServersInv, EmptyInv
<1>7. FramesInv(d)'
  <2>1. Bit(rpc # "frame") \in Int
    BY DEF Bit
  <2>2. ends = Bit(rpc # "frame") - d
    BY <1>4, <2>1 DEF Sync, FramesInv
  <2>3. ends' = Bit(rpc # "frame") - d - 1
    BY <1>1, <2>1, <2>2
  <2> QED BY <1>1, <1>2, <1>4, <2>3 DEF Sync, FramesInv
<1>8. LinkInv(d, g)' /\ VirtualInv(g)'
  BY <1>1, <1>2, <1>4 DEF Sync, LinkInv, Total, Fits, IsData, VirtualInv
<1>9. BlockInv(d, g)'
  <2>1. ASSUME NEW p \in Used PROVE BlockOf(d, g, p)'
    <3>1. BlockOf(d, g, p)
      BY DEF Sync, BlockInv
    <3> QED BY <1>1, <1>2, <1>4, <1>5, <3>1 DEF BlockOf
  <2> QED BY <1>3, <1>5, <2>1 DEF BlockInv
<1>10. DataInv(d)'
  BY <1>1, <1>2, <1>5 DEF Sync, DataInv, DataOf
<1> QED BY <1>6, <1>7, <1>8, <1>9, <1>10 DEF Sync

\* The proxies of the master are updated for its next frame.
LEMMA MasterUpdated ==
  ASSUME TypeOK, TypedInv, ServersInv, EmptyInv, ShowInv, UpdatesProxies, ~reconfigured, clusterActive,
         NEW d \in {-1, 0, 1}, NEW g \in Nat, Sync(d, g)
  PROVE  (ServersInv /\ EmptyInv)' /\ d + 1 \in {-1, 0, 1} /\ Sync(d + 1, g)'
<1>1. /\ kpc = "proxies" /\ kpc' = "frame" /\ frame' = NextFrame(frame)
      /\ UNCHANGED <<samples, mDeviceServers, mDevTable, mProxyTable, mStupefied,
                     mTypedDevice, link, ends, slaveVars>>
      /\ \A p \in Used : mData'[p] = DataFrom(mData[p], Current(p), TypeOf[p])
  <2>1. \A p \in Used : p \in Proxies /\ p \in mProxyTable \cap mNeedUpdate /\ ~mStupefied[p]
    BY UsedDevice DEF UpdatesProxies, updateAllProxies, KernelAt, ShowInv
  <2> QED BY <2>1 DEF UpdatesProxies, updateAllProxies, KernelAt, Others, driverVars, tableVars,
                      pluginVars, Current
<1>2. UNCHANGED <<rpc, mVirtualDevices, remoteTable, remoteSamples, remoteData, remoteFrame>>
  BY <1>1 DEF slaveVars
<1>3. Sent /\ Answered /\ ~Sent' /\ ~Answered'
  BY <1>1 DEF Sent, Answered
<1>4. d \in {-1, 0} /\ d + 1 \in {0, 1} /\ (d = 0 => d + 1 = 1) /\ (d = -1 => d + 1 = 0)
  BY <1>3, BlocksAre DEF Sync
<1>5. /\ Servers' = Servers /\ Blocks(d + 1)' = Blocks(d) /\ Blocks(d) \in {0, 1}
      /\ (Blocks(d) = 1 => rpc # "proxies")
  <2>1. Bit(Sent) = 1 /\ Bit(Sent)' = 0 /\ Bit(rpc = "proxies") \in {0, 1}
        /\ Bit(rpc' = "proxies") = Bit(rpc = "proxies")
        /\ (rpc = "proxies" => Bit(rpc = "proxies") = 1)
    BY <1>2, <1>3 DEF Bit
  <2>2. Blocks(d) = d + 1 - Bit(rpc = "proxies") /\ Blocks(d) >= 0
    BY <2>1 DEF Blocks, Sync, FramesInv
  <2>3. Blocks(d + 1)' = (d + 1) + 0 - Bit(rpc = "proxies")
    BY <2>1 DEF Blocks
  <2> QED BY <1>1, <1>4, <2>1, <2>2, <2>3 DEF Servers
<1>6. UNCHANGED Used
      /\ \A p \in Used : UNCHANGED <<Stable(p), Current(p), Received(p)>> /\ mData'[p].sample = Current(p)
  <2>1. UNCHANGED Used
    BY <1>1 DEF Used
  <2>2. \A p \in Used : UNCHANGED <<Stable(p), Current(p), Received(p)>>
    BY <1>1, <1>2 DEF Stable, Current, Received
  <2>3. \A p \in Used : mData'[p].sample = Current(p)
    <3> SUFFICES ASSUME NEW p \in Used PROVE mData'[p].sample = Current(p)
      OBVIOUS
    <3>1. mData'[p] = DataFrom(mData[p], Current(p), TypeOf[p])
      BY <1>1
    <3> QED BY <3>1 DEF DataFrom
  <2> QED BY <2>1, <2>2, <2>3
<1>7. frame \in 0 .. 3 /\ frame' > 0 /\ (frame = 0 => ~(frame' > 1))
  BY <1>1 DEF TypeOK, PluginTypeOK, NextFrame
<1>8. (ServersInv /\ EmptyInv)'
  <2>1. ServersInv'
    BY <1>1, <1>5 DEF ServersInv
  <2>2. EmptyInv'
    BY <1>6 DEF EmptyInv, Stable, Current, getData
  <2> QED BY <2>1, <2>2
<1>9. FramesInv(d + 1)'
  <2>1. Bit(rpc # "frame") \in Int /\ Bit(Answered) = 1 /\ Bit(Answered)' = 0
        /\ Bit(rpc' # "frame") = Bit(rpc # "frame")
    BY <1>2, <1>3 DEF Bit
  <2>2. ends = Bit(rpc # "frame") - d - 1
    BY <2>1 DEF Sync, FramesInv
  <2>3. ends' = Bit(rpc # "frame") - (d + 1) - 0
    BY <1>1, <1>4, <2>1, <2>2
  <2>4. /\ d + 1 = 0 => frame' = remoteFrame'
        /\ d + 1 = 1 => frame' = NextFrame(remoteFrame')
        /\ d + 1 # -1
    BY <1>1, <1>2, <1>4 DEF Sync, FramesInv
  <2> QED BY <1>5, <2>1, <2>3, <2>4 DEF FramesInv
<1>10. LinkInv(d + 1, g)' /\ VirtualInv(g)'
  BY <1>1, <1>2, <1>5 DEF Sync, LinkInv, Total, Fits, IsData, VirtualInv
<1>11. BlockInv(d + 1, g)'
  <2>1. ASSUME NEW p \in Used PROVE BlockOf(d + 1, g, p)'
    <3>1. BlockOf(d, g, p)
      BY DEF Sync, BlockInv
    <3>2. Posted(p)' = Posted(p) /\ First(d + 1, p)' = First(d, p)
      BY <1>3, <1>5, <1>6, <1>7 DEF Posted, First
    <3> QED BY <1>1, <1>2, <1>5, <1>6, <3>1, <3>2 DEF BlockOf
  <2> QED BY <1>6, <1>7, <2>1 DEF BlockInv
<1>12. DataInv(d + 1)'
  <2>1. ASSUME NEW p \in Used PROVE DataOf(d + 1, p)'
    <3>1. DataOf(d, p) /\ p \in Proxies /\ mData[p] \in Data /\ Current(p) \in Nat
      BY UsedDevice, SwapBuffers DEF Sync, DataInv, TypeOK, ManagerTypeOK, DriversTypeOK, Current
    <3>2. mData'[p].sample = Current(p) /\ Matches(p, mData'[p])
          /\ (Matches(p, mData[p]) => mData'[p].state = Edge(p, mData[p].sample, Current(p)))
      BY <1>1, <3>1, UpdatedData
    <3>3. CASE d = 0
      <4>1. d + 1 = 1 /\ frame = remoteFrame
        BY <1>4, <3>3 DEF Sync, FramesInv
      <4> QED BY <1>2, <1>7, <3>1, <3>2, <3>3, <4>1 DEF DataOf
    <3>4. CASE d = -1
      <4>1. d + 1 = 0
        BY <1>4, <3>4
      <4>2. remoteData[p].sample = Current(p) /\ (remoteFrame > 0 => Matches(p, remoteData[p]))
            /\ (frame > 0 => /\ Matches(p, mData[p])
                             /\ remoteData[p].state = Edge(p, mData[p].sample, Current(p)))
        BY <3>1, <3>4 DEF DataOf
      <4> QED BY <1>2, <1>7, <3>2, <4>1, <4>2 DEF DataOf
    <3> QED BY <1>4, <3>3, <3>4
  <2> QED BY <1>6, <2>1 DEF DataInv
<1> QED BY <1>4, <1>8, <1>9, <1>10, <1>11, <1>12 DEF Sync

\* The slave has nothing to send but the end of its block.
LEMMA SlaveSends ==
  ASSUME ServersInv, EmptyInv, remotePostPostFrame, UNCHANGED <<driverVars, managerVars, loading, frame>>,
         NEW d \in {-1, 0, 1}, NEW g \in Nat, Sync(d, g)
  PROVE  (ServersInv /\ EmptyInv /\ Sync(d, g))'
<1>1. /\ rpc = "frame" /\ rpc' = "receive" /\ ends' = ends + 1
      /\ UNCHANGED <<mDeviceServers, link, mVirtualDevices, remoteTable, remoteSamples,
                     remoteData, remoteFrame>>
      /\ UNCHANGED <<samples, mData, frame, mDevTable, mProxyTable, mStupefied, mTypedDevice, kpc,
                     reconfigured>>
  BY DEF remotePostPostFrame, driverVars, managerVars, tableVars, proxyVars, stepVars
<1>2. (Sent' <=> Sent) /\ (Answered' <=> Answered)
  BY <1>1 DEF Sent, Answered
<1>3. /\ Servers' = Servers /\ Blocks(d)' = Blocks(d) /\ Bit(Answered)' = Bit(Answered)
      /\ Bit(rpc # "frame") = 0 /\ Bit(rpc' # "frame") = 1 /\ Bit(Answered) \in Int
  BY <1>1, <1>2 DEF Servers, Blocks, Bit
<1>4. UNCHANGED Used
      /\ \A p \in Used : UNCHANGED <<Stable(p), Current(p), Received(p), Posted(p), First(d, p)>>
  BY <1>1, <1>2, <1>3 DEF Used, Stable, Current, Received, Posted, First
<1>5. (ServersInv /\ EmptyInv)'
  BY <1>1, <1>3, <1>4 DEF ServersInv, EmptyInv
<1>6. FramesInv(d)'
  <2>1. ends = 0 - d - Bit(Answered)
    BY <1>3 DEF Sync, FramesInv
  <2>2. ends' = 1 - d - Bit(Answered)
    BY <1>1, <1>3, <2>1
  <2> QED BY <1>1, <1>3, <2>2 DEF Sync, FramesInv
<1>7. LinkInv(d, g)' /\ VirtualInv(g)'
  BY <1>1, <1>3 DEF Sync, LinkInv, Total, Fits, IsData, VirtualInv
<1>8. BlockInv(d, g)'
  <2>1. ASSUME NEW p \in Used PROVE BlockOf(d, g, p)'
    <3>1. BlockOf(d, g, p)
      BY DEF Sync, BlockInv
    <3> QED BY <1>1, <1>3, <1>4, <3>1 DEF BlockOf
  <2> QED BY <1>1, <1>2, <1>4, <2>1 DEF Sync, BlockInv
<1>9. DataInv(d)'
  BY <1>1, <1>4 DEF Sync, DataInv, DataOf
<1> QED BY <1>5, <1>6, <1>7, <1>8, <1>9 DEF Sync

\* What a message that the slave takes is.
LEMMA FirstMessage ==
  ASSUME TypeOK, NEW d \in {-1, 0, 1}, NEW g \in Nat, FramesInv(d), LinkInv(d, g), link # <<>>
  PROVE  /\ link \in Seq(Messages) /\ Len(link) \in Nat \ {0} /\ Servers \in Nat
         /\ Head(link) = link[1] /\ link[1] \in Messages /\ Len(Tail(link)) = Len(link) - 1
         /\ \A i \in 1 .. Len(link) - 1 : Tail(link)[i] = link[i + 1]
         /\ g + 1 <= 2 * Servers + 1
         /\ link[1].type = "RIM_DEVICE_ACK" =>
               g + 1 \in 1 .. Servers /\ link[1].id = mDeviceServers[g + 1]
         /\ link[1].type = "RIM_DATA_PACKET" =>
               g + 1 \in Servers + 1 .. 2 * Servers /\ link[1].id = mDeviceServers[g + 1 - Servers]
         /\ link[1].type = "END_BLOCK" => g = 2 * Servers
         /\ g >= Servers => Blocks(d) \in {1, 2}
<1>1. /\ link \in Seq(Messages) /\ Len(link) \in Nat \ {0} /\ Servers \in Nat
      /\ Head(link) = link[1] /\ link[1] \in Messages /\ Len(Tail(link)) = Len(link) - 1
      /\ \A i \in 1 .. Len(link) - 1 : Tail(link)[i] = link[i + 1]
  BY DEF TypeOK, PluginTypeOK, Servers
<1>2. g <= 2 * Servers /\ Len(link) + g = Total(Blocks(d)) /\ Fits(link[1], g + 1)
  BY <1>1 DEF LinkInv
<1>3. g + 1 \in Nat /\ g + 1 >= 1 /\ g + 1 <= 2 * Servers + 1
  BY <1>1, <1>2
<1>4. Blocks(d) \in {0, 1, 2}
  BY BlocksAre
<1>5. g >= Servers => Blocks(d) \in {1, 2}
  <2>1. Blocks(d) = 0 => Len(link) + g = Servers
    BY <1>2 DEF Total
  <2> QED BY <1>1, <1>4, <2>1
<1>6. CASE g + 1 <= Servers
  <2>1. link[1] = ACK(mDeviceServers[g + 1])
    BY <1>2, <1>6 DEF Fits
  <2>2. link[1].type = "RIM_DEVICE_ACK" /\ link[1].id = mDeviceServers[g + 1]
    BY <2>1 DEF ACK
  <2>3. g + 1 \in 1 .. Servers
    BY <1>1, <1>6
  <2> QED BY <1>1, <1>3, <1>5, <2>2, <2>3
<1>7. CASE g + 1 \in Servers + 1 .. 2 * Servers
  <2>1. link[1].type = "RIM_DATA_PACKET" /\ link[1].id = mDeviceServers[g + 1 - Servers]
    <3> DEFINE x == g + 1
               i == g + 1 - Servers
    <3>1. Fits(link[1], x) /\ x \in Servers + 1 .. 2 * Servers
      BY <1>2, <1>7
    <3>2. x - Servers = i
      BY <1>1
    <3> HIDE DEF x, i
    <3>3. link[1].type = "RIM_DATA_PACKET" /\ link[1].id = mDeviceServers[x - Servers]
      BY <3>1, Zenon DEF Fits, IsData
    <3>4. link[1].id = mDeviceServers[i]
      BY <3>2, <3>3
    <3> QED BY <3>3, <3>4 DEF i
  <2> QED BY <1>1, <1>3, <1>5, <1>7, <2>1
<1>8. CASE g + 1 = 2 * Servers + 1
  <2>1. link[1] = END /\ g = 2 * Servers
    BY <1>1, <1>2, <1>8 DEF Fits
  <2>2. link[1].type = "END_BLOCK"
    BY <2>1 DEF END
  <2> QED BY <1>1, <1>3, <1>5, <2>1, <2>2
<1> QED BY <1>1, <1>3, <1>6, <1>7, <1>8

\* The slave makes a virtual device for the next device server.
LEMMA DeviceMade ==
  ASSUME TypeOK, TableInv, ServersInv, EmptyInv, handleDeviceAck,
         UNCHANGED <<driverVars, managerVars, loading, frame>>,
         NEW d \in {-1, 0, 1}, NEW g \in Nat, Sync(d, g)
  PROVE  (ServersInv /\ EmptyInv)' /\ Sync(d, g + 1)'
<1> DEFINE o == Head(link).id
<1>1. /\ rpc = "receive" /\ rpc' = "receive" /\ link # <<>> /\ Head(link).type = "RIM_DEVICE_ACK"
      /\ link' = Tail(link)
      /\ UNCHANGED <<mDeviceServers, ends, remoteSamples, remoteData, remoteFrame>>
      /\ UNCHANGED <<samples, mData, frame, mDevTable, mProxyTable, mStupefied, mTypedDevice, kpc,
                     reconfigured>>
  BY DEF handleDeviceAck, Receives, driverVars, managerVars, tableVars, proxyVars, stepVars
<1>2. (Sent' <=> Sent) /\ (Answered' <=> Answered)
  BY <1>1 DEF Sent, Answered
<1>3. Servers' = Servers /\ Blocks(d)' = Blocks(d) /\ Bit(Answered)' = Bit(Answered)
  BY <1>1, <1>2 DEF Servers, Blocks, Bit
<1>4. UNCHANGED Used
      /\ \A p \in Used : UNCHANGED <<Stable(p), Current(p), Received(p), Posted(p), First(d, p)>>
  BY <1>1, <1>2, <1>3 DEF Used, Stable, Current, Received, Posted, First
<1>5. (ServersInv /\ EmptyInv)'
  BY <1>1, <1>3, <1>4 DEF ServersInv, EmptyInv
<1>6. FramesInv(d)'
  BY <1>1, <1>3 DEF Sync, FramesInv
<1>7. /\ Len(link) \in Nat \ {0} /\ Servers \in Nat /\ Len(link') = Len(link) - 1
      /\ \A i \in 1 .. Len(link) - 1 : link'[i] = link[i + 1]
      /\ g + 1 \in 1 .. Servers /\ o = mDeviceServers[g + 1] /\ o \in Devices
      /\ \A i \in 1 .. Servers : mDeviceServers[i] \in Devices
  <2>1. mDeviceServers \in Seq(Devices)
    BY DEF TypeOK, PluginTypeOK
  <2> QED BY <1>1, <2>1, FirstMessage DEF Sync, Servers
<1> HIDE DEF o
<1>8. LinkInv(d, g + 1)'
  <2>1. \A i \in 1 .. Len(link') : Fits(link[i + 1], g + (i + 1))
    BY <1>7 DEF Sync, LinkInv
  <2>2. ASSUME NEW i \in 1 .. Len(link') PROVE Fits(link[i], (g + 1) + i)'
    <3>1. link'[i] = link[i + 1] /\ g + (i + 1) = (g + 1) + i
      BY <1>7
    <3>2. Fits(link[i + 1], (g + 1) + i)
      BY <2>1, <3>1
    <3> QED BY <1>1, <1>3, <3>1, <3>2 DEF Fits, IsData
  <2>3. Len(link') + (g + 1) = Total(Blocks(d))'
    <3>1. Len(link) + g = Total(Blocks(d)) /\ Total(Blocks(d))' = Total(Blocks(d))
      BY <1>3 DEF Sync, LinkInv, Total
    <3> QED BY <1>7, <3>1
  <2> QED BY <1>1, <1>3, <1>7, <2>2, <2>3 DEF Sync, LinkInv
<1>9. VirtualInv(g + 1)'
  <2>1. ~\E v \in mVirtualDevices : NameOf[v] = NameOf[o]
    <3> SUFFICES ASSUME NEW v \in mVirtualDevices, NameOf[v] = NameOf[o] PROVE FALSE
      OBVIOUS
    <3>1. v \in Devices
      BY DEF TypeOK, PluginTypeOK
    <3>2. PICK i \in 1 .. Servers : i <= g /\ mDeviceServers[i] = v
      BY <3>1 DEF Sync, VirtualInv
    <3>3. mDeviceServers[i] = mDeviceServers[g + 1]
      BY <1>7, <3>2 DEF ServersInv
    <3>4. i = g + 1
      BY <1>7, <3>3 DEF ServersInv
    <3> QED BY <3>2, <3>4
  <2>2. /\ mVirtualDevices' = mVirtualDevices \cup {o}
        /\ remoteTable' = [remoteTable EXCEPT ![NameOf[o]] = o]
    BY <2>1 DEF handleDeviceAck, o
  <2>3. ASSUME NEW v \in Devices
        PROVE  v \in mVirtualDevices' <=> \E i \in 1 .. Servers' : i <= g + 1 /\ mDeviceServers'[i] = v
    <3>1. v \in mVirtualDevices <=> \E i \in 1 .. Servers : i <= g /\ mDeviceServers[i] = v
      BY DEF Sync, VirtualInv
    <3>2. \A i \in 1 .. Servers : i <= g + 1 <=> i <= g \/ i = g + 1
      BY <1>7
    <3> QED BY <1>1, <1>3, <1>7, <2>2, <3>1, <3>2
  <2>4. ASSUME NEW n \in DeviceNames
        PROVE  remoteTable'[n] =
                  IF mDevTable'[n] \in mVirtualDevices' THEN mDevTable'[n] ELSE NoDevice
    <3>1. mDevTable[NameOf[o]] = o /\ o # NoDevice /\ NameOf[o] \in DeviceNames
      BY <1>7, DevicesAssumption, ProxiesAssumption DEF ServersInv
    <3>2. mDevTable[n] = o => NameOf[o] = n
      BY <3>1 DEF TableInv
    <3>3. remoteTable \in [DeviceNames -> Devices \cup {NoDevice}]
      BY DEF TypeOK, PluginTypeOK
    <3>4. remoteTable[n] = IF mDevTable[n] \in mVirtualDevices THEN mDevTable[n] ELSE NoDevice
      BY DEF Sync, VirtualInv
    <3>5. CASE n = NameOf[o]
      BY <1>1, <2>2, <3>1, <3>3, <3>5
    <3>6. CASE n # NameOf[o]
      BY <1>1, <2>2, <3>2, <3>3, <3>4, <3>6
    <3> QED BY <3>5, <3>6
  <2> QED BY <1>1, <2>3, <2>4 DEF Sync, VirtualInv
<1>10. BlockInv(d, g + 1)'
  <2>1. ASSUME NEW p \in Used PROVE BlockOf(d, g + 1, p)'
    <3>1. BlockOf(d, g, p)
      BY DEF Sync, BlockInv
    <3>2. /\ Blocks(d) = 1 => Len(link) + g = 2 * Servers + 1
          /\ Blocks(d) = 2 => Len(link) + g = 3 * Servers + 2
      BY <1>7 DEF Sync, LinkInv, Total
    <3>3. ASSUME NEW i \in 1 .. Servers, Blocks(d) \in {1, 2}
          PROVE  /\ ~(Servers + i <= g) /\ ~(Servers + i <= g + 1)
                 /\ link'[Servers + i - (g + 1)] = link[Servers + i - g]
                 /\ Blocks(d) = 2 =>
                       link'[2 * Servers + 1 + i - (g + 1)] = link[2 * Servers + 1 + i - g]
      <4>1. /\ ~(Servers + i <= g) /\ ~(Servers + i <= g + 1)
            /\ Servers + i - (g + 1) \in 1 .. Len(link) - 1
            /\ Servers + i - g = (Servers + i - (g + 1)) + 1
        <5>1. /\ Len(link) + g >= 2 * Servers + 1 /\ Len(link) \in Nat /\ Servers \in Nat
              /\ g + 1 <= Servers /\ i \in 1 .. Servers
          BY <1>7, <3>2, <3>3
        <5> QED BY <5>1
      <4>2. ASSUME Blocks(d) = 2
            PROVE  /\ 2 * Servers + 1 + i - (g + 1) \in 1 .. Len(link) - 1
                   /\ 2 * Servers + 1 + i - g = (2 * Servers + 1 + i - (g + 1)) + 1
        <5>1. /\ Len(link) + g = 3 * Servers + 2 /\ Len(link) \in Nat /\ Servers \in Nat
              /\ g + 1 <= Servers /\ i \in 1 .. Servers
          BY <1>7, <3>2, <4>2
        <5> QED BY <5>1
      <4> QED BY <1>7, <4>1, <4>2
    <3>4. Blocks(d) \in {0, 1, 2}
      BY BlocksAre DEF Sync
    <3>5. CASE Blocks(d) = 0
      BY <1>1, <1>3, <1>4, <3>1, <3>5 DEF BlockOf
    <3>6. CASE Blocks(d) \in {1, 2}
      <4>1. ASSUME NEW i \in 1 .. Servers', mDeviceServers'[i] = mTypedDevice'[p]
            PROVE  /\ ~(Servers' + i <= g + 1)
                   /\ Brings(link'[Servers' + i - (g + 1)].data[TypeOf[p]], Received(p)', First(d, p)')
                   /\ Blocks(d)' = 2 => Brings(link'[2 * Servers' + 1 + i - (g + 1)].data[TypeOf[p]],
                                               mData'[p].sample, Current(p)')
        <5>1. i \in 1 .. Servers /\ mDeviceServers[i] = mTypedDevice[p]
          BY <1>1, <1>3, <4>1
        <5>2. /\ ~(Servers + i <= g) /\ ~(Servers + i <= g + 1)
              /\ link'[Servers + i - (g + 1)] = link[Servers + i - g]
              /\ Blocks(d) = 2 =>
                    link'[2 * Servers + 1 + i - (g + 1)] = link[2 * Servers + 1 + i - g]
          BY <3>3, <3>6, <5>1
        <5>3. Brings(link[Servers + i - g].data[TypeOf[p]], Received(p), First(d, p))
          BY <3>1, <3>6, <5>1, <5>2 DEF BlockOf
        <5>4. Blocks(d) = 2 => Brings(link[2 * Servers + 1 + i - g].data[TypeOf[p]],
                                      mData[p].sample, Current(p))
          BY <3>1, <5>1 DEF BlockOf
        <5> QED BY <1>1, <1>3, <1>4, <5>2, <5>3, <5>4
      <4>2. Blocks(d)' \in {1, 2} /\ rpc' # "proxies"
        BY <1>1, <1>3, <3>6
      <4> QED BY <4>1, <4>2 DEF BlockOf
    <3> QED BY <3>4, <3>5, <3>6
  <2> QED BY <1>1, <1>2, <1>4, <2>1 DEF Sync, BlockInv
<1>11. DataInv(d)'
  BY <1>1, <1>4 DEF Sync, DataInv, DataOf
<1> QED BY <1>5, <1>6, <1>8, <1>9, <1>10, <1>11 DEF Sync

\* The slave reads the data of the next device server.
LEMMA DataRead ==
  ASSUME TypeOK, TypedInv, ServersInv, EmptyInv, handleDataPacket,
         UNCHANGED <<driverVars, managerVars, loading, frame>>,
         NEW d \in {-1, 0, 1}, NEW g \in Nat, Sync(d, g)
  PROVE  (ServersInv /\ EmptyInv)' /\ Sync(d, g + 1)'
<1> DEFINE o == Head(link).id
           n == g - Servers + 1
<1>1. /\ rpc = "receive" /\ rpc' = "receive" /\ link # <<>> /\ Head(link).type = "RIM_DATA_PACKET"
      /\ link' = Tail(link)
      /\ UNCHANGED <<mDeviceServers, ends, mVirtualDevices, remoteTable, remoteData, remoteFrame>>
      /\ UNCHANGED <<samples, mData, frame, mDevTable, mProxyTable, mStupefied, mTypedDevice, kpc,
                     reconfigured>>
  BY DEF handleDataPacket, Receives, driverVars, managerVars, tableVars, proxyVars, stepVars
<1>2. (Sent' <=> Sent) /\ (Answered' <=> Answered)
  BY <1>1 DEF Sent, Answered
<1>3. Servers' = Servers /\ Blocks(d)' = Blocks(d) /\ Bit(Answered)' = Bit(Answered)
  BY <1>1, <1>2 DEF Servers, Blocks, Bit
<1>4. UNCHANGED Used
      /\ \A p \in Used : UNCHANGED <<Stable(p), Current(p), Posted(p), First(d, p)>>
  BY <1>1, <1>2, <1>3 DEF Used, Stable, Current, Posted, First
<1>5. (ServersInv /\ EmptyInv)'
  BY <1>1, <1>3, <1>4 DEF ServersInv, EmptyInv
<1>6. FramesInv(d)'
  BY <1>1, <1>3 DEF Sync, FramesInv
<1>7. /\ Len(link) \in Nat \ {0} /\ Servers \in Nat /\ Len(link') = Len(link) - 1
      /\ \A i \in 1 .. Len(link) - 1 : link'[i] = link[i + 1]
      /\ g + 1 \in Servers + 1 .. 2 * Servers /\ n \in 1 .. Servers /\ n = g + 1 - Servers
      /\ o = mDeviceServers[n] /\ o = link[1].id /\ o \in Devices
      /\ \A i \in 1 .. Servers : mDeviceServers[i] \in Devices
      /\ Blocks(d) \in {1, 2}
      /\ Head(link) = link[1] /\ link[1] \in Messages /\ link[1].type = "RIM_DATA_PACKET"
  <2>1. /\ mDeviceServers \in Seq(Devices) /\ Servers \in Nat
        /\ \A i \in 1 .. Servers : mDeviceServers[i] \in Devices
    BY DEF TypeOK, PluginTypeOK, Servers
  <2>2. g + 1 \in Servers + 1 .. 2 * Servers /\ o = mDeviceServers[g + 1 - Servers]
    BY <1>1, FirstMessage DEF Sync
  <2>3. n \in 1 .. Servers /\ n = g + 1 - Servers /\ g >= Servers
    BY <2>1, <2>2
  <2>4. o = mDeviceServers[n] /\ o \in Devices
    BY <2>1, <2>2, <2>3
  <2> HIDE DEF n, o
  <2>5. o = link[1].id
    BY <1>1, FirstMessage DEF Sync, o
  <2> QED BY <1>1, <2>1, <2>2, <2>3, <2>4, <2>5, FirstMessage DEF Sync
<1> HIDE DEF o, n
<1>8. LinkInv(d, g + 1)'
  <2>1. \A i \in 1 .. Len(link') : Fits(link[i + 1], g + (i + 1))
    BY <1>7 DEF Sync, LinkInv
  <2>2. ASSUME NEW i \in 1 .. Len(link') PROVE Fits(link[i], (g + 1) + i)'
    <3>1. link'[i] = link[i + 1] /\ g + (i + 1) = (g + 1) + i
      <4>1. i \in 1 .. Len(link) - 1
        BY <1>7
      <4>2. link'[i] = link[i + 1]
        BY <1>7, <4>1
      <4> QED BY <4>1, <4>2
    <3>2. Fits(link[i + 1], (g + 1) + i)
      BY <2>1, <3>1
    <3> QED BY <1>1, <1>3, <3>1, <3>2 DEF Fits, IsData
  <2>3. Len(link') + (g + 1) = Total(Blocks(d))'
    <3>1. Len(link) + g = Total(Blocks(d)) /\ Total(Blocks(d))' = Total(Blocks(d))
      BY <1>3 DEF Sync, LinkInv, Total
    <3> QED BY <1>7, <3>1
  <2> QED BY <1>1, <1>3, <1>7, <2>2, <2>3 DEF Sync, LinkInv
<1>9. \A v \in Devices : v \in mVirtualDevices <=> \E i \in 1 .. Servers : mDeviceServers[i] = v
  <2>1. \A i \in 1 .. Servers : i <= g
    BY <1>7
  <2> QED BY <2>1 DEF Sync, VirtualInv
<1>10. /\ o \in mVirtualDevices /\ link[1].data \in [Types -> Seq(Nat)]
       /\ remoteSamples' = [remoteSamples EXCEPT ![o] =
             [t \in Types |-> readObject(remoteSamples[o][t], link[1].data[t])]]
       /\ remoteSamples \in [Devices -> [Types -> Buffers]]
       /\ \A t \in Types : remoteSamples[o][t].ready = <<>>
  <2>1. o \in mVirtualDevices
    BY <1>7, <1>9
  <2>2. link[1].data \in [Types -> Seq(Nat)]
    BY <1>7 DEF Messages
  <2> QED BY <1>7, <2>1, <2>2 DEF handleDataPacket, o, Sync, VirtualInv, TypeOK, PluginTypeOK
<1>11. \A t \in Types : /\ remoteSamples'[o][t].ready = <<>>
                        /\ Brings(link[1].data[t], getData(remoteSamples[o][t]),
                                  getData(remoteSamples'[o][t]))
  <2> SUFFICES ASSUME NEW t \in Types
               PROVE  /\ remoteSamples'[o][t].ready = <<>>
                      /\ Brings(link[1].data[t], getData(remoteSamples[o][t]),
                                getData(remoteSamples'[o][t]))
    OBVIOUS
  <2>1. remoteSamples'[o][t] = readObject(remoteSamples[o][t], link[1].data[t])
    BY <1>7, <1>10
  <2>2. remoteSamples[o][t] \in Buffers /\ link[1].data[t] \in Seq(Nat)
    BY <1>7, <1>10
  <2> QED BY <1>10, <2>1, <2>2, ReadObjectShows
<1>12. \A v \in Devices \ {o}, t \in Types : remoteSamples'[v][t] = remoteSamples[v][t]
  BY <1>10
<1>13. VirtualInv(g + 1)'
  <2>1. \A i \in 1 .. Servers : i <= g + 1
    BY <1>7
  <2>2. \A v \in Devices : v \in mVirtualDevices' <=>
           \E i \in 1 .. Servers' : i <= g + 1 /\ mDeviceServers'[i] = v
    BY <1>1, <1>3, <1>9, <2>1
  <2>3. \A v \in Devices, t \in Types : remoteSamples'[v][t].ready = <<>>
    BY <1>11, <1>12 DEF Sync, VirtualInv
  <2> QED BY <1>1, <2>2, <2>3 DEF Sync, VirtualInv
<1>14. BlockInv(d, g + 1)'
  <2>1. ASSUME NEW p \in Used PROVE BlockOf(d, g + 1, p)'
    <3>1. BlockOf(d, g, p) /\ mTypedDevice[p] \in Devices /\ TypeOf[p] \in Types
      BY UsedDevice DEF Sync, BlockInv
    <3>2. /\ Blocks(d) = 1 => Len(link) + g = 2 * Servers + 1
          /\ Blocks(d) = 2 => Len(link) + g = 3 * Servers + 2
      BY <1>7 DEF Sync, LinkInv, Total
    <3>3. ASSUME NEW i \in 1 .. Servers
          PROVE  /\ i = n => ~(Servers + i <= g) /\ Servers + i <= g + 1 /\ Servers + i - g = 1
                 /\ i # n => (Servers + i <= g <=> Servers + i <= g + 1)
                 /\ ~(Servers + i <= g + 1) =>
                       link'[Servers + i - (g + 1)] = link[Servers + i - g]
                 /\ Blocks(d) = 2 =>
                       link'[2 * Servers + 1 + i - (g + 1)] = link[2 * Servers + 1 + i - g]
      <4>1. /\ Len(link) + g >= 2 * Servers + 1 /\ Len(link) \in Nat /\ Servers \in Nat
            /\ g + 1 \in Servers + 1 .. 2 * Servers /\ i \in 1 .. Servers
            /\ n = g + 1 - Servers /\ n \in 1 .. Servers
        BY <1>7, <3>2
      <4>2. /\ i = n => ~(Servers + i <= g) /\ Servers + i <= g + 1 /\ Servers + i - g = 1
            /\ i # n => (Servers + i <= g <=> Servers + i <= g + 1)
        BY <4>1
      <4>3. ~(Servers + i <= g + 1) =>
               /\ Servers + i - (g + 1) \in 1 .. Len(link) - 1
               /\ Servers + i - g = (Servers + i - (g + 1)) + 1
        BY <4>1
      <4>4. ASSUME Blocks(d) = 2
            PROVE  /\ 2 * Servers + 1 + i - (g + 1) \in 1 .. Len(link) - 1
                   /\ 2 * Servers + 1 + i - g = (2 * Servers + 1 + i - (g + 1)) + 1
        <5>1. Len(link) + g = 3 * Servers + 2
          BY <3>2, <4>4
        <5> QED BY <4>1, <5>1
      <4> QED BY <1>7, <4>2, <4>3, <4>4
    <3>4. ASSUME NEW i \in 1 .. Servers', mDeviceServers'[i] = mTypedDevice'[p]
          PROVE  /\ IF Servers' + i <= g + 1 THEN Received(p)' = First(d, p)'
                    ELSE Brings(link'[Servers' + i - (g + 1)].data[TypeOf[p]], Received(p)', First(d, p)')
                 /\ Blocks(d)' = 2 => Brings(link'[2 * Servers' + 1 + i - (g + 1)].data[TypeOf[p]],
                                             mData'[p].sample, Current(p)')
      <4>1. i \in 1 .. Servers /\ mDeviceServers[i] = mTypedDevice[p]
        BY <1>1, <1>3, <3>4
      <4>2. IF Servers + i <= g THEN Received(p) = First(d, p)
            ELSE Brings(link[Servers + i - g].data[TypeOf[p]], Received(p), First(d, p))
        BY <1>7, <3>1, <4>1 DEF BlockOf
      <4>3. Blocks(d) = 2 => Brings(link[2 * Servers + 1 + i - g].data[TypeOf[p]],
                                    mData[p].sample, Current(p))
        BY <3>1, <4>1 DEF BlockOf
      <4>4. Blocks(d)' = 2 => Brings(link'[2 * Servers' + 1 + i - (g + 1)].data[TypeOf[p]],
                                     mData'[p].sample, Current(p)')
        BY <1>1, <1>3, <1>4, <3>3, <4>1, <4>3
      <4>5. CASE i = n
        <5>1. mTypedDevice[p] = o
          BY <1>7, <4>1, <4>5
        <5>2. Brings(link[1].data[TypeOf[p]], Received(p), Received(p)')
          BY <1>1, <1>11, <3>1, <5>1 DEF Received
        <5>3. ~(Servers + i <= g) /\ Servers + i <= g + 1 /\ Servers + i - g = 1
          BY <3>3, <4>1, <4>5
        <5>4. Brings(link[1].data[TypeOf[p]], Received(p), First(d, p))
          BY <4>2, <5>3
        <5>5. Received(p)' = First(d, p)'
          BY <1>4, <5>2, <5>4 DEF Brings
        <5> QED BY <1>3, <4>4, <5>3, <5>5
      <4>6. CASE i # n
        <5>1. mTypedDevice[p] # o
          <6>1. n \in 1 .. Servers /\ mDeviceServers[n] = o
            BY <1>7
          <6>2. mDeviceServers[i] # mDeviceServers[n]
            BY <4>1, <4>6, <6>1 DEF ServersInv
          <6> QED BY <4>1, <6>1, <6>2
        <5>2. Received(p)' = Received(p)
          BY <1>1, <1>12, <3>1, <5>1 DEF Received
        <5> QED BY <1>3, <1>4, <3>3, <4>1, <4>2, <4>4, <4>6, <5>2
      <4> QED BY <4>5, <4>6
    <3>5. Blocks(d)' \in {1, 2} /\ rpc' # "proxies"
      BY <1>1, <1>3, <1>7
    <3> QED BY <3>4, <3>5 DEF BlockOf
  <2>2. ~(frame = 0 /\ ~Sent)
    BY <1>7, BeforeFirst DEF Sync
  <2> QED BY <1>1, <1>2, <1>4, <2>1, <2>2 DEF BlockInv
<1>15. DataInv(d)'
  BY <1>1, <1>4 DEF Sync, DataInv, DataOf
<1> QED BY <1>5, <1>6, <1>8, <1>13, <1>14, <1>15 DEF Sync

\* The slave has all of a block.
LEMMA BlockRead ==
  ASSUME TypeOK, TypedInv, ProxiesFollowTable, LoadInv, ServersInv, EmptyInv, handleEndBlock,
         UNCHANGED <<driverVars, managerVars, loading, frame>>,
         NEW d \in {-1, 0, 1}, NEW g \in Nat, Sync(d, g)
  PROVE  (ServersInv /\ EmptyInv)' /\ Servers' \in Nat /\ Sync(d, Servers)'
<1>1. /\ rpc = "receive" /\ rpc' = "proxies" /\ link # <<>> /\ Head(link).type = "END_BLOCK"
      /\ link' = Tail(link)
      /\ UNCHANGED <<mDeviceServers, ends, mVirtualDevices, remoteTable, remoteSamples, remoteData,
                     remoteFrame>>
      /\ UNCHANGED <<samples, mData, frame, mDevTable, mProxyTable, mStupefied, mTypedDevice, kpc,
                     reconfigured>>
  BY DEF handleEndBlock, Receives, driverVars, managerVars, tableVars, proxyVars, stepVars
<1>2. (Sent' <=> Sent) /\ (Answered' <=> Answered)
  BY <1>1 DEF Sent, Answered
<1>3. Servers' = Servers /\ Bit(Answered)' = Bit(Answered) /\ Bit(rpc # "frame")' = Bit(rpc # "frame")
  BY <1>1, <1>2 DEF Servers, Bit
<1>4. UNCHANGED Used
      /\ \A p \in Used : UNCHANGED <<Stable(p), Current(p), Received(p), Posted(p)>>
  BY <1>1, <1>2 DEF Used, Stable, Current, Received, Posted
<1>5. /\ Len(link) \in Nat \ {0} /\ Servers \in Nat /\ Len(link') = Len(link) - 1
      /\ \A i \in 1 .. Len(link) - 1 : link'[i] = link[i + 1]
      /\ g = 2 * Servers
  BY <1>1, FirstMessage DEF Sync
<1>6. Blocks(d) \in {1, 2} /\ Blocks(d)' = Blocks(d) - 1
      /\ (Blocks(d) = 2 => Sent /\ d = 1)
  <2>1. g >= Servers
    BY <1>5
  <2>2. Blocks(d) \in {1, 2} /\ (Blocks(d) = 2 => Sent /\ d = 1)
    BY <1>1, <2>1, FirstMessage, BlocksAre DEF Sync
  <2>3. /\ Bit(rpc = "proxies") = 0 /\ Bit(rpc' = "proxies") = 1
        /\ Bit(Sent) \in {0, 1} /\ Bit(Sent)' = Bit(Sent)
    BY <1>1, <1>2 DEF Bit
  <2>4. Blocks(d) = d + Bit(Sent) - 0 /\ Blocks(d)' = d + Bit(Sent) - 1
    BY <2>3 DEF Blocks
  <2>5. Blocks(d)' = Blocks(d) - 1
    BY <2>3, <2>4
  <2> QED BY <2>2, <2>5
<1>7. (ServersInv /\ EmptyInv)'
  BY <1>1, <1>3, <1>4 DEF ServersInv, EmptyInv
<1>8. FramesInv(d)'
  <2>1. Blocks(d)' >= 0
    BY <1>6
  <2> QED BY <1>1, <1>3, <2>1 DEF Sync, FramesInv
<1>9. LinkInv(d, Servers)'
  <2>1. /\ Blocks(d) = 1 => Len(link) + g = 2 * Servers + 1
        /\ Blocks(d) = 2 => Len(link) + g = 3 * Servers + 2
    BY <1>5 DEF Sync, LinkInv, Total
  <2>2. Len(link') + Servers' = Total(Blocks(d))'
    <3>1. CASE Blocks(d) = 1
      <4>1. Blocks(d)' = 0 /\ Len(link) = 1
        BY <1>5, <1>6, <2>1, <3>1
      <4> QED BY <1>3, <1>5, <4>1 DEF Total
    <3>2. CASE Blocks(d) = 2
      <4>1. Blocks(d)' = 1 /\ Len(link) = Servers + 2
        BY <1>5, <1>6, <2>1, <3>2
      <4>2. Total(Blocks(d))' = 2 * Servers + 1
        BY <1>3, <4>1 DEF Total
      <4> QED BY <1>3, <1>5, <4>1, <4>2
    <3> QED BY <1>6, <3>1, <3>2
  <2>3. ASSUME NEW i \in 1 .. Len(link') PROVE Fits(link[i], Servers + i)'
    <3>1. Fits(link[i + 1], g + (i + 1)) /\ link'[i] = link[i + 1]
      BY <1>5 DEF Sync, LinkInv
    <3>2. i + 1 <= Servers + 2 /\ i >= 1 /\ i \in Nat
      BY <1>5, <1>6, <2>1
    <3>3. CASE i <= Servers
      <4>1. IsData(link[i + 1], i)
        <5> DEFINE x == g + (i + 1)
        <5>1. x \in 2 * Servers + 2 .. 3 * Servers + 1 /\ x - (2 * Servers + 1) = i
          BY <1>5, <3>2, <3>3
        <5>2. Fits(link[i + 1], x)
          BY <3>1
        <5> HIDE DEF x
        <5>3. IsData(link[i + 1], x - (2 * Servers + 1))
          BY <5>1, <5>2, Zenon DEF Fits
        <5> QED BY <5>1, <5>3
      <4>2. Servers + i \in Servers + 1 .. 2 * Servers /\ ~(Servers + i <= Servers)
            /\ Servers + i - Servers = i /\ Servers + i # 2 * Servers + 1
            /\ Servers + i # 3 * Servers + 2 /\ ~(Servers + i >= 2 * Servers + 2)
        BY <1>5, <3>2, <3>3
      <4>3. IsData(link[i], i)'
        BY <1>1, <3>1, <4>1 DEF IsData
      <4> QED BY <1>3, <1>5, <4>2, <4>3 DEF Fits, IsData
    <3>4. CASE i = Servers + 1
      <4>1. g + (i + 1) = 3 * Servers + 2
        BY <1>5, <3>4
      <4>2. link[i + 1] = END
        BY <3>1, <4>1 DEF Fits
      <4>3. Servers + i = 2 * Servers + 1 /\ ~(Servers + i <= Servers)
        BY <1>5, <3>4
      <4> QED BY <1>3, <1>5, <3>1, <4>2, <4>3 DEF Fits
    <3> QED BY <1>5, <3>2, <3>3, <3>4
  <2> QED BY <1>1, <1>3, <1>5, <2>2, <2>3 DEF LinkInv
<1>10. VirtualInv(Servers)'
  <2>1. \A i \in 1 .. Servers : i <= g <=> i <= Servers
    BY <1>5
  <2> QED BY <1>1, <1>3, <2>1 DEF Sync, VirtualInv
<1>11. BlockInv(d, Servers)'
  <2>1. ASSUME NEW p \in Used PROVE BlockOf(d, Servers, p)'
    <3>1. BlockOf(d, g, p)
      BY DEF Sync, BlockInv
    <3>2. PICK j \in 1 .. Servers : mDeviceServers[j] = mTypedDevice[p]
      BY UsedServer
    <3>3. Received(p) = First(d, p)
      <4>1. Servers + j <= g
        BY <1>5
      <4> QED BY <1>6, <3>1, <3>2, <4>1 DEF BlockOf
    <3>4. Received(p)' = Received(p) /\ Posted(p)' = Posted(p)
      BY <1>4
    <3>5. CASE Blocks(d) = 1
      <4>1. Received(p) = Posted(p)
        BY <3>3, <3>5 DEF First
      <4>2. Blocks(d)' = 0
        BY <1>6, <3>5
      <4> QED BY <3>4, <4>1, <4>2 DEF BlockOf
    <3>6. CASE Blocks(d) = 2
      <4>1. Received(p)' = mData'[p].sample
        BY <1>1, <3>3, <3>4, <3>6 DEF First
      <4>2. Blocks(d)' = 1
        BY <1>6, <3>6
      <4>3. First(d, p)' = Current(p)
        <5>1. Posted(p) = Current(p)
          BY <1>6, <3>6 DEF Posted
        <5> QED BY <3>4, <4>2, <5>1 DEF First
      <4>4. ASSUME NEW i \in 1 .. Servers', mDeviceServers'[i] = mTypedDevice'[p]
            PROVE  ~(Servers' + i <= Servers')
                   /\ Brings(link'[Servers' + i - Servers'].data[TypeOf[p]], Received(p)', First(d, p)')
        <5>1. i \in 1 .. Servers /\ mDeviceServers[i] = mTypedDevice[p]
          BY <1>1, <1>3, <4>4
        <5>2. Brings(link[2 * Servers + 1 + i - g].data[TypeOf[p]], mData[p].sample, Current(p))
          BY <3>1, <3>6, <5>1 DEF BlockOf
        <5>3. 2 * Servers + 1 + i - g = i + 1 /\ Servers' + i - Servers' = i
              /\ ~(Servers' + i <= Servers')
          BY <1>3, <1>5, <5>1
        <5>4. Len(link) + g = 3 * Servers + 2
          BY <1>5, <3>6 DEF Sync, LinkInv, Total
        <5>5. i \in 1 .. Len(link) - 1
          BY <1>5, <5>1, <5>4
        <5>6. link'[i] = link[i + 1]
          BY <1>5, <5>5
        <5> QED BY <1>1, <4>1, <4>3, <5>2, <5>3, <5>6
      <4> QED BY <4>1, <4>2, <4>4 DEF BlockOf
    <3> QED BY <1>6, <3>5, <3>6
  <2> QED BY <1>1, <1>2, <1>4, <2>1 DEF Sync, BlockInv
<1>12. DataInv(d)'
  BY <1>1, <1>4 DEF Sync, DataInv, DataOf
<1>13. Servers' \in Nat
  BY <1>3, <1>5
<1> QED BY <1>7, <1>8, <1>9, <1>10, <1>11, <1>12, <1>13 DEF Sync

\* The proxies of the slave are updated for its next frame.
LEMMA SlaveUpdated ==
  ASSUME TypeOK, TypedInv, ProxiesFollowTable, LoadInv, ServersInv, EmptyInv, remoteUpdateAllProxies,
         UNCHANGED <<driverVars, managerVars, loading, frame>>,
         NEW d \in {-1, 0, 1}, NEW g \in Nat, Sync(d, g)
  PROVE  (ServersInv /\ EmptyInv)' /\ d - 1 \in {-1, 0, 1} /\ Sync(d - 1, g)'
<1>1. /\ rpc = "proxies" /\ rpc' = "frame" /\ remoteFrame' = NextFrame(remoteFrame)
      /\ UNCHANGED <<mDeviceServers, link, ends, mVirtualDevices, remoteTable, remoteSamples>>
      /\ UNCHANGED <<samples, mData, frame, mDevTable, mProxyTable, mStupefied, mTypedDevice, kpc,
                     reconfigured>>
  BY DEF remoteUpdateAllProxies, driverVars, managerVars, tableVars, proxyVars, stepVars
<1>2. (Sent' <=> Sent) /\ (Answered' <=> Answered)
  BY <1>1 DEF Sent, Answered
<1>3. d \in {0, 1} /\ d - 1 \in {-1, 0} /\ (d = 0 => d - 1 = -1 /\ Sent) /\ (d = 1 => d - 1 = 0)
      /\ Blocks(d) \in {0, 1} /\ (Blocks(d) = 1 <=> d = 1 /\ Sent)
      /\ Blocks(d - 1)' = Blocks(d)
  <2>1. /\ Bit(Sent) \in {0, 1} /\ (Sent <=> Bit(Sent) = 1) /\ Bit(Sent)' = Bit(Sent)
        /\ Bit(rpc = "proxies") = 1 /\ Bit(rpc' = "proxies") = 0
    BY <1>1, <1>2 DEF Bit
  <2>2. Blocks(d) = d + Bit(Sent) - 1 /\ Blocks(d) >= 0 /\ Blocks(d - 1)' = (d - 1) + Bit(Sent) - 0
    BY <2>1 DEF Sync, FramesInv, Blocks
  <2> QED BY <2>1, <2>2
<1>4. Servers' = Servers /\ Bit(Answered)' = Bit(Answered) /\ Bit(Answered) \in Int
      /\ Bit(rpc # "frame") = 1 /\ Bit(rpc' # "frame") = 0
  BY <1>1, <1>2 DEF Servers, Bit
<1>5. UNCHANGED Used
      /\ \A p \in Used : UNCHANGED <<Stable(p), Current(p), Received(p), Posted(p)>>
  BY <1>1, <1>2 DEF Used, Stable, Current, Received, Posted
<1>6. frame \in 0 .. 3 /\ remoteFrame \in 0 .. 3 /\ remoteFrame' > 0
      /\ (d = 1 => frame > 0) /\ (d = 1 /\ frame > 1 => remoteFrame > 0)
  BY <1>1 DEF TypeOK, PluginTypeOK, NextFrame, Sync, FramesInv
<1>7. (ServersInv /\ EmptyInv)'
  BY <1>1, <1>4, <1>5 DEF ServersInv, EmptyInv
<1>8. FramesInv(d - 1)'
  <2>1. ends = 1 - d - Bit(Answered)
    BY <1>4 DEF Sync, FramesInv
  <2>2. ends' = 0 - (d - 1) - Bit(Answered)
    BY <1>1, <1>3, <1>4, <2>1
  <2>3. /\ d - 1 = 0 => frame' = remoteFrame'
        /\ d - 1 = -1 => remoteFrame' = NextFrame(frame')
        /\ d - 1 # 1
    BY <1>1, <1>3 DEF Sync, FramesInv
  <2>4. Blocks(d - 1)' >= 0
    BY <1>3
  <2> QED BY <1>4, <2>2, <2>3, <2>4 DEF FramesInv
<1>9. LinkInv(d - 1, g)' /\ VirtualInv(g)'
  BY <1>1, <1>3, <1>4 DEF Sync, LinkInv, Total, Fits, IsData, VirtualInv
<1>10. BlockInv(d - 1, g)'
  <2>1. ASSUME NEW p \in Used PROVE BlockOf(d - 1, g, p)'
    <3>1. BlockOf(d, g, p)
      BY DEF Sync, BlockInv
    <3>2. First(d - 1, p)' = First(d, p)
      BY <1>1, <1>3, <1>5 DEF First
    <3> QED BY <1>1, <1>3, <1>4, <1>5, <3>1, <3>2 DEF BlockOf
  <2> QED BY <1>1, <1>2, <1>5, <2>1 DEF Sync, BlockInv
<1>11. DataInv(d - 1)'
  <2>1. ASSUME NEW p \in Used PROVE DataOf(d - 1, p)'
    <3>1. /\ DataOf(d, p) /\ BlockOf(d, g, p) /\ p \in Proxies /\ remoteData[p] \in Data
          /\ mTypedDevice[p] \in Devices /\ TypeOf[p] \in Types
      BY UsedDevice DEF Sync, DataInv, BlockInv, TypeOK, PluginTypeOK
    <3>2. Received(p) \in Nat
      BY <3>1, SwapBuffers DEF TypeOK, PluginTypeOK, Received
    <3>3. remoteData'[p] = DataFrom(remoteData[p], Received(p), TypeOf[p])
      <4>1. Finds(mDevTable, p) /\ mTypedDevice[p] = mDevTable[DeviceOf[p]]
            /\ DeviceOf[p] \in DeviceNames
        BY UsedServer
      <4>2. mTypedDevice[p] \in mVirtualDevices
        <5>1. PICK i \in 1 .. Servers : mDeviceServers[i] = mTypedDevice[p]
          BY UsedServer
        <5>2. i <= g
          BY <1>1, <5>1 DEF Sync, LinkInv, Servers, TypeOK, PluginTypeOK
        <5> QED BY <3>1, <5>1, <5>2 DEF Sync, VirtualInv
      <4>3. remoteTable[DeviceOf[p]] = mTypedDevice[p]
        BY <4>1, <4>2 DEF Sync, VirtualInv
      <4>4. Finds(remoteTable, p)
        BY <4>1, <4>3 DEF Finds
      <4> QED BY <3>1, <4>3, <4>4 DEF remoteUpdateAllProxies, Received
    <3>4. remoteData'[p].sample = Received(p) /\ Matches(p, remoteData'[p])
          /\ (Matches(p, remoteData[p]) =>
                remoteData'[p].state = Edge(p, remoteData[p].sample, Received(p)))
      BY <3>1, <3>2, <3>3, UpdatedData
    <3>5. CASE d = 1
      <4>1. d - 1 = 0 /\ frame > 0
        BY <1>3, <1>6, <3>5
      <4>2. Received(p) = mData[p].sample
        <5>1. CASE Blocks(d) = 1
          BY <1>1, <3>1, <5>1 DEF BlockOf
        <5>2. CASE Blocks(d) = 0
          BY <1>3, <3>1, <3>5, <4>1, <5>2 DEF BlockOf, Posted
        <5> QED BY <1>3, <5>1, <5>2
      <4>3. frame > 1 => remoteData'[p].state = mData[p].state
        BY <1>6, <3>1, <3>4, <3>5, <4>2 DEF DataOf
      <4>4. Matches(p, mData[p])
        BY <3>1, <4>1 DEF DataOf
      <4> QED BY <1>1, <3>4, <4>1, <4>2, <4>3, <4>4 DEF DataOf
    <3>6. CASE d = 0
      <4>1. d - 1 = -1 /\ Sent /\ Blocks(d) = 0 /\ frame = remoteFrame
        BY <1>3, <3>6 DEF Sync, FramesInv
      <4>2. Received(p) = Current(p)
        BY <3>1, <4>1 DEF BlockOf, Posted
      <4>3. frame > 0 => /\ remoteData'[p].state = Edge(p, mData[p].sample, Received(p))
                         /\ Matches(p, mData[p])
        BY <3>1, <3>4, <3>6, <4>1 DEF DataOf
      <4> QED BY <1>1, <1>5, <3>4, <4>1, <4>2, <4>3 DEF DataOf
    <3> QED BY <1>3, <3>5, <3>6
  <2> QED BY <1>5, <2>1 DEF DataInv
<1> QED BY <1>3, <1>7, <1>8, <1>9, <1>10, <1>11 DEF Sync

-----------------------------------------------------------------------------
(* The theorems. *)

\* A cluster stays one.
LEMMA ModeStays == Next => UNCHANGED clusterActive
<1> SUFFICES ASSUME Next PROVE UNCHANGED clusterActive
  OBVIOUS
<1> USE DEF Others, ConfigDone, managerVars
<1>1. CASE Configures
  BY <1>1 DEF Configures, Adds, Removes, configAddDevice, configureProxy, configureProxyAlias,
              AliasBecomes, removeDevice, removeProxy, removeProxyAlias
<1>2. CASE StartsUpdate \/ UpdatesProxies \/ postPostFrame \/ receiveEnd \/ ShutsDown
  BY <1>2 DEF StartsUpdate, EndReconfig, UpdatesProxies, updateAllProxies, postPostFrame, receiveEnd,
              ShutsDown, shutdown, shutdownDevice
<1>3. CASE Updates
  BY <1>3 DEF Updates, RemoveStopped, RefreshInterfaces, DestroyDevice, resetAllDevicesAndProxies,
              DevicesDone, updateDevice, updatePolledDevice, EndFrame
<1>4. CASE Slave \/ \E o \in Devices : pluginConfigAdd(o) \/ Samples(o)
  BY <1>4 DEF Slave, pluginConfigAdd, Samples
<1> QED BY <1>1, <1>2, <1>3, <1>4 DEF Next, Kernel

\* The nodes start in step, with nothing sent.
LEMMA InitCluster == Init => ClusterInv
<1> SUFFICES ASSUME Init PROVE MasterInv /\ Sync(0, 0)
  BY DEF ClusterInv
<1> USE DEF Init, DriversInit, ManagerInit
<1>1. Servers = 0 /\ ~Sent /\ ~Answered /\ frame = 0 /\ remoteFrame = 0 /\ rpc = "frame"
  BY DEF Servers, Sent, Answered
<1>2. Blocks(0) = 0 /\ Bit(Answered) = 0 /\ Bit(rpc # "frame") = 0
  BY <1>1 DEF Blocks, Bit
<1>3. MasterInv
  BY <1>1 DEF MasterInv, ServersInv, LoadInv, EmptyInv
<1>4. FramesInv(0)
  BY <1>1, <1>2 DEF FramesInv
<1>5. LinkInv(0, 0)
  BY <1>1, <1>2 DEF LinkInv, Total
<1>6. VirtualInv(0)
  BY <1>1, DevicesAssumption DEF VirtualInv, EmptyBuffer
<1>7. BlockInv(0, 0) /\ DataInv(0)
  BY <1>1 DEF BlockInv, DataInv, Used, getData, EmptyBuffer
<1> QED BY <1>3, <1>4, <1>5, <1>6, <1>7 DEF Sync

\* Every step keeps the account.
LEMMA StepCluster == IInv /\ ClusterInv /\ [Next]_vars => ClusterInv'
<1>1. IInv /\ ClusterInv /\ Next => ClusterInv'
  <2> SUFFICES ASSUME IInv, ClusterInv, Next, clusterActive PROVE ClusterInv'
    BY ModeStays DEF ClusterInv
  <2>1. /\ TypeOK /\ TypedInv /\ PlaceInv /\ TableInv /\ ProxiesFollowTable /\ ShowInv
        /\ LoadInv /\ ServersInv /\ EmptyInv
    BY DEF IInv, ClusterInv, MasterInv
  <2>2. PICK d \in {-1, 0, 1}, g \in Nat : Sync(d, g)
    BY DEF ClusterInv
  <2>3. (TypeOK /\ TypedInv)' /\ (clusterActive /\ LoadInv)'
    BY <2>1, StepIInv, LoadStep DEF IInv
  <2> DEFINE AccountKept == (ServersInv /\ EmptyInv)' /\ \E e \in {-1, 0, 1}, h \in Nat : Sync(e, h)'
  <2>4. ASSUME KeepsAccount PROVE AccountKept
    <3>1. (ServersInv /\ EmptyInv /\ Sync(d, g))'
      BY <2>1, <2>2, <2>3, <2>4, KeptAccount
    <3> QED BY <3>1
  <2>5. ASSUME NEW o \in Devices, pluginConfigAdd(o) PROVE AccountKept
    <3>1. (ServersInv /\ EmptyInv /\ Sync(d, g))'
      BY <2>1, <2>2, <2>3, <2>5, ServerAdded
    <3> QED BY <3>1
  <2>6. ASSUME postPostFrame PROVE AccountKept
    <3>1. (ServersInv /\ EmptyInv /\ Sync(d, g))'
      BY <2>1, <2>2, <2>6, BlockSent
    <3> QED BY <3>1
  <2>7. ASSUME receiveEnd PROVE AccountKept
    <3>1. (ServersInv /\ EmptyInv /\ Sync(d, g))'
      BY <2>1, <2>2, <2>7, EndReceived
    <3> QED BY <3>1
  <2>8. ASSUME UpdatesProxies /\ ~reconfigured PROVE AccountKept
    <3>1. (ServersInv /\ EmptyInv)' /\ d + 1 \in {-1, 0, 1} /\ Sync(d + 1, g)'
      BY <2>1, <2>2, <2>8, MasterUpdated
    <3> QED BY <3>1
  <2>9. ASSUME Slave PROVE AccountKept
    <3>1. UNCHANGED <<driverVars, managerVars, loading, frame>>
      BY <2>9 DEF Slave
    <3>2. ASSUME remotePostPostFrame PROVE AccountKept
      <4>1. (ServersInv /\ EmptyInv /\ Sync(d, g))'
        BY <2>1, <2>2, <3>1, <3>2, SlaveSends
      <4> QED BY <4>1
    <3>3. ASSUME handleDeviceAck PROVE AccountKept
      <4>1. (ServersInv /\ EmptyInv)' /\ Sync(d, g + 1)' /\ g + 1 \in Nat
        BY <2>1, <2>2, <3>1, <3>3, DeviceMade
      <4> QED BY <4>1
    <3>4. ASSUME handleDataPacket PROVE AccountKept
      <4>1. (ServersInv /\ EmptyInv)' /\ Sync(d, g + 1)' /\ g + 1 \in Nat
        BY <2>1, <2>2, <3>1, <3>4, DataRead
      <4> QED BY <4>1
    <3>5. ASSUME handleEndBlock PROVE AccountKept
      <4>1. (ServersInv /\ EmptyInv)' /\ Servers' \in Nat /\ Sync(d, Servers)'
        BY <2>1, <2>2, <3>1, <3>5, BlockRead
      <4>2. PICK h \in Nat : h = Servers'
        BY <4>1
      <4> QED BY <4>1, <4>2
    <3>6. ASSUME remoteUpdateAllProxies PROVE AccountKept
      <4>1. (ServersInv /\ EmptyInv)' /\ d - 1 \in {-1, 0, 1} /\ Sync(d - 1, g)'
        BY <2>1, <2>2, <3>1, <3>6, SlaveUpdated
      <4> QED BY <4>1
    <3> QED BY <2>9, <3>2, <3>3, <3>4, <3>5, <3>6 DEF Slave
  <2>10. AccountKept
    BY <2>1, <2>4, <2>5, <2>6, <2>7, <2>8, <2>9, MasterSteps
  <2> QED BY <2>3, <2>10 DEF ClusterInv, MasterInv
<1>2. IInv /\ ClusterInv /\ UNCHANGED vars => ClusterInv'
  <2> SUFFICES ASSUME IInv, ClusterInv, UNCHANGED vars, clusterActive PROVE ClusterInv'
    BY DEF ClusterInv, vars, managerVars
  <2> USE DEF vars
  <2>1. UNCHANGED <<frame, pluginVars, loading, driverVars, mDevTable, mProxyTable, mStupefied,
                    mTypedDevice, mData, kpc, reconfigured, clusterActive>>
    BY DEF managerVars, tableVars, proxyVars, stepVars
  <2>2. (Sent' <=> Sent) /\ (Answered' <=> Answered)
    BY <2>1 DEF Sent, Answered
  <2>3. /\ TypeOK /\ TypedInv /\ (TypeOK /\ TypedInv)'
        /\ ServersInv /\ EmptyInv /\ LoadInv /\ LoadInv' /\ clusterActive'
    BY <2>1, StepIInv DEF IInv, ClusterInv, MasterInv, LoadInv
  <2>4. KeepsAccount
    BY <2>1, <2>2, <2>3, KeepsIf DEF DriverStep, driverVars
  <2>5. PICK d \in {-1, 0, 1}, g \in Nat : Sync(d, g)
    BY DEF ClusterInv
  <2>6. (ServersInv /\ EmptyInv /\ Sync(d, g))'
    BY <2>3, <2>4, <2>5, KeptAccount
  <2> QED BY <2>3, <2>6 DEF ClusterInv, MasterInv
<1> QED BY <1>1, <1>2

\* However the two nodes run, each knows as much of the other as the messages between them
\* say (RIMPlugin::postPostFrame(), handlePacket(), NetworkManager::sendEndBlocks()).
THEOREM Account == Spec => [](IInv /\ ClusterInv)
<1>1. Init => IInv /\ ClusterInv
  BY InitIInv, InitCluster
<1>2. IInv /\ ClusterInv /\ [Next]_vars => (IInv /\ ClusterInv)'
  BY StepIInv, StepCluster
<1> QED BY <1>1, <1>2, PTL DEF Spec

\* While both nodes are in the same frame, their proxies have the same data: the same
\* sample, and from the second frame on the same state of a button.
THEOREM NodesShowTheSame == Spec => []SameInput
<1>1. IInv /\ ClusterInv => SameInput
  <2> SUFFICES ASSUME IInv, ClusterInv, clusterActive, kpc = "frame", rpc = "frame",
                      frame = remoteFrame, NEW p \in mProxyTable
               PROVE  /\ Finds(remoteTable, p) = ~mStupefied[p]
                      /\ ~mStupefied[p] =>
                            /\ remoteData[p].sample = mData[p].sample
                            /\ frame > 1 => remoteData[p].state = mData[p].state
    BY DEF SameInput
  <2>1. /\ TypeOK /\ TypedInv /\ ProxiesFollowTable /\ LoadInv /\ ServersInv
    BY DEF IInv, ClusterInv, MasterInv
  <2>2. PICK d \in {-1, 0, 1}, g \in Nat : Sync(d, g)
    BY DEF ClusterInv
  <2>3. frame > 0 /\ frame \in 0 .. 3 /\ remoteFrame > 0
    BY <2>1 DEF LoadInv, TypeOK, PluginTypeOK
  <2>4. d = 0
    <3>1. NextFrame(frame) # frame
      BY <2>3 DEF NextFrame
    <3> QED BY <2>2, <3>1 DEF Sync, FramesInv
  <2>5. p \in Proxies /\ DeviceOf[p] \in DeviceNames /\ mStupefied[p] \in BOOLEAN
    BY <2>1, ProxiesAssumption DEF TypeOK, ManagerTypeOK
  <2>6. remoteTable[DeviceOf[p]] = mDevTable[DeviceOf[p]]
    <3>1. g >= Servers /\ Servers \in Nat
      BY <2>1, <2>2, <2>3 DEF Sync, LinkInv, Servers, TypeOK, PluginTypeOK
    <3>2. CASE mDevTable[DeviceOf[p]] = NoDevice
      BY <2>2, <2>5, <3>2 DEF Sync, VirtualInv
    <3>3. CASE mDevTable[DeviceOf[p]] # NoDevice
      <4>1. PICK i \in 1 .. Servers : mDeviceServers[i] = mDevTable[DeviceOf[p]]
        BY <2>1, <2>5, <3>3 DEF ServersInv
      <4>2. i <= g /\ mDevTable[DeviceOf[p]] \in Devices
        BY <2>1, <2>5, <3>1, <3>3 DEF TypeOK, ManagerTypeOK
      <4>3. mDevTable[DeviceOf[p]] \in mVirtualDevices
        BY <2>2, <4>1, <4>2 DEF Sync, VirtualInv
      <4> QED BY <2>2, <2>5, <4>3 DEF Sync, VirtualInv
    <3> QED BY <3>2, <3>3
  <2>7. Finds(remoteTable, p) = Finds(mDevTable, p)
    BY <2>6 DEF Finds
  <2>8. mStupefied[p] = ~Finds(mDevTable, p)
    BY <2>1 DEF ProxiesFollowTable
  <2>9. Finds(remoteTable, p) = ~mStupefied[p]
    BY <2>7, <2>8 DEF Finds
  <2>10. ASSUME ~mStupefied[p]
         PROVE  /\ remoteData[p].sample = mData[p].sample
                /\ frame > 1 => remoteData[p].state = mData[p].state
    <3>1. p \in Used
      BY <2>10 DEF Used
    <3>2. DataOf(d, p)
      BY <2>2, <3>1 DEF Sync, DataInv
    <3> QED BY <2>3, <2>4, <3>2 DEF DataOf
  <2> QED BY <2>9, <2>10
<1>2. Spec => [](IInv /\ ClusterInv)
  BY Account
<1> QED BY <1>1, <1>2, PTL

===============================================================================
