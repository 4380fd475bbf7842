# VR Juggler: TLA+ specifications

TLA+ models of the run-time core of VR Juggler: the kernel that runs an
application frame by frame, the OpenGL draw manager that spreads a frame over
one render thread per pipe, the configuration manager that adds and removes
parts of the system while it runs, the input devices whose threads sample while
the frames go on, and the network that keeps the nodes of a cluster in the same
frame and gives them the same input. TLC checks the models on small instances;
TLAPS proves what matters most of them for every number of pipes, windows,
applications, nodes, devices and proxies.

Paths below are relative to the repository; `Draw/`, `Kernel/` and `Display/`
stand for the directories under `src/modules/vrjuggler/vrj/`, `gadget/`,
`cluster/` and `plugins/` for those under `src/modules/gadgeteer/`, `RTRC/` for
`src/modules/jackal/rtrc/jccl/RTRC/` and `vpr/` for `src/modules/vapor/vpr/`.

## 1. The system

VR Juggler is a stack of libraries. VPR wraps threads, synchronisation and
sockets; JCCL keeps the configuration; Gadgeteer has the input devices and the
cluster; Sonix plays sound; VRJ has the kernel, the displays and the draw
managers; Tweek connects Java user interfaces over CORBA.

| Part | State | Operations | What is hard |
|---|---|---|---|
| Kernel (`Kernel/Kernel.cpp`) | current and requested application, draw and sound manager, running and exit flags | `start`, `controlLoop`, `setApplication`, `stop`, `waitForKernelStop`, `checkForReconfig`, `changeApplication` | requests from any thread without a lock; a switch in four steps that may fail half way; a stop at any moment |
| OpenGL draw manager (`Draw/OpenGL/DrawManager.cpp`, `Pipe.cpp`) | two semaphores, window list; per pipe four semaphores, three window lists, two flags; per window a dirty-context flag | `draw`, `sync`, `addDisplay`, `removeDisplay`, `setApp`, `initAPI`, `closeAPI`; the two control loops | 2 + n threads that meet on counting semaphores; lists tested outside their locks; shutdown between any two steps |
| Configuration manager (`RTRC/ConfigManager.cpp`, `ConfigElementHandler.cpp`) | incoming, pending and active lists, handlers, the count that makes the pending list stale | requests (with and without the lock), `attemptReconfiguration`, handlers come and go, `shutdown` | requests during a pass; lost dependencies; elements that fail and are tried again |
| Cluster network and manager (`gadget/NetworkManager.cpp`, `Node.cpp`, `Reactor.cpp`, `cluster/ClusterManager.cpp`) | nodes with a status and a socket each, the reactor's handles, plug-ins | `update`, `sendEndBlocks`, `barrier`, `updateAllNodes`, `handlePacket`, loss of a node | messages, time-outs, a node that goes in the middle of a frame |
| Cluster plug-ins (`plugins/`) | virtual devices, shared application data, application barriers | `preDraw`, `postPostFrame`, `handlePacket`; `recoverFromLostNode` is never called | the same in every frame on every node |
| Input manager, devices and proxies (`gadget/InputManager.cpp`) | devices, proxies, aliases, which device a proxy points to | `configAdd`, `configRemove`, `updateAllDevices`, `updateAllProxies`, `refreshAllProxies` | devices and proxies in any order; a device that goes and comes back |
| Input sample buffers (`gadget/Type/SampleBuffer.h`) | ready and stable buffer, a lock | `addSample`, `swapBuffers`, `stableBuffer` | a driver's thread against the kernel's |
| Device drivers (`drivers/`) | a sampling thread each | `startSampling`, `sample`, `stopSampling` | vendor protocols |
| Display manager, users, projections (`Display/`, `Kernel/User.cpp`) | active and inactive displays | `addDisplay`, `removeDisplay`, `setDrawManager` | its own calls are sequential on the kernel's thread |
| Other draw managers (`Draw/Direct3D/`, `Draw/OpenSG/`, `Draw/OpenSceneGraph/`) | as the OpenGL one | as the OpenGL one | as the OpenGL one |
| Sound manager and Sonix (`src/modules/sonix/snx/`) | sound handles, one implementation | `trigger`, `changeAPI` | sequential |
| VPR synchronisation and threads (`vpr/Sync`, `vpr/Thread`, `vpr/md/POSIX`) | counts, queues of waiters | `acquire`, `release`, `wait`, `signal`, thread pools | missed wake-ups, counters read late |
| VPR simulated network (`vpr/md/SIM`) | simulated time, event queue | `processNextEvent`, sockets | message order in simulated time |
| Remote reconfiguration, Tweek, tools | CORBA servants, Java programs | `add`, `remove`, `swap`, `attach`, `notify` | calls from other processes |

How they interact. The kernel's thread calls everything else: in each iteration
of `controlLoop()` it calls the application, `DrawManager::draw()` and `sync()`,
the input manager, the sound manager and the cluster manager, and then
`checkForReconfig()`, which runs `ConfigManager::attemptReconfiguration()`. That
offers the waiting config elements to the handlers the kernel registered
(`Kernel.cpp:836-839`: kernel, input manager, cluster manager, display manager)
and to the application and its draw manager; the display manager in turn calls
`addDisplay()` and `removeDisplay()` of the draw manager. All reconfiguration is
therefore on one thread and between two frames, which is what makes most of it
safe; what is not on that thread are the requests (`setApplication()`, `stop()`,
additions and removals from CORBA, from network packets and from application
threads), the draw thread and the pipes' threads, and the drivers' threads. The
cluster manager's `isClusterReady()` is shared state: the kernel and every pipe
read it separately to decide whether there is a frame.

What makes each modelled part correct:

- *draw manager*: all pipes render before the first one swaps; nothing of a
  frame is going on while the kernel reconfigures; no semaphore ever has two
  posts; what is drawn is drawn in a context the application has initialised;
  windows asked for are opened and closed; closing the API leaves nothing;
- *configuration manager*: no request is lost or carried out twice; an element
  is added only after what it points to; what has lost a dependency goes and
  comes back with it; the frame never hangs in reconfiguration; what is active
  at rest is what was asked for;
- *kernel*: callbacks come in their order and to one application at a time; a
  frame has the managers of its application; a request made without a lock is
  carried out in the end; a stop ends the kernel; nothing keeps an application
  the kernel has left;
- *input*: what a frame shows of a device is the newest there was at the update
  and stays as it is through the frame, whatever the driver's thread adds; a proxy
  has the device its element names, however devices come, go and are replaced;
  no sampling thread is left running that nothing can stop; the edges of a button
  are those between two frames; a slave in the same frame as the master shows the
  same input;
- *cluster network*: a slave draws a frame with the master's data for that frame;
  with the swap lock nobody swaps before all have rendered; a node that is lost
  never lets another pass a synchronisation early; the nodes do not wait for each
  other in a circle.

`PROJECT.json` lists every part, with its status and the reason for it, and
every hazard with its line and the properties that would catch it.

## 2. Modules

| Module | What it is |
|---|---|
| `FrameLock` | abstract: what a draw manager promises of one frame |
| `OpenGLDraw` | kernel thread, draw thread and pipe threads of the OpenGL draw manager; implements `FrameLock` |
| `OpenGLDraw_proofs` | TLAPS: the inductive invariant, the safety properties, the refinement |
| `MCOpenGLDraw` | the instances TLC checks |
| `ConfigRequests` | abstract: what becomes of a request for reconfiguration |
| `ConfigManager` | the three lists, the handlers' passes, requests from other threads; implements `ConfigRequests` |
| `SequenceLemmas` | TLAPS: induction over a set of numbers, and what the operators on sequences return |
| `ConfigManager_proofs` | TLAPS: the inductive invariants, the lost dependencies, the refinement, what patient requesters get |
| `MCConfigManager` | the instances TLC checks |
| `AppCallbacks` | abstract: the callbacks an application sees |
| `Kernel` | start, stop, the control loop and the switch of applications; implements `AppCallbacks` |
| `Kernel_proofs` | TLAPS: the kernel's safety properties and the refinement |
| `MCKernel` | the instances TLC checks |
| `InputFrames` | abstract: what a device promises the application of a frame |
| `SampleBuffer` | the double buffer between a sampling thread and the kernel's |
| `InputDevices` | driver objects: their threads, what is added and in which order it is swapped |
| `InputManager` | devices, proxies, aliases and interfaces configured in any order, the update of a frame, `shutdown()`; implements `InputFrames` |
| `RemoteInput` | the input of one node, or of a master and a slave with the remote input plug-in |
| `RemoteInput_proofs` | TLAPS: the inductive invariant, the safety properties, the refinement |
| `SameInput_proofs` | TLAPS: the account of what master and slave send each other, and that they show the same |
| `MCRemoteInput` | the instance TLC checks |
| `NodeSync` | abstract: in which order the nodes of a cluster come to and leave their synchronisations |
| `NodeSync_proofs` | TLAPS: nobody is left behind, in a cluster of any size and shape |
| `ClusterNetwork` | the nodes, their sockets, `update()` and `barrier()`, and what a loss does; implements `NodeSync` |
| `ClusterNetwork_proofs` | TLAPS: the inductive invariants, the safety properties, the refinement |
| `MCClusterNetwork` | the instances TLC checks |

The names of state and actions are those of the source. The line ranges each
definition stands for are in `PROJECT.json` under `map`. Definitions whose
comment says "mutant" are wrong on purpose: each is what a plausible bug would
make of the definition that follows it, and none is used by a specification.

### 2.1 OpenGLDraw

Threads: the kernel (`kpc`), the draw thread `DrawManager::main()` (`dpc`,
`didx`), and one thread per pipe, `Pipe::controlLoop()` (`ppc[p]`). A step is
what a thread does between two points at which another thread could notice:
semaphore operations, entries to and exits from critical sections, tests made
outside them. The rendering of a pipe's windows is one step, since nothing it
touches changes during a frame (this is itself `QuiescentBetweenFrames`).

- `drawTriggerSema`, `drawDoneSema` and the four semaphores of each pipe are
  counters, starting at 0 (`DrawManager.cpp`, `Pipe.h`). Nothing in the model
  bounds them; that they stay binary is part of `TypeOK` and is proved.
- `place[w]` says whether a window is on its pipe's `mNewWins` or `mOpenWins`,
  `closing[w]` how often it is on `mClosingWins`, `mWins` whether the draw
  manager has it.
- `dirty[w]` is `Window::mDirtyContext`, and `ctxApp[w]` the application that
  last ran `contextInit()` in the window's context.
- `mControlExit` is a variable; `mThreadRunning` is read off `ppc`.
- `closeAPI()` and `Pipe::stop()` are taken apart into their steps, because
  both the draw thread and the pipes run meanwhile.
- A cluster is `ClusterActive` with two inputs: whether a window was opened
  (`mWindowOpened`, set by the pipes) and whether the plug-ins are ready, which
  may change at any time.

### 2.2 ConfigManager

The kernel's thread takes one step per list entry of a pass; other threads put
entries on the incoming list between any two of its steps. A config element is
its name; an entry is a type and a name. `configured` is what the handlers hold
themselves (as `DisplayManager` holds its displays), so that it can be compared
with the active list. `mPendingCheckCount` and `mLastPendingSize` are as in
`shouldCheckPending()`, the limit of 3 included. `addConfigElement()` is the
path without a lock (`ConfigManager.cpp:738`): it may fall between the copy of
the incoming list and its clearing. `Pair(e)` are the two entries
`scanForLostDependencies()` queues for an element; the whole of its loop is one
step, since nothing comes between its entries.

### 2.3 Kernel

`setApplication()` has no lock, so its two stores (`Kernel.cpp:666-667`) are two
steps, and so is each load `checkForReconfig()` makes of what they wrote.
What `mExitWaitCondVar` guards is one step under its lock. A callback on the
application is recorded in `calls`, by application, so that `AppCallbacks` can
say in which order an application object sees them. A draw manager is in `open`
between `initAPI()` and `closeAPI()`; its frame is `OpenGLDraw`'s concern and is
one step here, except that a manager that was never started never answers
`sync()`. `Rejected` are the applications `setApp()` throws at.

### 2.4 ClusterNetwork

A node is one process, and `phase[n]` where it is: in `start()` ("connect",
"start"), waiting for a window ("window"), at the first barrier of
`controlLoop()` ("first"), and then round `preDraw()`, the frame with its swap
barrier, and `postPostFrame()`. The kernel's and the draw thread's calls follow
each other, so they are one sequence. `setup` is what is the same on all nodes:
whether there are plug-ins, whether `mSoftwareSwapLock` is set, and whether VPR
was built for sockets the system corks.

What a node sends a peer in one synchronisation, the packets of the plug-ins and
the end block, is one block: the receiver does not leave the inner loop of
`updateAllNodes()` before the end block. What is written goes to `chan`, which
delivers in order, or to `held` while the socket is corked. A block names its
synchronisation only so that properties can; the receiver takes any, as
`handlePacket()` does. `data[s]` records which frame's application and device
data slave `s` has received last, and whether it has the configuration.

A process may end at any moment (`Lose`), and what it wrote last arrives whole,
in part or not at all. What the others then do is what the code does: a write
raises SIGPIPE, or throws on sockets VPR corks; a packet cut in the middle is a
`ClusterException`, which `updateAllNodes()` catches; the end of the stream in a
header is an `IOException`, which it does not; the reactor keeps the handle of a
node that was shut down, so the next `select()` throws; `corkNetwork()`
dereferences its NULL socket. `state[n]` is "ended" where such an exception ends
the thread only. Where a write is what fails, the peers that come earlier in
`mNodes` have their block already (`NetworkManager.cpp:362-391`, `sendToAll()`):
`UpdateFails` and `GoFails` write to some of the peers that are left and, for a
signal, leave the node "signalled"; `Killed` then ends its process, and what it
wrote is under way like everything else. `BrokenPipe` is where nothing was written
before. A `select()` that times out prints a status and changes nothing.

`NodeSync` numbers the synchronisations of a node. The mapping counts those that
`phase`, `frame` and `setup` say are behind a node (`Left`); the one it is in is
that count plus one.

### 2.5 SampleBuffer, InputDevices, InputManager, RemoteInput

Four modules, each of which EXTENDS the one before, as each part of the code uses
the one below it.

- `SampleBuffer` is the template of that name: `ready` and `stable` are its two
  vectors, and its operations hold its lock, so each is one step of its caller. A
  sample is a number, in the order the device gave them; 0 is the default value
  of an empty buffer.
- `InputDevices` has what the drivers share, after `IBox` (a thread, two types of
  data) and `LinuxJoydev` (polled in `updateData()`): `thread[o]` is where the
  loop of the sampling thread is, `adding[o]` the type `sample()` adds to next,
  since each type has a buffer and a lock of its own. `stopSampling()` raises
  `mExitFlag` and waits for the thread (`Joined`). A start that fails leaves
  nothing behind, and a poll that fails adds no sample, which shows the same as
  one that found nothing new: neither is a step.
- `InputManager` is the kernel's thread in `InputManager.cpp`: `kpc` is where it
  is between `checkForReconfig()` and the frame, `mDevTable`, `mProxyTable`,
  `mProxyAliases` and the proxies' members are as in the code, and `mProxyPtr[i]`
  is what an interface of the application refers to. Objects are counted by
  reference: a device that nothing refers to any more is in `Dropped`, and the
  kernel's thread stays in its destructor until its thread has ended. Requests
  come in any order; what the configuration manager would leave pending (a proxy
  before its device, an alias before its proxy) is a guard. The removal of a proxy
  after its device is possible and not obliged, as with lost dependencies that
  come back at once. What succeeds is followed by `updateAllDevices()`,
  `updateAllProxies()` and `refreshAllInterfaces()` as in `configAdd()`, which is
  `reconfigured`. `shown` and `quiet` are history: what each proxy gave in the
  last frame, and whether anything was configured since.
- `RemoteInput` adds the remote input plug-in. With `clusterActive`, the master
  makes a device server of each device and puts an acknowledgement on `link`, and
  in every `postPostFrame()` the stable samples of each server and the end of the
  block. The slave (`rpc`, `remoteTable`, `remoteSamples`, `remoteData`) handles
  one packet in a step and goes on to its proxies at the end block. The link is a
  connection of `ClusterNetwork`: what is sent arrives, in order. Configuration of
  a cluster is loaded in the first `checkForReconfig()` and names each device
  once; the cluster manager asserts that no request comes later
  (`ClusterManager.cpp:778`). `frame` and `remoteFrame` are what frame each node
  is in, counted 0, 1, 2, 3, 2, 3, ..., so that behaviours have no bound on frames
  and the first ones still can be told apart.

`InputFrames` has, for each type of each device (a unit), what is published and
what is shown. The mapping takes `addDeviceSample()` to `Publish`, `updateDevice()`
and `updatePolledDevice()` to `Update` of one unit or of all units of the device,
`updateAllProxies()` before a frame to `Begin`, `EndFrame` to `End`, and whatever
changes the devices, and a reset of their flags, to `Configure`.

### 2.6 Together

The models meet as the code does: `OpenGLDraw`'s kernel thread is `Kernel`'s
between two `initAPI()` calls, `checkForReconfig()`'s loop over attempts is
`ConfigManager`'s, and an iteration of `ClusterNetwork`'s nodes is one of
`Kernel`'s loop with the pipes between the swap barrier's two sides.
`InputManager`'s step `EndReconfig` is the end of that `checkForReconfig()`, its
configuration steps are what `ConfigManager` calls in the input manager's
handler, and what `RemoteInput` puts on its link is the block that
`ClusterNetwork` sends in `postPostFrame()`.

## 3. Runs

Every run ends with no bound reached but the named ones.

| Run | Expected | What it shows |
|---|---|---|
| `gl_frames` | pass | Frame lock, quiescence, contexts, window lists, clean close and the inductive invariant, with displays added and removed, applications switched and the API closed and opened again at any moment; the threads implement `FrameLock`. |
| `gl_live` | pass | In a cluster that becomes ready and unready and then stays ready: frames end, and once the configuration has settled all windows are opened or given up and closed when asked. |
| `gl_stop_hang` | violation | See 3.1 (2). |
| `cfg_patient` | pass | For requesters that wait their turn and elements that are handled together: handlers and active list agree, and what is active at rest is what was asked for. |
| `cfg_twice` | violation | See 3.1 (1). |
| `cfg_concurrent` | pass | For requests in any order, failing additions, unlocked additions and `shutdown()`: `ConfigRequests` is implemented, lost dependencies are queued for removal, the kernel's loop ends. |
| `cfg_stale` | violation | See 3.1 (3). |
| `input_frames` | pass | Devices, proxies and aliases configured, replaced and removed in any order while threads sample, on one node; and a master and a slave that starts with any configuration of them: references follow the tables, no thread is lost, frames show what the devices were updated to, edges of buttons, the same input on both nodes; `InputFrames` is implemented; stops return and samples are shown in the end. |
| `kernel_switch` | pass | Two threads that set applications and stop the kernel at any moment: order of callbacks, managers of a frame, no reference to old applications, the last request is the one that runs, a stop ends the kernel. |
| `kernel_rejected` | violation | See 3.1 (4). |
| `cluster_frames` | pass | A master and two slaves in every setup but that of (5), one process ending at any moment: data of the frame, swap lock and `NodeSync` hold throughout, and without a loss every node goes through all frames. |
| `cluster_corked` | violation | See 3.1 (5). |

### 3.1 Where the code does not do what its text says

1. `addActive()` appends to the list without a look at it
   (`ConfigManager.cpp:675`), against `ConfigManager.h:368-369`, "If a element with
   the same name is already in the active list, the old element is replaced by the
   new one". Two additions of one element need no careless requester:
   `scanForLostDependencies()` queues a pair for an element whose pair waits
   already (`ConfigManager.cpp:498-513`). Let a proxy and a gesture of the input
   manager and a scene of the application depend on one device. When the device is
   swapped, the input manager's scan queues the pairs of all three; in the same
   pass the application's handler removes the scene, and its own scan queues the
   pairs of the proxy and the gesture a second time. Once the device is back the
   left-over addition makes the gesture active twice, and the left-over removal
   then leaves it on the list though its handler has dropped it.
2. `Pipe::stop()` sets `mControlExit` before it triggers the pipe. A pipe that is
   between frames leaves its loop first and clears `mThreadRunning`, and
   `triggerRender()` then spins at `Pipe.cpp:124` for ever.
3. `shouldCheckPending()` (`ConfigManager.cpp:366`) compares sizes. One entry
   done and one arrived in each pass look like no change; after the limit the
   list is stale and an addition that could be made is not, against
   `ConfigManager.h:202-204`.
4. An application that its draw manager rejects stays current with a draw
   manager that was never started (`Kernel.cpp:1019`). The next frame blocks in
   `sync()`, and `stop()` does not stop the kernel (`Kernel.h:230`).
5. `preDraw()` corks the network before it knows whether there will be an update
   (`ClusterManager.cpp:375`), and only `update()` uncorks it. Without plug-ins, in
   a build without `HAVE_CORKABLE_TCP`, the end blocks of the swap barrier stay in
   `mCorkedWriter` (`SocketStreamImplBSD.cpp:183-186`) and all nodes wait for ever,
   against `ClusterManager.h:243-245`.

Met while modelling, in the models, and without a run of their own:

- `addConfigElement()` can lose its element to `mergeIncomingToPending()`;
- two requests on one element at the same time do what (1) does with one; this is
  why `cfg_patient` keeps requests apart;
- `dirtyAllWindows()` (`DrawManager.cpp:437`) goes over `mWins`, from which
  `removeDisplay()` has already taken a window that its pipe draws for one more
  frame. With an application switched in between, that frame is drawn in a
  context `contextInit()` was not called for, against the comment at
  `Pipe.cpp:452-453`. `DrawnContextsInitialised` says that such a window is always
  queued for closing, and holds and is proved;
- the assertion of `triggerSwap()` (`Pipe.cpp:146`) may fail in `Pipe::stop()`
  (`Pipe.cpp:312`): `mControlExit` is set, and after `triggerRender()` the pipe's
  thread may be out of its loop, with `mThreadRunning` reset. `StopTriggerSwap`
  goes on as a release build does; `PipesRunThroughFrame` is about the assertions
  within a frame;
- `mNewApp` is loaded again after its test against NULL (`Kernel.cpp:687`); a
  `stop()` in between dereferences NULL (the state "crashed");
- `signal()` wakes one of several `waitForKernelStop()` callers;
- `updateAllNodes()` counts a node that was lost as completed, so that the others
  go on (`NetworkManager.cpp:460-463`), but each way a loss is noticed ends the
  one that notices it, then or in its next update: no survivor goes on. The
  properties say that none of them goes wrong before it ends;
- the id of an end block is not looked at (`NetworkManager.cpp:481`): nodes that
  leave out different barriers stay shifted against each other;
- the state `ON` of a button means "was on last frame as well"
  (`DigitalProxy.h:80`), and is not that when an element is configured between the
  frames: the update that ends `configAdd()` may be the one that finds the button
  pressed, and the next one has turned `TOGGLE_ON` into `ON` before the application
  sees it. `StatesFollowFrames` and `SameInput` say what is left: every frame
  shows whether the button is pressed, the edges are right while nothing is
  configured, and from a slave's second frame on the states are the master's;
- `P5GloveWrapper.cpp:199` swaps its stable buffers from the sampling thread,
  against `Input.h:135-136`; the mutant `addSampleAndSwap` is this driver, and
  breaks `ImplementsInputFrames`;
- a device replaced by one of the same name and another type goes on sampling until
  the proxies that referred to it find another or go: `refresh()` stupefies them
  and keeps the pointer. `RunningIsReachable` says that something still has it;
- `LinuxJoydev::stopSampling()` does not reset its file descriptor; the initial
  sample of `PinchGlove` is added after its thread has started, whatever the
  comment at `PinchGlove.cpp:146-148` says; `mData = Digital::X` in `DigitalProxy`
  loses the time stamp of the sample; a debug line of `removeProxyAlias()` inserts
  an empty alias; the call of `recoverFromLostNode()` is commented out
  (`Node.cpp:156`);
- `start()` returns 1 on success (`Kernel.cpp:423`) where its documentation says
  0; `stopDrawManager()` deregisters NULL (`Kernel.cpp:739`), so that the old
  draw manager stays a handler; `contextClose()` is called for windows whose
  context no application has initialised.

### 3.2 Bounds, and why they are enough

- `gl_frames`: 2 pipes and 3 windows, one on the first pipe and two on the
  second, 2 applications. Two pipes are the least with which one can be ahead of
  the other; two windows on one pipe the least with which one is drawn while
  another is opened or closed. A window object is used again when nothing refers
  to it, so histories are unbounded. The two windows of one pipe, and the two
  applications, are symmetric and only safety is checked. `ClusterActive` is
  FALSE here and TRUE in `gl_live`. The proofs have no such bounds.
- `gl_live`: 2 windows and 1 application; without closing, which (2) shows not
  to end.
- `cfg_patient`: a device, a proxy and a gesture that point to it, and a scene
  that points to the proxy, over two handlers, so that a scan finds two elements and a
  removal loses a dependency whose own loss costs another. `MaxEntries` 4 leaves
  room for a removal and the pairs of two dependents, `MaxCopies` 2 for an
  element that is wrongly on the active list twice. `ActiveIsConfigured`
  is about such dependencies only (`HandledTogether`, 4.7): where a dependency is
  shared among handlers it may fail, as `ActiveOnce` does in `cfg_twice`. The proofs
  have no such bounds.
- `cfg_twice`: the least instance found in which that happens, a device, two
  elements of the input manager and one of the application.
- `cfg_concurrent`: 2 elements, `MaxEntries` 2 and `MaxCopies` 1: requests stop
  at the bounds, the manager's own pairs do not. Two entries are enough for
  contradicting requests and duplicates.
- `input_frames`: a box with two types of data and two samples, a tracker of the
  same name without the type the button needs, and a polled stick with a name of
  its own. So a proxy can lose its device to one it cannot use, or get one in its
  place, an update can fall between the two channels of a
  sample, and updates of several devices follow each other. Two samples are the
  least for one to be added while another is shown, and with `MAX_BUFFER_SIZE` 1
  for the buffer to overflow; the first is one the button is pressed in, so that it
  is pressed, held and released. One proxy, one alias and one interface that asks
  for the alias, so that what it finds changes with the proxy, the alias and both;
  that a name may be found in two ways needs no second one. `Modes` has both a
  node of its own and a cluster. The proofs have no such bounds.
- `kernel_switch`: 3 applications, two of which share a draw manager, so that a
  switch keeps, changes or drops the manager; 2 threads that make requests, the
  least that can race in `setApplication()`; 1 waiter.

- `cluster_frames`: two slaves, the least with which one can be ahead of the
  other while the master waits for both; `MaxFrames` 2, so that a node can be in
  a frame while another is still in the one before and a third begins; `MaxLost`
  1, since the first loss already stops all whom it reaches, and each end that
  follows from it is not counted. The proofs have no such bounds.

Deadlock is checked except where the system may really stop: in `gl_frames` and
`gl_stop_hang` (a stopped draw manager waits in the loop of finding 2), in
`input_frames` (`shutdown()` is the end of it, once the samples are used up), in the
kernel's runs (the kernel has ended) and in the cluster's (the frames are over, or
the processes have ended).

### 3.3 Fairness

Weak fairness of each thread's steps: the operating system runs every thread
that can run, and the semaphores and condition variables release a thread once
their condition holds and stays so. Nobody is obliged to make a request: no
fairness on displays, applications, requests, plug-ins or `closeAPI()`. In
`gl_live` the kernel goes on to its next frame (`WF(Draw)`), as its loop does.
In `ConfigManager` the kernel's loop calls `checkForReconfig()` in every frame
(`WF(Attempt)`, `WF(ClearAll)`) and the second call of a `swap()` follows its
first. In `Kernel` a thread that has begun `setApplication()` or `stop()`
finishes it, a waiter that was woken tests again, and `start()` completes.
In `RemoteInput` the kernel's threads of both nodes go on with their updates and
frames, a sampling thread tests its flag and goes on (`WF(Samples(o))`, bounded by
the samples there are: a driver's blocking read ends), and nobody is obliged to
configure anything.
In `ClusterNetwork` a node that can connect, write or read does so, windows open,
and the system sends what it corked; nobody has to end. Strong fairness is not
assumed anywhere.

## 4. Proofs

Eight modules hold theorems; every leaf is checked by SMT, Zenon or LS4 and
nothing is assumed but the named assumptions on the constants.

### 4.1 OpenGLDraw_proofs

For any positive number of pipes, any windows, applications and assignment of
windows to pipes, with or without a cluster, frames and shutdown included:

| Theorem | Property |
|---|---|
| `Invariance` | `IInv`, the inductive invariant |
| `TypeCorrect` | `TypeOK`: every semaphore stays binary |
| `SwapSafety` | `SwapAfterAllRendered`: no pipe swaps while another has to render |
| `Quiescence` | `QuiescentBetweenFrames`: nothing of a frame goes on while the kernel reconfigures |
| `FrameAssertions` | `PipesRunThroughFrame`: the assertions in `completeRender()`, `triggerSwap()`, `completeSwap()` |
| `ContextsInitialised` | `DrawnContextsInitialised`: windows are drawn in initialised contexts, unless they are queued for closing |
| `NoOrphans` | `OrphansAreClosing`: what only a pipe still holds is queued for closing |
| `CleanClose` | `ClosedIsClean`: `closeAPI()` leaves nothing |
| `Refinement` | `ImplementsFrameLock` |

None of the properties is inductive: whether a post may be made depends on where
the draw thread, its index and the pipe are. `IInv` says that, per pipe: given
the loop of `drawAllPipes()` the draw thread is in, and whether its index has
passed the pipe, the pipe is parked, rendering, rendered or swapping
(`FrameInv`), each of which fixes its four semaphores and its place in its loop.
`KernelInv` ties the draw thread to the kernel, `PipesInv` says which pipes
exist and run (they are created in order, so the loops see a prefix), and
`WindowInv` what the window lists and dirty flags say of each other; it needs
the frame's position only to know that an application does not change while a
pipe draws. A shutdown leaves the frame's discipline: `stop()` posts both
triggers and takes no completion, which `StopPosts` allows for the pipe being
stopped. One lemma per part shows that every action keeps it, with one step per
action.

The refinement maps the screens of a frame to the pipes that exist while the
draw thread is in `drawAllPipes()`, a screen's render to `PipeRender`, its swap to
`PipeSwap`, the begin to `DrawWake` and the end to the release of
`drawDoneSema`; every other step is a stutter.

### 4.2 Kernel_proofs

For any applications, draw managers, requesting threads and waiters:

| Theorem | Property | Assumes |
|---|---|---|
| `TypeCorrect` | `TypeOK`: what is registered, drawn and switched to is never NULL | |
| `Invariance` | `IInv` | nothing rejected |
| `FramesHaveManagers` | `FrameHasItsManagers` | nothing rejected |
| `NoOldReferences` | `OldApplicationsUnreferenced` | nothing rejected |
| `Refinement` | `ImplementsAppCallbacks` | nothing rejected |

"Nothing rejected" is `Rejected = {}`; without it the properties fail as finding
(4) does. That applications and draw managers are different objects is an
assumption of the module (`AppsAssumption`). The invariant follows the kernel's
place: `SwitchInv` has what holds of a switch in any case, `ManagersInv` what
each part of `changeApplication()` finds of the managers, `HandlersInv` which
application is registered, `CallsInv` the last callback each application saw.

### 4.3 RemoteInput_proofs

For any devices, types, proxies, aliases, interfaces and sizes of the buffers, in
both modes, configuration and `shutdown()` included. Assumed are the modules'
named assumptions: a driver has a buffer for each of its types and swaps each once
(`SwapOrderAssumption`), names of proxies and aliases differ
(`ProxiesAssumption`).

| Theorem | Property |
|---|---|
| `TypeCorrect` | `TypeOK`, and that a proxy that gives data has a device |
| `Invariance` | the inductive invariant `IInv` of the module |
| `ProxiesRefreshed` | `ProxiesFollowTable` |
| `InterfacesRefreshed` | `InterfacesFollowTables` |
| `NoThreadIsLost` | `RunningIsReachable` |
| `FramesShowDevices` | `ProxiesShowDevices` |
| `StatesAreEdges` | `StatesFollowFrames` |
| `TypesOfOneUpdate` | `TypesTogether` |
| `Refinement` | `ImplementsInputFrames` |

`IInv` has a part for each of what the properties depend on. `PlaceInv` says which
device and channel the kernel's thread works on at each place, `TableInv` that
the table has a device under its own name. `InterfacesInv` is
`InterfacesFollowTables` at every place but between a change of a table and the
refresh that follows it. `ExitInv` and `OffInv` say who waits for a thread that was
told to stop: the kernel's thread, in `stopSampling()` or in a destructor.
`ThreadInv` and `NewestInv` tie a sampling thread to its buffers: the newest sample
in a buffer, ready or stable, is the last one the thread has added to it (`Added`).
This is why a swap shows what is newest, and it is where the order of `sample()`'s
steps and the cut of a full buffer matter. `ShowInv` says what has been updated at
each place, and that between the update of the proxies and the end of the frame
the stable buffers do not change. `QuietInv` adds that until then, while nothing is
configured, the proxies still give what the last frame was shown.

`TypesTogether` is not about the buffers alone but about when each was swapped:
`TogetherInv` states it for the types that the update has got to, at any place. It
holds since what a buffer shows is at most what has been added to it (`ShownInv`),
the type swapped now shows all that has been added (`NewestInv`), and a thread that
is one ahead in one type still has the other to add to (`AddedInOrder`).

The refinement needs `NewestInv` for `Update`, which must show what is published,
`ShowInv` for `Begin`, and for every other step that neither `Added` nor what the
buffers show changes; one lemma for each kind of step.

### 4.4 NodeSync_proofs

| Theorem | Property |
|---|---|
| `TypeCorrect` | `TypeOK` |
| `NobodyIsLeftBehind` | `NobodyLeftBehind`: a node that kept its connections never leaves a synchronisation before its neighbours, nor a barrier before any node, has come to it |

For any set of nodes, any connections between them (`Neighbours`, the hypothesis
of the second theorem says only that they are nodes) and any choice of which
synchronisations are barriers. `NobodyLeftBehind` is inductive: the counts of
the other nodes only grow (`Monotone`), so a step of another node keeps it, and
what a node waits for in `Leave` is what it says of the next number. A lost
connection never comes back, which is why nothing need be said of nodes that
lost one. With `ClusterNetwork_proofs`, which proves that `ClusterNetwork`
implements `NodeSync`, this is what `update()` and `barrier()` guarantee.

### 4.5 ClusterNetwork_proofs

For any number of slaves, frames and losses and for every setup, the one with
corked sockets of 3.1 (5) included. Assumed are `NodesAssumption` (the master
is not a slave, and there are finitely many slaves and at least one),
`SetupsAssumption` and `BoundsAssumption`.

| Theorem | Property |
|---|---|
| `TypeCorrect` | `TypeOK` |
| `Invariance` | the inductive invariant `Inv` of the module |
| `FramesSwapTogether` | `SwapTogether` |
| `Refinement` | `ImplementsNodeSync` |
| `DataOfFrames` | `DataOfFrame` |

`updateAllNodes()` counts end blocks and never looks at which synchronisation they
are of. That the count means what it should rests on an account of the blocks.
`Sent(n)` and `Recv(n, p)` are how many blocks node `n` has sent each of its peers
and how many it has read of `p`, both by what `phase`, `frame` and `updating` say.
`LinkInv` is that account: over a connection, what is read and what is under way
is no more than what was sent. So a node that reads a block is not ahead of the
block it reads. `GotInv` then says that `completed_nodes` is at most the number of
peers that have come to this synchronisation (`Got`), and `NumInv` that a node
with a connection waits for as many as it has peers, so that when
`updateAllNodes()` returns all have come (`AllGot`, by cardinality: a subset of
the peers that is as large as the peers is all of them). `BehindInv` follows: the
master has left no more synchronisations than any slave has come to, which a slave
that has lost nobody inherits from the master's block. `PlaceInv` says where
`updateAllNodes()` can be called. `TypeInv` adds to `TypeOK` that blocks of
`update()` are of frames that have begun.

`SwapTogether` is arithmetic on top: the swap barrier of frame `f` has the same
number on all nodes (`SwapNumbers`), and a node with all its connections has left
that number only when all nodes have come to it (`AllCame`). `Refinement` maps each kind of step to `Enter`,
`Leave`, `Cut` or a stutter of `NodeSync`; `Leave` at a barrier needs `AllCame`,
and in `update()` `AllGot`.

`DataOfFrame` needs more than how many blocks are under way: `DataInv`, with
plug-ins, says which. `Flow` is the other half of `LinkInv`, that none is missing
while the master still sends, and that the i-th block under way to a slave is of
the synchronisation i after those it has read, unless it is cut; `Stored` says
what data the handlers have left from the blocks read (`Holds`). Between them a
block the slave reads is always of the synchronisation it is in (`HoldsNext`). This
is where `uncorkNetwork()` matters: with plug-ins nothing stays in a corked socket.

### 4.6 SameInput_proofs

For any devices, types, proxies, samples and sizes of the buffers, and any
interleaving of the two nodes, while a cluster runs. Nothing is assumed beyond 4.3.

| Theorem | Property |
|---|---|
| `Account` | `IInv` of 4.3, and with a cluster `ClusterInv` |
| `NodesShowTheSame` | `SameInput` |

`SameInput` compares two nodes that are in the same frame, but every step between
two such moments is of a master or a slave that is ahead, with messages on their
way. `ClusterInv` says for all of those what will be the same: there are a `d`, how
many frames the master is ahead, and a `g`, how many messages the slave has handled
of those still counted, such that `Sync(d, g)`.

- `FramesInv`: `d` is -1, 0 or 1. A node waits for the other's block in every
  frame, and who has sent and who has received what (`Sent`, `Answered`, `rpc`)
  fixes the number of blocks the slave has not had the end of, `Blocks(d)`.
- `LinkInv`: the messages are the acknowledgements of the device servers, in their
  order, and then blocks, each with the data of all servers in that order and an
  end. What is on the link is the rest of them after the first `g`, for as many
  blocks as there are: at most two. Before the first frame the slave handles all
  acknowledgements, which is why data always finds a virtual device.
- `VirtualInv`: the slave has made those devices whose acknowledgement it has
  handled, and its table is the master's, restricted to them.
- `BlockInv`: for a proxy with a device, what the slave's buffer shows, or will show
  once the data in each block has been read into it: what the master's proxies gave
  in the frame the block is of, or give in the next (`Posted`, `First`). An empty
  message brings nothing (`Brings`), which is right because then the buffer shows
  already what it should: a device that has shown no data yet has none at all
  (`EmptyInv`).
- `DataInv`: what the proxies have on both sides. Where one node is a frame ahead,
  its data follow from the other's by an update (`Edge`).

The state of a button depends on the sample before: in their first frame the two
nodes may have different states, since the master's proxies are updated at the end
of the configuration and the slave's are not. Once both have been updated from the
same two samples the states agree. This is why `SameInput` compares samples from the
first frame and states from the second, and `Matches` is what carries the proof
across it. `ServersInv` ties the list of device servers to the table, `LoadInv` says
that all of the configuration comes before the first frame.

`StepCluster` sorts the steps by what they do to the account: most keep it
(`KeptAccount`, with `MasterSteps`); `ServerAdded`, `BlockSent`, `EndReceived`,
`MasterUpdated`, `SlaveSends`, `DeviceMade`, `DataRead`, `BlockRead` and
`SlaveUpdated` each take one message or one frame further.

### 4.7 SequenceLemmas and ConfigManager_proofs

For any elements, dependencies, handlers and bounds, with patient requesters and
without, failing additions, unlocked additions and `shutdown()` included.

| Theorem | Property |
|---|---|
| `TypeCorrect` | `TypeOK` |
| `Invariance` | the inductive invariant `IInv` of the module |
| `LostDependents` | `LostDependentsPending` |
| `Refinement` | `ImplementsConfigRequests` |

For patient requesters, who use the calls with a lock, and while no shutdown begins
(`Calm`), again for any elements, dependencies, handlers and failing additions:

| Theorem | Property | Assumes |
|---|---|---|
| `RequestsBalance` | `BalanceInv`, an inductive invariant | `Calm` |
| `Convergence` | `Converged` | `Calm` |
| `HeldInvariance` | `HeldInv`, an inductive invariant | `Calm`, `HandledTogether` |
| `ActiveAndConfigured` | `ActiveIsConfigured` | `Calm`, `HandledTogether` |

`LostDependentsPending` speaks of the moments outside a pass. Within one it is not
kept: `configRemove()` takes away what others depend on, and they are queued only
when the handler has seen the whole list. `IInv` says that it holds at every moment
at which no scan is due (`LostHaveRemovals`), and that a scan that is due is of the
pass that is under way, so that the handler ends with it (`ScanIsOfPass`). An addition cannot
take a dependency away and the removal it may carry out in between is of an element
that is then no longer active; both need that `RemoveFirst` and `RemoveAt` take out
one entry and no other. Without the flag nothing could be said: the mutant that
forgets to set it breaks the property.

The refinement is by counting. An entry of `open` is how often a request waits, one
of `live` how often an element is active (`Occurrences`), and each step of the lists
changes these numbers as one action of `ConfigRequests` does: moving entries from
the incoming list keeps the sum (`MergeSteps`), a handler takes one entry and adds
or removes one occurrence (`AdditionSteps`, `RemovalSteps`), a scan adds for each
element with a lost dependency as many pairs as it is active (`LostPairs`), and
`shutdown()` one removal for each occurrence.

`Converged` is the same counting, of what is wanted: how often an element is active,
and how often an addition of it waits, is how often a removal of it waits and one
more if it is wanted (`Balance`; an element between the two calls of a `swap()` is
not). A request changes both sides or, being patient, what is wanted; a pair of a
scan adds to both. A removal that is carried out must find its element active, so
`ConfiguredIsActive` belongs to the invariant. When nothing waits, active is what is
asked for. This holds in instances like that of `cfg_twice` too: the left-over
entries there balance.

`ActiveIsConfigured` says more, and not of all dependencies. `HandledTogether` is
the condition: there are pairs of elements (`Together`), each with itself, such that
a pair has the same handlers, and what points to the two of a pair is a pair again.
So whatever loses a dependency in one pass, then or in the cascade that follows, is
taken by the handler whose scan finds it. Dependents of one element that all belong
to one handler are such, and so are chains across handlers; the instance of
`cfg_twice` is not.

`HeldInv` is what makes it inductive. By the counts (`CountInv`): a removal is the
only one of its element, which is active once (`RemovedOnce`); what is on its way
out is in pairs of `Together`, and so is what the next scan will find
(`OutAreTogether`, `LostAreTogether`; the second part of the latter is for the
elements removed later in the pass). By the order of the lists (`ListInv`): a removal
comes before an addition of its element (`RemovalsFirst`), a handler has passed over
no removal that is for it (`RemovalsPassed`), and a removal that comes in finds
nothing else on its way (`RemovalsComeAlone`, which is what patience means to the
lists). Hence an addition that is carried out is of an element without a removal,
which is active nowhere (`AddedIsNew`); and when a scan starts no removal is left at
all (`NothingOutAtScan`), so that each pair it queues is the only one of its element.
TLC has checked `BalanceInv` and `HeldInv` on the instance of `cfg_patient` and on
a chain of three elements.

`LostPairs` is a fact about a sequence that is built by a loop, and so needs
induction. The library's theorems on induction have an operator as a parameter,
which the provers cannot instantiate. `SequenceLemmas` states induction over a set
instead: a set that has 0 and with each number the next one has all of them
(`NatSetInduction`, from the well-foundedness of the natural numbers). A definition
by a set of numbers is then a set that can be put in. `FlattenSeqParts` uses it to
say what `FlattenSeq` returns as a loop would: a first part that is empty, and with
each element of the sequence a part that is longer by it.

### 4.8 Model-checked only

Liveness (`gl_live`, `ReconfigurationEnds`, `LatestApplicationRuns`,
`StopEndsKernel`, `FramesComplete`, `StopsReturn`, `SamplesAreShown`): liveness under
fairness is outside of what the prover does.

Every safety property, action property and refinement that a passing run checks is
also a theorem. The violations of 3.1 are TLC's alone.

## 5. Not modelled, and why

- Rendering, projections, scene graphs: computation without interaction. The
  Direct3D draw manager repeats the OpenGL one's threads.
- The protocols of some forty device drivers below `sample()`: vendors' formats,
  serial lines and libraries. What they share with the rest of the system, and with
  each other, is `InputDevices`.
- Parsing of configuration files: data in, data out.
- Option parsing, signal handlers (`Kernel.cpp:1071`) and users of the kernel.
- VPR's wrappers: semaphores, condition variables and threads are modelled by what
  they do where the other modules use them. `RWMutex`, `GuardedQueue` and
  `ThreadPool` have no users outside VPR and its tests, nor has the simulated
  network.
- Tweek, Java tools, delivery of beans: what they do to the run-time system are
  requests for configuration, which `ConfigManager` has from any thread.
- Sonix: sequential calls of the application; `Kernel` has the sound manager as
  there or not.

In `ClusterNetwork`: `ConfigPacket`s while the cluster runs, removal of nodes,
plug-ins that are not ready, a `setup` that differs between nodes, and
applications set or stopped on one node only.

In the input's modules: the input logger, event windows, drivers whose threads end
by themselves (as `Vrpn`'s does), interfaces to a proxy of another type, one name
for a proxy and an alias, the virtual devices of a node that was lost, and the
application barrier plug-in.

In the other modelled parts: errors of `Thread` creation; a window's own event
handling; the configuration manager's signals to observers; the locks only the
kernel's thread takes.

## 6. What could follow

The models cover the parts of the system in which threads, nodes or requests meet.
Beyond them:

1. Whether weaker conditions than `HandledTogether` are enough for
   `ActiveIsConfigured`: handlers that differ but never remove in one pass.
2. `Kernel` and `ClusterNetwork` together, for applications that are set on one
   node only.
3. What `ConfigPacket`s do to a cluster that runs.
