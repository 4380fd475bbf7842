-------------------------------- MODULE Kernel --------------------------------
(***************************************************************************)
(* The kernel: start(), the control loop with its frames and the switch of *)
(* applications between two of them, setApplication() and stop() from any  *)
(* thread, and waitForKernelStop().                                        *)
(*                                                                         *)
(* setApplication() takes no lock: each of its two stores is a step, and   *)
(* so is each load that checkForReconfig() makes of what it stores.  What  *)
(* mExitWaitCondVar guards is one step under it.  A draw manager is open   *)
(* between initAPI() and closeAPI(); how it draws is OpenGLDraw's concern, *)
(* and what checkForReconfig() configures is ConfigManager's.              *)
(***************************************************************************)
EXTENDS FiniteSets

CONSTANTS
    Apps,           \* the application objects
    DrawManagers,   \* the draw managers there are
    DrawManagerOf,  \* getDrawManager() of each application
    NoApp, NoManager,   \* NULL
    Rejected,       \* the applications their draw manager's setApp() throws at
    Users,          \* the threads that call setApplication() and stop()
    Waiters,        \* the threads that call waitForKernelStop()
    ClusterActive   \* ClusterManager::isClusterActive()

ASSUME AppsAssumption ==
    /\ NoApp \notin Apps /\ NoManager \notin DrawManagers /\ Apps \cap DrawManagers = {}
    /\ DrawManagerOf \in [Apps -> DrawManagers] /\ Rejected \subseteq Apps
ASSUME ClusterAssumption == ClusterActive \in BOOLEAN

VARIABLES
    mApp, mNewApp, mNewAppSet,
    mDrawManager,
    mSoundManager,  \* every application has the same one: is it there?
    mIsRunning, mExitFlag,
    spc,            \* where the main thread is in start()
    kpc,            \* where the kernel's thread is in controlLoop()
    newApp, newMgr, \* the arguments of changeApplication() and startDrawManager()
    open,           \* the draw managers whose API is initialised
    drawnApp,       \* mApp of each draw manager
    displaysTo,     \* mDrawManager of the display manager
    handlers,       \* the applications and draw managers the configuration manager calls
    calls,          \* the last callback made on each application
    upc, wpc        \* where the users are in their calls, and the waiters

requestVars == <<mNewApp, mNewAppSet>>
runVars     == <<mIsRunning, mExitFlag>>
drawVars    == <<mDrawManager, open, drawnApp, displaysTo>>
switchVars  == <<mApp, newApp, newMgr, mSoundManager, handlers>>
kernelVars  == <<switchVars, drawVars, calls>>
threadVars  == <<spc, upc, wpc>>
vars == <<kernelVars, requestVars, runVars, kpc, threadVars>>

Init ==
    /\ mApp = NoApp /\ mNewApp = NoApp /\ mNewAppSet = FALSE
    /\ mDrawManager = NoManager /\ mSoundManager = FALSE
    /\ mIsRunning = FALSE /\ mExitFlag = FALSE
    /\ spc = "none" /\ kpc = "none"
    /\ newApp = NoApp /\ newMgr = FALSE
    /\ open = {} /\ drawnApp = [m \in DrawManagers |-> NoApp] /\ displaysTo = NoManager
    /\ handlers = {}
    /\ calls = [a \in Apps |-> "exit"]
    /\ upc = [u \in Users |-> "idle"] /\ wpc = [w \in Waiters |-> "out"]

-----------------------------------------------------------------------------
(* The threads outside the kernel. *)

Alive == kpc # "crashed"    \* a NULL dereference ends every thread

noSignal == UNCHANGED wpc   \* mutant

\* vpr::CondVar::signal(): one of the threads that wait goes on.
signal == IF \E w \in Waiters : wpc[w] = "waiting"
          THEN \E w \in Waiters : wpc[w] = "waiting" /\ wpc' = [wpc EXCEPT ![w] = "test"]
          ELSE UNCHANGED wpc

\* setApplication(), the two stores in their order.
StoreNewApp(u, a) ==
    /\ mNewApp' = a
    /\ upc' = [upc EXCEPT ![u] = "stored"]
    /\ UNCHANGED <<mNewAppSet, kernelVars, runVars, kpc, spc, wpc>>

setApplication(u, a) == Alive /\ upc[u] = "idle" /\ StoreNewApp(u, a)

StoreNewAppSet(u) ==
    /\ Alive /\ upc[u] = "stored" /\ upc' = [upc EXCEPT ![u] = "idle"]
    /\ mNewAppSet' = TRUE
    /\ UNCHANGED <<mNewApp, kernelVars, runVars, kpc, spc, wpc>>

\* stop(): the exit flag under the lock, and then setApplication(NULL).
stop(u) ==
    /\ Alive /\ upc[u] = "idle" /\ upc' = [upc EXCEPT ![u] = "stopping"]
    /\ mExitFlag' = TRUE
    /\ signal
    /\ UNCHANGED <<requestVars, kernelVars, mIsRunning, spc, kpc>>

StopApplication(u) == Alive /\ upc[u] = "stopping" /\ StoreNewApp(u, NoApp)

\* waitForKernelStop(): the test and the wait are one step under the lock.
waitForKernelStop(w) ==
    /\ Alive /\ wpc[w] \in {"out", "test"}
    /\ wpc' = [wpc EXCEPT ![w] = IF ~mIsRunning /\ mExitFlag THEN "done" ELSE "waiting"]
    /\ UNCHANGED <<requestVars, kernelVars, runVars, spc, kpc, upc>>

\* start(), which is called once: the flag, and then the thread unless stop() came first.
start ==
    /\ spc = "none" /\ spc' = "started"
    /\ mIsRunning' = TRUE
    /\ UNCHANGED <<requestVars, kernelVars, mExitFlag, kpc, upc, wpc>>

StartThread ==
    /\ spc = "started" /\ ~mExitFlag /\ spc' = "done"
    /\ kpc' = "loop"
    /\ UNCHANGED <<requestVars, kernelVars, runVars, upc, wpc>>

StartStopped ==
    /\ spc = "started" /\ mExitFlag /\ spc' = "done"
    /\ mIsRunning' = FALSE
    /\ signal
    /\ UNCHANGED <<requestVars, kernelVars, mExitFlag, kpc, upc>>

-----------------------------------------------------------------------------
(* controlLoop(): the frame. *)

At(from, to) == kpc = from /\ kpc' = to
Others == UNCHANGED <<runVars, threadVars>>

\* One callback on an application.
Calls(a, c) == calls' = [calls EXCEPT ![a] = c]

HasFrame == mApp # NoApp /\ mDrawManager # NoManager
Leaves   == mExitFlag /\ mApp = NoApp

BeginFrame ==
    /\ HasFrame /\ ~Leaves
    /\ At("loop", "preFrame")
    /\ UNCHANGED <<kernelVars, requestVars>> /\ Others

\* Nothing to draw, or a cluster that is not ready.
SkipFrame ==
    /\ ~HasFrame \/ ClusterActive
    /\ ~Leaves
    /\ At("loop", "reconfig")
    /\ UNCHANGED <<kernelVars, requestVars>> /\ Others

CallBack(c, to) ==
    /\ At(c, to)
    /\ Calls(mApp, c)
    /\ UNCHANGED <<switchVars, drawVars, requestVars>> /\ Others

preFrame     == CallBack("preFrame", "latePreFrame")
latePreFrame == CallBack("latePreFrame", "draw")
intraFrame   == CallBack("intraFrame", "sync")
postFrame    == CallBack("postFrame", "reconfig")

\* draw(): the manager draws the application it was given; one that rejected it has none,
\* and its windows, if there are any, are drawn through a NULL pointer.
draw ==
    /\ kpc = "draw"
    /\ IF drawnApp[mDrawManager] # NoApp
       THEN kpc' = "intraFrame" /\ Calls(drawnApp[mDrawManager], "draw")
       ELSE /\ kpc' \in {"intraFrame"} \cup IF mDrawManager \in open THEN {"crashed"} ELSE {}
            /\ UNCHANGED calls
    /\ UNCHANGED <<switchVars, drawVars, requestVars>> /\ Others

\* sync(): the manager's thread posts the end of the frame; without the thread nobody does.
sync ==
    /\ mDrawManager \in open
    /\ At("sync", "postFrame")
    /\ UNCHANGED <<kernelVars, requestVars>> /\ Others

LeaveLoop ==
    /\ Leaves
    /\ At("loop", "leaving")
    /\ UNCHANGED <<kernelVars, requestVars>> /\ Others

EndLoop ==
    /\ At("leaving", "ended")
    /\ mIsRunning' = FALSE
    /\ signal
    /\ UNCHANGED <<kernelVars, requestVars, mExitFlag, spc, upc>>

-----------------------------------------------------------------------------
(* checkForReconfig() after attemptReconfiguration(). *)

TestNewAppSet ==
    /\ At("reconfig", IF mNewAppSet THEN "testNull" ELSE "loop")
    /\ UNCHANGED <<kernelVars, requestVars>> /\ Others

TestNewAppNull ==
    /\ At("testNull", IF mNewApp = NoApp THEN "clear" ELSE "depSatisfied")
    /\ UNCHANGED <<kernelVars, requestVars>> /\ Others

\* depSatisfied() of mNewApp, loaded again: a build that keeps the first load does a part
\* of this.  The answer is the application's.
TestDependencies ==
    /\ \/ mNewApp # NoApp /\ (At("depSatisfied", "clear") \/ At("depSatisfied", "refused"))
       \/ mNewApp = NoApp /\ At("depSatisfied", "crashed")
    /\ UNCHANGED <<kernelVars, requestVars>> /\ Others

Refused ==
    /\ At("refused", "loop")
    /\ UNCHANGED <<kernelVars, requestVars>> /\ Others

ClearNewAppSet ==
    /\ At("clear", "read")
    /\ mNewAppSet' = FALSE
    /\ UNCHANGED <<kernelVars, mNewApp>> /\ Others

ReadNewApp ==
    /\ At("read", "change")
    /\ newApp' = mNewApp
    /\ UNCHANGED <<mApp, newMgr, mSoundManager, handlers, drawVars, calls, requestVars>> /\ Others

-----------------------------------------------------------------------------
(* changeApplication(). *)

ChangeToSame ==
    /\ newApp = mApp
    /\ At("change", "loop")
    /\ newApp' = NoApp
    /\ UNCHANGED <<mApp, newMgr, mSoundManager, handlers, drawVars, calls, requestVars>> /\ Others

StopsForNull(a) == mDrawManager # NoManager /\ a = NoApp    \* mutant

\* Does the old draw manager stop?
StopsDrawManager(a) ==
    mDrawManager # NoManager /\ (a = NoApp \/ DrawManagerOf[a] # mDrawManager)

\* stopDrawManager(), which waits for the manager's thread, and stopSoundManager().  What
\* removeConfigElementHandler() is given then is NULL, so the manager stays a handler.
StopManagers ==
    /\ newApp # mApp
    /\ At("change", "exit")
    /\ IF StopsDrawManager(newApp)
       THEN /\ mDrawManager \in open
            /\ open' = open \ {mDrawManager}
            /\ mDrawManager' = NoManager /\ displaysTo' = NoManager
       ELSE UNCHANGED <<open, mDrawManager, displaysTo>>
    /\ mSoundManager' = (mSoundManager /\ newApp # NoApp)
    /\ UNCHANGED <<drawnApp, mApp, newApp, newMgr, handlers, calls, requestVars>> /\ Others

DeregisterNever(a) == UNCHANGED handlers    \* mutant

\* The old application among the handlers.
Deregister(a) == handlers' = handlers \ {a}

ExitOnlyForNull(a) ==   \* mutant
    Deregister(a) /\ IF newApp = NoApp THEN Calls(a, "exit") ELSE UNCHANGED calls

ExitApplication(a) == Deregister(a) /\ Calls(a, "exit")

exit ==
    /\ At("exit", IF newApp = NoApp THEN "loop" ELSE "start")
    /\ IF mApp # NoApp THEN ExitApplication(mApp) ELSE UNCHANGED <<handlers, calls>>
    /\ mApp' = newApp /\ newApp' = NoApp
    /\ UNCHANGED <<newMgr, mSoundManager, drawVars, requestVars>> /\ Others

\* startDrawManager() up to setApp(), which may throw the rest away.
startDrawManager ==
    LET m == DrawManagerOf[mApp]
    IN /\ At("start", IF mApp \in Rejected THEN "finish" ELSE "init")
       /\ newMgr' = (m # mDrawManager) /\ mDrawManager' = m
       /\ handlers' = handlers \cup {m}
       /\ drawnApp' = [drawnApp EXCEPT ![m] = IF mApp \in Rejected THEN NoApp ELSE mApp]
       /\ UNCHANGED <<open, displaysTo, mApp, newApp, mSoundManager, calls, requestVars>> /\ Others

init == CallBack("init", "initAPI")

initAPI ==
    /\ At("initAPI", "apiInit")
    /\ open' = IF newMgr THEN open \cup {mDrawManager} ELSE open
    /\ UNCHANGED <<switchVars, mDrawManager, drawnApp, displaysTo, calls, requestVars>> /\ Others

apiInit ==
    /\ At("apiInit", "finish")
    /\ Calls(mApp, "apiInit")
    /\ displaysTo' = IF newMgr THEN mDrawManager ELSE displaysTo
    /\ UNCHANGED <<switchVars, mDrawManager, drawnApp, open, requestVars>> /\ Others

\* Mutant: the request is forgotten only when it is done.
FinishChangeClears ==
    /\ At("finish", "loop")
    /\ mSoundManager' = TRUE /\ newMgr' = FALSE
    /\ handlers' = handlers \cup {mApp}
    /\ mNewAppSet' = FALSE
    /\ UNCHANGED <<mApp, newApp, drawVars, calls, mNewApp>> /\ Others

\* Mutant: what is registered is the argument, used up by now.
FinishChangeArgument ==
    /\ At("finish", "loop")
    /\ mSoundManager' = TRUE /\ newMgr' = FALSE
    /\ handlers' = handlers \cup {newApp}
    /\ UNCHANGED <<mApp, newApp, drawVars, calls, requestVars>> /\ Others

\* The sound manager and the application's registration.
FinishChange ==
    /\ At("finish", "loop")
    /\ mSoundManager' = TRUE /\ newMgr' = FALSE
    /\ handlers' = handlers \cup {mApp}
    /\ UNCHANGED <<mApp, newApp, drawVars, calls, requestVars>> /\ Others

-----------------------------------------------------------------------------
KernelStep ==
    \/ BeginFrame \/ SkipFrame \/ preFrame \/ latePreFrame \/ draw \/ intraFrame \/ sync
    \/ postFrame \/ LeaveLoop \/ EndLoop
    \/ TestNewAppSet \/ TestNewAppNull \/ TestDependencies \/ Refused
    \/ ClearNewAppSet \/ ReadNewApp
    \/ ChangeToSame \/ StopManagers \/ exit \/ startDrawManager \/ init \/ initAPI \/ apiInit
    \/ FinishChange

Next ==
    \/ KernelStep
    \/ \E u \in Users : \/ \E a \in Apps \cup {NoApp} : setApplication(u, a)
                        \/ StoreNewAppSet(u) \/ stop(u) \/ StopApplication(u)
    \/ \E w \in Waiters : waitForKernelStop(w)
    \/ start \/ StartThread \/ StartStopped

Spec == Init /\ [][Next]_vars

\* The operating system runs every thread that can go on; nobody has to call anything.
Fairness ==
    /\ WF_vars(KernelStep)
    /\ \A u \in Users : WF_vars(StoreNewAppSet(u) \/ StopApplication(u))
    /\ \A w \in Waiters : WF_vars(wpc[w] = "test" /\ waitForKernelStop(w))
    /\ WF_vars(StartThread \/ StartStopped)

FairSpec == Spec /\ Fairness

-----------------------------------------------------------------------------
\* The callbacks as an application sees them.
App == INSTANCE AppCallbacks

FramePcs  == {"preFrame", "latePreFrame", "draw", "intraFrame", "sync", "postFrame"}
SwitchPcs == {"exit", "start", "init", "initAPI", "apiInit", "finish"}

\* Every variable has its type.
TypeOK ==
    /\ {mApp, mNewApp, newApp} \subseteq Apps \cup {NoApp}
    /\ {mDrawManager, displaysTo} \subseteq DrawManagers \cup {NoManager}
    /\ {mNewAppSet, mSoundManager, mIsRunning, mExitFlag, newMgr} \subseteq BOOLEAN
    /\ spc \in {"none", "started", "done"}
    /\ kpc \in FramePcs \cup SwitchPcs \cup
          {"none", "loop", "reconfig", "testNull", "depSatisfied", "refused", "clear", "read",
           "change", "leaving", "ended", "crashed"}
    /\ open \subseteq DrawManagers /\ handlers \subseteq Apps \cup DrawManagers
    /\ drawnApp \in [DrawManagers -> Apps \cup {NoApp}]
    /\ calls \in [Apps -> App!Callbacks]
    /\ upc \in [Users -> {"idle", "stored", "stopping"}]
    /\ wpc \in [Waiters -> {"out", "waiting", "test", "done"}]

\* controlLoop() and startDrawManager(): in a frame the kernel's draw manager is open, it
\* is the one the displays go to, it draws the application whose callbacks the frame
\* makes, and there is a sound manager to update.
FrameHasItsManagers ==
    kpc \in FramePcs =>
        /\ open = {mDrawManager} /\ displaysTo = mDrawManager
        /\ drawnApp[mDrawManager] = mApp
        /\ mDrawManager = DrawManagerOf[mApp] /\ mSoundManager

\* changeApplication(): "The kernel no longer has a reference to the old application so it
\* can be safely deleted", once the change is over: neither a config handler nor the
\* application of an open draw manager is one that the kernel has left.
OldApplicationsUnreferenced ==
    kpc \notin SwitchPcs \cup {"crashed"} =>
        /\ handlers \cap Apps = {mApp} \ {NoApp}
        /\ \A m \in open : drawnApp[m] = mApp

\* controlLoop() with changeApplication(): an application gets its callbacks in the order
\* of the frame, from init() to exit(), and never together with another's.
ImplementsAppCallbacks == App!Spec

Quiet == spc = "done" /\ kpc # "crashed" /\ \A u \in Users : upc[u] = "idle"

\* setApplication(), unlocked: when the requests have come to an end with a, whatever they
\* raced with, a runs in the end, or its dependencies are found missing for ever.
LatestApplicationRuns ==
    \A a \in Apps :
        <>[](Quiet /\ mNewApp = a /\ ~mExitFlag)
            => <>[](mApp = a) \/ []<>(kpc = "refused")

\* stop(), "The kernel exits": when the requests have come to an end with a stop(), the
\* kernel's thread has ended or never came to be, and nobody waits for it any more.
StopEndsKernel ==
    <>[](Quiet /\ mNewApp = NoApp /\ mExitFlag)
        => <>[](kpc \in {"none", "ended"} /\ \A w \in Waiters : wpc[w] # "waiting")

-----------------------------------------------------------------------------
(* The inductive invariant: what the kernel has set up, given where it is.      *)

\* The draw manager between initAPI() and closeAPI(), with the displays on it.
ManagerOpen(m) == mDrawManager = m /\ open = {m} /\ displaysTo = m
NoManagerOpen  == mDrawManager = NoManager /\ open = {} /\ displaysTo = NoManager

\* The managers of the current application, outside a switch.
AppHasItsManagers ==
    IF mApp = NoApp THEN NoManagerOpen
    ELSE /\ ManagerOpen(DrawManagerOf[mApp])
         /\ drawnApp[mDrawManager] = mApp /\ mSoundManager

\* What holds even if an application is rejected.
SwitchInv ==
    /\ spc # "done" => kpc = "none"
    /\ kpc \in FramePcs \cup (SwitchPcs \ {"exit"}) => mApp # NoApp
    /\ kpc \in {"init", "initAPI", "apiInit", "finish"} => mDrawManager = DrawManagerOf[mApp]

ManagersInv ==
    /\ kpc \notin SwitchPcs \cup {"crashed"} => AppHasItsManagers
    /\ kpc = "exit" =>
          \/ NoManagerOpen
          \/ newApp # NoApp /\ ManagerOpen(DrawManagerOf[newApp])
    /\ kpc = "start" => NoManagerOpen \/ ManagerOpen(DrawManagerOf[mApp])
    /\ kpc \in {"init", "initAPI", "apiInit", "finish"} => drawnApp[mDrawManager] = mApp
    /\ kpc \in {"init", "initAPI"} => IF newMgr THEN open = {} ELSE ManagerOpen(mDrawManager)
    /\ kpc = "apiInit" => open = {mDrawManager} /\ (~newMgr => displaysTo = mDrawManager)
    /\ kpc = "finish" => ManagerOpen(mDrawManager)

\* Which application the configuration manager still calls.
HandlersInv ==
    /\ kpc \notin (SwitchPcs \ {"exit"}) \cup {"crashed"} =>
          handlers \cap Apps = {mApp} \ {NoApp}
    /\ kpc \in SwitchPcs \ {"exit"} => handlers \cap Apps = {}

\* The last callback of the current application at each place; the others have exited.
LastCallbacks ==
    [latePreFrame |-> {"preFrame"}, draw |-> {"latePreFrame"}, intraFrame |-> {"draw"},
     sync |-> {"intraFrame"}, postFrame |-> {"intraFrame"},
     start |-> {"exit"}, init |-> {"exit"}, initAPI |-> {"init"}, apiInit |-> {"init"},
     finish |-> {"apiInit"}]

CallsInv ==
    /\ \A a \in Apps : a # mApp => calls[a] = "exit"
    /\ mApp # NoApp /\ kpc # "crashed" =>
          calls[mApp] \in IF kpc \in DOMAIN LastCallbacks THEN LastCallbacks[kpc]
                          ELSE {"apiInit", "postFrame"}

\* What every part of changeApplication() leaves for the next, and what the frame needs.
IInv == TypeOK /\ SwitchInv /\ ManagersInv /\ HandlersInv /\ CallsInv
=============================================================================
