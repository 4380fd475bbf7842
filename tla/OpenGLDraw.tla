----------------------------- MODULE OpenGLDraw -----------------------------
(***************************************************************************)
(* The OpenGL draw manager of VR Juggler and its per-pipe render threads,  *)
(* driven by the kernel's control loop.                                    *)
(*                                                                         *)
(* Three kinds of threads run here:                                        *)
(*   - the kernel thread, which calls draw(), sync(), addDisplay(),        *)
(*     removeDisplay(), setApp(), initAPI() and closeAPI();                *)
(*   - the draw thread, DrawManager::main();                               *)
(*   - one thread per pipe, Pipe::controlLoop().                           *)
(* They meet on counting semaphores (two in the manager, four per pipe)    *)
(* and on the mutexes of the window lists.                                 *)
(*                                                                         *)
(* A member of Windows stands for one Window object (a WindowPtr); it can  *)
(* be used again once nothing refers to it, so behaviours are unbounded    *)
(* while the state space stays finite.  mThreadRunning of a pipe is        *)
(* Running(p): it is set and cleared in the steps that enter "top" for the *)
(* first time and "exited".  The mutexes mNewWinLock, mOpenWinLock,        *)
(* mClosingWinLock and mCreateWindowMutex are held exactly while a pipe is *)
(* in "closing" or "opening", which is how the guards below read them.     *)
(***************************************************************************)
EXTENDS Integers

CONSTANTS
    NumPipes,       \* how many pipes the displays name (indices 0 .. NumPipes-1)
    Windows,        \* the Window objects
    PipeOf,         \* the pipe each window's display is configured for
    Apps,           \* the OpenGL application objects
    NoApp,          \* the application of a context that was never initialised
    ClusterActive,  \* ClusterManager::isClusterActive()
    MayClose        \* whether the kernel may close the drawing API

Pipes == 0 .. NumPipes - 1

ASSUME PipesAssumption == NumPipes \in Nat \ {0}
ASSUME WindowsAssumption == PipeOf \in [Windows -> Pipes]
ASSUME AppsAssumption == NoApp \notin Apps
ASSUME FlagsAssumption == ClusterActive \in BOOLEAN /\ MayClose \in BOOLEAN

VARIABLES
    \* the kernel thread
    kpc,            \* where it is in its loop, or in closeAPI() and stop()
    kidx,           \* the pipe closeAPI() is stopping
    kwins,          \* stop()'s copy of mOpenWins, what is left of it
    \* the draw manager and its thread
    mApp, mWins, mRunning,
    drawTrigger, drawDone,      \* drawTriggerSema, drawDoneSema
    dpc, didx,      \* where main()/drawAllPipes() is, and its loop index
    \* the pipes
    ppc,            \* where controlLoop() is; "none": no such pipe
    mControlExit,
    renderTrigger, renderComplete, swapTrigger, swapComplete,
    \* the windows
    place,          \* the pipe list the window is on: "new", "open" or "none"
    closing,        \* how often the window is on its pipe's mClosingWins
    dirty,          \* Window::mDirtyContext
    ctxApp,         \* the application that last ran contextInit() on its context
    \* the cluster manager
    mWindowOpened, pluginsReady

kernelVars  == <<kpc, kidx, kwins>>
managerVars == <<mApp, mWins, mRunning>>
drawVars    == <<drawTrigger, drawDone, dpc, didx>>
renderVars  == <<renderTrigger, renderComplete>>
swapVars    == <<swapTrigger, swapComplete>>
semaVars    == <<renderVars, swapVars>>
pipeVars    == <<ppc, mControlExit, semaVars>>
windowVars  == <<place, closing, dirty, ctxApp>>
clusterVars == <<mWindowOpened, pluginsReady>>
vars == <<kernelVars, managerVars, drawVars, pipeVars, windowVars, clusterVars>>

\* The loops over DrawManager::pipes run while Exists(didx).
\* Mutant: they leave the last pipe out.
ExistsButLast(p) == p \in 0 .. NumPipes - 2 /\ ppc[p] # "none"
Exists(p) == p \in Pipes /\ ppc[p] # "none"

\* mThreadRunning.  Mutant: start() sets it, not the thread.
RunningSinceStart(p) == ppc[p] \notin {"none", "exited"}
Running(p) == ppc[p] \notin {"none", "starting", "exited"}

\* Operations of a vpr::Semaphore of pipe p.  Mutant: an acquire that does not block.
TryAcquire(sema, p) == sema' = [sema EXCEPT ![p] = IF @ > 0 THEN @ - 1 ELSE @]
Acquire(sema, p) == sema[p] > 0 /\ sema' = [sema EXCEPT ![p] = @ - 1]
Release(sema, p) == sema' = [sema EXCEPT ![p] = @ + 1]

OnPipe(p)   == {w \in Windows : PipeOf[w] = p}
OpenWins(p) == {w \in OnPipe(p) : place[w] = "open"}
NewWins(p)  == {w \in OnPipe(p) : place[w] = "new"}
\* Mutant: only windows that are open are closed.
ClosingOpenWins(p) == {w \in OnPipe(p) : closing[w] > 0 /\ place[w] = "open"}
ClosingWins(p)     == {w \in OnPipe(p) : closing[w] > 0}
NewWinLocked(p)     == ppc[p] \in {"closing", "opening"}
ClosingWinLocked(p) == ppc[p] = "closing"
Unreferenced(w) == w \notin mWins /\ place[w] = "none" /\ closing[w] = 0

\* The removal of a closed window from both lists.  Mutant: from mOpenWins only.
RemovedFromOpen(w) == [place EXCEPT ![w] = IF @ = "open" THEN "none" ELSE @]
Removed(w) == [place EXCEPT ![w] = "none"]

\* What dirtyAllWindows() makes of the dirty flags.  Mutant: setApp() leaves it out.
dirtyNoWindows  == dirty
dirtyAllWindows == [w \in Windows |-> w \in mWins \/ dirty[w]]

isClusterReady == mWindowOpened /\ pluginsReady
\* The kernel's and a pipe's test whether this iteration has a frame.
call_app == ClusterActive => isClusterReady
\* Mutant: a pipe does not ask the cluster.
clusterNotAsked == TRUE
cluster == ClusterActive => isClusterReady

-----------------------------------------------------------------------------
(* The constructors: no draw thread, no pipe, no window. *)
Init ==
    /\ kpc = "closed" /\ kidx = 0 /\ kwins = {}
    /\ mApp = NoApp /\ mWins = {} /\ mRunning = FALSE
    /\ drawTrigger = 0 /\ drawDone = 0 /\ dpc = "none" /\ didx = 0
    /\ ppc = [p \in Pipes |-> "none"]
    /\ mControlExit = [p \in Pipes |-> FALSE]
    /\ renderTrigger = [p \in Pipes |-> 0] /\ renderComplete = [p \in Pipes |-> 0]
    /\ swapTrigger = [p \in Pipes |-> 0] /\ swapComplete = [p \in Pipes |-> 0]
    /\ place = [w \in Windows |-> "none"] /\ closing = [w \in Windows |-> 0]
    /\ dirty = [w \in Windows |-> TRUE] /\ ctxApp = [w \in Windows |-> NoApp]
    /\ mWindowOpened = FALSE /\ pluginsReady = TRUE

-----------------------------------------------------------------------------
(* The kernel thread between two frames. *)

\* setApp() and initAPI(), as Kernel::startDrawManager() calls them for a new
\* draw manager.
StartAPI(a) ==
    /\ kpc = "closed" /\ kpc' = "idle"
    /\ mApp' = a /\ mRunning' = TRUE
    /\ dpc' = "wait"
    /\ UNCHANGED <<kidx, kwins, mWins, drawTrigger, drawDone, didx, pipeVars,
                   windowVars, clusterVars>>

\* addDisplay(): a new window, every missing pipe up to its own, addWindow().
AddDisplay(w) ==
    /\ kpc = "idle" /\ Unreferenced(w) /\ ~NewWinLocked(PipeOf[w])
    /\ mWins' = mWins \cup {w}
    /\ ppc' = [p \in Pipes |-> IF p <= PipeOf[w] /\ ppc[p] = "none"
                               THEN "starting" ELSE ppc[p]]
    /\ place' = [place EXCEPT ![w] = "new"]
    /\ dirty' = [dirty EXCEPT ![w] = TRUE]
    /\ ctxApp' = [ctxApp EXCEPT ![w] = NoApp]
    /\ UNCHANGED <<kernelVars, mApp, mRunning, drawVars, mControlExit, semaVars,
                   closing, clusterVars>>

\* removeDisplay() of a display that has a window, with removeWindow().
RemoveDisplay(w) ==
    /\ kpc = "idle" /\ w \in mWins /\ ~ClosingWinLocked(PipeOf[w])
    /\ closing' = [closing EXCEPT ![w] = @ + 1]
    /\ mWins' = mWins \ {w}
    /\ UNCHANGED <<kernelVars, mApp, mRunning, drawVars, pipeVars, place, dirty,
                   ctxApp, clusterVars>>

\* setApp() for an application that uses the draw manager already running.
SetApp(a) ==
    /\ kpc = "idle" /\ a # mApp
    /\ mApp' = a
    /\ dirty' = dirtyAllWindows
    /\ UNCHANGED <<kernelVars, mWins, mRunning, drawVars, pipeVars, place, closing,
                   ctxApp, clusterVars>>

\* draw(), which the kernel calls in an iteration whose call_app flag is set.
Draw ==
    /\ kpc = "idle" /\ call_app
    /\ drawTrigger' = drawTrigger + 1
    /\ kpc' = "drawn"
    /\ UNCHANGED <<kidx, kwins, managerVars, drawDone, dpc, didx, pipeVars,
                   windowVars, clusterVars>>

Sync ==
    /\ kpc = "drawn" /\ drawDone > 0
    /\ drawDone' = drawDone - 1
    /\ kpc' = "idle"
    /\ UNCHANGED <<kidx, kwins, managerVars, drawTrigger, dpc, didx, pipeVars,
                   windowVars, clusterVars>>

-----------------------------------------------------------------------------
(* The kernel thread in closeAPI(), and in the stop() of each pipe in turn. *)

CloseAPI ==
    /\ MayClose /\ kpc = "idle"
    /\ mRunning' = FALSE
    /\ drawTrigger' = drawTrigger + 1
    /\ kpc' = "closeWait"
    /\ UNCHANGED <<kidx, kwins, mApp, mWins, drawDone, dpc, didx, pipeVars,
                   windowVars, clusterVars>>

\* drawDoneSema.acquire(), then the join with the draw thread.
CloseJoinDraw ==
    /\ kpc = "closeWait" /\ drawDone > 0 /\ dpc = "exited"
    /\ drawDone' = drawDone - 1
    /\ dpc' = "none"
    /\ kpc' = "stop" /\ kidx' = 0
    /\ UNCHANGED <<kwins, managerVars, drawTrigger, didx, pipeVars, windowVars,
                   clusterVars>>

\* stop() copies getOpenWindows() without mOpenWinLock.
StopCopy ==
    /\ kpc = "stop" /\ Exists(kidx)
    /\ kwins' = OpenWins(kidx)
    /\ kpc' = "stopRemove"
    /\ UNCHANGED <<kidx, managerVars, drawVars, pipeVars, windowVars, clusterVars>>

StopRemove(w) ==
    /\ kpc = "stopRemove" /\ w \in kwins /\ ~ClosingWinLocked(kidx)
    /\ closing' = [closing EXCEPT ![w] = @ + 1]
    /\ kwins' = kwins \ {w}
    /\ UNCHANGED <<kpc, kidx, managerVars, drawVars, pipeVars, place, dirty, ctxApp,
                   clusterVars>>

StopExit ==
    /\ kpc = "stopRemove" /\ kwins = {}
    /\ mControlExit' = [mControlExit EXCEPT ![kidx] = TRUE]
    /\ kpc' = "stopRender"
    /\ UNCHANGED <<kidx, kwins, managerVars, drawVars, ppc, semaVars, windowVars,
                   clusterVars>>

\* triggerRender() spins until mThreadRunning.
StopTriggerRender ==
    /\ kpc = "stopRender" /\ Running(kidx)
    /\ Release(renderTrigger, kidx)
    /\ kpc' = "stopSwap"
    /\ UNCHANGED <<kidx, kwins, managerVars, drawVars, ppc, mControlExit,
                   renderComplete, swapVars, windowVars, clusterVars>>

\* triggerSwap() asserts mThreadRunning, which the thread has reset where it was past
\* its loop already: a debug build ends there, a release build goes on as here.
StopTriggerSwap ==
    /\ kpc = "stopSwap"
    /\ Release(swapTrigger, kidx)
    /\ kpc' = "stopJoin"
    /\ UNCHANGED <<kidx, kwins, managerVars, drawVars, ppc, mControlExit,
                   renderVars, swapComplete, windowVars, clusterVars>>

\* The join with the pipe's thread, then closeAPI()'s delete of the pipe.  Its
\* window lists go with it; the windows themselves close in their destructor.
StopJoin ==
    /\ kpc = "stopJoin" /\ ppc[kidx] = "exited"
    /\ ppc' = [ppc EXCEPT ![kidx] = "none"]
    /\ mControlExit' = [mControlExit EXCEPT ![kidx] = FALSE]
    /\ renderTrigger' = [renderTrigger EXCEPT ![kidx] = 0]
    /\ renderComplete' = [renderComplete EXCEPT ![kidx] = 0]
    /\ swapTrigger' = [swapTrigger EXCEPT ![kidx] = 0]
    /\ swapComplete' = [swapComplete EXCEPT ![kidx] = 0]
    /\ place' = [w \in Windows |-> IF PipeOf[w] = kidx THEN "none" ELSE place[w]]
    /\ closing' = [w \in Windows |-> IF PipeOf[w] = kidx THEN 0 ELSE closing[w]]
    /\ kpc' = "stop" /\ kidx' = kidx + 1
    /\ UNCHANGED <<kwins, managerVars, drawVars, dirty, ctxApp, clusterVars>>

\* pipes.clear() and mWins.clear().
CloseDone ==
    /\ kpc = "stop" /\ ~Exists(kidx)
    /\ mWins' = {}
    /\ kpc' = "closed" /\ kidx' = 0
    /\ UNCHANGED <<kwins, mApp, mRunning, drawVars, pipeVars, windowVars, clusterVars>>

Close == \/ CloseAPI \/ CloseJoinDraw \/ StopCopy
         \/ \E w \in Windows : StopRemove(w)
         \/ StopExit \/ StopTriggerRender \/ StopTriggerSwap \/ StopJoin \/ CloseDone

Kernel == \/ \E a \in Apps : StartAPI(a) \/ SetApp(a)
          \/ \E w \in Windows : AddDisplay(w) \/ RemoveDisplay(w)
          \/ Draw \/ Sync \/ Close

-----------------------------------------------------------------------------
(* The draw thread: main() and drawAllPipes(). *)

DrawWake ==
    /\ dpc = "wait" /\ drawTrigger > 0 /\ mRunning
    /\ drawTrigger' = drawTrigger - 1
    /\ dpc' = "trigRender" /\ didx' = 0
    /\ UNCHANGED <<kernelVars, managerVars, drawDone, pipeVars, windowVars, clusterVars>>

\* stop_requested: the trigger of closeAPI() falls through to the release.
DrawStop ==
    /\ dpc = "wait" /\ drawTrigger > 0 /\ ~mRunning
    /\ drawTrigger' = drawTrigger - 1
    /\ drawDone' = drawDone + 1
    /\ dpc' = "exited"
    /\ UNCHANGED <<kernelVars, managerVars, didx, pipeVars, windowVars, clusterVars>>

\* The end of one of the four loops over the pipes.  After the second comes the
\* cluster's swap barrier, after the last the release of drawDoneSema.
LoopEnd(from, to, posts) ==
    /\ dpc = from /\ ~Exists(didx)
    /\ dpc' = to /\ didx' = 0
    /\ drawDone' = drawDone + posts
    /\ UNCHANGED <<kernelVars, managerVars, drawTrigger, pipeVars, windowVars, clusterVars>>

TriggerRender ==
    /\ dpc = "trigRender" /\ Exists(didx) /\ Running(didx)
    /\ Release(renderTrigger, didx)
    /\ didx' = didx + 1
    /\ UNCHANGED <<kernelVars, managerVars, drawTrigger, drawDone, dpc, ppc,
                   mControlExit, renderComplete, swapVars, windowVars, clusterVars>>

CompleteRender ==
    /\ dpc = "waitRender" /\ Exists(didx)
    /\ Acquire(renderComplete, didx)
    /\ didx' = didx + 1
    /\ UNCHANGED <<kernelVars, managerVars, drawTrigger, drawDone, dpc, ppc,
                   mControlExit, renderTrigger, swapVars, windowVars, clusterVars>>

TriggerSwap ==
    /\ dpc = "trigSwap" /\ Exists(didx)
    /\ Release(swapTrigger, didx)
    /\ didx' = didx + 1
    /\ UNCHANGED <<kernelVars, managerVars, drawTrigger, drawDone, dpc, ppc,
                   mControlExit, renderVars, swapComplete, windowVars, clusterVars>>

CompleteSwap ==
    /\ dpc = "waitSwap" /\ Exists(didx)
    /\ Acquire(swapComplete, didx)
    /\ didx' = didx + 1
    /\ UNCHANGED <<kernelVars, managerVars, drawTrigger, drawDone, dpc, ppc,
                   mControlExit, renderVars, swapTrigger, windowVars, clusterVars>>

DrawThread ==
    \/ DrawWake \/ DrawStop
    \/ TriggerRender \/ LoopEnd("trigRender", "waitRender", 0)
    \/ CompleteRender \/ LoopEnd("waitRender", "trigSwap", 0)
    \/ TriggerSwap \/ LoopEnd("trigSwap", "waitSwap", 0)
    \/ CompleteSwap \/ LoopEnd("waitSwap", "wait", 1)

-----------------------------------------------------------------------------
(* A pipe's thread: controlLoop(). *)

\* A step of pipe p from one place of controlLoop() to another.
Goto(p, from, to) == ppc[p] = from /\ ppc' = [ppc EXCEPT ![p] = to]

\* mThreadRunning = true.
PipeStart(p) ==
    /\ Goto(p, "starting", "top")
    /\ UNCHANGED <<kernelVars, managerVars, drawVars, mControlExit, semaVars,
                   windowVars, clusterVars>>

\* The loop test and, inside the loop, the test for a cluster that is not ready.
\* Leaving the loop clears mThreadRunning.
PipeTop(p) ==
    /\ Goto(p, "top", IF mControlExit[p] THEN "exited"
                      ELSE IF cluster THEN "renderWait" ELSE "checkClose")
    /\ UNCHANGED <<kernelVars, managerVars, drawVars, mControlExit, semaVars,
                   windowVars, clusterVars>>

PipeAcquireRender(p) ==
    /\ Goto(p, "renderWait", "rendering")
    /\ Acquire(renderTrigger, p)
    /\ UNCHANGED <<kernelVars, managerVars, drawVars, mControlExit, renderComplete,
                   swapVars, windowVars, clusterVars>>

\* renderWindow() for every open window: contextInit() where the context is dirty.
PipeRender(p) ==
    /\ Goto(p, "rendering", "swapWait")
    /\ ctxApp' = [w \in Windows |-> IF w \in OpenWins(p) /\ dirty[w] THEN mApp
                                    ELSE ctxApp[w]]
    /\ dirty' = [w \in Windows |-> dirty[w] /\ w \notin OpenWins(p)]
    /\ Release(renderComplete, p)
    /\ UNCHANGED <<kernelVars, managerVars, drawVars, mControlExit, renderTrigger,
                   swapVars, place, closing, clusterVars>>

PipeAcquireSwap(p) ==
    /\ Goto(p, "swapWait", "swapping")
    /\ Acquire(swapTrigger, p)
    /\ UNCHANGED <<kernelVars, managerVars, drawVars, mControlExit, renderVars,
                   swapComplete, windowVars, clusterVars>>

\* Mutant: a pipe without windows posts no completion.
PipeSwapWindows(p) ==
    /\ Goto(p, "swapping", "checkClose")
    /\ IF OpenWins(p) = {} THEN UNCHANGED swapComplete ELSE Release(swapComplete, p)
    /\ UNCHANGED <<kernelVars, managerVars, drawVars, mControlExit, renderVars,
                   swapTrigger, windowVars, clusterVars>>
PipeSwap(p) ==
    /\ Goto(p, "swapping", "checkClose")
    /\ Release(swapComplete, p)
    /\ UNCHANGED <<kernelVars, managerVars, drawVars, mControlExit, renderVars,
                   swapTrigger, windowVars, clusterVars>>

\* checkForWindowsToClose(): the test outside the locks, the loop, its end.
PipeCheckClose(p) ==
    /\ Goto(p, "checkClose", IF ClosingWins(p) = {} THEN "checkNew" ELSE "closing")
    /\ UNCHANGED <<kernelVars, managerVars, drawVars, mControlExit, semaVars,
                   windowVars, clusterVars>>

\* contextClose() of the current application, close(), removal from both lists.
PipeCloseWin(p, w) ==
    /\ ppc[p] = "closing" /\ w \in ClosingWins(p)
    /\ closing' = [closing EXCEPT ![w] = @ - 1]
    /\ place' = Removed(w)
    /\ ctxApp' = [ctxApp EXCEPT ![w] = NoApp]
    /\ UNCHANGED <<kernelVars, managerVars, drawVars, pipeVars, dirty, clusterVars>>

PipeCloseEnd(p) ==
    /\ Goto(p, "closing", "checkNew") /\ ClosingWins(p) = {}
    /\ UNCHANGED <<kernelVars, managerVars, drawVars, mControlExit, semaVars,
                   windowVars, clusterVars>>

\* checkForNewWindows(): the test outside the locks; the cross-pipe lock.
PipeCheckNew(p) ==
    /\ \/ NewWins(p) = {} /\ Goto(p, "checkNew", "top")
       \/ /\ NewWins(p) # {} /\ Goto(p, "checkNew", "opening")
          /\ \A q \in Pipes : ppc[q] # "opening"
    /\ UNCHANGED <<kernelVars, managerVars, drawVars, mControlExit, semaVars,
                   windowVars, clusterVars>>

\* open() of one window: it may fail, and then the window is on no list.
PipeOpenWin(p, w) ==
    /\ ppc[p] = "opening" /\ w \in NewWins(p)
    /\ \/ place' = [place EXCEPT ![w] = "open"] /\ mWindowOpened' = TRUE
       \/ place' = [place EXCEPT ![w] = "none"] /\ UNCHANGED mWindowOpened
    /\ UNCHANGED <<kernelVars, managerVars, drawVars, pipeVars, closing, dirty,
                   ctxApp, pluginsReady>>

PipeOpenEnd(p) ==
    /\ Goto(p, "opening", "top") /\ NewWins(p) = {}
    /\ UNCHANGED <<kernelVars, managerVars, drawVars, mControlExit, semaVars,
                   windowVars, clusterVars>>

PipeThread(p) ==
    \/ PipeStart(p) \/ PipeTop(p)
    \/ PipeAcquireRender(p) \/ PipeRender(p) \/ PipeAcquireSwap(p) \/ PipeSwap(p)
    \/ PipeCheckClose(p) \/ PipeCloseEnd(p) \/ PipeCheckNew(p) \/ PipeOpenEnd(p)
    \/ \E w \in Windows : PipeCloseWin(p, w) \/ PipeOpenWin(p, w)

\* The cluster plugins become ready, or stop being so when a node is lost.
PluginsChange ==
    /\ ClusterActive
    /\ pluginsReady' = ~pluginsReady
    /\ UNCHANGED <<kernelVars, managerVars, drawVars, pipeVars, windowVars, mWindowOpened>>

Next == Kernel \/ DrawThread \/ (\E p \in Pipes : PipeThread(p)) \/ PluginsChange

Spec == Init /\ [][Next]_vars

\* The scheduler runs every thread that can run.  The kernel's loop goes on to the
\* next draw() whatever the configuration it was given in between.
FairSpec ==
    /\ Spec
    /\ WF_vars(Draw) /\ WF_vars(Sync) /\ WF_vars(Close /\ ~CloseAPI)
    /\ WF_vars(DrawThread)
    /\ \A p \in Pipes : WF_vars(PipeThread(p))

-----------------------------------------------------------------------------
(* Properties. *)

KernelPlaces == {"closed", "idle", "drawn", "closeWait", "stop", "stopRemove",
                 "stopRender", "stopSwap", "stopJoin"}
DrawPlaces == {"none", "wait", "trigRender", "waitRender", "trigSwap", "waitSwap",
               "exited"}
PipePlaces == {"none", "starting", "top", "renderWait", "rendering", "swapWait",
               "swapping", "checkClose", "closing", "checkNew", "opening", "exited"}

\* Every semaphore is used as a binary one: no trigger or completion is ever posted
\* twice before it is taken, in frames and in closeAPI().
TypeOK ==
    /\ kpc \in KernelPlaces /\ kidx \in 0 .. NumPipes /\ kwins \subseteq Windows
    /\ mApp \in Apps \cup {NoApp} /\ mWins \subseteq Windows /\ mRunning \in BOOLEAN
    /\ drawTrigger \in 0 .. 1 /\ drawDone \in 0 .. 1
    /\ dpc \in DrawPlaces /\ didx \in 0 .. NumPipes
    /\ ppc \in [Pipes -> PipePlaces] /\ mControlExit \in [Pipes -> BOOLEAN]
    /\ renderTrigger \in [Pipes -> 0 .. 1] /\ renderComplete \in [Pipes -> 0 .. 1]
    /\ swapTrigger \in [Pipes -> 0 .. 1] /\ swapComplete \in [Pipes -> 0 .. 1]
    /\ place \in [Windows -> {"none", "new", "open"}] /\ closing \in [Windows -> 0 .. 2]
    /\ dirty \in [Windows -> BOOLEAN] /\ ctxApp \in [Windows -> Apps \cup {NoApp}]
    /\ mWindowOpened \in BOOLEAN /\ pluginsReady \in BOOLEAN

\* drawAllPipes(): no pipe swaps its buffers while another has still to render the
\* frame, so the displays of a multi-pipe system change together.
SwapAfterAllRendered ==
    \A p, q \in Pipes :
        p # q /\ ppc[p] = "swapping" => ppc[q] # "rendering" /\ renderTrigger[q] = 0

\* main()'s comment: reconfiguration happens after drawDoneSema.release() because the
\* kernel triggers both.  While the kernel is between frames no pipe touches the
\* application or a swap chain, the draw thread waits, and no post is left over.
QuiescentBetweenFrames ==
    kpc = "idle" =>
        /\ dpc = "wait" /\ drawTrigger = 0 /\ drawDone = 0
        /\ \A p \in Pipes :
              /\ ppc[p] \notin {"rendering", "swapWait", "swapping"}
              /\ renderTrigger[p] + renderComplete[p] = 0
              /\ swapTrigger[p] + swapComplete[p] = 0

\* The assertions of completeRender(), triggerSwap() and completeSwap(): a pipe that
\* was told to render keeps its thread until the frame is over.
PipesRunThroughFrame ==
    dpc \in {"waitRender", "trigSwap", "waitSwap"} =>
        \A p \in Pipes : ppc[p] \notin {"starting", "exited"}

\* renderWindow(): what a display shows was drawn in a context that the current
\* application has initialised.  dirtyAllWindows() misses the windows that
\* removeDisplay() has taken off mWins: only a display that is queued for closing may
\* show what was drawn in a context of another application.
DrawnContextsInitialised ==
    \A w \in Windows :
        ppc[PipeOf[w]] \in {"swapWait", "swapping"} /\ place[w] = "open"
            => ctxApp[w] = mApp \/ (w \notin mWins /\ closing[w] > 0)

\* removeDisplay() against the two window lists: a window its pipe still has, but the
\* draw manager has not, is on its way out.
OrphansAreClosing ==
    \A w \in Windows : place[w] # "none" /\ w \notin mWins => closing[w] > 0

\* closeAPI() leaves nothing behind: no thread, no window on a list, no post on a
\* semaphore that a later initAPI() would find.
ClosedIsClean ==
    kpc = "closed" =>
        /\ dpc = "none" /\ drawTrigger = 0 /\ drawDone = 0 /\ mWins = {}
        /\ \A p \in Pipes : ppc[p] = "none" /\ ~mControlExit[p]
        /\ \A w \in Windows : place[w] = "none" /\ closing[w] = 0

\* draw() and sync(): once the cluster's plugins stay ready, every frame the kernel
\* starts comes to its end.
FramesComplete == <>[]pluginsReady => (kpc = "drawn" ~> kpc = "idle")

\* The plugins stay ready and the configuration stays S.
Settled(S) == <>[](pluginsReady /\ mWins = S)

\* controlLoop() with a cluster: a pipe loops without frames until the cluster is ready,
\* so the window that makes it ready is opened, and a pipe that waits for a trigger gets
\* one.  When things have settled, every window of the configuration is opened or given
\* up, and every window a pipe was asked to close is closed.
SettledWindowsHandled ==
    \A S \in SUBSET Windows :
        Settled(S) => \A w \in S : place[w] = "new" ~> place[w] # "new"
ClosingWindowsClosed ==
    \A S \in SUBSET Windows :
        Settled(S) => \A w \in Windows : closing[w] > 0 ~> closing[w] = 0

\* stop(): "Flag is set to tell pipe to stop rendering" and its thread is joined, so
\* closeAPI() returns.
CloseReturns == kpc = "closeWait" ~> kpc = "closed"
-----------------------------------------------------------------------------
(* The frames the pipes draw, as FrameLock sees them. *)

InFrame == dpc \in {"trigRender", "waitRender", "trigSwap", "waitSwap"}

LivePipes == {p \in Pipes : InFrame /\ Exists(p)}
RenderedPipes ==
    {p \in LivePipes : /\ renderTrigger[p] = 0 /\ ppc[p] # "rendering"
                       /\ dpc = "trigRender" => p < didx}
SwappedPipes ==
    {p \in LivePipes : /\ dpc \in {"trigSwap", "waitSwap"} /\ swapTrigger[p] = 0
                       /\ ppc[p] \notin {"swapWait", "swapping"}}

Frames == INSTANCE FrameLock WITH Screens <- Pipes, live <- LivePipes,
                                  rendered <- RenderedPipes, swapped <- SwappedPipes

\* drawAllPipes() with the pipes' control loops: every pipe renders and swaps exactly
\* once per frame, and all render before the first swaps.
ImplementsFrameLock == Frames!Spec

-----------------------------------------------------------------------------
(* The inductive invariant: where a pipe can be in its frame, given where the draw   *)
(* thread is.                                                                        *)

InDraw(p) == ppc[p] \in {"rendering", "swapWait", "swapping"}
Stopping  == kpc \in {"stop", "stopRemove", "stopRender", "stopSwap", "stopJoin"}

\* The posts on the four semaphores of a pipe.
Posts(p, rt, rc, st, sc) ==
    /\ renderTrigger[p] = rt /\ renderComplete[p] = rc
    /\ swapTrigger[p] = st /\ swapComplete[p] = sc

Parked(p)    == ~InDraw(p) /\ Posts(p, 0, 0, 0, 0)
Rendering(p) == \/ ~InDraw(p) /\ Posts(p, 1, 0, 0, 0)
                \/ ppc[p] = "rendering" /\ Posts(p, 0, 0, 0, 0)
                \/ ppc[p] = "swapWait" /\ Posts(p, 0, 1, 0, 0)
Rendered(p)  == ppc[p] = "swapWait" /\ Posts(p, 0, 0, 0, 0)
Swapping(p)  == \/ ppc[p] = "swapWait" /\ Posts(p, 0, 0, 1, 0)
                \/ ppc[p] = "swapping" /\ Posts(p, 0, 0, 0, 0)
                \/ ~InDraw(p) /\ Posts(p, 0, 0, 0, 1)

\* stop() posts both triggers and takes neither completion.
StopPosts(p) ==
    /\ renderTrigger[p] + renderComplete[p] \in 0 .. 1
    /\ ppc[p] = "rendering" => renderTrigger[p] + renderComplete[p] = 0
    /\ swapTrigger[p] + swapComplete[p] \in 0 .. 1
    /\ ppc[p] = "swapping" => swapTrigger[p] + swapComplete[p] = 0

KernelInv ==
    /\ kpc = "idle" => dpc = "wait" /\ drawTrigger = 0 /\ drawDone = 0 /\ mRunning
    /\ kpc = "drawn" =>
          /\ mRunning
          /\ \/ dpc = "wait" /\ drawTrigger + drawDone = 1
             \/ InFrame /\ drawTrigger = 0 /\ drawDone = 0
    /\ kpc = "closeWait" =>
          /\ ~mRunning
          /\ \/ dpc = "wait" /\ drawTrigger = 1 /\ drawDone = 0
             \/ dpc = "exited" /\ drawTrigger = 0 /\ drawDone = 1
    /\ kpc = "closed" \/ Stopping => dpc = "none" /\ drawTrigger = 0 /\ drawDone = 0
    /\ ~Stopping => kidx = 0
    /\ kpc = "closed" => \A p \in Pipes : ppc[p] = "none"

PipesInv ==
    /\ \A p, q \in Pipes : p < q /\ p >= kidx /\ Exists(q) => Exists(p)
    /\ \A p \in Pipes : p < kidx => ppc[p] = "none"
    /\ kpc \in {"stopRemove", "stopRender", "stopSwap", "stopJoin"} => Exists(kidx)
    /\ kpc \in {"stopSwap", "stopJoin"} => ppc[kidx] # "starting"
    /\ dpc \in {"waitRender", "trigSwap", "waitSwap"} => \A p \in Pipes : ppc[p] # "starting"
    /\ \A p \in Pipes :
          /\ ppc[p] = "exited" => mControlExit[p]
          /\ mControlExit[p] => p = kidx /\ kpc \in {"stopRender", "stopSwap", "stopJoin"}
          /\ ppc[p] \in {"none", "starting"} => Parked(p)

FrameInv ==
    \A p \in Pipes :
        /\ ~InFrame =>
              \/ Parked(p)
              \/ p = kidx /\ kpc = "stopSwap" /\ Rendering(p)
              \/ p = kidx /\ kpc = "stopJoin" /\ StopPosts(p)
        /\ dpc = "trigRender" => IF p < didx THEN Exists(p) /\ Rendering(p) ELSE Parked(p)
        /\ dpc = "waitRender" => IF p < didx THEN Rendered(p)
                                 ELSE IF Exists(p) THEN Rendering(p) ELSE Parked(p)
        /\ dpc = "trigSwap" => IF p < didx THEN Exists(p) /\ Swapping(p)
                               ELSE IF Exists(p) THEN Rendered(p) ELSE Parked(p)
        /\ dpc = "waitSwap" => IF p < didx THEN Parked(p)
                               ELSE IF Exists(p) THEN Swapping(p) ELSE Parked(p)

\* What the window lists, the dirty flags and the pipes say of each other.
WindowInv ==
    /\ kpc # "stopRemove" => kwins = {}
    /\ \A w \in kwins : PipeOf[w] = kidx
    /\ \A w \in Windows :
          /\ place[w] # "none" \/ closing[w] > 0 => Exists(PipeOf[w])
          /\ w \in mWins => Exists(PipeOf[w]) \/ Stopping
          /\ closing[w] > 1 \/ (closing[w] > 0 /\ w \in mWins) =>
                Stopping /\ kpc # "stop" /\ PipeOf[w] = kidx /\ w \notin kwins
          /\ w \in mWins /\ place[w] # "none" /\ ~dirty[w] => ctxApp[w] = mApp
          /\ ppc[PipeOf[w]] \in {"swapWait", "swapping"} /\ place[w] = "open" => ~dirty[w]

\* Everything the proofs need at once: the types and what the threads know of each
\* other at every point of a frame and of a shutdown.
IInv == TypeOK /\ KernelInv /\ PipesInv /\ FrameInv /\ WindowInv /\ OrphansAreClosing
=============================================================================
