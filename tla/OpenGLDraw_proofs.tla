-------------------------- MODULE OpenGLDraw_proofs --------------------------
(***************************************************************************)
(* Proofs about OpenGLDraw, for any number of pipes, windows and           *)
(* applications, with or without a cluster, frames and shutdown included.  *)
(* IInv is inductive: one lemma for each of its parts shows that every     *)
(* step keeps it, with a step per action, and the properties follow from   *)
(* it.  In every proof the vars tuples are expanded, so that UNCHANGED     *)
(* reads as one equation per variable.                                     *)
(***************************************************************************)
EXTENDS OpenGLDraw, TLAPS

-----------------------------------------------------------------------------
(* IInv is inductive. *)

\* The constructors establish it.
LEMMA InitIInv == Init => IInv
<1> SUFFICES ASSUME Init PROVE IInv
  OBVIOUS
<1> USE PipesAssumption, WindowsAssumption, AppsAssumption DEF Init
<1>1. TypeOK
  <2>1. kpc \in KernelPlaces /\ kidx \in 0 .. NumPipes /\ kwins \subseteq Windows
    BY DEF KernelPlaces
  <2>2. mApp \in Apps \cup {NoApp} /\ mWins \subseteq Windows /\ mRunning \in BOOLEAN
    OBVIOUS
  <2>3. /\ drawTrigger \in 0 .. 1 /\ drawDone \in 0 .. 1 /\ dpc \in DrawPlaces
        /\ didx \in 0 .. NumPipes
    BY DEF DrawPlaces
  <2>4. ppc \in [Pipes -> PipePlaces] /\ mControlExit \in [Pipes -> BOOLEAN]
    BY DEF PipePlaces
  <2>5. renderTrigger \in [Pipes -> 0 .. 1] /\ renderComplete \in [Pipes -> 0 .. 1]
    /\ swapTrigger \in [Pipes -> 0 .. 1] /\ swapComplete \in [Pipes -> 0 .. 1]
    OBVIOUS
  <2>6. place \in [Windows -> {"none", "new", "open"}] /\ closing \in [Windows -> 0 .. 2]
    OBVIOUS
  <2>7. dirty \in [Windows -> BOOLEAN] /\ ctxApp \in [Windows -> Apps \cup {NoApp}]
    OBVIOUS
  <2>8. mWindowOpened \in BOOLEAN /\ pluginsReady \in BOOLEAN
    OBVIOUS
  <2> QED BY <2>1, <2>2, <2>3, <2>4, <2>5, <2>6, <2>7, <2>8 DEF TypeOK
<1>2. KernelInv /\ PipesInv
  BY DEF KernelInv, PipesInv, Exists, Parked, InDraw, Posts, InFrame, Stopping, Pipes
<1>3. FrameInv
  BY DEF FrameInv, Parked, InDraw, Posts, InFrame
<1>4. WindowInv /\ OrphansAreClosing
  BY DEF WindowInv, OrphansAreClosing
<1> QED BY <1>1, <1>2, <1>3, <1>4 DEF IInv

\* Types and the bounds of the semaphores: a post is made only where the frame's
\* position says that the semaphore is empty.
LEMMA TypeStep == IInv /\ Next => TypeOK'
<1> SUFFICES ASSUME IInv, Next PROVE TypeOK'
  OBVIOUS
<1> USE PipesAssumption, WindowsAssumption, AppsAssumption
    DEF IInv, TypeOK, KernelPlaces, DrawPlaces, PipePlaces, Pipes, Acquire, Release, vars, kernelVars,
           managerVars, drawVars, renderVars, swapVars, semaVars, pipeVars,
           windowVars, clusterVars
<1>1. ASSUME NEW a \in Apps, StartAPI(a) PROVE TypeOK'
  BY <1>1 DEF StartAPI
<1>2. ASSUME NEW a \in Apps, SetApp(a) PROVE TypeOK'
  BY <1>2 DEF SetApp, dirtyAllWindows
<1>3. ASSUME NEW w \in Windows, AddDisplay(w) PROVE TypeOK'
  BY <1>3 DEF AddDisplay
<1>4. ASSUME NEW w \in Windows, RemoveDisplay(w) PROVE TypeOK'
  <2>1. ~Stopping /\ w \in mWins
    BY <1>4 DEF RemoveDisplay, Stopping
  <2>2. closing[w] = 0
    BY <2>1 DEF WindowInv
  <2> QED BY <1>4, <2>2 DEF RemoveDisplay
<1>5. CASE Draw
  BY <1>5 DEF Draw, KernelInv
<1>6. CASE Sync
  BY <1>6 DEF Sync, KernelInv
<1>7. CASE CloseAPI
  <2>1. drawTrigger = 0
    BY <1>7 DEF CloseAPI, KernelInv
  <2>2. mRunning' \in BOOLEAN
    BY <1>7, Zenon DEF CloseAPI
  <2>3. kpc' \in KernelPlaces /\ drawTrigger' \in 0 .. 1
    BY <1>7, <2>1 DEF CloseAPI
  <2>4. UNCHANGED <<kidx, kwins, mApp, mWins, drawDone, dpc, didx, pipeVars,
                    windowVars, clusterVars>>
    BY <1>7 DEF CloseAPI
  <2> QED BY <2>2, <2>3, <2>4
<1>8. CASE CloseJoinDraw
  BY <1>8 DEF CloseJoinDraw, KernelInv
<1>9. CASE StopCopy
  BY <1>9 DEF StopCopy, OpenWins, OnPipe, Exists
<1>10. CASE StopExit
  BY <1>10 DEF StopExit
<1>11. ASSUME NEW w \in Windows, StopRemove(w) PROVE TypeOK'
  <2>1. closing[w] \in 0 .. 1
    BY <1>11 DEF StopRemove, WindowInv
  <2> QED BY <1>11, <2>1 DEF StopRemove
<1>12. CASE StopTriggerRender
  BY <1>12 DEF StopTriggerRender, KernelInv, PipesInv, FrameInv, Stopping, InFrame,
         Exists, Parked, Rendering, Rendered, Swapping, StopPosts, Posts, InDraw
<1>13. CASE StopTriggerSwap
  BY <1>13 DEF StopTriggerSwap, KernelInv, PipesInv, FrameInv, Stopping, InFrame,
         Exists, Parked, Rendering, Rendered, Swapping, StopPosts, Posts, InDraw
<1>14. CASE StopJoin
  BY <1>14 DEF StopJoin, PipesInv, Exists
<1>15. CASE CloseDone
  BY <1>15 DEF CloseDone
<1>16. CASE DrawWake
  BY <1>16 DEF DrawWake, KernelInv
<1>17. CASE DrawStop
  <2>1. drawDone = 0
    BY <1>17 DEF DrawStop, KernelInv, Stopping, InFrame
  <2> QED BY <1>17, <2>1 DEF DrawStop
<1>18. CASE TriggerRender
  BY <1>18 DEF TriggerRender, KernelInv, PipesInv, FrameInv, Stopping, InFrame,
         Exists, Parked, Rendering, Rendered, Swapping, StopPosts, Posts, InDraw,
         Running
<1>19. CASE CompleteRender
  BY <1>19 DEF CompleteRender, Exists
<1>20. CASE TriggerSwap
  BY <1>20 DEF TriggerSwap, KernelInv, PipesInv, FrameInv, Stopping, InFrame, Exists,
         Parked, Rendering, Rendered, Swapping, StopPosts, Posts, InDraw
<1>21. CASE CompleteSwap
  BY <1>21 DEF CompleteSwap, Exists
<1>22. CASE
             \/ LoopEnd("trigRender", "waitRender", 0)
             \/ LoopEnd("waitRender", "trigSwap", 0)
             \/ LoopEnd("trigSwap", "waitSwap", 0)
             \/ LoopEnd("waitSwap", "wait", 1)
  <2>1. InFrame => drawDone = 0
    BY DEF KernelInv, InFrame, Stopping
  <2> QED BY <1>22, <2>1 DEF LoopEnd, InFrame
<1>23. ASSUME NEW p \in Pipes, PipeAcquireRender(p) PROVE TypeOK'
  BY <1>23 DEF PipeAcquireRender, Goto
<1>24. ASSUME NEW p \in Pipes, PipeRender(p) PROVE TypeOK'
  <2>1. ppc[p] = "rendering"
    BY <1>24 DEF PipeRender, Goto
  <2>2. Rendering(p) \/ StopPosts(p)
    BY <2>1 DEF FrameInv, KernelInv, Stopping, InFrame, InDraw, Parked, Rendered,
           Swapping
  <2>3. renderTrigger[p] \in 0 .. 1 /\ renderComplete[p] \in 0 .. 1
    OBVIOUS
  <2>4. renderComplete[p] = 0
    <3> HIDE DEF TypeOK
    <3> QED BY <2>1, <2>2, <2>3 DEF Rendering, StopPosts, Posts, InDraw
  <2>5. ctxApp' \in [Windows -> Apps \cup {NoApp}]
    BY <1>24 DEF PipeRender
  <2>6. dirty' \in [Windows -> BOOLEAN]
    BY <1>24 DEF PipeRender
  <2>7. ppc' \in [Pipes -> PipePlaces] /\ renderComplete' \in [Pipes -> 0 .. 1]
    BY <1>24, <2>4 DEF PipeRender, Goto
  <2> QED BY <1>24, <2>5, <2>6, <2>7 DEF PipeRender
<1>25. ASSUME NEW p \in Pipes, PipeAcquireSwap(p) PROVE TypeOK'
  BY <1>25 DEF PipeAcquireSwap, Goto
<1>26. ASSUME NEW p \in Pipes, PipeSwap(p) PROVE TypeOK'
  <2>1. ppc[p] = "swapping"
    BY <1>26 DEF PipeSwap, Goto
  <2>2. Swapping(p) \/ StopPosts(p)
    BY <2>1 DEF FrameInv, KernelInv, Stopping, InFrame, InDraw, Parked, Rendering,
           Rendered
  <2>3. swapTrigger[p] \in 0 .. 1 /\ swapComplete[p] \in 0 .. 1
    OBVIOUS
  <2>4. swapComplete[p] = 0
    <3> HIDE DEF TypeOK
    <3> QED BY <2>1, <2>2, <2>3 DEF Swapping, StopPosts, Posts, InDraw
  <2> QED BY <1>26, <2>4 DEF PipeSwap, Goto
<1>27. ASSUME NEW p \in Pipes,
             \/ PipeStart(p)
             \/ PipeTop(p)
             \/ PipeCheckClose(p)
             \/ PipeCloseEnd(p)
             \/ PipeCheckNew(p)
             \/ PipeOpenEnd(p)
      PROVE TypeOK'
  BY <1>27 DEF PipeStart, PipeTop, PipeCheckClose, PipeCloseEnd, PipeCheckNew,
         PipeOpenEnd, Goto
<1>28. ASSUME NEW p \in Pipes, NEW w \in Windows, PipeCloseWin(p, w)
      PROVE TypeOK'
  BY <1>28 DEF PipeCloseWin, ClosingWins, OnPipe, Removed
<1>29. ASSUME NEW p \in Pipes, NEW w \in Windows, PipeOpenWin(p, w)
      PROVE TypeOK'
  <2>1. mWindowOpened' \in BOOLEAN
    BY <1>29, Zenon DEF PipeOpenWin
  <2>2. place' \in [Windows -> {"none", "new", "open"}]
    BY <1>29 DEF PipeOpenWin
  <2>3. UNCHANGED <<kernelVars, managerVars, drawVars, pipeVars, closing, dirty, ctxApp,
                    pluginsReady>>
    BY <1>29 DEF PipeOpenWin
  <2> QED BY <2>1, <2>2, <2>3
<1>30. CASE PluginsChange
  BY <1>30 DEF PluginsChange
<1> QED BY <1>1, <1>2, <1>3, <1>4, <1>5, <1>6, <1>7, <1>8, <1>9, <1>10, <1>11, <1>12,
           <1>13, <1>14, <1>15, <1>16, <1>17, <1>18, <1>19, <1>20, <1>21, <1>22,
           <1>23, <1>24, <1>25, <1>26, <1>27, <1>28, <1>29, <1>30
        DEF Next, Kernel, Close, DrawThread, PipeThread

\* What the kernel knows of the draw thread at each point of its loop and of
\* closeAPI().
LEMMA KernelStep == IInv /\ Next => KernelInv'
<1> SUFFICES ASSUME IInv, Next PROVE KernelInv'
  OBVIOUS
<1> USE PipesAssumption, WindowsAssumption, AppsAssumption
    DEF IInv, TypeOK, KernelPlaces, DrawPlaces, PipePlaces, Pipes, KernelInv,
           PipesInv, FrameInv, Stopping, InFrame, Exists, Parked, Rendering, Rendered,
           Swapping, StopPosts, Posts, InDraw, Acquire, Release, vars, kernelVars, managerVars,
           drawVars, renderVars, swapVars, semaVars, pipeVars, windowVars, clusterVars
<1>1. ASSUME NEW a \in Apps, StartAPI(a) PROVE KernelInv'
  BY <1>1 DEF StartAPI
<1>2. ASSUME NEW a \in Apps, SetApp(a) PROVE KernelInv'
  BY <1>2 DEF SetApp, dirtyAllWindows
<1>3. ASSUME NEW w \in Windows, AddDisplay(w) PROVE KernelInv'
  BY <1>3 DEF AddDisplay
<1>4. ASSUME NEW w \in Windows, RemoveDisplay(w) PROVE KernelInv'
  BY <1>4 DEF RemoveDisplay
<1>5. CASE Draw \/ Sync
  BY <1>5 DEF Draw, Sync
<1>6. CASE CloseAPI \/ CloseJoinDraw
  BY <1>6 DEF CloseAPI, CloseJoinDraw
<1>7. CASE StopCopy \/ StopExit
  BY <1>7 DEF StopCopy, StopExit
<1>8. ASSUME NEW w \in Windows, StopRemove(w) PROVE KernelInv'
  BY <1>8 DEF StopRemove
<1>9. CASE StopTriggerRender \/ StopTriggerSwap
  BY <1>9 DEF StopTriggerRender, StopTriggerSwap
<1>10. CASE StopJoin
  BY <1>10 DEF StopJoin
<1>11. CASE CloseDone
  BY <1>11 DEF CloseDone
<1>12. CASE DrawWake \/ DrawStop
  BY <1>12 DEF DrawWake, DrawStop
<1>13. CASE TriggerRender \/ CompleteRender
  BY <1>13 DEF TriggerRender, CompleteRender, Running
<1>14. CASE TriggerSwap \/ CompleteSwap
  BY <1>14 DEF TriggerSwap, CompleteSwap
<1>15. CASE
             \/ LoopEnd("trigRender", "waitRender", 0)
             \/ LoopEnd("waitRender", "trigSwap", 0)
             \/ LoopEnd("trigSwap", "waitSwap", 0)
             \/ LoopEnd("waitSwap", "wait", 1)
  BY <1>15 DEF LoopEnd
<1>16. ASSUME NEW p \in Pipes, PipeAcquireRender(p) PROVE KernelInv'
  BY <1>16 DEF PipeAcquireRender, Goto
<1>17. ASSUME NEW p \in Pipes, PipeRender(p) PROVE KernelInv'
  BY <1>17 DEF PipeRender, Goto
<1>18. ASSUME NEW p \in Pipes, PipeAcquireSwap(p) \/ PipeSwap(p) PROVE KernelInv'
  BY <1>18 DEF PipeAcquireSwap, PipeSwap, Goto
<1>19. ASSUME NEW p \in Pipes,
             \/ PipeStart(p)
             \/ PipeTop(p)
             \/ PipeCheckClose(p)
             \/ PipeCloseEnd(p)
             \/ PipeCheckNew(p)
             \/ PipeOpenEnd(p)
      PROVE KernelInv'
  BY <1>19 DEF PipeStart, PipeTop, PipeCheckClose, PipeCloseEnd, PipeCheckNew,
         PipeOpenEnd, Goto
<1>20. ASSUME NEW p \in Pipes, NEW w \in Windows, PipeCloseWin(p, w)
      PROVE KernelInv'
  BY <1>20 DEF PipeCloseWin, Removed
<1>21. ASSUME NEW p \in Pipes, NEW w \in Windows, PipeOpenWin(p, w)
      PROVE KernelInv'
  BY <1>21 DEF PipeOpenWin
<1>22. CASE PluginsChange
  BY <1>22 DEF PluginsChange
<1> QED BY <1>1, <1>2, <1>3, <1>4, <1>5, <1>6, <1>7, <1>8, <1>9, <1>10, <1>11, <1>12,
           <1>13, <1>14, <1>15, <1>16, <1>17, <1>18, <1>19, <1>20, <1>21, <1>22
        DEF Next, Kernel, Close, DrawThread, PipeThread

\* Which pipes exist, and which of them can have left their control loop.
LEMMA PipesStep == IInv /\ Next => PipesInv'
<1> SUFFICES ASSUME IInv, Next PROVE PipesInv'
  OBVIOUS
<1> USE PipesAssumption, WindowsAssumption, AppsAssumption
    DEF IInv, TypeOK, KernelPlaces, DrawPlaces, PipePlaces, Pipes, KernelInv,
           PipesInv, FrameInv, Stopping, InFrame, Exists, Parked, Rendering, Rendered,
           Swapping, StopPosts, Posts, InDraw, Acquire, Release, vars, kernelVars, managerVars,
           drawVars, renderVars, swapVars, semaVars, pipeVars, windowVars, clusterVars
<1>1. ASSUME NEW a \in Apps, StartAPI(a) PROVE PipesInv'
  BY <1>1 DEF StartAPI
<1>2. ASSUME NEW a \in Apps, SetApp(a) PROVE PipesInv'
  BY <1>2 DEF SetApp, dirtyAllWindows
<1>3. ASSUME NEW w \in Windows, AddDisplay(w) PROVE PipesInv'
  BY <1>3 DEF AddDisplay
<1>4. ASSUME NEW w \in Windows, RemoveDisplay(w) PROVE PipesInv'
  BY <1>4 DEF RemoveDisplay
<1>5. CASE Draw \/ Sync
  BY <1>5 DEF Draw, Sync
<1>6. CASE CloseAPI \/ CloseJoinDraw
  BY <1>6 DEF CloseAPI, CloseJoinDraw
<1>7. CASE StopCopy \/ StopExit
  BY <1>7 DEF StopCopy, StopExit
<1>8. ASSUME NEW w \in Windows, StopRemove(w) PROVE PipesInv'
  BY <1>8 DEF StopRemove
<1>9. CASE StopTriggerRender \/ StopTriggerSwap
  BY <1>9 DEF StopTriggerRender, StopTriggerSwap, Running
<1>10. CASE StopJoin
  BY <1>10 DEF StopJoin
<1>11. CASE CloseDone
  BY <1>11 DEF CloseDone
<1>12. CASE DrawWake \/ DrawStop
  BY <1>12 DEF DrawWake, DrawStop
<1>13. CASE TriggerRender \/ CompleteRender
  BY <1>13 DEF TriggerRender, CompleteRender, Running
<1>14. CASE TriggerSwap \/ CompleteSwap
  BY <1>14 DEF TriggerSwap, CompleteSwap
<1>15. CASE
             \/ LoopEnd("trigRender", "waitRender", 0)
             \/ LoopEnd("waitRender", "trigSwap", 0)
             \/ LoopEnd("trigSwap", "waitSwap", 0)
             \/ LoopEnd("waitSwap", "wait", 1)
  BY <1>15 DEF LoopEnd
<1>16. ASSUME NEW p \in Pipes, PipeAcquireRender(p) PROVE PipesInv'
  BY <1>16 DEF PipeAcquireRender, Goto
<1>17. ASSUME NEW p \in Pipes, PipeRender(p) PROVE PipesInv'
  BY <1>17 DEF PipeRender, Goto
<1>18. ASSUME NEW p \in Pipes, PipeAcquireSwap(p) \/ PipeSwap(p) PROVE PipesInv'
  BY <1>18 DEF PipeAcquireSwap, PipeSwap, Goto
<1>19. ASSUME NEW p \in Pipes,
             \/ PipeStart(p)
             \/ PipeTop(p)
             \/ PipeCheckClose(p)
             \/ PipeCloseEnd(p)
             \/ PipeCheckNew(p)
             \/ PipeOpenEnd(p)
      PROVE PipesInv'
  <2>1. CASE PipeStart(p)
    BY <2>1 DEF PipeStart, Goto
  <2>2. CASE PipeTop(p)
    BY <2>2 DEF PipeTop, Goto
  <2>3. CASE PipeCheckClose(p) \/ PipeCloseEnd(p)
    BY <2>3 DEF PipeCheckClose, PipeCloseEnd, Goto
  <2>4. CASE PipeCheckNew(p) \/ PipeOpenEnd(p)
    BY <2>4 DEF PipeCheckNew, PipeOpenEnd, Goto
  <2> QED BY <1>19, <2>1, <2>2, <2>3, <2>4
<1>20. ASSUME NEW p \in Pipes, NEW w \in Windows, PipeCloseWin(p, w)
      PROVE PipesInv'
  BY <1>20 DEF PipeCloseWin, Removed
<1>21. ASSUME NEW p \in Pipes, NEW w \in Windows, PipeOpenWin(p, w)
      PROVE PipesInv'
  BY <1>21 DEF PipeOpenWin
<1>22. CASE PluginsChange
  BY <1>22 DEF PluginsChange
<1> QED BY <1>1, <1>2, <1>3, <1>4, <1>5, <1>6, <1>7, <1>8, <1>9, <1>10, <1>11, <1>12,
           <1>13, <1>14, <1>15, <1>16, <1>17, <1>18, <1>19, <1>20, <1>21, <1>22
        DEF Next, Kernel, Close, DrawThread, PipeThread

\* Where each pipe is in its frame, given where the draw thread is.
LEMMA FrameStep == IInv /\ Next => FrameInv'
<1> SUFFICES ASSUME IInv, Next PROVE FrameInv'
  OBVIOUS
<1> USE PipesAssumption, WindowsAssumption, AppsAssumption
    DEF IInv, TypeOK, KernelPlaces, DrawPlaces, PipePlaces, Pipes, KernelInv,
           PipesInv, FrameInv, Stopping, InFrame, Exists, Parked, Rendering, Rendered,
           Swapping, StopPosts, Posts, InDraw, Acquire, Release, vars, kernelVars, managerVars,
           drawVars, renderVars, swapVars, semaVars, pipeVars, windowVars, clusterVars
<1>1. ASSUME NEW a \in Apps, StartAPI(a) PROVE FrameInv'
  BY <1>1 DEF StartAPI
<1>2. ASSUME NEW a \in Apps, SetApp(a) PROVE FrameInv'
  BY <1>2 DEF SetApp, dirtyAllWindows
<1>3. ASSUME NEW w \in Windows, AddDisplay(w) PROVE FrameInv'
  BY <1>3 DEF AddDisplay
<1>4. ASSUME NEW w \in Windows, RemoveDisplay(w) PROVE FrameInv'
  BY <1>4 DEF RemoveDisplay
<1>5. CASE Draw \/ Sync
  BY <1>5 DEF Draw, Sync
<1>6. CASE CloseAPI \/ CloseJoinDraw
  BY <1>6 DEF CloseAPI, CloseJoinDraw
<1>7. CASE StopCopy \/ StopExit
  BY <1>7 DEF StopCopy, StopExit
<1>8. ASSUME NEW w \in Windows, StopRemove(w) PROVE FrameInv'
  BY <1>8 DEF StopRemove
<1>9. CASE StopTriggerRender \/ StopTriggerSwap
  BY <1>9 DEF StopTriggerRender, StopTriggerSwap, Running
<1>10. CASE StopJoin
  BY <1>10 DEF StopJoin
<1>11. CASE CloseDone
  BY <1>11 DEF CloseDone
<1>12. CASE DrawWake \/ DrawStop
  BY <1>12 DEF DrawWake, DrawStop
<1>13. CASE TriggerRender \/ CompleteRender
  BY <1>13 DEF TriggerRender, CompleteRender, Running
<1>14. CASE TriggerSwap \/ CompleteSwap
  BY <1>14 DEF TriggerSwap, CompleteSwap
<1>15. CASE
             \/ LoopEnd("trigRender", "waitRender", 0)
             \/ LoopEnd("waitRender", "trigSwap", 0)
             \/ LoopEnd("trigSwap", "waitSwap", 0)
             \/ LoopEnd("waitSwap", "wait", 1)
  BY <1>15 DEF LoopEnd
<1>16. ASSUME NEW p \in Pipes, PipeAcquireRender(p) PROVE FrameInv'
  BY <1>16 DEF PipeAcquireRender, Goto
<1>17. ASSUME NEW p \in Pipes, PipeRender(p) PROVE FrameInv'
  BY <1>17 DEF PipeRender, Goto
<1>18. ASSUME NEW p \in Pipes, PipeAcquireSwap(p) \/ PipeSwap(p) PROVE FrameInv'
  BY <1>18 DEF PipeAcquireSwap, PipeSwap, Goto
<1>19. ASSUME NEW p \in Pipes,
             \/ PipeStart(p)
             \/ PipeTop(p)
             \/ PipeCheckClose(p)
             \/ PipeCloseEnd(p)
             \/ PipeCheckNew(p)
             \/ PipeOpenEnd(p)
      PROVE FrameInv'
  BY <1>19, SMTT(30) DEF PipeStart, PipeTop, PipeCheckClose, PipeCloseEnd, PipeCheckNew,
         PipeOpenEnd, Goto
<1>20. ASSUME NEW p \in Pipes, NEW w \in Windows, PipeCloseWin(p, w)
      PROVE FrameInv'
  BY <1>20 DEF PipeCloseWin, Removed
<1>21. ASSUME NEW p \in Pipes, NEW w \in Windows, PipeOpenWin(p, w)
      PROVE FrameInv'
  BY <1>21 DEF PipeOpenWin
<1>22. CASE PluginsChange
  BY <1>22 DEF PluginsChange
<1> QED BY <1>1, <1>2, <1>3, <1>4, <1>5, <1>6, <1>7, <1>8, <1>9, <1>10, <1>11, <1>12,
           <1>13, <1>14, <1>15, <1>16, <1>17, <1>18, <1>19, <1>20, <1>21, <1>22
        DEF Next, Kernel, Close, DrawThread, PipeThread

\* The window lists against the pipes that own them, and the dirty flags.
LEMMA WindowStep == IInv /\ Next => WindowInv'
<1> SUFFICES ASSUME IInv, Next PROVE WindowInv'
  OBVIOUS
<1> USE PipesAssumption, WindowsAssumption, AppsAssumption
    DEF IInv, TypeOK, KernelPlaces, DrawPlaces, PipePlaces, Pipes, KernelInv,
           PipesInv, FrameInv, Stopping, InFrame, Exists, Parked, Rendering, Rendered,
           Swapping, StopPosts, Posts, InDraw, WindowInv, Acquire, Release, vars, kernelVars,
           managerVars, drawVars, renderVars, swapVars, semaVars, pipeVars,
           windowVars, clusterVars
<1>1. ASSUME NEW a \in Apps, StartAPI(a) PROVE WindowInv'
  BY <1>1 DEF StartAPI
<1>2. ASSUME NEW a \in Apps, SetApp(a) PROVE WindowInv'
  BY <1>2 DEF SetApp, dirtyAllWindows
<1>3. ASSUME NEW w \in Windows, AddDisplay(w) PROVE WindowInv'
  <2>1. /\ \A v \in Windows : Exists(PipeOf[v]) => Exists(PipeOf[v])'
        /\ Exists(PipeOf[w])'
    BY <1>3 DEF AddDisplay
  <2>2. \A v \in Windows : ppc'[PipeOf[v]] \in {"swapWait", "swapping"}
                               => ppc[PipeOf[v]] \in {"swapWait", "swapping"}
    BY <1>3 DEF AddDisplay
  <2> HIDE DEF Exists
  <2> QED BY <1>3, <2>1, <2>2 DEF AddDisplay, Unreferenced
<1>4. ASSUME NEW w \in Windows, RemoveDisplay(w) PROVE WindowInv'
  <2>1. /\ kpc = "idle" /\ w \in mWins /\ mWins' = mWins \ {w}
        /\ closing' = [closing EXCEPT ![w] = @ + 1]
        /\ UNCHANGED <<kpc, kwins, kidx, ppc, place, dirty, ctxApp, mApp>>
    BY <1>4 DEF RemoveDisplay
  <2>2. closing[w] = 0 /\ Exists(PipeOf[w])
    BY <2>1
  <2>3. closing'[w] = 1 /\ \A v \in Windows \ {w} : closing'[v] = closing[v]
    BY <2>1, <2>2
  <2> QED BY <2>1, <2>2, <2>3
<1>5. CASE Draw \/ Sync
  BY <1>5 DEF Draw, Sync
<1>6. CASE CloseAPI \/ CloseJoinDraw
  BY <1>6 DEF CloseAPI, CloseJoinDraw
<1>7. CASE StopCopy \/ StopExit
  BY <1>7 DEF StopCopy, StopExit, OpenWins, NewWins, ClosingWins, OnPipe
<1>8. ASSUME NEW w \in Windows, StopRemove(w) PROVE WindowInv'
  BY <1>8 DEF StopRemove
<1>9. CASE StopTriggerRender \/ StopTriggerSwap
  BY <1>9 DEF StopTriggerRender, StopTriggerSwap
<1>10. CASE StopJoin
  BY <1>10 DEF StopJoin
<1>11. CASE CloseDone
  BY <1>11 DEF CloseDone
<1>12. CASE DrawWake \/ DrawStop
  BY <1>12 DEF DrawWake, DrawStop
<1>13. CASE TriggerRender \/ CompleteRender
  BY <1>13 DEF TriggerRender, CompleteRender
<1>14. CASE TriggerSwap \/ CompleteSwap
  BY <1>14 DEF TriggerSwap, CompleteSwap
<1>15. CASE
             \/ LoopEnd("trigRender", "waitRender", 0)
             \/ LoopEnd("waitRender", "trigSwap", 0)
             \/ LoopEnd("trigSwap", "waitSwap", 0)
             \/ LoopEnd("waitSwap", "wait", 1)
  BY <1>15 DEF LoopEnd
<1>16. ASSUME NEW p \in Pipes, PipeAcquireRender(p) PROVE WindowInv'
  BY <1>16 DEF PipeAcquireRender, Goto
<1>17. ASSUME NEW p \in Pipes, PipeRender(p) PROVE WindowInv'
  <2>1. \A v \in Windows : Exists(PipeOf[v]) => Exists(PipeOf[v])'
    BY <1>17 DEF PipeRender, Goto
  <2>2. ASSUME NEW v \in Windows
        PROVE  /\ v \in mWins /\ place[v] # "none" /\ ~dirty'[v] => ctxApp'[v] = mApp
               /\ ppc'[PipeOf[v]] \in {"swapWait", "swapping"} /\ place[v] = "open"
                     => ~dirty'[v]
    <3>1. v \in OpenWins(p) <=> PipeOf[v] = p /\ place[v] = "open"
      BY DEF OpenWins, OnPipe
    <3>2. ppc'[PipeOf[v]] = IF PipeOf[v] = p THEN "swapWait" ELSE ppc[PipeOf[v]]
      BY <1>17 DEF PipeRender, Goto
    <3>3. CASE v \in OpenWins(p)
      <4>1. ~dirty'[v]
        BY <1>17, <3>3 DEF PipeRender
      <4>2. v \in mWins => ctxApp'[v] = mApp
        BY <1>17, <3>1, <3>3 DEF PipeRender
      <4> QED BY <4>1, <4>2
    <3>4. CASE v \notin OpenWins(p)
      <4>1. dirty'[v] = dirty[v] /\ ctxApp'[v] = ctxApp[v]
        BY <1>17, <3>4 DEF PipeRender
      <4> QED BY <4>1, <3>1, <3>2, <3>4
    <3> QED BY <3>3, <3>4
  <2> HIDE DEF Exists
  <2> QED BY <1>17, <2>1, <2>2 DEF PipeRender
<1>18. ASSUME NEW p \in Pipes, PipeAcquireSwap(p) \/ PipeSwap(p) PROVE WindowInv'
  BY <1>18 DEF PipeAcquireSwap, PipeSwap, Goto
<1>19. ASSUME NEW p \in Pipes,
             \/ PipeStart(p)
             \/ PipeTop(p)
             \/ PipeCheckClose(p)
             \/ PipeCloseEnd(p)
             \/ PipeCheckNew(p)
             \/ PipeOpenEnd(p)
      PROVE WindowInv'
  BY <1>19 DEF PipeStart, PipeTop, PipeCheckClose, PipeCloseEnd, PipeCheckNew,
         PipeOpenEnd, Goto, OpenWins, NewWins, ClosingWins, OnPipe
<1>20. ASSUME NEW p \in Pipes, NEW w \in Windows, PipeCloseWin(p, w)
      PROVE WindowInv'
  <2>1. closing[w] \in 1 .. 2 /\ closing' = [closing EXCEPT ![w] = closing[w] - 1]
    BY <1>20 DEF PipeCloseWin, ClosingWins, OnPipe, Removed
  <2> QED BY <1>20, <2>1 DEF PipeCloseWin, Removed
<1>21. ASSUME NEW p \in Pipes, NEW w \in Windows, PipeOpenWin(p, w)
      PROVE WindowInv'
  BY <1>21 DEF PipeOpenWin, OpenWins, NewWins, ClosingWins, OnPipe
<1>22. CASE PluginsChange
  BY <1>22 DEF PluginsChange
<1> QED BY <1>1, <1>2, <1>3, <1>4, <1>5, <1>6, <1>7, <1>8, <1>9, <1>10, <1>11, <1>12,
           <1>13, <1>14, <1>15, <1>16, <1>17, <1>18, <1>19, <1>20, <1>21, <1>22
        DEF Next, Kernel, Close, DrawThread, PipeThread

\* A window leaves mWins only together with a request to close it, or with its
\* pipe.
LEMMA OrphanStep == IInv /\ Next => OrphansAreClosing'
<1> SUFFICES ASSUME IInv, Next PROVE OrphansAreClosing'
  OBVIOUS
<1> USE PipesAssumption, WindowsAssumption, AppsAssumption
    DEF IInv, TypeOK, OrphansAreClosing, Acquire, Release, vars, kernelVars, managerVars, drawVars,
           renderVars, swapVars, semaVars, pipeVars, windowVars, clusterVars
<1>1. ASSUME NEW a \in Apps, StartAPI(a) PROVE OrphansAreClosing'
  BY <1>1 DEF StartAPI
<1>2. ASSUME NEW a \in Apps, SetApp(a) PROVE OrphansAreClosing'
  BY <1>2 DEF SetApp, dirtyAllWindows
<1>3. ASSUME NEW w \in Windows, AddDisplay(w) PROVE OrphansAreClosing'
  BY <1>3 DEF AddDisplay
<1>4. ASSUME NEW w \in Windows, RemoveDisplay(w) PROVE OrphansAreClosing'
  BY <1>4 DEF RemoveDisplay
<1>5. CASE Draw \/ Sync
  BY <1>5 DEF Draw, Sync
<1>6. CASE CloseAPI \/ CloseJoinDraw
  BY <1>6 DEF CloseAPI, CloseJoinDraw
<1>7. CASE StopCopy \/ StopExit
  BY <1>7 DEF StopCopy, StopExit
<1>8. ASSUME NEW w \in Windows, StopRemove(w) PROVE OrphansAreClosing'
  BY <1>8 DEF StopRemove
<1>9. CASE StopTriggerRender \/ StopTriggerSwap
  BY <1>9 DEF StopTriggerRender, StopTriggerSwap
<1>10. CASE StopJoin
  BY <1>10 DEF StopJoin
<1>11. CASE CloseDone
  <2>1. \A p \in Pipes : ~Exists(p)
    BY <1>11 DEF CloseDone, PipesInv, Exists, Pipes
  <2> QED BY <1>11, <2>1 DEF CloseDone, WindowInv
<1>12. CASE DrawWake \/ DrawStop
  BY <1>12 DEF DrawWake, DrawStop
<1>13. CASE TriggerRender \/ CompleteRender
  BY <1>13 DEF TriggerRender, CompleteRender
<1>14. CASE TriggerSwap \/ CompleteSwap
  BY <1>14 DEF TriggerSwap, CompleteSwap
<1>15. CASE
             \/ LoopEnd("trigRender", "waitRender", 0)
             \/ LoopEnd("waitRender", "trigSwap", 0)
             \/ LoopEnd("trigSwap", "waitSwap", 0)
             \/ LoopEnd("waitSwap", "wait", 1)
  BY <1>15 DEF LoopEnd
<1>16. ASSUME NEW p \in Pipes, PipeAcquireRender(p) PROVE OrphansAreClosing'
  BY <1>16 DEF PipeAcquireRender, Goto
<1>17. ASSUME NEW p \in Pipes, PipeRender(p) PROVE OrphansAreClosing'
  BY <1>17 DEF PipeRender, Goto
<1>18. ASSUME NEW p \in Pipes, PipeAcquireSwap(p) \/ PipeSwap(p) PROVE OrphansAreClosing'
  BY <1>18 DEF PipeAcquireSwap, PipeSwap, Goto
<1>19. ASSUME NEW p \in Pipes,
             \/ PipeStart(p)
             \/ PipeTop(p)
             \/ PipeCheckClose(p)
             \/ PipeCloseEnd(p)
             \/ PipeCheckNew(p)
             \/ PipeOpenEnd(p)
      PROVE OrphansAreClosing'
  BY <1>19 DEF PipeStart, PipeTop, PipeCheckClose, PipeCloseEnd, PipeCheckNew,
         PipeOpenEnd, Goto
<1>20. ASSUME NEW p \in Pipes, NEW w \in Windows, PipeCloseWin(p, w)
      PROVE OrphansAreClosing'
  BY <1>20 DEF PipeCloseWin, Removed
<1>21. ASSUME NEW p \in Pipes, NEW w \in Windows, PipeOpenWin(p, w)
      PROVE OrphansAreClosing'
  BY <1>21 DEF PipeOpenWin, NewWins, OnPipe
<1>22. CASE PluginsChange
  BY <1>22 DEF PluginsChange
<1> QED BY <1>1, <1>2, <1>3, <1>4, <1>5, <1>6, <1>7, <1>8, <1>9, <1>10, <1>11, <1>12,
           <1>13, <1>14, <1>15, <1>16, <1>17, <1>18, <1>19, <1>20, <1>21, <1>22
        DEF Next, Kernel, Close, DrawThread, PipeThread

\* Every reachable state of the manager, its pipes and its windows satisfies IInv.
THEOREM Invariance == Spec => []IInv
<1>1. IInv /\ [Next]_vars => IInv'
  <2> SUFFICES ASSUME IInv, [Next]_vars PROVE IInv'
    OBVIOUS
  <2>1. CASE Next
    BY <2>1, TypeStep, KernelStep, PipesStep, FrameStep, WindowStep, OrphanStep DEF
           IInv
  <2>2. CASE UNCHANGED vars
    BY <2>2 DEF Acquire, Release, vars, kernelVars, managerVars, drawVars, renderVars, swapVars,
           semaVars, pipeVars, windowVars, clusterVars, IInv, TypeOK, KernelInv,
           PipesInv, FrameInv, WindowInv, OrphansAreClosing, Stopping, InFrame,
           Exists, Parked, Rendering, Rendered, Swapping, StopPosts, Posts, InDraw
  <2> QED BY <2>1, <2>2
<1> QED BY InitIInv, <1>1, PTL DEF Spec

-----------------------------------------------------------------------------
(* The safety properties. *)

\* The types, and with them that all six semaphores are binary.
THEOREM TypeCorrect == Spec => []TypeOK
BY Invariance, PTL DEF IInv

\* Two pipes in a frame are both in its render half or both in its swap half.
LEMMA SwapSafe == IInv => SwapAfterAllRendered
<1> SUFFICES ASSUME IInv, NEW p \in Pipes, NEW q \in Pipes, p # q, ppc[p] = "swapping"
             PROVE  ppc[q] # "rendering" /\ renderTrigger[q] = 0
  BY DEF SwapAfterAllRendered
<1>1. CASE InFrame
  BY <1>1 DEF IInv, FrameInv, InFrame, Parked, Rendering, Rendered, Swapping, InDraw,
         Posts
<1>2. CASE ~InFrame
  BY <1>2 DEF IInv, FrameInv, Parked, Rendering, InDraw, Posts
<1> QED BY <1>1, <1>2

\* drawAllPipes(): no pipe swaps while another has still to render the frame.
THEOREM SwapSafety == Spec => []SwapAfterAllRendered
BY Invariance, SwapSafe, PTL

\* Between frames every pipe is parked.
LEMMA Quiescent == IInv => QuiescentBetweenFrames
BY DEF IInv, KernelInv, FrameInv, InFrame, Parked, InDraw, Posts,
       QuiescentBetweenFrames

\* main()'s comment on runtime configuration: it never meets a frame in progress.
THEOREM Quiescence == Spec => []QuiescentBetweenFrames
BY Invariance, Quiescent, PTL

\* A pipe that rendered has its thread until the frame is over.
LEMMA RunThrough == IInv => PipesRunThroughFrame
<1> SUFFICES ASSUME IInv, dpc \in {"waitRender", "trigSwap", "waitSwap"},
                    NEW p \in Pipes
             PROVE  ppc[p] \notin {"starting", "exited"}
  BY DEF PipesRunThroughFrame
<1>1. kpc = "drawn"
  BY DEF IInv, TypeOK, KernelInv, KernelPlaces, Stopping
<1>2. ppc[p] # "exited"
  BY <1>1 DEF IInv, PipesInv
<1>3. ppc[p] # "starting"
  BY DEF IInv, PipesInv
<1> QED BY <1>2, <1>3

\* The assertions of completeRender(), triggerSwap() and completeSwap() hold in frames.
THEOREM FrameAssertions == Spec => []PipesRunThroughFrame
BY Invariance, RunThrough, PTL

\* A context that is drawn is clean, and a clean context is the current application's.
LEMMA Initialised == IInv => DrawnContextsInitialised
<1> SUFFICES ASSUME IInv, NEW w \in Windows, place[w] = "open",
                    ppc[PipeOf[w]] \in {"swapWait", "swapping"}
             PROVE  ctxApp[w] = mApp \/ (w \notin mWins /\ closing[w] > 0)
  BY DEF DrawnContextsInitialised
<1>1. CASE w \in mWins
  BY <1>1, WindowsAssumption DEF IInv, TypeOK, WindowInv
<1>2. CASE w \notin mWins
  BY <1>2 DEF IInv, OrphansAreClosing
<1> QED BY <1>1, <1>2

\* renderWindow(): a display is drawn in a context the application initialised, or is
\* on its way out.
THEOREM ContextsInitialised == Spec => []DrawnContextsInitialised
BY Invariance, Initialised, PTL

\* removeDisplay(): no window is forgotten on a pipe.
THEOREM NoOrphans == Spec => []OrphansAreClosing
BY Invariance, PTL DEF IInv

\* Once every pipe is deleted no list and no semaphore keeps anything.
LEMMA Clean == IInv => ClosedIsClean
<1> SUFFICES ASSUME IInv, kpc = "closed" PROVE ClosedIsClean
  BY DEF ClosedIsClean
<1>1. dpc = "none" /\ drawTrigger = 0 /\ drawDone = 0 /\ \A p \in Pipes : ppc[p] = "none"
  BY DEF IInv, KernelInv
<1>2. \A p \in Pipes : ~mControlExit[p]
  BY DEF IInv, TypeOK, PipesInv
<1>3. mWins = {} /\ \A w \in Windows : place[w] = "none" /\ closing[w] = 0
  BY <1>1, WindowsAssumption DEF IInv, TypeOK, WindowInv, Exists, Stopping
<1> QED BY <1>1, <1>2, <1>3 DEF ClosedIsClean

\* closeAPI(): if it returns, a later initAPI() starts from the state of the constructor.
THEOREM CleanClose == Spec => []ClosedIsClean
BY Invariance, Clean, PTL

-----------------------------------------------------------------------------
(* OpenGLDraw implements FrameLock. *)

\* Between frames the three sets of FrameLock are empty.
LEMMA OutsideFrames == ~InFrame => LivePipes = {} /\ RenderedPipes = {} /\ SwappedPipes = {}
BY DEF LivePipes, RenderedPipes, SwappedPipes

\* Every step is a step of FrameLock or leaves its variables alone.
LEMMA FrameSteps == IInv /\ Next => Frames!Next \/ UNCHANGED Frames!vars
<1> SUFFICES ASSUME IInv, Next PROVE Frames!Next \/ UNCHANGED Frames!vars
  OBVIOUS
<1> USE PipesAssumption DEF IInv, TypeOK, PipesInv, KernelInv, FrameInv, Stopping,
           InFrame, Exists, Parked, Rendering, Rendered, Swapping, Posts, InDraw,
           LivePipes, RenderedPipes, SwappedPipes, Pipes, Frames!vars, Acquire, Release, vars,
           kernelVars, managerVars, drawVars, renderVars, swapVars, semaVars,
           pipeVars, windowVars, clusterVars
<1>1. CASE ~InFrame /\ ~InFrame'
  BY <1>1
<1>2. CASE DrawWake
  BY <1>2 DEF DrawWake, Frames!Next, Frames!Begin
<1>3. CASE LoopEnd("waitSwap", "wait", 1)
  BY <1>3 DEF LoopEnd, Frames!Next, Frames!End
<1>4. ASSUME NEW p \in Pipes, PipeRender(p), InFrame PROVE Frames!Render(p)
  BY <1>4 DEF PipeRender, Goto, Frames!Render
<1>5. ASSUME NEW p \in Pipes, PipeSwap(p), InFrame PROVE Frames!Swap(p)
  BY <1>5 DEF PipeSwap, Goto, Frames!Swap
<1>6. CASE LoopEnd("trigRender", "waitRender", 0)
  BY <1>6 DEF LoopEnd
<1>7. CASE LoopEnd("waitRender", "trigSwap", 0) \/ LoopEnd("trigSwap", "waitSwap", 0)
  BY <1>7 DEF LoopEnd
<1>8. CASE TriggerRender \/ CompleteRender
  BY <1>8 DEF TriggerRender, CompleteRender
<1>9. CASE TriggerSwap \/ CompleteSwap
  BY <1>9 DEF TriggerSwap, CompleteSwap
<1>10. ASSUME NEW p \in Pipes, InFrame, PipeAcquireRender(p) \/ PipeAcquireSwap(p)
       PROVE  UNCHANGED Frames!vars
  <2>1. CASE PipeAcquireRender(p)
    <3>1. LivePipes' = LivePipes
      BY <2>1 DEF PipeAcquireRender, Goto
    <3>2. RenderedPipes' = RenderedPipes
      BY <2>1 DEF PipeAcquireRender, Goto
    <3>3. SwappedPipes' = SwappedPipes
      BY <1>10, <2>1 DEF PipeAcquireRender, Goto
    <3> QED BY <3>1, <3>2, <3>3
  <2>2. CASE PipeAcquireSwap(p)
    <3>1. LivePipes' = LivePipes
      BY <2>2 DEF PipeAcquireSwap, Goto
    <3>2. RenderedPipes' = RenderedPipes
      BY <2>2 DEF PipeAcquireSwap, Goto
    <3>3. SwappedPipes' = SwappedPipes
      BY <2>2 DEF PipeAcquireSwap, Goto
    <3> QED BY <3>1, <3>2, <3>3
  <2> QED BY <1>10, <2>1, <2>2
<1>11. ASSUME NEW p \in Pipes, InFrame,
              \/ PipeStart(p) \/ PipeTop(p) \/ PipeCheckClose(p) \/ PipeCloseEnd(p)
              \/ PipeCheckNew(p) \/ PipeOpenEnd(p)
       PROVE  UNCHANGED Frames!vars
  <2>1. /\ UNCHANGED <<drawVars, semaVars>> /\ ~InDraw(p)
        /\ \E pc \in PipePlaces \ {"none", "rendering", "swapWait", "swapping"} :
              ppc' = [ppc EXCEPT ![p] = pc]
        /\ Exists(p)
    BY <1>11 DEF PipeStart, PipeTop, PipeCheckClose, PipeCloseEnd, PipeCheckNew,
           PipeOpenEnd, Goto, PipePlaces
  <2> QED BY <1>11, <2>1
<1>12. ASSUME NEW p \in Pipes, NEW w \in Windows, PipeCloseWin(p, w) \/ PipeOpenWin(p, w)
       PROVE  UNCHANGED Frames!vars
  <2>1. UNCHANGED <<drawVars, semaVars, ppc>>
    BY <1>12 DEF PipeCloseWin, PipeOpenWin
  <2> QED BY <2>1
<1>13. CASE Sync \/ PluginsChange
  BY <1>13 DEF Sync, PluginsChange
<1>14. CASE Kernel /\ InFrame
  <2>1. kpc = "drawn"
    BY <1>14 DEF KernelPlaces
  <2>2. Sync
    BY <1>14, <2>1 DEF Kernel, Close, StartAPI, SetApp, AddDisplay, RemoveDisplay,
           Draw, CloseAPI, CloseJoinDraw, StopCopy, StopRemove, StopExit,
           StopTriggerRender, StopTriggerSwap, StopJoin, CloseDone
  <2> QED BY <2>2, <1>13
<1>15. Kernel => InFrame' = InFrame
  BY DEF Kernel, Close, StartAPI, SetApp, AddDisplay, RemoveDisplay, Draw, Sync,
         CloseAPI, CloseJoinDraw, StopCopy, StopRemove, StopExit, StopTriggerRender,
         StopTriggerSwap, StopJoin, CloseDone
<1>16. DrawStop => ~InFrame /\ ~InFrame'
  BY DEF DrawStop
<1>17. ASSUME NEW p \in Pipes, PipeThread(p) PROVE InFrame' = InFrame
  BY <1>17 DEF PipeThread, PipeStart, PipeTop, PipeAcquireRender, PipeRender,
         PipeAcquireSwap, PipeSwap, PipeCheckClose, PipeCloseEnd, PipeCheckNew,
         PipeOpenEnd, PipeCloseWin, PipeOpenWin
<1> HIDE DEF IInv, TypeOK, PipesInv, KernelInv, FrameInv, InFrame, LivePipes,
           RenderedPipes, SwappedPipes, Frames!vars
<1>18. CASE Kernel
  BY <1>1, <1>14, <1>15, <1>18
<1>19. CASE DrawThread
  BY <1>1, <1>2, <1>3, <1>6, <1>7, <1>8, <1>9, <1>16, <1>19 DEF DrawThread
<1>20. ASSUME NEW p \in Pipes, PipeThread(p) PROVE Frames!Next \/ UNCHANGED Frames!vars
  BY <1>1, <1>4, <1>5, <1>10, <1>11, <1>12, <1>17, <1>20 DEF PipeThread, Frames!Next
<1> QED BY <1>13, <1>18, <1>19, <1>20 DEF Next

\* drawAllPipes() and controlLoop() together keep FrameLock's promise to the kernel.
THEOREM Refinement == Spec => ImplementsFrameLock
<1>1. Init => Frames!Init
  BY DEF Init, Frames!Init, InFrame, LivePipes, RenderedPipes, SwappedPipes
<1>2. IInv /\ [Next]_vars => [Frames!Next]_Frames!vars
  <2>1. UNCHANGED vars => UNCHANGED Frames!vars
    BY DEF vars, Frames!vars, InFrame, Exists, LivePipes, RenderedPipes, SwappedPipes,
           drawVars, pipeVars, semaVars, renderVars, swapVars
  <2> QED BY <2>1, FrameSteps
<1> QED BY <1>1, <1>2, Invariance, PTL DEF Spec, ImplementsFrameLock, Frames!Spec
=============================================================================
