---------------------------- MODULE Kernel_proofs ----------------------------
(***************************************************************************)
(* Proofs about Kernel, for any applications, draw managers, threads that  *)
(* make requests and threads that wait, with or without a cluster.  What   *)
(* changeApplication() promises holds where no draw manager rejects its    *)
(* application; the types hold without that assumption.  IInv is           *)
(* inductive: one lemma for each of its parts shows that every step keeps  *)
(* it, with a step per action.  In every proof the tuples of variables are *)
(* expanded, so that UNCHANGED reads as one equation per variable.         *)
(***************************************************************************)
EXTENDS Kernel, TLAPS

-----------------------------------------------------------------------------
(* IInv is inductive. *)

\* The constructor establishes it.
LEMMA InitIInv == Init => IInv
<1> SUFFICES ASSUME Init PROVE IInv
  OBVIOUS
<1> USE AppsAssumption DEF Init, FramePcs, SwitchPcs
<1>1. TypeOK /\ SwitchInv
  BY DEF TypeOK, SwitchInv, App!Callbacks, App!Before
<1>2. ManagersInv
  BY DEF ManagersInv, AppHasItsManagers, NoManagerOpen
<1>3. HandlersInv /\ CallsInv
  BY DEF HandlersInv, CallsInv
<1> QED BY <1>1, <1>2, <1>3 DEF IInv

\* Types.  What a switch stores is an application and its draw manager, because a switch
\* to NULL ends with exit().
LEMMA TypeStep == TypeOK /\ SwitchInv /\ Next => (TypeOK /\ SwitchInv)'
<1> SUFFICES ASSUME TypeOK, SwitchInv, Next PROVE (TypeOK /\ SwitchInv)'
  OBVIOUS
<1> USE AppsAssumption DEF TypeOK, SwitchInv, FramePcs, SwitchPcs, App!Callbacks, App!Before,
      At, Others, vars, requestVars, runVars, drawVars, switchVars, kernelVars,
      threadVars
<1>1. CASE BeginFrame
  BY <1>1 DEF BeginFrame, HasFrame, Leaves
<1>2. CASE SkipFrame
  BY <1>2 DEF SkipFrame, HasFrame, Leaves
<1>3. CASE preFrame
  BY <1>3 DEF preFrame, CallBack, Calls
<1>4. CASE latePreFrame
  BY <1>4 DEF latePreFrame, CallBack, Calls
<1>5. CASE draw
  BY <1>5 DEF draw, Calls
<1>6. CASE intraFrame
  BY <1>6 DEF intraFrame, CallBack, Calls
<1>7. CASE sync
  BY <1>7 DEF sync
<1>8. CASE postFrame
  BY <1>8 DEF postFrame, CallBack, Calls
<1>9. CASE LeaveLoop
  BY <1>9 DEF LeaveLoop, HasFrame, Leaves
<1>10. CASE EndLoop
  BY <1>10 DEF EndLoop, signal
<1>11. CASE TestNewAppSet
  BY <1>11 DEF TestNewAppSet
<1>12. CASE TestNewAppNull
  BY <1>12 DEF TestNewAppNull
<1>13. CASE TestDependencies
  BY <1>13 DEF TestDependencies
<1>14. CASE Refused
  BY <1>14 DEF Refused
<1>15. CASE ClearNewAppSet
  BY <1>15 DEF ClearNewAppSet
<1>16. CASE ReadNewApp
  BY <1>16 DEF ReadNewApp
<1>17. CASE ChangeToSame
  BY <1>17 DEF ChangeToSame
<1>18. CASE StopManagers
  BY <1>18 DEF StopManagers, StopsDrawManager
<1>19. CASE exit
  BY <1>19 DEF exit, ExitApplication, Deregister, Calls
<1>20. CASE startDrawManager
  BY <1>20 DEF startDrawManager
<1>21. CASE init
  BY <1>21 DEF init, CallBack, Calls
<1>22. CASE initAPI
  BY <1>22 DEF initAPI
<1>23. CASE apiInit
  BY <1>23 DEF apiInit, Calls
<1>24. CASE FinishChange
  BY <1>24 DEF FinishChange
<1>25. ASSUME NEW u \in Users, NEW a \in Apps \cup {NoApp}, setApplication(u, a)
      PROVE  (TypeOK /\ SwitchInv)'
  BY <1>25 DEF setApplication, StoreNewApp
<1>26. ASSUME NEW u \in Users, StoreNewAppSet(u) PROVE (TypeOK /\ SwitchInv)'
  BY <1>26 DEF StoreNewAppSet
<1>27. ASSUME NEW u \in Users, stop(u) PROVE (TypeOK /\ SwitchInv)'
  BY <1>27 DEF stop, signal
<1>28. ASSUME NEW u \in Users, StopApplication(u) PROVE (TypeOK /\ SwitchInv)'
  BY <1>28 DEF StopApplication, StoreNewApp
<1>29. ASSUME NEW w \in Waiters, waitForKernelStop(w) PROVE (TypeOK /\ SwitchInv)'
  BY <1>29 DEF waitForKernelStop
<1>30. CASE start
  BY <1>30 DEF start
<1>31. CASE StartThread
  BY <1>31 DEF StartThread
<1>32. CASE StartStopped
  BY <1>32 DEF StartStopped, signal
<1> QED BY <1>1, <1>2, <1>3, <1>4, <1>5, <1>6, <1>7, <1>8, <1>9, <1>10, <1>11,
           <1>12, <1>13, <1>14, <1>15, <1>16, <1>17, <1>18, <1>19, <1>20, <1>21,
           <1>22, <1>23, <1>24, <1>25, <1>26, <1>27, <1>28, <1>29, <1>30, <1>31,
           <1>32 DEF Next, KernelStep

\* The managers, where nothing is rejected: each part of changeApplication() finds what
\* the part before it has left.
LEMMA ManagersStep ==
  ASSUME Rejected = {}
  PROVE  IInv /\ Next => ManagersInv'
<1> SUFFICES ASSUME IInv, Next PROVE ManagersInv'
  OBVIOUS
<1> USE AppsAssumption, Rejected = {}
    DEF IInv, TypeOK, SwitchInv, ManagersInv, AppHasItsManagers, ManagerOpen, NoManagerOpen,
      FramePcs, SwitchPcs,
      At, Others, vars, requestVars, runVars, drawVars, switchVars, kernelVars,
      threadVars
<1>1. CASE BeginFrame
  BY <1>1 DEF BeginFrame, HasFrame, Leaves
<1>2. CASE SkipFrame
  BY <1>2 DEF SkipFrame, HasFrame, Leaves
<1>3. CASE preFrame
  BY <1>3 DEF preFrame, CallBack, Calls
<1>4. CASE latePreFrame
  BY <1>4 DEF latePreFrame, CallBack, Calls
<1>5. CASE draw
  BY <1>5 DEF draw, Calls
<1>6. CASE intraFrame
  BY <1>6 DEF intraFrame, CallBack, Calls
<1>7. CASE sync
  BY <1>7 DEF sync
<1>8. CASE postFrame
  BY <1>8 DEF postFrame, CallBack, Calls
<1>9. CASE LeaveLoop
  BY <1>9 DEF LeaveLoop, HasFrame, Leaves
<1>10. CASE EndLoop
  BY <1>10 DEF EndLoop, signal
<1>11. CASE TestNewAppSet
  BY <1>11 DEF TestNewAppSet
<1>12. CASE TestNewAppNull
  BY <1>12 DEF TestNewAppNull
<1>13. CASE TestDependencies
  BY <1>13 DEF TestDependencies
<1>14. CASE Refused
  BY <1>14 DEF Refused
<1>15. CASE ClearNewAppSet
  BY <1>15 DEF ClearNewAppSet
<1>16. CASE ReadNewApp
  BY <1>16 DEF ReadNewApp
<1>17. CASE ChangeToSame
  BY <1>17 DEF ChangeToSame
<1>18. CASE StopManagers
  BY <1>18 DEF StopManagers, StopsDrawManager
<1>19. CASE exit
  BY <1>19 DEF exit, ExitApplication, Deregister, Calls
<1>20. CASE startDrawManager
  <2>1. newMgr' = (DrawManagerOf[mApp] # mDrawManager)
    BY <1>20, Zenon DEF startDrawManager
  <2>2. CASE DrawManagerOf[mApp] = mDrawManager
    <3>1. newMgr' = FALSE
      BY <2>1, <2>2
    <3> QED BY <1>20, <2>2, <3>1 DEF startDrawManager
  <2>3. CASE DrawManagerOf[mApp] # mDrawManager
    <3>1. newMgr' = TRUE
      BY <2>1, <2>3
    <3> QED BY <1>20, <2>3, <3>1 DEF startDrawManager
  <2> QED BY <2>2, <2>3
<1>21. CASE init
  BY <1>21 DEF init, CallBack, Calls
<1>22. CASE initAPI
  BY <1>22 DEF initAPI
<1>23. CASE apiInit
  BY <1>23 DEF apiInit, Calls
<1>24. CASE FinishChange
  BY <1>24 DEF FinishChange
<1>25. ASSUME NEW u \in Users, NEW a \in Apps \cup {NoApp}, setApplication(u, a)
      PROVE  ManagersInv'
  BY <1>25 DEF setApplication, StoreNewApp
<1>26. ASSUME NEW u \in Users, StoreNewAppSet(u) PROVE ManagersInv'
  BY <1>26 DEF StoreNewAppSet
<1>27. ASSUME NEW u \in Users, stop(u) PROVE ManagersInv'
  BY <1>27 DEF stop, signal
<1>28. ASSUME NEW u \in Users, StopApplication(u) PROVE ManagersInv'
  BY <1>28 DEF StopApplication, StoreNewApp
<1>29. ASSUME NEW w \in Waiters, waitForKernelStop(w) PROVE ManagersInv'
  BY <1>29 DEF waitForKernelStop
<1>30. CASE start
  BY <1>30 DEF start
<1>31. CASE StartThread
  BY <1>31 DEF StartThread
<1>32. CASE StartStopped
  BY <1>32 DEF StartStopped, signal
<1> QED BY <1>1, <1>2, <1>3, <1>4, <1>5, <1>6, <1>7, <1>8, <1>9, <1>10, <1>11,
           <1>12, <1>13, <1>14, <1>15, <1>16, <1>17, <1>18, <1>19, <1>20, <1>21,
           <1>22, <1>23, <1>24, <1>25, <1>26, <1>27, <1>28, <1>29, <1>30, <1>31,
           <1>32 DEF Next, KernelStep

\* The handlers: changeApplication() removes the old application before it registers the
\* new one.
LEMMA HandlersStep ==
  ASSUME Rejected = {}
  PROVE  IInv /\ Next => HandlersInv'
<1> SUFFICES ASSUME IInv, Next PROVE HandlersInv'
  OBVIOUS
<1> USE AppsAssumption DEF IInv, TypeOK, SwitchInv, HandlersInv, FramePcs, SwitchPcs,
      At, Others, vars, requestVars, runVars, drawVars, switchVars, kernelVars,
      threadVars
<1>1. CASE BeginFrame
  BY <1>1 DEF BeginFrame, HasFrame, Leaves
<1>2. CASE SkipFrame
  BY <1>2 DEF SkipFrame, HasFrame, Leaves
<1>3. CASE preFrame
  BY <1>3 DEF preFrame, CallBack, Calls
<1>4. CASE latePreFrame
  BY <1>4 DEF latePreFrame, CallBack, Calls
<1>5. CASE draw
  BY <1>5 DEF draw, Calls
<1>6. CASE intraFrame
  BY <1>6 DEF intraFrame, CallBack, Calls
<1>7. CASE sync
  BY <1>7 DEF sync
<1>8. CASE postFrame
  BY <1>8 DEF postFrame, CallBack, Calls
<1>9. CASE LeaveLoop
  BY <1>9 DEF LeaveLoop, HasFrame, Leaves
<1>10. CASE EndLoop
  BY <1>10 DEF EndLoop, signal
<1>11. CASE TestNewAppSet
  BY <1>11 DEF TestNewAppSet
<1>12. CASE TestNewAppNull
  BY <1>12 DEF TestNewAppNull
<1>13. CASE TestDependencies
  BY <1>13 DEF TestDependencies
<1>14. CASE Refused
  BY <1>14 DEF Refused
<1>15. CASE ClearNewAppSet
  BY <1>15 DEF ClearNewAppSet
<1>16. CASE ReadNewApp
  BY <1>16 DEF ReadNewApp
<1>17. CASE ChangeToSame
  BY <1>17 DEF ChangeToSame
<1>18. CASE StopManagers
  BY <1>18 DEF StopManagers, StopsDrawManager
<1>19. CASE exit
  BY <1>19 DEF exit, ExitApplication, Deregister, Calls
<1>20. CASE startDrawManager
  BY <1>20 DEF startDrawManager
<1>21. CASE init
  BY <1>21 DEF init, CallBack, Calls
<1>22. CASE initAPI
  BY <1>22 DEF initAPI
<1>23. CASE apiInit
  BY <1>23 DEF apiInit, Calls
<1>24. CASE FinishChange
  BY <1>24 DEF FinishChange
<1>25. ASSUME NEW u \in Users, NEW a \in Apps \cup {NoApp}, setApplication(u, a)
      PROVE  HandlersInv'
  BY <1>25 DEF setApplication, StoreNewApp
<1>26. ASSUME NEW u \in Users, StoreNewAppSet(u) PROVE HandlersInv'
  BY <1>26 DEF StoreNewAppSet
<1>27. ASSUME NEW u \in Users, stop(u) PROVE HandlersInv'
  BY <1>27 DEF stop, signal
<1>28. ASSUME NEW u \in Users, StopApplication(u) PROVE HandlersInv'
  BY <1>28 DEF StopApplication, StoreNewApp
<1>29. ASSUME NEW w \in Waiters, waitForKernelStop(w) PROVE HandlersInv'
  BY <1>29 DEF waitForKernelStop
<1>30. CASE start
  BY <1>30 DEF start
<1>31. CASE StartThread
  BY <1>31 DEF StartThread
<1>32. CASE StartStopped
  BY <1>32 DEF StartStopped, signal
<1> QED BY <1>1, <1>2, <1>3, <1>4, <1>5, <1>6, <1>7, <1>8, <1>9, <1>10, <1>11,
           <1>12, <1>13, <1>14, <1>15, <1>16, <1>17, <1>18, <1>19, <1>20, <1>21,
           <1>22, <1>23, <1>24, <1>25, <1>26, <1>27, <1>28, <1>29, <1>30, <1>31,
           <1>32 DEF Next, KernelStep

\* The callbacks: each place of the loop and of a switch follows one callback.
LEMMA CallsStep ==
  ASSUME Rejected = {}
  PROVE  IInv /\ Next => CallsInv'
<1> SUFFICES ASSUME IInv, Next PROVE CallsInv'
  OBVIOUS
<1> USE AppsAssumption, Rejected = {}
    DEF IInv, TypeOK, SwitchInv, ManagersInv, AppHasItsManagers, ManagerOpen, NoManagerOpen,
      CallsInv, LastCallbacks, FramePcs, SwitchPcs,
      At, Others, vars, requestVars, runVars, drawVars, switchVars, kernelVars,
      threadVars
<1>1. CASE BeginFrame
  BY <1>1 DEF BeginFrame, HasFrame, Leaves
<1>2. CASE SkipFrame
  BY <1>2 DEF SkipFrame, HasFrame, Leaves
<1>3. CASE preFrame
  BY <1>3 DEF preFrame, CallBack, Calls
<1>4. CASE latePreFrame
  BY <1>4 DEF latePreFrame, CallBack, Calls
<1>5. CASE draw
  BY <1>5 DEF draw, Calls
<1>6. CASE intraFrame
  BY <1>6 DEF intraFrame, CallBack, Calls
<1>7. CASE sync
  BY <1>7 DEF sync
<1>8. CASE postFrame
  BY <1>8 DEF postFrame, CallBack, Calls
<1>9. CASE LeaveLoop
  BY <1>9 DEF LeaveLoop, HasFrame, Leaves
<1>10. CASE EndLoop
  BY <1>10 DEF EndLoop, signal
<1>11. CASE TestNewAppSet
  BY <1>11 DEF TestNewAppSet
<1>12. CASE TestNewAppNull
  BY <1>12 DEF TestNewAppNull
<1>13. CASE TestDependencies
  BY <1>13 DEF TestDependencies
<1>14. CASE Refused
  BY <1>14 DEF Refused
<1>15. CASE ClearNewAppSet
  BY <1>15 DEF ClearNewAppSet
<1>16. CASE ReadNewApp
  BY <1>16 DEF ReadNewApp
<1>17. CASE ChangeToSame
  BY <1>17 DEF ChangeToSame
<1>18. CASE StopManagers
  BY <1>18 DEF StopManagers, StopsDrawManager
<1>19. CASE exit
  BY <1>19 DEF exit, ExitApplication, Deregister, Calls
<1>20. CASE startDrawManager
  BY <1>20 DEF startDrawManager
<1>21. CASE init
  BY <1>21 DEF init, CallBack, Calls
<1>22. CASE initAPI
  BY <1>22 DEF initAPI
<1>23. CASE apiInit
  BY <1>23 DEF apiInit, Calls
<1>24. CASE FinishChange
  BY <1>24 DEF FinishChange
<1>25. ASSUME NEW u \in Users, NEW a \in Apps \cup {NoApp}, setApplication(u, a)
      PROVE  CallsInv'
  BY <1>25 DEF setApplication, StoreNewApp
<1>26. ASSUME NEW u \in Users, StoreNewAppSet(u) PROVE CallsInv'
  BY <1>26 DEF StoreNewAppSet
<1>27. ASSUME NEW u \in Users, stop(u) PROVE CallsInv'
  BY <1>27 DEF stop, signal
<1>28. ASSUME NEW u \in Users, StopApplication(u) PROVE CallsInv'
  BY <1>28 DEF StopApplication, StoreNewApp
<1>29. ASSUME NEW w \in Waiters, waitForKernelStop(w) PROVE CallsInv'
  BY <1>29 DEF waitForKernelStop
<1>30. CASE start
  BY <1>30 DEF start
<1>31. CASE StartThread
  BY <1>31 DEF StartThread
<1>32. CASE StartStopped
  BY <1>32 DEF StartStopped, signal
<1> QED BY <1>1, <1>2, <1>3, <1>4, <1>5, <1>6, <1>7, <1>8, <1>9, <1>10, <1>11,
           <1>12, <1>13, <1>14, <1>15, <1>16, <1>17, <1>18, <1>19, <1>20, <1>21,
           <1>22, <1>23, <1>24, <1>25, <1>26, <1>27, <1>28, <1>29, <1>30, <1>31,
           <1>32 DEF Next, KernelStep

\* Stuttering keeps everything.
LEMMA StutterStep == IInv /\ UNCHANGED vars => IInv'
BY DEF IInv, TypeOK, SwitchInv, ManagersInv, AppHasItsManagers, ManagerOpen, NoManagerOpen,
      HandlersInv, CallsInv,
      vars, requestVars, runVars, drawVars, switchVars, kernelVars, threadVars

-----------------------------------------------------------------------------
(* The theorems. *)

\* Every variable has its type whatever application is requested, and whether or not its
\* draw manager takes it: what is drawn, registered and switched to always is an object.
THEOREM TypeCorrect == Spec => []TypeOK
<1>1. TypeOK /\ SwitchInv /\ UNCHANGED vars => (TypeOK /\ SwitchInv)'
  BY DEF TypeOK, SwitchInv,
      vars, requestVars, runVars, drawVars, switchVars, kernelVars, threadVars
<1> QED BY <1>1, InitIInv, TypeStep, PTL DEF Spec, IInv

\* controlLoop() and changeApplication(): where no application is rejected, the parts of a
\* switch leave each other, and the frame, what they need.
THEOREM Invariance ==
  ASSUME Rejected = {}
  PROVE  Spec => []IInv
<1>1. IInv /\ Next => IInv'
  BY TypeStep, ManagersStep, HandlersStep, CallsStep, Rejected = {} DEF IInv
<1> QED BY <1>1, InitIInv, StutterStep, PTL DEF Spec

\* startDrawManager(): every frame has its draw manager open, with the displays and the
\* frame's application on it, and the sound manager it updates.
THEOREM FramesHaveManagers ==
  ASSUME Rejected = {}
  PROVE  Spec => []FrameHasItsManagers
<1>1. IInv => FrameHasItsManagers
  BY AppsAssumption DEF IInv, SwitchInv, ManagersInv, AppHasItsManagers, ManagerOpen,
     FrameHasItsManagers, FramePcs, SwitchPcs
<1> QED BY <1>1, Invariance, Rejected = {}, PTL

\* changeApplication(): after a switch nothing refers to the application that was left.
THEOREM NoOldReferences ==
  ASSUME Rejected = {}
  PROVE  Spec => []OldApplicationsUnreferenced
<1>1. IInv => OldApplicationsUnreferenced
  BY AppsAssumption DEF IInv, ManagersInv, HandlersInv, AppHasItsManagers, ManagerOpen,
     NoManagerOpen, OldApplicationsUnreferenced, SwitchPcs
<1> QED BY <1>1, Invariance, Rejected = {}, PTL

-----------------------------------------------------------------------------
(* The callbacks. *)

\* A callback on the current application, in its turn and with the others out of the way.
LEMMA CallInTurn ==
  ASSUME IInv, mApp # NoApp, NEW c \in App!Callbacks, Calls(mApp, c),
         calls[mApp] \in App!Before[c]
  PROVE  App!Next
<1>1. mApp \in Apps
  BY DEF IInv, TypeOK
<1>2. c = "init" => \A b \in Apps : calls[b] = "exit"
  BY DEF IInv, CallsInv, App!Before, App!Callbacks
<1>3. App!Call(mApp, c)
  BY <1>2 DEF App!Call, Calls
<1> QED BY <1>1, <1>3 DEF App!Next

\* A step of the kernel is a callback in its turn, or an application sees nothing of it.
LEMMA CallbackStep ==
  ASSUME Rejected = {}, IInv, Next
  PROVE  [App!Next]_calls
<1> USE AppsAssumption DEF App!Before, App!Callbacks, LastCallbacks, FramePcs, SwitchPcs, At
<1> DEFINE Turn(c) == mApp # NoApp /\ calls[mApp] \in App!Before[c] /\ Calls(mApp, c)
<1>1. ASSUME NEW c \in App!Callbacks, Turn(c) PROVE App!Next
  BY <1>1, CallInTurn
<1>2. CASE preFrame
  <2>1. Turn("preFrame")
    BY <1>2 DEF preFrame, CallBack, IInv, SwitchInv, CallsInv
  <2> QED BY <2>1, <1>1
<1>3. CASE latePreFrame
  <2>1. Turn("latePreFrame")
    BY <1>3 DEF latePreFrame, CallBack, IInv, SwitchInv, CallsInv
  <2> QED BY <2>1, <1>1
<1>4. CASE draw
  <2>1. drawnApp[mDrawManager] = mApp /\ mApp # NoApp
    BY <1>4 DEF draw, IInv, SwitchInv, ManagersInv, AppHasItsManagers
  <2>2. Turn("draw")
    BY <1>4, <2>1 DEF draw, IInv, CallsInv
  <2> QED BY <2>2, <1>1
<1>5. CASE intraFrame
  <2>1. Turn("intraFrame")
    BY <1>5 DEF intraFrame, CallBack, IInv, SwitchInv, CallsInv
  <2> QED BY <2>1, <1>1
<1>6. CASE postFrame
  <2>1. Turn("postFrame")
    BY <1>6 DEF postFrame, CallBack, IInv, SwitchInv, CallsInv
  <2> QED BY <2>1, <1>1
<1>7. CASE exit
  <2>1. CASE mApp = NoApp
    BY <1>7, <2>1 DEF exit
  <2>2. CASE mApp # NoApp
    <3>1. Turn("exit")
      BY <1>7, <2>2 DEF exit, ExitApplication, IInv, CallsInv
    <3> QED BY <3>1, <1>1
  <2> QED BY <2>1, <2>2
<1>8. CASE init
  <2>1. Turn("init")
    BY <1>8 DEF init, CallBack, IInv, SwitchInv, CallsInv
  <2> QED BY <2>1, <1>1
<1>9. CASE apiInit
  <2>1. Turn("apiInit")
    BY <1>9 DEF apiInit, IInv, SwitchInv, CallsInv
  <2> QED BY <2>1, <1>1
<1>10. CASE \/ BeginFrame \/ SkipFrame \/ sync \/ LeaveLoop \/ EndLoop
            \/ TestNewAppSet \/ TestNewAppNull \/ TestDependencies \/ Refused
            \/ ClearNewAppSet \/ ReadNewApp \/ ChangeToSame \/ StopManagers
            \/ startDrawManager \/ initAPI \/ FinishChange
  BY <1>10 DEF BeginFrame, SkipFrame, sync, LeaveLoop, EndLoop, TestNewAppSet,
     TestNewAppNull, TestDependencies, Refused, ClearNewAppSet, ReadNewApp, ChangeToSame,
     StopManagers, startDrawManager, initAPI, FinishChange, kernelVars
<1>11. ASSUME NEW u \in Users, NEW a \in Apps \cup {NoApp},
              setApplication(u, a) \/ StoreNewAppSet(u) \/ stop(u) \/ StopApplication(u)
       PROVE  UNCHANGED calls
  BY <1>11 DEF setApplication, StoreNewApp, StoreNewAppSet, stop, StopApplication, kernelVars
<1>12. CASE (\E w \in Waiters : waitForKernelStop(w)) \/ start \/ StartThread \/ StartStopped
  BY <1>12 DEF waitForKernelStop, start, StartThread, StartStopped, kernelVars
<1> HIDE DEF Turn
<1> QED BY Next, <1>2, <1>3, <1>4, <1>5, <1>6, <1>7, <1>8, <1>9, <1>10, <1>11, <1>12
        DEF Next, KernelStep

\* controlLoop() with changeApplication() implements AppCallbacks: an application gets its
\* callbacks in order, between init() and exit(), and no two applications at once.
THEOREM Refinement ==
  ASSUME Rejected = {}
  PROVE  Spec => ImplementsAppCallbacks
<1>1. Init => App!Init
  BY DEF Init, App!Init
<1>2. IInv /\ [Next]_vars => [App!Next]_calls
  <2>1. ASSUME IInv, UNCHANGED vars PROVE UNCHANGED calls
    BY <2>1 DEF vars, kernelVars
  <2> QED BY <2>1, CallbackStep, Rejected = {}
<1> QED BY <1>1, <1>2, Invariance, Rejected = {}, PTL DEF Spec, ImplementsAppCallbacks, App!Spec
=============================================================================
