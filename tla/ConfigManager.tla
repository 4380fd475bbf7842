---------------------------- MODULE ConfigManager ----------------------------
(***************************************************************************)
(* The run-time configuration manager of JCCL: requests to add and remove  *)
(* config elements arrive from any thread on the incoming list, the kernel *)
(* thread moves them to the pending list and offers them, in passes, to    *)
(* the registered handlers, and what a handler has configured is on the    *)
(* active list.  A pending list that does not change is not looked at      *)
(* again until it does (it is stale).                                      *)
(*                                                                         *)
(* A config element is known by its name; a request is an entry <<type,    *)
(* element>>.  The kernel thread takes one step per entry; the other       *)
(* threads touch the incoming list only, between any two of its steps.     *)
(* mPendingLock and mActiveLock are the kernel thread's alone here;        *)
(* mIncomingLock is held exactly while kpc = "clear".                      *)
(***************************************************************************)
EXTENDS Integers, SequencesExt

CONSTANTS
    Elements,       \* the names of config elements
    DependsOn,      \* the elements each one points to
    Handlers,       \* the config element handlers
    CanHandle,      \* the elements configCanHandle() of each handler accepts
    FirstHandlers,  \* the handlers the kernel registers when it starts, in order
    MayFail,        \* elements whose configAdd() may fail
    Patient,        \* whether a requester waits for earlier requests on an element
    UnlockedAdds,   \* whether addConfigElement() is called
    MayShutdown,    \* whether shutdown() is called
    MaxEntries,     \* bound: requests are made while fewer entries wait
    MaxCopies       \* bound: additions of an element while fewer of it are active

ASSUME DependsOnAssumption == DependsOn \in [Elements -> SUBSET Elements]
ASSUME HandlersAssumption ==
    CanHandle \in [Handlers -> SUBSET Elements] /\ FirstHandlers \in Seq(Handlers)
ASSUME MayFailAssumption == MayFail \subseteq Elements
ASSUME BoundsAssumption == MaxEntries \in Nat /\ MaxCopies \in Nat

VARIABLES
    mIncomingConfig, mPendingConfig,    \* sequences of entries
    mActiveConfig,                      \* a sequence of elements
    mElementHandlers,
    mPendingCheckCount, mLastPendingSize,
    configured,     \* the elements the handlers hold (a DisplayManager's displays)
    kpc,            \* where the kernel thread is in its loop over attempts
    handler, pos,   \* the handler of the pass, and the entry it looks at
    scan,           \* scan_for_lost_dependants
    progress,       \* elements_processed > 0
    closing,        \* whether the loop runs in shutdown()
    asked,          \* what patient requesters want configured
    swapping        \* elements between the two calls of a swap()

listVars    == <<mIncomingConfig, mPendingConfig, mActiveConfig>>
countVars   == <<mPendingCheckCount, mLastPendingSize>>
passVars    == <<handler, pos, scan, progress>>
requestVars == <<asked, swapping>>
vars == <<listVars, mElementHandlers, countVars, configured, kpc, passVars, closing,
          requestVars>>

pending_repeat_limit == 3

ADD(e)    == <<"ADD", e>>
REMOVE(e) == <<"REMOVE", e>>
Entries   == {"ADD", "REMOVE"} \X Elements

isSatisfied(e) == DependsOn[e] \subseteq ToSet(mActiveConfig)

\* How often x occurs in the sequence s.
Occurrences(s, x) == Cardinality({i \in DOMAIN s : s[i] = x})

\* The entries scanForLostDependencies() adds, the two of an element together, in the
\* order of the active list.  Mutants: every active element gets them; the re-additions
\* are left out.
Pair(e) == <<REMOVE(e), ADD(e)>>
scanEverything ==
    FlattenSeq([i \in DOMAIN mActiveConfig |-> Pair(mActiveConfig[i])])
scanRemovalsOnly ==
    FlattenSeq([i \in DOMAIN mActiveConfig |->
                  IF isSatisfied(mActiveConfig[i]) THEN <<>>
                  ELSE <<REMOVE(mActiveConfig[i])>>])
scanForLostDependencies ==
    FlattenSeq([i \in DOMAIN mActiveConfig |->
                  IF isSatisfied(mActiveConfig[i]) THEN <<>> ELSE Pair(mActiveConfig[i])])

-----------------------------------------------------------------------------
Init ==
    /\ mIncomingConfig = <<>> /\ mPendingConfig = <<>> /\ mActiveConfig = <<>>
    /\ mElementHandlers = FirstHandlers
    /\ mPendingCheckCount = 0 /\ mLastPendingSize = 0
    /\ configured = {}
    /\ kpc = "idle" /\ handler = 1 /\ pos = 1 /\ scan = FALSE /\ progress = FALSE
    /\ closing = FALSE
    /\ asked = {} /\ swapping = {}

-----------------------------------------------------------------------------
(* The threads that make requests. *)

Waiting(e) == \E r \in ToSet(mIncomingConfig \o mPendingConfig) : r[2] = e
Removing(e) == REMOVE(e) \in ToSet(mIncomingConfig \o mPendingConfig)
Copies(e)  == Occurrences(mActiveConfig, e)

\* May a requester ask for a change of e now?  A patient one asks for an element that
\* is not configured, or for one that is, has no other request on it, and waits while a
\* removal, which may lose a dependency, is on its way.
MayAsk(e, present) ==
    /\ Len(mIncomingConfig) + Len(mPendingConfig) < MaxEntries
    /\ Patient => /\ (e \in asked) = present /\ ~Waiting(e)
                  /\ swapping = {} /\ ~scan /\ ~\E d \in Elements : Removing(d)

Incoming(r) ==
    /\ kpc # "clear"
    /\ mIncomingConfig' = Append(mIncomingConfig, r)
    /\ UNCHANGED <<mPendingConfig, mActiveConfig, mElementHandlers, countVars,
                   configured, kpc, passVars, closing>>

addConfigurationAdditions(e) ==
    /\ MayAsk(e, FALSE) /\ Copies(e) < MaxCopies
    /\ Incoming(ADD(e))
    /\ asked' = IF Patient THEN asked \cup {e} ELSE asked
    /\ UNCHANGED swapping

addConfigurationRemovals(e) ==
    /\ MayAsk(e, TRUE)
    /\ Incoming(REMOVE(e))
    /\ asked' = IF Patient THEN asked \ {e} ELSE asked
    /\ UNCHANGED swapping

\* swap() of the remote interface: two calls, each with the lock of its own.  It is told
\* apart from two requests only where requesters are patient.
SwapRemove(e) ==
    /\ Patient /\ MayAsk(e, TRUE)
    /\ Incoming(REMOVE(e))
    /\ swapping' = swapping \cup {e}
    /\ UNCHANGED asked

SwapAdd(e) ==
    /\ e \in swapping
    /\ Incoming(ADD(e))
    /\ swapping' = swapping \ {e}
    /\ UNCHANGED asked

\* addConfigElement() takes no lock.
addConfigElement(e) ==
    /\ UnlockedAdds /\ MayAsk(e, FALSE) /\ Copies(e) < MaxCopies
    /\ mIncomingConfig' = Append(mIncomingConfig, ADD(e))
    /\ asked' = IF Patient THEN asked \cup {e} ELSE asked
    /\ UNCHANGED <<mPendingConfig, mActiveConfig, mElementHandlers, countVars,
                   configured, kpc, passVars, closing, swapping>>

Request ==
    \E e \in Elements :
        \/ addConfigurationAdditions(e) \/ addConfigurationRemovals(e)
        \/ SwapRemove(e) \/ SwapAdd(e) \/ addConfigElement(e)

-----------------------------------------------------------------------------
(* The kernel thread: attemptReconfiguration() until it processes nothing. *)

\* mergeIncomingToPending(): the copy, then the clear, under both locks.
MergeIncoming ==
    /\ kpc \in {"idle", "again"}
    /\ mPendingConfig' = mPendingConfig \o mIncomingConfig
    /\ progress' = FALSE
    /\ kpc' = "clear"
    /\ UNCHANGED <<mIncomingConfig, mActiveConfig, mElementHandlers, countVars,
                   configured, handler, pos, scan, closing, requestVars>>

ClearIncoming ==
    /\ kpc = "clear" /\ kpc' = "check"
    /\ mIncomingConfig' = <<>>
    /\ UNCHANGED <<mPendingConfig, mActiveConfig, mElementHandlers, countVars,
                   configured, passVars, closing, requestVars>>

\* Where an attempt that processed nothing leads.
LoopLeft == IF closing THEN "clearAll" ELSE "idle"

\* Mutant: the count goes on when the list is stale.
shouldCheckPendingCountsOn ==
    LET size    == Len(mPendingConfig)
        changed == size # mLastPendingSize
    IN  /\ kpc = "check"
        /\ kpc' = IF changed \/ mPendingCheckCount < pending_repeat_limit
                  THEN "pass" ELSE LoopLeft
        /\ mPendingCheckCount' = IF changed THEN 0
                                 ELSE mPendingCheckCount + 1
        /\ mLastPendingSize' = size
        /\ handler' = 1 /\ pos' = 1 /\ scan' = FALSE
        /\ UNCHANGED <<listVars, mElementHandlers, configured, progress, closing,
                       requestVars>>
shouldCheckPending ==
    LET size    == Len(mPendingConfig)
        changed == size # mLastPendingSize
    IN  /\ kpc = "check"
        /\ kpc' = IF changed \/ mPendingCheckCount < pending_repeat_limit
                  THEN "pass" ELSE LoopLeft
        /\ mPendingCheckCount' = IF changed THEN 0
                                 ELSE IF mPendingCheckCount <= pending_repeat_limit
                                 THEN mPendingCheckCount + 1 ELSE mPendingCheckCount
        /\ mLastPendingSize' = size
        /\ handler' = 1 /\ pos' = 1 /\ scan' = FALSE
        /\ UNCHANGED <<listVars, mElementHandlers, configured, progress, closing,
                       requestVars>>

\* configProcessPending() of the current handler is at an entry, of which it can
\* handle the element.
Looking == kpc = "pass" /\ handler <= Len(mElementHandlers) /\ pos <= Len(mPendingConfig)
Type    == mPendingConfig[pos][1]
Element == mPendingConfig[pos][2]
CanHandleIt == Element \in CanHandle[mElementHandlers[handler]]

\* Not ours, or an addition whose dependencies are missing or that fails, or a
\* removal of something the handler does not hold.
PassOver ==
    /\ Looking
    /\ CanHandleIt /\ Type = "ADD" => ~isSatisfied(Element) \/ Element \in MayFail
    /\ CanHandleIt /\ Type = "REMOVE" => Element \notin configured
    /\ pos' = pos + 1
    /\ UNCHANGED <<listVars, mElementHandlers, countVars, configured, kpc, handler,
                   scan, progress, closing, requestVars>>

removePending == mPendingConfig' = RemoveAt(mPendingConfig, pos) /\ progress' = TRUE

\* Mutant: dependencies are not looked at.
configAddUnchecked ==
    /\ Looking /\ CanHandleIt /\ Type = "ADD"
    /\ configured' = configured \cup {Element}
    /\ removePending
    /\ mActiveConfig' = Append(mActiveConfig, Element)
    /\ UNCHANGED <<mIncomingConfig, mElementHandlers, countVars, kpc, handler, pos,
                   scan, closing, requestVars>>
configAdd ==
    /\ Looking /\ CanHandleIt /\ Type = "ADD" /\ isSatisfied(Element)
    /\ configured' = configured \cup {Element}
    /\ removePending
    /\ mActiveConfig' = Append(mActiveConfig, Element)
    /\ UNCHANGED <<mIncomingConfig, mElementHandlers, countVars, kpc, handler, pos,
                   scan, closing, requestVars>>

\* Mutants: no scan follows; the element stays on the active list.
configRemoveQuietly ==
    /\ Looking /\ CanHandleIt /\ Type = "REMOVE" /\ Element \in configured
    /\ configured' = configured \ {Element}
    /\ removePending
    /\ mActiveConfig' = RemoveFirst(mActiveConfig, Element)
    /\ UNCHANGED <<mIncomingConfig, mElementHandlers, countVars, kpc, handler, pos,
                   scan, closing, requestVars>>
configRemoveStaysActive ==
    /\ Looking /\ CanHandleIt /\ Type = "REMOVE" /\ Element \in configured
    /\ configured' = configured \ {Element}
    /\ removePending
    /\ scan' = TRUE
    /\ UNCHANGED <<mIncomingConfig, mActiveConfig, mElementHandlers, countVars, kpc,
                   handler, pos, closing, requestVars>>
configRemove ==
    /\ Looking /\ CanHandleIt /\ Type = "REMOVE" /\ Element \in configured
    /\ configured' = configured \ {Element}
    /\ removePending
    /\ mActiveConfig' = RemoveFirst(mActiveConfig, Element)
    /\ scan' = TRUE
    /\ UNCHANGED <<mIncomingConfig, mElementHandlers, countVars, kpc, handler, pos,
                   closing, requestVars>>

\* The end of the list for one handler.  addPending() refreshes the pending list.
HandlerDone ==
    LET lost == IF scan THEN scanForLostDependencies ELSE <<>>
    IN  /\ kpc = "pass" /\ handler <= Len(mElementHandlers)
        /\ pos > Len(mPendingConfig)
        /\ mPendingConfig' = mPendingConfig \o lost
        /\ mPendingCheckCount' = IF lost # <<>> THEN 0 ELSE mPendingCheckCount
        /\ handler' = handler + 1 /\ pos' = 1 /\ scan' = FALSE
        /\ UNCHANGED <<mIncomingConfig, mActiveConfig, mElementHandlers,
                       mLastPendingSize, configured, kpc, progress, closing, requestVars>>

PassDone ==
    /\ kpc = "pass" /\ handler > Len(mElementHandlers)
    /\ kpc' = IF progress THEN "again" ELSE LoopLeft
    /\ handler' = 1
    /\ UNCHANGED <<listVars, mElementHandlers, countVars, configured, pos, scan,
                   progress, closing, requestVars>>

Attempt == MergeIncoming \/ ClearIncoming \/ shouldCheckPending
           \/ PassOver \/ configAdd \/ configRemove \/ HandlerDone \/ PassDone

-----------------------------------------------------------------------------
(* The kernel thread between two frames. *)

\* changeApplication() registers the new application and what it draws with, and then
\* calls refreshPendingList(); the handlers that start() registered stay.
addConfigElementHandler(h) ==
    /\ kpc = "idle" /\ h \notin ToSet(mElementHandlers \o FirstHandlers)
    /\ mElementHandlers' = Append(mElementHandlers, h)
    /\ mPendingCheckCount' = 0
    /\ UNCHANGED <<listVars, mLastPendingSize, configured, kpc, passVars, closing,
                   requestVars>>

removeConfigElementHandler(h) ==
    /\ kpc = "idle" /\ h \in ToSet(mElementHandlers) \ ToSet(FirstHandlers)
    /\ mElementHandlers' = RemoveFirst(mElementHandlers, h)
    /\ UNCHANGED <<listVars, countVars, configured, kpc, passVars, closing, requestVars>>

\* shutdown(): with attemptRemoval, a removal of everything active first.
shutdown(attemptRemoval) ==
    /\ MayShutdown /\ kpc = "idle"
    /\ closing' = TRUE
    /\ IF attemptRemoval
       THEN /\ mIncomingConfig' = mIncomingConfig \o
                   [i \in DOMAIN mActiveConfig |-> REMOVE(mActiveConfig[i])]
            /\ kpc' = "again"
       ELSE kpc' = "clearAll" /\ UNCHANGED mIncomingConfig
    /\ UNCHANGED <<mPendingConfig, mActiveConfig, mElementHandlers, countVars,
                   configured, passVars, requestVars>>

ClearAll ==
    /\ kpc = "clearAll" /\ kpc' = "idle" /\ closing' = FALSE
    /\ mIncomingConfig' = <<>> /\ mPendingConfig' = <<>> /\ mActiveConfig' = <<>>
    /\ mElementHandlers' = <<>>
    /\ mPendingCheckCount' = 0 /\ mLastPendingSize' = 0
    /\ UNCHANGED <<configured, passVars, requestVars>>

Next ==
    \/ Request \/ Attempt \/ ClearAll
    \/ \E h \in Handlers : addConfigElementHandler(h) \/ removeConfigElementHandler(h)
    \/ \E attemptRemoval \in BOOLEAN : shutdown(attemptRemoval)

Spec == Init /\ [][Next]_vars

\* The kernel calls checkForReconfig() in every frame, and a swap() has its second call.
FairSpec == Spec /\ WF_vars(Attempt) /\ WF_vars(ClearAll)
                 /\ \A e \in Elements : WF_vars(SwapAdd(e))

-----------------------------------------------------------------------------
(* Properties. *)

\* The type invariant: the count of checks stops one past its limit (shouldCheckPending()).
TypeOK ==
    /\ mIncomingConfig \in Seq(Entries) /\ mPendingConfig \in Seq(Entries)
    /\ mActiveConfig \in Seq(Elements) /\ mElementHandlers \in Seq(Handlers)
    /\ mPendingCheckCount \in 0 .. pending_repeat_limit + 1 /\ mLastPendingSize \in Nat
    /\ configured \subseteq Elements
    /\ kpc \in {"idle", "again", "clear", "check", "pass", "clearAll"}
    /\ handler \in Nat \ {0} /\ pos \in Nat \ {0}
    /\ scan \in BOOLEAN /\ progress \in BOOLEAN /\ closing \in BOOLEAN
    /\ asked \subseteq Elements /\ swapping \subseteq Elements

\* The lists between two passes.
BetweenPasses == kpc \in {"idle", "again", "clear", "check"}

\* scanForLostDependencies(), "the object will be removed from the system on the next
\* check of the pending list": an active element one of whose dependencies is gone has
\* its removal waiting.
LostDependentsPending ==
    BetweenPasses =>
        \A e \in ToSet(mActiveConfig) :
            ~isSatisfied(e) => REMOVE(e) \in ToSet(mPendingConfig)

\* addActive(), "If a element with the same name is already in the active list, the old
\* element is replaced by the new one": none is there twice, of requesters that ask for
\* nothing that is there or waits.
ActiveOnce == \A e \in Elements : Copies(e) <= 1

\* Elements that lose a dependency in one pass, of which T has the pairs, are those that
\* point to one element, or to two that are removed in one pass themselves.
\* HandledTogether: the same handlers take them, so that one pass removes them all.
LostTogether(T) ==
    /\ \A e \in Elements : <<e, e>> \in T
    /\ \A d, e \in Elements : <<d, e>> \in T =>
          /\ <<e, d>> \in T
          /\ \A h \in Handlers : d \in CanHandle[h] <=> e \in CanHandle[h]
          /\ \A f, g \in Elements :
                d \in DependsOn[f] /\ e \in DependsOn[g] => <<f, g>> \in T
HandledTogether == \E T \in SUBSET (Elements \X Elements) : LostTogether(T)

\* configProcessPending() against the handlers' own state: an element is on the active
\* list, once, exactly when its handler has it configured.  It is for patient requesters
\* and for HandledTogether: with other dependencies it may fail as ActiveOnce does.
ActiveIsConfigured ==
    /\ ToSet(mActiveConfig) = configured
    /\ \A e \in configured : Copies(e) = 1

\* The whole of it, for requesters that wait their turn: when no request is left, what
\* is active is what was asked for.
Converged ==
    mIncomingConfig = <<>> /\ mPendingConfig = <<>> /\ swapping = {}
        => ToSet(mActiveConfig) = asked

\* checkForReconfig()'s loop over attemptReconfiguration(): the pairs of a lost
\* dependency never keep it going, so when requests stop the frame goes on.
ReconfigurationEnds == <>[](mIncomingConfig = <<>>) => []<>(kpc = "idle")

\* shouldCheckPending() and refreshPendingList(): "the ConfigManager will notice that the
\* pending and active lists have changed and will consider the pending list to be fresh",
\* so an addition that can be carried out is.
Possible(e) ==
    /\ ADD(e) \in ToSet(mPendingConfig) /\ isSatisfied(e)
    /\ \E h \in ToSet(mElementHandlers) : e \in CanHandle[h]
PossibleAdditionsDone == \A e \in Elements \ MayFail : Possible(e) ~> ~Possible(e)

-----------------------------------------------------------------------------
\* What waits, as ConfigRequests counts it: entries being moved are pending already, and
\* what an unlocked addition appends meanwhile is lost, and so never was accepted.
Waits(r) == LET all == (IF kpc = "clear" THEN <<>> ELSE mIncomingConfig) \o mPendingConfig
            IN  Occurrences(all, r)

Requests == INSTANCE ConfigRequests WITH
    open <- [r \in Entries |-> Waits(r)], live <- [e \in Elements |-> Copies(e)]

\* The three lists and the passes over them: no request is lost or carried out twice.
ImplementsConfigRequests == Requests!Spec
=============================================================================
