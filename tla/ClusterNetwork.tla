---------------------------- MODULE ClusterNetwork ----------------------------
(***************************************************************************)
(* The nodes of a cluster: how ClusterManager::start() connects them, and  *)
(* how barrier() and update() keep their frames together from then on.     *)
(*                                                                         *)
(* A block is what a node sends a peer in one synchronisation: the packets *)
(* of the plug-ins and the end block after them.  The receiver reads one   *)
(* up to its end block, whatever synchronisation it is of.  Sockets        *)
(* deliver in order; a process that ends, for a reason of its own or       *)
(* because of what it does with a connection that broke, closes its        *)
(* sockets, and what it sent last may arrive in part or not at all.        *)
(***************************************************************************)
EXTENDS Integers, Sequences, FiniteSets

CONSTANTS
    Master, Slaves,
    Setups,         \* the ways a cluster is built and configured, see setup
    MaxFrames,      \* bound: the frames that begin
    MaxLost         \* bound: the processes that end by themselves

ASSUME NodesAssumption == Master \notin Slaves /\ Slaves # {} /\ IsFiniteSet(Slaves)
ASSUME SetupsAssumption ==
    Setups \subseteq [plugins : BOOLEAN, swapLock : BOOLEAN, corkHolds : BOOLEAN]
ASSUME BoundsAssumption == MaxFrames \in Nat /\ MaxLost \in Nat

Nodes == {Master} \cup Slaves

\* mNodes: the master's are the slaves, a slave's is the master.
Peers(n) == IF n = Master THEN Slaves ELSE {Master}
Links == {l \in Nodes \X Nodes : l[2] \in Peers(l[1])}

VARIABLES
    setup,      \* the same on all nodes, and for good
    phase,      \* the part of start() and of controlLoop() each node is in
    updating,   \* the nodes in updateAllNodes()
    state,      \* "up"; "ended", the thread, by an exception; "signalled", the process
                \* is about to end; "dead", it has
    lost,       \* the processes that ended by themselves
    frame,      \* the frames each node began in the cluster
    data,       \* what each slave received last from the master
    connected,  \* the peers whose mStatus is CONNECTED and whose mSockStream is not NULL
    mUpdated,   \* the peers whose mUpdated is set
    numNodes, completed,    \* numNodes and completed_nodes of updateAllNodes()
    chan,       \* the blocks on their way over each link
    corked,     \* the nodes whose sockets are corked
    held        \* the blocks written to a corked socket

HasPlugins == setup.plugins     \* mPlugins is not empty
SwapLock   == setup.swapLock    \* mSoftwareSwapLock
CorkHolds  == setup.corkHolds   \* no HAVE_CORKABLE_TCP: VPR keeps what is written to a corked socket

nodeVars   == <<setup, phase, frame>>
fateVars   == <<state, lost>>
updateVars == <<updating, mUpdated, numNodes, completed>>
linkVars   == <<chan, held>>
vars == <<nodeVars, fateVars, updateVars, linkVars, data, connected, corked>>

Init ==
    /\ setup \in Setups
    /\ phase = [n \in Nodes |-> "connect"] /\ frame = [n \in Nodes |-> 0]
    /\ state = [n \in Nodes |-> "up"] /\ lost = {}
    /\ updating = {} /\ mUpdated = [n \in Nodes |-> {}]
    /\ numNodes = [n \in Nodes |-> 0] /\ completed = [n \in Nodes |-> 0]
    /\ chan = [l \in Links |-> <<>>] /\ held = [l \in Links |-> <<>>]
    /\ data = [s \in Slaves |-> [config |-> FALSE, app |-> 0, device |-> 0]]
    /\ connected = [n \in Nodes |-> {}]
    /\ corked = {}

-----------------------------------------------------------------------------
(* Ends.  *)

\* What may arrive of blocks that were under way when their sender ended.
Remains(blocks) ==
    {blocks} \cup {SubSeq(blocks, 1, i) : i \in 0..Len(blocks)}
             \cup {Append(SubSeq(blocks, 1, i), [kind |-> "cut", frame |-> 0]) :
                       i \in 0..(Len(blocks) - 1)}

\* The process of n ends.
Die(n) ==
    /\ state' = [state EXCEPT ![n] = "dead"]
    /\ \E r \in [Peers(n) -> UNION {Remains(chan[<<n, p>>]) : p \in Peers(n)}] :
          /\ \A p \in Peers(n) : r[p] \in Remains(chan[<<n, p>>])
          /\ chan' = [l \in Links |-> IF l[1] = n THEN r[l[2]]
                                      ELSE IF l[2] = n THEN <<>> ELSE chan[l]]
    /\ held' = [l \in Links |-> IF n \in {l[1], l[2]} THEN <<>> ELSE held[l]]
    /\ UNCHANGED <<nodeVars, updateVars, data, connected, corked>>

\* An exception nobody catches: out of start() it ends the process, out of a
\* thread's function only the thread (vpr::Thread catches it).
Throw(n) ==
    /\ IF phase[n] \in {"connect", "start"} THEN Die(n)
       ELSE /\ state' = [state EXCEPT ![n] = "ended"]
            /\ UNCHANGED <<nodeVars, updateVars, linkVars, data, connected, corked>>
    /\ UNCHANGED lost

Lose(n) ==
    /\ state[n] # "dead" /\ Cardinality(lost) < MaxLost
    /\ lost' = lost \cup {n}
    /\ Die(n)

\* The peers a write may fail for: a corked socket may keep it instead.
Broken(n) == IF CorkHolds /\ n \in corked THEN {} ELSE {p \in connected[n] : state[p] = "dead"}

-----------------------------------------------------------------------------
(* Connecting. *)

Idle(n) == state[n] = "up" /\ n \notin updating

\* connectTo() of the master and waitForConnection() of a slave.
connectTo(s) ==
    /\ Idle(Master) /\ phase[Master] = "connect" /\ Idle(s) /\ phase[s] = "connect"
    /\ connected' = [connected EXCEPT ![Master] = @ \cup {s}, ![s] = {Master}]
    /\ phase' = [phase EXCEPT ![s] = "start",
                    ![Master] = IF connected'[Master] = Slaves THEN "start" ELSE "connect"]
    /\ UNCHANGED <<setup, frame, fateVars, updateVars, linkVars, data, corked>>

\* connectTo() gives up, and connectToSlaves() with it.
ConnectFails(s) ==
    /\ Idle(Master) /\ phase[Master] = "connect" /\ phase[s] = "connect" /\ state[s] = "dead"
    /\ Throw(Master)

\* A window opens: from the next iteration on the cluster is ready.
windowOpened(n) ==
    /\ Idle(n) /\ phase[n] = "window"
    /\ phase' = [phase EXCEPT ![n] = "first"]
    /\ UNCHANGED <<setup, frame, fateVars, updateVars, linkVars, data, connected, corked>>

-----------------------------------------------------------------------------
(* Sending. *)

\* The block of node n's synchronisation.  The master's holds the configuration,
\* the application data or the device data; a slave's holds its end block only.
Block(n) == [kind |-> IF n = Master THEN phase[n] ELSE "end", frame |-> frame[n]]

\* Node n writes its block to the peers in ps.
Write(n, ps) ==
    LET written == [l \in Links |-> IF l[1] = n /\ l[2] \in ps THEN <<Block(n)>> ELSE <<>>]
    IN  IF n \in corked
        THEN held' = [l \in Links |-> held[l] \o written[l]] /\ UNCHANGED chan
        ELSE chan' = [l \in Links |-> chan[l] \o written[l]] /\ UNCHANGED held

\* Mutant: nobody uncorks the network.
WriteCorked(n, ps) ==
    /\ held' = [l \in Links |-> IF l[1] = n /\ l[2] \in ps
                                THEN Append(held[l], Block(n)) ELSE held[l]]
    /\ corked' = corked \cup {n}
    /\ UNCHANGED chan

\* uncorkNetwork(), and the writes to the peers in ps that precede it.
WriteAndUncork(n, ps) ==
    /\ chan' = [l \in Links |-> IF l[1] = n /\ l[2] \in ps
                                THEN Append(chan[l] \o held[l], Block(n)) ELSE chan[l]]
    /\ held' = [l \in Links |-> IF l[1] = n /\ l[2] \in ps THEN <<>> ELSE held[l]]
    /\ corked' = corked \ {n}

\* The system sends what it kept of a corked stream before long.
Flush(l) ==
    /\ ~CorkHolds /\ held[l] # <<>>
    /\ chan' = [chan EXCEPT ![l] = @ \o held[l]]
    /\ held' = [held EXCEPT ![l] = <<>>]
    /\ UNCHANGED <<nodeVars, fateVars, updateVars, data, connected, corked>>

\* Mutant: completed_nodes goes on from where the last call left it.
UpdateAllNodesCountsOn(n, count) ==
    /\ updating' = updating \cup {n}
    /\ mUpdated' = [mUpdated EXCEPT ![n] = {}]
    /\ numNodes' = [numNodes EXCEPT ![n] = count]
    /\ UNCHANGED completed

\* updateAllNodes() is called for count nodes.
UpdateAllNodes(n, count) ==
    /\ updating' = updating \cup {n}
    /\ mUpdated' = [mUpdated EXCEPT ![n] = {}]
    /\ numNodes' = [numNodes EXCEPT ![n] = count]
    /\ completed' = [completed EXCEPT ![n] = 0]

NextPhase(n) ==
    CASE phase[n] = "start"         -> "window"
      [] phase[n] = "preDraw"       -> "draw"
      [] phase[n] = "draw"          -> "postPostFrame"
      [] OTHER                      -> "preDraw"

Advance(n) ==
    /\ phase' = [phase EXCEPT ![n] = NextPhase(n)]
    /\ frame' = [frame EXCEPT ![n] = IF NextPhase(n) = "preDraw" THEN @ + 1 ELSE @]

AtBarrier(n) ==
    /\ Idle(n)
    /\ phase[n] \in {"start", "first"} \/ (phase[n] = "draw" /\ SwapLock)

\* barrier() of a slave: sendEndBlocks() comes first.  A write that fails shuts the
\* node down, and there is nobody to wait for.
SlaveBarrier(s) ==
    /\ AtBarrier(s)
    /\ \E failed \in SUBSET Broken(s) :
          /\ connected' = [connected EXCEPT ![s] = @ \ failed]
          /\ Write(s, connected'[s])
          /\ UpdateAllNodes(s, Cardinality(connected'[s]))
    /\ UNCHANGED <<nodeVars, fateVars, data, corked>>

ReturnsOnTimeout(n) == state[n] = "up" /\ n \in updating     \* mutant

\* updateAllNodes() returns.
Returns(n) == state[n] = "up" /\ n \in updating /\ completed[n] = numNodes[n]

\* The master of a barrier has heard of all nodes and sends its end blocks.
AtGo == Returns(Master) /\ phase[Master] \in {"start", "first", "draw"}

\* Mutant: the master counts itself.
MasterBarrierOfAll ==
    /\ AtBarrier(Master)
    /\ UpdateAllNodes(Master, Cardinality(Nodes))
    /\ UNCHANGED <<nodeVars, fateVars, linkVars, data, connected, corked>>

\* barrier() of the master: it waits for getNumNodes() nodes, connected or not.
MasterBarrier ==
    /\ AtBarrier(Master)
    /\ UpdateAllNodes(Master, Cardinality(Slaves))
    /\ UNCHANGED <<nodeVars, fateVars, linkVars, data, connected, corked>>

\* preDraw() and postPostFrame() of the cluster manager.
AtUpdate(n) ==
    /\ Idle(n)
    /\ phase[n] \in {"preDraw", "postPostFrame"} /\ frame[n] <= MaxFrames

update(n) ==
    /\ AtUpdate(n) /\ HasPlugins /\ connected[n] = Peers(n)
    /\ WriteAndUncork(n, Peers(n))
    /\ UpdateAllNodes(n, Cardinality(Peers(n)))
    /\ UNCHANGED <<nodeVars, fateVars, data, connected>>

\* A write in update() fails for one peer after it went well for those in ps: where
\* uncork() writes it throws an IOException; where send() does, the node is shut down
\* and the next use of its socket, which is NULL, is a signal, as SIGPIPE is.
UpdateFails(n) ==
    /\ AtUpdate(n) /\ HasPlugins /\ connected[n] = Peers(n) /\ Broken(n) # {}
    /\ \E ps \in SUBSET (Peers(n) \ Broken(n)) : WriteAndUncork(n, ps)
    /\ \E end \in IF CorkHolds THEN {"ended", "signalled"} ELSE {"signalled"} :
          state' = [state EXCEPT ![n] = end]
    /\ UpdateAllNodes(n, 0)
    /\ UNCHANGED <<nodeVars, lost, data, connected>>

\* corkNetwork() dereferences the NULL socket of a node that was shut down.
NullSocket(n) ==
    /\ AtUpdate(n) /\ connected[n] # Peers(n)
    /\ Die(n) /\ UNCHANGED lost

\* A write to a broken connection raises SIGPIPE, which nothing handles.  Here no end
\* block is written before: a slave has one peer, and start() sends configurations.
BrokenPipe(n) ==
    /\ Broken(n) # {}
    /\ \/ n \in Slaves /\ AtBarrier(n)
       \/ n = Master /\ Idle(n) /\ phase[n] = "start"
    /\ Die(n) /\ UNCHANGED lost

\* SIGPIPE while the master of a barrier sends its end blocks: those to the peers in ps
\* are written.  It is past the barrier then, and does nothing there.
GoFails ==
    /\ AtGo /\ Broken(Master) # {}
    /\ \E ps \in SUBSET (connected[Master] \ Broken(Master)) : Write(Master, ps)
    /\ state' = [state EXCEPT ![Master] = "signalled"]
    /\ updating' = updating \ {Master}
    /\ Advance(Master)
    /\ UNCHANGED <<setup, lost, mUpdated, numNodes, completed, data, connected, corked>>

\* The signal ends the process.
Killed(n) ==
    /\ state[n] = "signalled"
    /\ Die(n) /\ UNCHANGED lost

-----------------------------------------------------------------------------
(* Receiving. *)

\* The handlers of the plug-ins and of the configuration.
Received(d, block) ==
    CASE block.kind = "start"         -> [d EXCEPT !.config = TRUE]
      [] block.kind = "preDraw"       -> [d EXCEPT !.app = block.frame]
      [] block.kind = "postPostFrame" -> [d EXCEPT !.device = block.frame]
      [] OTHER                        -> d

Waiting(n) == state[n] = "up" /\ n \in updating /\ completed[n] # numNodes[n]

ReadableTwice(n, p) == Waiting(n) /\ p \in connected[n]     \* mutant

\* A node that select() found readable and that is not updated yet.
Readable(n, p) == Waiting(n) /\ p \in connected[n] \ mUpdated[n]

\* recvPacket() and handlePacket() up to an end block, or to a packet that was cut
\* off: that is a ClusterException, which shuts the peer down and counts it.
recvBlock(n, p) ==
    /\ Readable(n, p) /\ chan[<<p, n>>] # <<>>
    /\ LET block == Head(chan[<<p, n>>])
       IN  IF block.kind = "cut"
           THEN /\ connected' = [connected EXCEPT ![n] = @ \ {p}]
                /\ UNCHANGED <<mUpdated, data>>
           ELSE /\ mUpdated' = [mUpdated EXCEPT ![n] = @ \cup {p}]
                /\ data' = IF n \in Slaves THEN [data EXCEPT ![n] = Received(@, block)]
                                           ELSE data
                /\ UNCHANGED connected
    /\ chan' = [chan EXCEPT ![<<p, n>>] = Tail(@)]
    /\ completed' = [completed EXCEPT ![n] = @ + 1]
    /\ UNCHANGED <<nodeVars, fateVars, updating, numNodes, held, corked>>

\* The peer's process ended and all it sent is read: the header throws an IOException.
EndOfFile(n, p) ==
    /\ Readable(n, p) /\ chan[<<p, n>>] = <<>> /\ state[p] = "dead"
    /\ Throw(n)

\* The reactor still has the handle of a node that was shut down: select() throws.
SelectFails(n) ==
    /\ Waiting(n) /\ connected[n] # Peers(n)
    /\ Throw(n)

-----------------------------------------------------------------------------
(* From one part of the loop to the next. *)

\* The end of update() and barrier().
Return(n) ==
    /\ Returns(n)
    /\ updating' = updating \ {n}
    /\ IF n = Master /\ AtGo
       THEN \E failed \in SUBSET Broken(n) :
               /\ connected' = [connected EXCEPT ![n] = @ \ failed]
               /\ Write(n, connected'[n])
       ELSE UNCHANGED <<connected, linkVars>>
    /\ Advance(n)
    /\ UNCHANGED <<setup, fateVars, mUpdated, numNodes, completed, data, corked>>

\* preDraw() and postPostFrame() without plug-ins: nothing uncorks the sockets.
NoUpdate(n) ==
    /\ AtUpdate(n) /\ ~HasPlugins /\ connected[n] = Peers(n)
    /\ corked' = corked \cup {n}
    /\ Advance(n)
    /\ UNCHANGED <<setup, fateVars, updateVars, linkVars, data, connected>>

\* swapBarrier() without the software swap lock.
NoSwapBarrier(n) ==
    /\ Idle(n) /\ phase[n] = "draw" /\ ~SwapLock
    /\ Advance(n)
    /\ UNCHANGED <<setup, fateVars, updateVars, linkVars, data, connected, corked>>

Proceed(n) ==
    \/ windowOpened(n)
    \/ n = Master /\ MasterBarrier
    \/ n \in Slaves /\ SlaveBarrier(n)
    \/ update(n) \/ NoUpdate(n) \/ NoSwapBarrier(n)
    \/ \E p \in Peers(n) : recvBlock(n, p)
    \/ Return(n)

Fail(n) ==
    \/ Lose(n) \/ BrokenPipe(n) \/ UpdateFails(n) \/ NullSocket(n) \/ SelectFails(n)
    \/ n = Master /\ GoFails
    \/ Killed(n)
    \/ \E p \in Peers(n) : EndOfFile(n, p)

Next ==
    \/ \E s \in Slaves : connectTo(s) \/ ConnectFails(s)
    \/ \E n \in Nodes : Proceed(n) \/ Fail(n)
    \/ \E l \in Links : Flush(l)

Spec == Init /\ [][Next]_vars

\* Threads run, windows open, and the system sends what it has.
Fairness ==
    /\ \A s \in Slaves : WF_vars(connectTo(s))
    /\ \A n \in Nodes : WF_vars(Proceed(n))
    /\ \A l \in Links : WF_vars(Flush(l))

FairSpec == Spec /\ Fairness

-----------------------------------------------------------------------------
(* Properties. *)

Phases == {"connect", "start", "window", "first", "preDraw", "draw", "postPostFrame"}
Blocks == [kind : Phases \cup {"end", "cut"}, frame : 0..(MaxFrames + 1)]

TypeOK ==
    /\ setup \in Setups
    /\ phase \in [Nodes -> Phases] /\ frame \in [Nodes -> 0..(MaxFrames + 1)]
    /\ state \in [Nodes -> {"up", "ended", "signalled", "dead"}] /\ lost \subseteq Nodes
    /\ updating \subseteq Nodes /\ corked \subseteq Nodes
    /\ connected \in [Nodes -> SUBSET Nodes] /\ mUpdated \in [Nodes -> SUBSET Nodes]
    /\ completed \in [Nodes -> Nat] /\ numNodes \in [Nodes -> Nat]
    /\ \A n \in Nodes :
          /\ connected[n] \subseteq Peers(n) /\ mUpdated[n] \subseteq Peers(n)
          /\ completed[n] <= numNodes[n] /\ numNodes[n] <= Cardinality(Peers(n))
    /\ chan \in [Links -> Seq(Blocks)] /\ held \in [Links -> Seq(Blocks)]
    /\ data \in [Slaves -> [config : BOOLEAN, app : 0..MaxFrames, device : 0..MaxFrames]]

Whole(n) == connected[n] = Peers(n)
InFrame(n) == phase[n] \in {"preDraw", "draw", "postPostFrame"}

\* A slave that has not lost the master draws each frame with the application data
\* the master sent for it, and begins it with the device data of the frame before,
\* never older or newer: blocks of different synchronisations do not mix, however
\* far apart the nodes are (NetworkManager.cpp:422-468).
DataOfFrame ==
    HasPlugins => \A s \in Slaves : Whole(s) =>
        /\ phase[s] \notin {"connect", "start"} => data[s].config
        /\ phase[s] \in {"draw", "postPostFrame"} => data[s].app = frame[s]
        /\ phase[s] \in {"preDraw", "draw"} => data[s].device = frame[s] - 1

\* The last frame n has swapped, and the last it has come to the swap barrier of.
Swapped(n)  == IF ~InFrame(n) THEN 0
               ELSE IF phase[n] = "postPostFrame" THEN frame[n] ELSE frame[n] - 1
Rendered(n) == IF phase[n] = "draw" /\ n \in updating THEN frame[n] ELSE Swapped(n)

\* With the software swap lock no node that has all its connections swaps a frame
\* before every node has rendered it, even if nodes are lost meanwhile
\* (ClusterManager::swapBarrier() and NetworkManager::barrier()).
SwapTogether ==
    SwapLock => \A n, m \in Nodes : Whole(n) => Swapped(n) <= Rendered(m)

\* The synchronisations of a frame, and those n has left when it is in phase[n].
Count(b) == IF b THEN 1 ELSE 0
PerFrame == 2 * Count(HasPlugins) + Count(SwapLock)
Left(n) ==
    CASE phase[n] \in {"connect", "start"} -> 0
      [] phase[n] \in {"window", "first"}  -> 1
      [] OTHER -> 2 + (frame[n] - 1) * PerFrame
                  + (IF phase[n] = "preDraw" THEN 0 ELSE Count(HasPlugins))
                  + (IF phase[n] = "postPostFrame" THEN Count(SwapLock) ELSE 0)

IsBarrier(k) == k <= 2 \/ (SwapLock /\ (k - 2) % PerFrame = (1 + Count(HasPlugins)) % PerFrame)

Sync == INSTANCE NodeSync WITH
    Neighbours <- [n \in Nodes |-> Peers(n)],
    barriers   <- {k \in 1..(2 + 3 * (MaxFrames + 1)) : IsBarrier(k)},
    begun      <- [n \in Nodes |-> Left(n) + Count(n \in updating)],
    done       <- [n \in Nodes |-> Left(n)],
    cut        <- {n \in Nodes : phase[n] # "connect" /\ ~Whole(n)}

\* The nodes go through their synchronisations as NodeSync says: update() lets a node
\* run ahead of the others by what its connections allow, barrier() does not, and a
\* node that lost one is stopped by the next update().
ImplementsNodeSync == Sync!Spec

\* Unless a process ends, every node goes through all frames: no order of end blocks,
\* reads and corked writes leaves the nodes waiting for each other
\* (ClusterManager.h:242-246).
FramesComplete == <>(lost # {}) \/ \A n \in Nodes : <>(frame[n] > MaxFrames)
=============================================================================
