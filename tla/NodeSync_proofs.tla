---------------------------- MODULE NodeSync_proofs ----------------------------
(***************************************************************************)
(* What NodeSync says of the synchronisations of any cluster, whatever its *)
(* nodes and connections are: NobodyLeftBehind is inductive.               *)
(***************************************************************************)
EXTENDS NodeSync, TLAPS

\* The types of NodeSync: no node's count of synchronisations (the calls of
\* NetworkManager::update() and barrier()) leaves the naturals.
THEOREM TypeCorrect == Spec => []TypeOK
<1>1. Init => TypeOK
  BY DEF Init, TypeOK
<1>2. TypeOK /\ [Next]_vars => TypeOK'
  <2> SUFFICES ASSUME TypeOK, [Next]_vars
               PROVE  TypeOK'
    OBVIOUS
  <2> USE DEF TypeOK
  <2>1. CASE UNCHANGED vars
    BY <2>1 DEF vars
  <2>2. ASSUME NEW n \in Nodes, Enter(n)
        PROVE  TypeOK'
    BY <2>2 DEF Enter
  <2>3. ASSUME NEW n \in Nodes, Leave(n)
        PROVE  TypeOK'
    BY <2>3 DEF Leave
  <2>4. ASSUME NEW n \in Nodes, Cut(n)
        PROVE  TypeOK'
    BY <2>4 DEF Cut
  <2>5. QED
    BY <2>1, <2>2, <2>3, <2>4 DEF Next
<1>3. QED
  BY <1>1, <1>2, PTL DEF Spec

-----------------------------------------------------------------------------
\* A node's counts never fall, and it does not get back a connection it lost
\* (Node::shutdown() has no counterpart once the cluster has started).
LEMMA Monotone ==
    ASSUME TypeOK, [Next]_vars
    PROVE  /\ cut \subseteq cut' /\ barriers' = barriers
           /\ \A p \in Nodes : begun'[p] >= begun[p] /\ done'[p] >= done[p]
<1> USE DEF TypeOK
<1>1. CASE UNCHANGED vars
  BY <1>1 DEF vars
<1>2. ASSUME NEW n \in Nodes, Enter(n) \/ Leave(n) \/ Cut(n)
      PROVE  /\ cut \subseteq cut' /\ barriers' = barriers
             /\ \A p \in Nodes : begun'[p] >= begun[p] /\ done'[p] >= done[p]
  BY <1>2 DEF Enter, Leave, Cut
<1>3. QED
  BY <1>1, <1>2 DEF Next

\* What NobodyLeftBehind says of one node.
LeftNobody(n) ==
    /\ done[n] <= begun[n] /\ begun[n] <= done[n] + 1
    /\ \A p \in Neighbours[n] : begun[p] >= done[n]
    /\ \A k \in 1..done[n] : k \in barriers => \A p \in Nodes : begun[p] >= k

\* A step that leaves a node's own counts where they are only brings the others
\* nearer (the end blocks of the other nodes).
LEMMA OthersAdvance ==
    ASSUME Neighbours \in [Nodes -> SUBSET Nodes],
           TypeOK, TypeOK', [Next]_vars,
           NEW n \in Nodes, LeftNobody(n), begun'[n] = begun[n], done'[n] = done[n]
    PROVE  LeftNobody(n)'
<1>1. barriers' = barriers /\ \A p \in Nodes : begun'[p] >= begun[p]
  BY Monotone
<1>2. \A p \in Neighbours[n] : begun'[p] >= done'[n]
  BY <1>1 DEF TypeOK, LeftNobody
<1>3. \A k \in 1..done'[n] : k \in barriers' => \A p \in Nodes : begun'[p] >= k
  BY <1>1 DEF TypeOK, LeftNobody
<1>4. QED
  BY <1>2, <1>3 DEF LeftNobody

\* A node comes to its next synchronisation (a node that writes its end blocks).
LEMMA EnterLeavesNobody ==
    ASSUME Neighbours \in [Nodes -> SUBSET Nodes],
           TypeOK, TypeOK', NEW n \in Nodes, Enter(n), LeftNobody(n)
    PROVE  LeftNobody(n)'
<1>1. begun'[n] = begun[n] + 1 /\ begun[n] = done[n] /\ done' = done /\ barriers' = barriers
  BY DEF Enter, TypeOK
<1>2. \A p \in Nodes : begun'[p] >= begun[p]
  BY DEF Enter, TypeOK
<1>3. \A p \in Neighbours[n] : begun'[p] >= done'[n]
  BY <1>1, <1>2 DEF TypeOK, LeftNobody
<1>4. \A k \in 1..done'[n] : k \in barriers' => \A p \in Nodes : begun'[p] >= k
  BY <1>1, <1>2 DEF TypeOK, LeftNobody
<1>5. QED
  BY <1>1, <1>3, <1>4 DEF TypeOK, LeftNobody

\* A node that has not lost a connection leaves a synchronisation when those it
\* waits for have come to it (updateAllNodes() has read all end blocks).
LEMMA LeaveLeavesNobody ==
    ASSUME Neighbours \in [Nodes -> SUBSET Nodes],
           TypeOK, TypeOK', NEW n \in Nodes \ cut, Leave(n), LeftNobody(n)
    PROVE  LeftNobody(n)'
<1>1. done'[n] = done[n] + 1 /\ begun[n] = done'[n] /\ begun' = begun /\ barriers' = barriers
  BY DEF Leave, TypeOK
<1>2. \A p \in Awaited(n) : begun[p] >= begun[n]
  BY DEF Leave
<1>3. \A p \in Neighbours[n] : begun'[p] >= done'[n]
  BY <1>1, <1>2 DEF Awaited
<1>4. ASSUME NEW k \in 1..done'[n], k \in barriers', NEW p \in Nodes
      PROVE  begun'[p] >= k
  <2>1. CASE k = begun[n]
    BY <1>1, <1>2, <1>4, <2>1 DEF Awaited
  <2>2. CASE k # begun[n]
    <3>1. k \in 1..done[n]
      BY <1>1, <2>2 DEF TypeOK
    <3>2. QED
      BY <1>1, <1>4, <3>1 DEF LeftNobody
  <2>3. QED
    BY <2>1, <2>2
<1>5. QED
  BY <1>1, <1>3, <1>4 DEF TypeOK, LeftNobody

-----------------------------------------------------------------------------
\* However many nodes a cluster has and however they are connected: a node that
\* kept its connections never leaves a synchronisation before its neighbours have
\* come to it, nor a barrier before every node has.  This is what update() and
\* barrier() of NetworkManager are for.
THEOREM NobodyIsLeftBehind ==
    ASSUME Neighbours \in [Nodes -> SUBSET Nodes]
    PROVE  Spec => []NobodyLeftBehind
<1>1. Init => NobodyLeftBehind
  <2> SUFFICES ASSUME Init, NEW n \in Nodes \ cut
               PROVE  LeftNobody(n)
    BY DEF NobodyLeftBehind, LeftNobody
  <2>1. begun[n] = 0 /\ done[n] = 0 /\ \A p \in Neighbours[n] : begun[p] = 0
    BY DEF Init
  <2>2. QED
    BY <2>1 DEF LeftNobody
<1>2. TypeOK /\ TypeOK' /\ NobodyLeftBehind /\ [Next]_vars => NobodyLeftBehind'
  <2> SUFFICES ASSUME TypeOK, TypeOK', NobodyLeftBehind, [Next]_vars,
                      NEW n \in Nodes \ cut'
               PROVE  LeftNobody(n)'
    BY DEF NobodyLeftBehind, LeftNobody
  <2>1. n \in Nodes \ cut /\ LeftNobody(n)
    BY Monotone DEF NobodyLeftBehind, LeftNobody
  <2>2. CASE begun'[n] = begun[n] /\ done'[n] = done[n]
    BY <2>1, <2>2, OthersAdvance
  <2>3. CASE Enter(n)
    BY <2>1, <2>3, EnterLeavesNobody
  <2>4. CASE Leave(n)
    BY <2>1, <2>4, LeaveLeavesNobody
  <2>5. ASSUME NEW m \in Nodes, m # n, Enter(m) \/ Leave(m)
        PROVE  begun'[n] = begun[n] /\ done'[n] = done[n]
    BY <2>5 DEF Enter, Leave, TypeOK
  <2>6. ASSUME NEW m \in Nodes, Cut(m)
        PROVE  begun'[n] = begun[n] /\ done'[n] = done[n]
    BY <2>6 DEF Cut
  <2>7. QED
    BY <2>2, <2>3, <2>4, <2>5, <2>6 DEF Next, vars
<1>3. QED
  BY <1>1, <1>2, TypeCorrect, PTL DEF Spec
=============================================================================
