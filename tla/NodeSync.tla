------------------------------- MODULE NodeSync -------------------------------
(***************************************************************************)
(* What the cluster network promises its nodes.  Every node goes through   *)
(* the same sequence of synchronisations.  It leaves one only when those   *)
(* it is connected to have come to it, and a barrier only when every node  *)
(* has.  A node that lost a connection waits for nobody any more, but      *)
(* comes to no further synchronisation that is not a barrier.              *)
(* NetworkManager::update() and barrier() implement it.                    *)
(***************************************************************************)
EXTENDS Integers

CONSTANTS
    Nodes,
    Neighbours      \* the set of nodes each node is connected to

VARIABLES
    barriers,   \* the numbers of the synchronisations that are barriers; it never changes
    begun,      \* how many synchronisations each node has come to
    done,       \* how many it has left
    cut         \* the nodes that lost a connection

vars == <<barriers, begun, done, cut>>

Init ==
    /\ barriers \in SUBSET Nat
    /\ begun = [n \in Nodes |-> 0] /\ done = [n \in Nodes |-> 0]
    /\ cut = {}

Enter(n) ==
    /\ begun[n] = done[n]
    /\ n \in cut => begun[n] + 1 \in barriers
    /\ begun' = [begun EXCEPT ![n] = @ + 1]
    /\ cut' \in {cut, cut \cup {n}}
    /\ UNCHANGED <<barriers, done>>

\* The nodes that n waits for.
Awaited(n) == IF begun[n] \in barriers THEN Nodes ELSE Neighbours[n]

Leave(n) ==
    /\ begun[n] = done[n] + 1
    /\ n \in cut \/ \A p \in Awaited(n) : begun[p] >= begun[n]
    /\ done' = [done EXCEPT ![n] = @ + 1]
    /\ cut' \in {cut, cut \cup {n}}
    /\ UNCHANGED <<barriers, begun>>

Cut(n) == cut' = cut \cup {n} /\ UNCHANGED <<barriers, begun, done>>

Next == \E n \in Nodes : Enter(n) \/ Leave(n) \/ Cut(n)

Spec == Init /\ [][Next]_vars

-----------------------------------------------------------------------------
TypeOK ==
    /\ barriers \subseteq Nat
    /\ begun \in [Nodes -> Nat] /\ done \in [Nodes -> Nat]
    /\ cut \subseteq Nodes

\* A node that has left a synchronisation, all its connections in place, left
\* none behind: its neighbours have come as far, and every node has come to the
\* barriers it passed (NetworkManager::update() and barrier()).
NobodyLeftBehind ==
    \A n \in Nodes \ cut :
        /\ done[n] <= begun[n] /\ begun[n] <= done[n] + 1
        /\ \A p \in Neighbours[n] : begun[p] >= done[n]
        /\ \A k \in 1..done[n] : k \in barriers => \A p \in Nodes : begun[p] >= k
=============================================================================
