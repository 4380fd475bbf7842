--------------------------- MODULE MCClusterNetwork ---------------------------
(* Small instances of ClusterNetwork: a master and two slaves. *)
EXTENDS ClusterNetwork

\* Every setup but the one in which corked blocks stay where they are.
MCSetups ==
    {s \in [plugins : BOOLEAN, swapLock : BOOLEAN, corkHolds : BOOLEAN] :
        s.swapLock /\ s.corkHolds => s.plugins}

\* No plug-ins, the swap lock, and a build without corkable sockets.
MCCorkedSetup == {[plugins |-> FALSE, swapLock |-> TRUE, corkHolds |-> TRUE]}
=============================================================================
