---------------------------- MODULE ConfigRequests ----------------------------
(***************************************************************************)
(* What the configuration manager promises whoever asks it for changes:    *)
(* every request is carried out at most once and is never dropped, an      *)
(* addition is carried out only while everything the element points to is  *)
(* live, and the only requests the manager makes on its own are the pairs  *)
(* that take a live element with a lost dependency away and bring it back, *)
(* and, when it shuts down, the removal of everything live.                *)
(***************************************************************************)
EXTENDS Naturals

CONSTANTS Elements, DependsOn

VARIABLES
    open,       \* how many requests of each kind wait, by type and element
    live        \* how often each element is in the active configuration

Types == {"ADD", "REMOVE"}
vars == <<open, live>>

Satisfied(e) == \A d \in DependsOn[e] : live[d] > 0

Init == open = [r \in Types \X Elements |-> 0] /\ live = [e \in Elements |-> 0]

Request(t, e) == open' = [open EXCEPT ![<<t, e>>] = @ + 1] /\ UNCHANGED live

Taken(t, e) == open[<<t, e>>] > 0 /\ open' = [open EXCEPT ![<<t, e>>] = @ - 1]

Added(e) == Taken("ADD", e) /\ Satisfied(e) /\ live' = [live EXCEPT ![e] = @ + 1]

Removed(e) ==
    /\ Taken("REMOVE", e)
    /\ live' = [live EXCEPT ![e] = IF @ > 0 THEN @ - 1 ELSE 0]

\* One pair for each occurrence of an element that has lost a dependency.
Reissue ==
    /\ open' = [r \in Types \X Elements |->
                  IF Satisfied(r[2]) THEN open[r] ELSE open[r] + live[r[2]]]
    /\ UNCHANGED live

\* A shutdown: everything is to be removed, and then what is left is discarded.
RemoveAll ==
    /\ open' = [r \in Types \X Elements |->
                  IF r[1] = "REMOVE" THEN open[r] + live[r[2]] ELSE open[r]]
    /\ UNCHANGED live

Discard == open' = [r \in Types \X Elements |-> 0] /\ live' = [e \in Elements |-> 0]

Next == \/ \E e \in Elements : Added(e) \/ Removed(e) \/ \E t \in Types : Request(t, e)
        \/ Reissue \/ RemoveAll \/ Discard

Spec == Init /\ [][Next]_vars
=============================================================================
