---------------------------- MODULE InputFrames ----------------------------
(***************************************************************************)
(* What a device promises the application (Input::updateData()): the       *)
(* update before a frame shows the newest data there is at that time, and  *)
(* then the data stay as they are until the next update, whatever the      *)
(* device publishes meanwhile.  Every device there is takes part in the    *)
(* update before each frame.  The drivers, their buffers and the input     *)
(* manager implement it.                                                   *)
(***************************************************************************)
EXTENDS Naturals

CONSTANT Units      \* a type of data of a device

VARIABLES
    phase,      \* "update" or "frame"
    live,       \* the units of the devices that are configured
    fresh,      \* those that have been updated since the last frame
    published,  \* the newest data of each unit
    shown       \* what the application is shown

vars == <<phase, live, fresh, published, shown>>

Init ==
    /\ phase = "update" /\ live = {} /\ fresh = {}
    /\ published = [u \in Units |-> 0] /\ shown = [u \in Units |-> 0]

Publish(u) ==
    /\ published' = [published EXCEPT ![u] = @ + 1]
    /\ UNCHANGED <<phase, live, fresh, shown>>

\* Some units are updated; they may publish something at the same time.
Update(us) ==
    /\ phase = "update" /\ us \cap fresh = {}
    /\ fresh' = fresh \cup us
    /\ \A u \in us : published'[u] >= published[u]
    /\ published' = [u \in Units |-> IF u \in us THEN published'[u] ELSE published[u]]
    /\ shown' = [u \in Units |-> IF u \in us THEN published'[u] ELSE shown[u]]
    /\ UNCHANGED <<phase, live>>

\* The update starts again, maybe with other devices.
Configure ==
    /\ phase = "update"
    /\ live' \in SUBSET Units /\ fresh' = {}
    /\ UNCHANGED <<phase, published, shown>>

Begin ==
    /\ phase = "update" /\ live \subseteq fresh
    /\ phase' = "frame"
    /\ UNCHANGED <<live, fresh, published, shown>>

End ==
    /\ phase = "frame"
    /\ phase' = "update" /\ fresh' = {}
    /\ UNCHANGED <<live, published, shown>>

Next ==
    \/ \E u \in Units : Publish(u)
    \/ \E us \in SUBSET Units : Update(us)
    \/ Configure \/ Begin \/ End

Spec == Init /\ [][Next]_vars
=============================================================================
