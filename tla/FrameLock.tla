------------------------------ MODULE FrameLock ------------------------------
(***************************************************************************)
(* What a draw manager promises the kernel of one frame: every screen that *)
(* takes part renders once, then every one swaps once, and no screen swaps *)
(* before all have rendered.  Screens join and leave between frames only.  *)
(* drawAllPipes() and the pipes' control loops implement it.               *)
(***************************************************************************)
CONSTANT Screens

VARIABLES
    live,       \* the screens of the frame being drawn; {} between frames
    rendered,   \* those that have rendered it
    swapped     \* those that show it

vars == <<live, rendered, swapped>>

Init == live = {} /\ rendered = {} /\ swapped = {}

Begin ==
    /\ live = {}
    /\ live' \in SUBSET Screens
    /\ UNCHANGED <<rendered, swapped>>

Render(s) ==
    /\ s \in live \ rendered
    /\ rendered' = rendered \cup {s}
    /\ UNCHANGED <<live, swapped>>

Swap(s) ==
    /\ rendered = live
    /\ s \in live \ swapped
    /\ swapped' = swapped \cup {s}
    /\ UNCHANGED <<live, rendered>>

End ==
    /\ swapped = live
    /\ live' = {} /\ rendered' = {} /\ swapped' = {}

Next == Begin \/ (\E s \in Screens : Render(s) \/ Swap(s)) \/ End

Spec == Init /\ [][Next]_vars
=============================================================================
