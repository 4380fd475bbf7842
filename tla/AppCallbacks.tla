----------------------------- MODULE AppCallbacks -----------------------------
(***************************************************************************)
(* What the kernel promises an application object: its callbacks come in   *)
(* the order of the frame, between init() and exit(), and no application   *)
(* is initialised before the one before it has exited.                     *)
(***************************************************************************)
CONSTANT Apps

VARIABLE calls      \* the last callback made on each application; "exit" at first

Before == [init |-> {"exit"}, apiInit |-> {"init"}, preFrame |-> {"apiInit", "postFrame"},
           latePreFrame |-> {"preFrame"}, draw |-> {"latePreFrame"},
           intraFrame |-> {"draw"}, postFrame |-> {"intraFrame"},
           exit |-> {"apiInit", "postFrame"}]

Callbacks == DOMAIN Before

Init == calls = [a \in Apps |-> "exit"]

Call(a, c) ==
    /\ calls[a] \in Before[c]
    /\ c = "init" => \A b \in Apps : calls[b] = "exit"
    /\ calls' = [calls EXCEPT ![a] = c]

Next == \E a \in Apps, c \in Callbacks : Call(a, c)

Spec == Init /\ [][Next]_calls
=============================================================================
