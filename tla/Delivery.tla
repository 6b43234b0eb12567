------------------------------ MODULE Delivery ------------------------------
(***************************************************************************)
(* What the two programs promise a PC between them, with no flash, header  *)
(* or packet in sight.  The device has one core, and is sure of it except  *)
(* from the beginning of a transfer to the end of one that is completed.   *)
(* A completed transfer replaces the core at a stroke.  A transfer that is *)
(* given up leaves the device unsure: it may then start anything.          *)
(***************************************************************************)
CONSTANT Cores      \* every core there may be

VARIABLES
    core,           \* the core of the last completed transfer
    running,        \* {} when nothing runs, {c} when core c does
    sure            \* no transfer has begun since

vars == <<core, running, sure>>

Init ==
    /\ core \in Cores
    /\ running = {}
    /\ sure = TRUE

Start ==
    /\ running = {}
    /\ \E c \in running' : running' = {c} /\ c \in Cores /\ (sure => c = core)
    /\ UNCHANGED <<core, sure>>

\* Only a running core receives another one.
Begin ==
    /\ running # {}
    /\ sure' = FALSE
    /\ UNCHANGED <<core, running>>

Complete ==
    /\ running # {} /\ ~sure
    /\ core' \in Cores
    /\ running' = {}
    /\ sure' = TRUE

\* Power fails, or a transfer is given up and the device restarted.
Stop ==
    /\ running' = {}
    /\ UNCHANGED <<core, sure>>

Next == Start \/ Begin \/ Complete \/ Stop

Spec == Init /\ [][Next]_vars

=============================================================================
