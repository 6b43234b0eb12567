------------------------------ MODULE CoreSlot ------------------------------
(***************************************************************************)
(* What the bootloader promises, with no flash in sight: the device has    *)
(* ONE core.  A finished transfer replaces it at a stroke, each start runs *)
(* it whole, and a power failure loses nothing but the fact that it runs.  *)
(***************************************************************************)
CONSTANT Cores      \* every core there may be

VARIABLES
    core,           \* the core the device holds
    running         \* {} when nothing runs, {c} when core c does

vars == <<core, running>>

Init ==
    /\ core \in Cores
    /\ running = {}

\* The bootloader's jump.
Start ==
    /\ running = {}
    /\ running' = {core}
    /\ UNCHANGED core

\* A running core receives its successor; it is used from the next start on.
Update ==
    /\ running # {}
    /\ core' \in Cores
    /\ UNCHANGED running

Stop ==
    /\ running' = {}
    /\ UNCHANGED core

Next == Start \/ Update \/ Stop

Spec == Init /\ [][Next]_vars

=============================================================================
