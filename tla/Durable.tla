------------------------------ MODULE Durable ------------------------------
(***************************************************************************)
(* What the store promises its callers: a value in memory and one that     *)
(* survives the process.  Saving makes durable a value the memory had      *)
(* since the last save (not necessarily the newest one), nothing goes back *)
(* to an older one, and a process that starts finds what was durable.      *)
(*                                                                         *)
(* Values are numbered by the changes that made them.                      *)
(***************************************************************************)
EXTENDS Naturals

VARIABLES
    now,      \* the value in memory
    durable   \* the value a restart finds

Init == now = 0 /\ durable = 0

Change  == now' > now /\ UNCHANGED durable
Persist == durable' \in durable..now /\ UNCHANGED now
Restart == now' = durable /\ UNCHANGED durable

Next == Change \/ Persist \/ Restart
Spec == Init /\ [][Next]_<<now, durable>>
=============================================================================
