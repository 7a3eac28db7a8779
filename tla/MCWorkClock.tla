----------------------------- MODULE MCWorkClock -----------------------------
(* One or two Programs whose deadlines are a second or two away. *)
EXTENDS WorkClock, TLC

MCDeadline == [p \in Programs |-> 2]
MCSymmetry == Permutations(Programs)
=============================================================================
