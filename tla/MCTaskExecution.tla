-------------------------- MODULE MCTaskExecution --------------------------
(***************************************************************************)
(* The task on small instances: two controller processes, of which the     *)
(* second may take over at any moment.                                     *)
(***************************************************************************)
EXTENDS TaskExecution, TLC

MCSymmetry == Permutations(Processes)

\* Once a recorded cancellation is being settled no step looks at the signals,
\* the deadline or the content of the workspace any more.
MCSettling == cancel # "none" /\ (At("off") \/ ctl.stopping)

MCView ==
    <<workVars, commandVars, cancelVars, prVars, ctl, live, owners, conn, group, turn, proc,
      IF MCSettling THEN None ELSE <<signal, late, ws>>, ranOn, turns, prs>>

=============================================================================
