---------------------------- MODULE MCWorkBudget ----------------------------
(* A Program with an Attempt and its remediation, and a second Program of the *)
(* same Project under a resource ceiling.                                     *)
EXTENDS WorkBudget, TLC

CONSTANTS p1, p2, project, a1, a2, b1, unit, other

MCProjectOf == (p1 :> project) @@ (p2 :> project)
MCProgramOf == (a1 :> p1) @@ (a2 :> p1) @@ (b1 :> p2)
MCUnitOf == (a1 :> unit) @@ (a2 :> unit) @@ (b1 :> other)
MCRemediationOf == (a1 :> None) @@ (a2 :> a1) @@ (b1 :> None)
MCCounts(attempts, verifications, retries) ==
    ("attempt" :> attempts) @@ ("verification" :> verifications) @@ ("retry" :> retries) @@ ("remediation" :> 1)
MCPolicy ==
    (p1 :> [counts |-> MCCounts(2, 1, 1), active |-> 1, bytes |-> 2, ceiling |-> None])
    @@ (p2 :> [counts |-> MCCounts(1, 0, 0), active |-> 1, bytes |-> 1, ceiling |-> 2])
    @@ (project :> [counts |-> MCCounts(2, 1, 1), active |-> 1, bytes |-> 2, ceiling |-> None])
=============================================================================
