-------------------------- MODULE MCProgramDomain ---------------------------
(***************************************************************************)
(* The Program aggregate on a chain of two WorkUnits, "b" built from "a".  *)
(* An owner who works alone reworks b and goes back; an owner with a       *)
(* delegate amends the specification once, in any of three ways.           *)
(***************************************************************************)
EXTENDS ProgramDomain, TLC

CONSTANT MaxAttempts   \* the attempt budget of every specification

MCWorkUnits == {"a", "b"}
MCActors == {"owner", "judge", "dev"}

Solo ==
    [units |-> MCWorkUnits,
     deps |-> ("a" :> {} @@ "b" :> {"a"}), consumes |-> ("a" :> {} @@ "b" :> {"a"}),
     intent |-> ("a" :> 1 @@ "b" :> 1), charter |-> 1,
     owner |-> "owner", delegates |-> {}, issuers |-> {"judge"}, allowed |-> Actions,
     authorityMax |-> MaxAttempts, budgetMax |-> MaxAttempts, budgetActive |-> 2]

Team == [Solo EXCEPT !.delegates = {"dev"}]

\* b is declared anew (by an owner alone); b is dropped; b no longer uses a's output; work and its
\* delegate are withdrawn from everybody but the owner.
Bodies ==
    "solo" :> Solo
    @@ "rework" :> [Solo EXCEPT !.intent["b"] = 2]
    @@ "team" :> Team
    @@ "shrink" :> [Team EXCEPT !.units = {"a"}]
    @@ "loosen" :> [Team EXCEPT !.consumes["b"] = {}]
    @@ "revoke" :> [Team EXCEPT !.delegates = {}, !.allowed = @ \ {"start"}, !.budgetActive = 1]

MCBody == [s \in Specs |-> Bodies[s]]

MCAmendments ==
    [s \in Specs |-> CASE s = "solo" -> {"rework"} [] s = "rework" -> {"solo"}
                         [] s = "team" -> {"shrink", "loosen", "revoke"} [] OTHER -> {}]

MCSymmetry == Permutations(References)
=============================================================================
