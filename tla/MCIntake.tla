------------------------------ MODULE MCIntake ------------------------------
(***************************************************************************)
(* A task and another Program in one store.  The other callers have two    *)
(* logical effects that share an effect key.                               *)
(***************************************************************************)
EXTENDS Intake, TLC

MCIntents == {[op |-> 1, effect |-> 1, request |-> 1], [op |-> 2, effect |-> 1, request |-> 1]}
MCOtherSpecs == {<<"other", [native |-> 0, review |-> 0]>>}
MCSpecs == MCOtherSpecs \cup (Declarations \X [native : 0..MaxNative, review : -1..MaxWork])

CONSTANTS d1, d2
MCTerms ==
    (d1 :> {[expires |-> e, policy |-> "plain"] : e \in {2, 3}}) @@ (d2 :> {[expires |-> 3, policy |-> "budget"]})

MCSymmetry == Permutations(Keys \ DecisionIds)
=============================================================================
