--------------------------- MODULE ExternalEffect ---------------------------
(***************************************************************************)
(* What the operation journal promises about external effects, without     *)
(* fences, leases, lookups or crashes: an effect is requested, performed   *)
(* at most once, and answered truthfully and for good.                     *)
(*                                                                         *)
(* For an effect key whose service only promises to perform the key once,  *)
(* an old request may still be performed after a newer one was refused, so *)
(* a refusal of such a key does not exclude its effect.                    *)
(***************************************************************************)
EXTENDS Naturals

CONSTANTS EffectKeys, Idempotent

VARIABLES
    performed,  \* how often the effect was performed
    answer      \* what the owner has been told

vars == <<performed, answer>>

Init ==
    /\ performed = [k \in EffectKeys |-> 0]
    /\ answer = [k \in EffectKeys |-> "none"]

Request(k) ==
    /\ answer[k] = "none"
    /\ answer' = [answer EXCEPT ![k] = "requested"]
    /\ UNCHANGED performed

Perform(k) ==
    /\ performed[k] = 0
    /\ answer[k] = "requested" \/ (answer[k] = "refused" /\ k \in Idempotent)
    /\ performed' = [performed EXCEPT ![k] = 1]
    /\ UNCHANGED answer

Acknowledge(k) ==
    /\ answer[k] = "requested" /\ performed[k] = 1
    /\ answer' = [answer EXCEPT ![k] = "acknowledged"]
    /\ UNCHANGED performed

Refuse(k) ==
    /\ answer[k] = "requested"
    /\ performed[k] = 0 \/ k \in Idempotent
    /\ answer' = [answer EXCEPT ![k] = "refused"]
    /\ UNCHANGED performed

Next == \E k \in EffectKeys : Request(k) \/ Perform(k) \/ Acknowledge(k) \/ Refuse(k)

Spec == Init /\ [][Next]_vars

=============================================================================
