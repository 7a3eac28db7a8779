-------------------------- MODULE MCEffectDelivery --------------------------
(***************************************************************************)
(* The composition of journal, controller and remote service on small     *)
(* instances.  MaxClock exceeds the longest time all leases can take.      *)
(***************************************************************************)
EXTENDS EffectDelivery

CONSTANT MaxClock

MCTimes == 0..MaxClock
MCObservationIds == Ops \X Fences \X Kinds

\* The bound on the clock never bites: no lease is left unexpired by it.
ASSUME MaxClock >= Cardinality(Ops) * MaxFence * LeaseSeconds

\* No action but the duplicate check of record_transport() reads the transport
\* rows, and no action reads the reconciliation rows.  The invariants read of
\* the latter only what DecisiveRows keeps, so states that differ elsewhere in
\* them have the same future and satisfy the same properties.
DecisiveRows == {<<r.op, r.fence, r.outcome, r.reference>> :
                    r \in {r \in reconciliations : r.outcome # "unknown"}}

MCView == <<rowVars, deliveries, observations, DecisiveRows, clock, outgoing, remoteVars, lookups>>

=============================================================================
