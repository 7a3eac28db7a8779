-------------------------- MODULE OperationJournal --------------------------
(***************************************************************************)
(* The operation journal of adapters/sqlite_store.py: the tables           *)
(* operations, delivery_attempts, operation_transports,                    *)
(* operation_observations and operation_reconciliations, and the five      *)
(* transactions that write them (intent, claim, record_transport, observe  *)
(* and reconcile).  Each transaction runs under the store's gate and one   *)
(* BEGIN IMMEDIATE, so each is one action; a refused call raises, rolls    *)
(* back and is not a step.                                                 *)
(*                                                                         *)
(* The caller is unconstrained here: fences, clocks, references, evidence  *)
(* and observation identities are chosen freely, so what is proved of this *)
(* module holds whatever the callers, the workers and the remote services  *)
(* do.  EffectDelivery composes it with a caller and a remote service.     *)
(***************************************************************************)
EXTENDS Integers, FiniteSets

CONSTANTS
    Ops,              \* operation identities
    EffectKeys,       \* logical effect identities
    Requests,         \* canonical requests; a digest identifies its request
    InertRequests,    \* the requests that are metadata and never dispatched
    References,       \* domain references a remote service may report
    ObservationIds,   \* identities of domain observations
    Times,            \* clock readings a caller may pass as "now"
    LeaseSeconds,     \* the length of a delivery lease
    MaxFence,         \* bound on the deliveries of one operation
    None              \* SQL NULL

ASSUME JournalAssumption ==
    /\ InertRequests \subseteq Requests
    /\ Times \subseteq Nat
    /\ LeaseSeconds \in Nat \ {0}
    /\ MaxFence \in Nat
    /\ None \notin References
    /\ None \notin EffectKeys
    /\ None \notin {"absent", "idempotent"}

VARIABLES
    status,           \* operations.status; "none" when there is no row
    effectKey,        \* operations.effect_key
    request,          \* operations.request_json / request_digest
    fence,            \* operations.fence
    leaseUntil,       \* operations.lease_until
    reference,        \* operations.accepted_reference
    retryProof,       \* operations.retry_proof
    deliveries,       \* rows of delivery_attempts
    transports,       \* rows of operation_transports
    observations,     \* rows of operation_observations
    reconciliations   \* rows of operation_reconciliations

rowVars     == <<status, effectKey, request, fence, leaseUntil, reference, retryProof>>
journalVars == <<status, effectKey, request, fence, leaseUntil, reference, retryProof,
                 deliveries, transports, observations, reconciliations>>

Kinds     == {"accepted", "rejected", "running", "waiting", "terminal", "unknown"}
Outcomes  == {"absent", "idempotent", "found", "unknown"}
Statuses  == {"none", "intent", "dispatched"} \cup Kinds
Progress  == {"accepted", "running", "waiting"}
Decided   == Progress \cup {"terminal", "rejected"}
Fences    == 1..MaxFence

Deliveries      == [op : Ops, fence : Fences, claimedAt : Nat, leaseUntil : Nat]
Transports      == [op : Ops, fence : Fences, succeeded : BOOLEAN]
Observations    == [id : ObservationIds, op : Ops, fence : Fences, kind : Kinds,
                    reference : References \cup {None}]
\* The evidence text, and the digest and absence flag that Reconcile checks,
\* are left out of the row; its reference is kept where it has a meaning.
Reconciliations == [op : Ops, fence : Fences, outcome : Outcomes,
                    reference : References \cup {None}]

JournalInit ==
    /\ status = [o \in Ops |-> "none"]
    /\ effectKey = [o \in Ops |-> None]
    /\ request = [o \in Ops |-> None]
    /\ fence = [o \in Ops |-> 0]
    /\ leaseUntil = [o \in Ops |-> None]
    /\ reference = [o \in Ops |-> None]
    /\ retryProof = [o \in Ops |-> None]
    /\ deliveries = {}
    /\ transports = {}
    /\ observations = {}
    /\ reconciliations = {}

\* OperationRecord.attempts > 0
Attempted(o) == \E d \in deliveries : d.op = o

\* A lease excludes everybody while it is strictly in the future.
LeaseFree(o, now) == leaseUntil[o] # None => leaseUntil[o] <= now

-----------------------------------------------------------------------------
\* A new logical effect: neither its operation nor its effect key has a row.
\* Repeating the same triple changes nothing; any other overlap raises.
Intent(o, key, req) ==
    /\ status[o] = "none"
    /\ \A p \in Ops : effectKey[p] # key
    /\ status' = [status EXCEPT ![o] = "intent"]
    /\ effectKey' = [effectKey EXCEPT ![o] = key]
    /\ request' = [request EXCEPT ![o] = req]
    /\ UNCHANGED <<fence, leaseUntil, reference, retryProof,
                   deliveries, transports, observations, reconciliations>>

\* Mutant: an expired lease is enough to retry.
ClaimAdmittedOnExpiry(o, now) ==
    /\ status[o] # "none"
    /\ request[o] \notin InertRequests
    /\ LeaseFree(o, now)
    /\ status[o] \notin Decided

\* claim(): who may deliver, and when.
ClaimAdmitted(o, now) ==
    /\ status[o] # "none"
    /\ request[o] \notin InertRequests
    /\ LeaseFree(o, now)
    /\ status[o] \notin Decided
    /\ Attempted(o) => retryProof[o] \in {"absent", "idempotent"}

\* Record a delivery attempt and take its lease, before any I/O.
Claim(o, now) ==
    /\ ClaimAdmitted(o, now)
    /\ fence[o] < MaxFence
    /\ fence' = [fence EXCEPT ![o] = @ + 1]
    /\ leaseUntil' = [leaseUntil EXCEPT ![o] = now + LeaseSeconds]
    /\ status' = [status EXCEPT ![o] = "dispatched"]
    /\ retryProof' = [retryProof EXCEPT ![o] = None]
    /\ deliveries' = deliveries \cup
          {[op |-> o, fence |-> fence[o] + 1, claimedAt |-> now, leaseUntil |-> now + LeaseSeconds]}
    /\ UNCHANGED <<effectKey, request, reference, transports, observations, reconciliations>>

\* Mutant: a report may carry an old fence.
FenceReportsLate(o, f) ==
    /\ status[o] # "none"
    /\ f <= fence[o]
    /\ Attempted(o)
    /\ retryProof[o] = None

\* The fence a report must carry: the current one, delivered and not yet
\* reconciled into a permission to retry.
FenceReports(o, f) ==
    /\ status[o] # "none"
    /\ fence[o] = f
    /\ Attempted(o)
    /\ retryProof[o] = None

\* A transport report; the first report of a fence stays.
RecordTransport(o, f, succeeded) ==
    /\ FenceReports(o, f)
    /\ \A t \in transports : (t.op = o /\ t.fence = f) => t.succeeded = succeeded
    /\ transports' = transports \cup {[op |-> o, fence |-> f, succeeded |-> succeeded]}
    /\ UNCHANGED <<rowVars, deliveries, observations, reconciliations>>

\* Mutant: progress may come before the acceptance.
ObservationAdmittedEarly(o, kind, ref) ==
    /\ kind \in {"accepted", "waiting"} => ref # None
    /\ status[o] \notin {"terminal", "rejected"}
    /\ ~(status[o] \in Progress /\ kind = "rejected")
    /\ kind = "accepted" => reference[o] \in {None, ref}
    /\ ~(kind = "accepted" /\ status[o] \in {"running", "waiting"})
    /\ ~(kind \in {"running", "waiting"} /\ status[o] = "unknown")

\* Mutant: progress may be rejected.
ObservationAdmittedRegressing(o, kind, ref) ==
    /\ kind \in {"accepted", "waiting"} => ref # None
    /\ status[o] \notin {"terminal", "rejected"}
    /\ kind \in {"running", "waiting", "terminal"} => reference[o] # None /\ ref = reference[o]
    /\ kind = "accepted" => reference[o] \in {None, ref}

\* The checks observe() makes of a kind and reference against the operation.
ObservationAdmitted(o, kind, ref) ==
    /\ kind \in {"accepted", "waiting"} => ref # None
    /\ status[o] \notin {"terminal", "rejected"}
    /\ ~(status[o] \in Progress /\ kind = "rejected")
    /\ kind \in {"running", "waiting", "terminal"} => reference[o] # None /\ ref = reference[o]
    /\ kind = "accepted" => reference[o] \in {None, ref}
    /\ ~(kind = "accepted" /\ status[o] \in {"running", "waiting"})
    /\ ~(kind \in {"running", "waiting"} /\ status[o] = "unknown")

\* "unknown" never overwrites progress that was already observed.
StatusAfter(o, kind) ==
    IF kind # "unknown" \/ status[o] \notin Progress THEN kind ELSE status[o]

\* A domain receipt for the current fence.  An identity seen before either
\* repeats its own evidence (no change) or raises, so only a new one steps.
Observe(o, f, id, kind, ref) ==
    /\ FenceReports(o, f)
    /\ \A b \in observations : b.id # id
    /\ ObservationAdmitted(o, kind, ref)
    /\ observations' = observations \cup
          {[id |-> id, op |-> o, fence |-> f, kind |-> kind, reference |-> ref]}
    /\ status' = [status EXCEPT ![o] = StatusAfter(o, kind)]
    /\ reference' = [reference EXCEPT ![o] = IF @ = None /\ kind = "accepted" THEN ref ELSE @]
    /\ UNCHANGED <<effectKey, request, fence, leaseUntil, retryProof,
                   deliveries, transports, reconciliations>>

\* Mutant: an incomplete lookup proves absence.
EvidenceAdmittedIncomplete(o, outcome, ref, matched, authoritative) ==
    /\ outcome \in {"found", "idempotent"} => matched
    /\ outcome = "found" => ref # None /\ reference[o] \in {None, ref}
    /\ outcome \in {"absent", "idempotent"} => reference[o] = None

\* What reconcile() requires of the lookup evidence for each outcome.
EvidenceAdmitted(o, outcome, ref, matched, authoritative) ==
    /\ outcome \in {"found", "idempotent"} => matched
    /\ outcome = "absent" => authoritative
    /\ outcome = "found" => ref # None /\ reference[o] \in {None, ref}
    /\ outcome \in {"absent", "idempotent"} => reference[o] = None

\* The retry permission an outcome leaves; any other outcome withdraws it.
ProofOf(outcome) == IF outcome \in {"absent", "idempotent"} THEN outcome ELSE None

\* The reference an outcome contributes to the operation.
ReferenceOf(outcome, ref) == IF outcome = "found" THEN ref ELSE None

\* Persist what a lookup found out about an uncertain delivery.
Reconcile(o, f, outcome, now, ref, matched, authoritative) ==
    /\ status[o] \in {"dispatched", "unknown"}
    /\ fence[o] = f
    /\ Attempted(o)
    /\ LeaseFree(o, now)
    /\ EvidenceAdmitted(o, outcome, ref, matched, authoritative)
    /\ reconciliations' = reconciliations \cup
          {[op |-> o, fence |-> f, outcome |-> outcome, reference |-> ReferenceOf(outcome, ref)]}
    /\ status' = [status EXCEPT ![o] = IF outcome = "found" THEN "accepted" ELSE "unknown"]
    /\ reference' = [reference EXCEPT ![o] = IF @ = None THEN ReferenceOf(outcome, ref) ELSE @]
    /\ retryProof' = [retryProof EXCEPT ![o] = ProofOf(outcome)]
    /\ leaseUntil' = [leaseUntil EXCEPT ![o] = None]
    /\ UNCHANGED <<effectKey, request, fence, deliveries, transports, observations>>

JournalNext ==
    \/ \E o \in Ops, key \in EffectKeys, req \in Requests : Intent(o, key, req)
    \/ \E o \in Ops, now \in Times : Claim(o, now)
    \/ \E o \in Ops, f \in Fences, succeeded \in BOOLEAN : RecordTransport(o, f, succeeded)
    \/ \E o \in Ops, f \in Fences, id \in ObservationIds, kind \in Kinds,
          ref \in References \cup {None} : Observe(o, f, id, kind, ref)
    \/ \E o \in Ops, f \in Fences, outcome \in Outcomes, now \in Times,
          ref \in References \cup {None}, matched \in BOOLEAN, authoritative \in BOOLEAN :
          Reconcile(o, f, outcome, now, ref, matched, authoritative)

JournalSpec == JournalInit /\ [][JournalNext]_journalVars

-----------------------------------------------------------------------------
\* Every column and row has its schema's type.
JournalTypeOK ==
    /\ status \in [Ops -> Statuses]
    /\ effectKey \in [Ops -> EffectKeys \cup {None}]
    /\ request \in [Ops -> Requests \cup {None}]
    /\ fence \in [Ops -> 0..MaxFence]
    /\ leaseUntil \in [Ops -> Nat \cup {None}]
    /\ reference \in [Ops -> References \cup {None}]
    /\ retryProof \in [Ops -> {"absent", "idempotent", None}]
    /\ deliveries \subseteq Deliveries
    /\ transports \subseteq Transports
    /\ observations \subseteq Observations
    /\ reconciliations \subseteq Reconciliations

\* An operation carries a remote reference exactly while it is accepted,
\* running, waiting or terminal: the column accepted_reference and the column
\* status, written by different branches of observe() and reconcile(), never
\* disagree.
ReferenceMatchesStatus ==
    \A o \in Ops : reference[o] # None <=> status[o] \in Progress \cup {"terminal"}

\* A retry permission is only held by an operation nobody is delivering, whose
\* last word is uncertainty.
ProofMeansUncertain ==
    \A o \in Ops : retryProof[o] # None => status[o] = "unknown" /\ leaseUntil[o] = None

\* An operation has exactly one delivery row for each fence it ever used, and
\* none until it is dispatched.
FencesNumberDeliveries ==
    /\ \A o \in Ops :
        /\ \A f \in 1..fence[o] : \E d \in deliveries : d.op = o /\ d.fence = f
        /\ status[o] \in {"none", "intent"} <=> fence[o] = 0
    /\ \A d \in deliveries : d.fence <= fence[d.op]
    /\ \A d, e \in deliveries : d.op = e.op /\ d.fence = e.fence => d = e

\* A retry permission held now, and every retry ever made, rests on a stored
\* reconciliation of the delivery before it that proved absence or a same-key
\* guarantee.
RetryJustified ==
    /\ \A d \in deliveries : d.fence > 1 =>
          \E r \in reconciliations : /\ r.op = d.op
                                     /\ r.fence = d.fence - 1
                                     /\ r.outcome \in {"absent", "idempotent"}
    /\ \A o \in Ops : retryProof[o] # None =>
          \E r \in reconciliations : r.op = o /\ r.fence = fence[o] /\ r.outcome = retryProof[o]

\* Every acceptance ever stored for an operation, by callback or by lookup,
\* is of its current delivery and names the one reference it carries.
AcceptancesAgree ==
    /\ \A b \in observations : b.kind = "accepted" =>
          b.fence = fence[b.op] /\ b.reference = reference[b.op] /\ b.reference # None
    /\ \A r \in reconciliations : r.outcome = "found" =>
          r.fence = fence[r.op] /\ r.reference = reference[r.op] /\ r.reference # None

\* A reference is only carried on stored evidence of acceptance.
AcceptanceEvidenced ==
    \A o \in Ops : reference[o] # None =>
        \/ \E b \in observations : b.op = o /\ b.kind = "accepted"
        \/ \E r \in reconciliations : r.op = o /\ r.outcome = "found"

\* A delivery that was given up and retried has left nothing but "unknown"
\* observations: a late callback of an old fence is never stored, and every
\* other observation belongs to the current fence of a decided operation.
SupersededFencesSilent ==
    \A b \in observations : b.kind # "unknown" =>
        b.fence = fence[b.op] /\ status[b.op] \in Decided

\* A status that a receipt reports has that receipt.
StatusReceipted ==
    \A o \in Ops : status[o] \in {"rejected", "running", "waiting", "terminal"} =>
        \E b \in observations : b.op = o /\ b.kind = status[o]

\* The receipts _validate_operation_records() looks up for one operation.
DeliveriesOf(o) == {d \in deliveries : d.op = o}

AcceptanceReceipt(o) ==
    /\ reference[o] # None
    /\ \/ \E b \in observations : b.op = o /\ b.kind = "accepted" /\ b.reference = reference[o]
       \/ \E r \in reconciliations : r.op = o /\ r.outcome = "found" /\ r.reference = reference[o]

\* The checks it makes of one operation (the request digest and blobs aside).
OperationValid(o) ==
    /\ fence[o] = Cardinality(DeliveriesOf(o))
    /\ DeliveriesOf(o) # {} => /\ \E d \in DeliveriesOf(o) : d.fence = fence[o]
                               /\ \A d \in DeliveriesOf(o) : d.fence <= fence[o]
    /\ status[o] = "intent" <=> DeliveriesOf(o) = {}
    /\ reference[o] # None <=> AcceptanceReceipt(o)
    /\ status[o] \in Progress \cup {"terminal"} => AcceptanceReceipt(o)
    /\ status[o] \in {"rejected", "running", "waiting", "terminal"} =>
          \E b \in observations : b.op = o /\ b.kind = status[o]
    /\ retryProof[o] # None =>
          \E r \in reconciliations : r.op = o /\ r.fence = fence[o] /\ r.outcome = retryProof[o]

\* Nothing the journal does makes it refuse to open again: what
\* _validate_operation_records() recomputes from the rows on every restart and
\* restore agrees with the columns the transactions left.
JournalReopens == \A o \in Ops : status[o] # "none" => OperationValid(o)

\* The inductive invariant of the journal.
JournalInv ==
    /\ JournalTypeOK
    /\ ReferenceMatchesStatus
    /\ ProofMeansUncertain
    /\ FencesNumberDeliveries
    /\ RetryJustified
    /\ AcceptancesAgree
    /\ AcceptanceEvidenced
    /\ SupersededFencesSilent
    /\ StatusReceipted

\* Once the remote answer is known it is never retracted: no step moves a
\* decided operation back, changes its reference, delivers it again, or moves a
\* terminal or rejected one at all.
OutcomeNeverRetracted ==
    [][\A o \in Ops : status[o] \in Decided =>
          /\ status'[o] \in Decided
          /\ fence'[o] = fence[o]
          /\ reference'[o] = reference[o]
          /\ status[o] \in {"terminal", "rejected"} => status'[o] = status[o]
          /\ status[o] \in Progress => status'[o] # "rejected"]_journalVars

=============================================================================
