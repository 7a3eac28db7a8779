------------------------ MODULE EffectDeliveryProofs ------------------------
(***************************************************************************)
(* Proofs about the operation journal, for callers that pass anything, and *)
(* about the delivery of external effects through it: the composition      *)
(* keeps the journal's invariant, the journal is truthful, and the         *)
(* composition implements ExternalEffect, for every set of operations,     *)
(* keys, requests, references and clocks.                                  *)
(***************************************************************************)
EXTENDS EffectDelivery, FiniteSetTheorems, FunctionTheorems, TLAPS

-----------------------------------------------------------------------------
(* The journal. *)

\* The empty journal of a new database satisfies the inductive invariant.
LEMMA InitJournalInv == JournalInit => JournalInv
<1> USE JournalAssumption
<1> SUFFICES ASSUME JournalInit PROVE JournalInv
    OBVIOUS
<1>1. JournalTypeOK
    BY DEF JournalInit, JournalTypeOK, Statuses, Kinds, Fences
<1>2. ReferenceMatchesStatus /\ ProofMeansUncertain /\ FencesNumberDeliveries
    BY DEF JournalInit, ReferenceMatchesStatus, ProofMeansUncertain, FencesNumberDeliveries,
           Progress
<1>3. /\ RetryJustified /\ AcceptancesAgree /\ AcceptanceEvidenced
      /\ SupersededFencesSilent /\ StatusReceipted
    BY DEF JournalInit, RetryJustified, AcceptancesAgree, AcceptanceEvidenced,
           SupersededFencesSilent, StatusReceipted
<1> QED
    BY <1>1, <1>2, <1>3 DEF JournalInv


-----------------------------------------------------------------------------
\* Every transaction keeps the types of the tables.
LEMMA JournalTypeStep == JournalTypeOK /\ [JournalNext]_journalVars => JournalTypeOK'
<1> USE JournalAssumption
<1> SUFFICES ASSUME JournalTypeOK, [JournalNext]_journalVars
             PROVE  JournalTypeOK'
    OBVIOUS
<1> USE DEF JournalTypeOK, Statuses, Kinds
<1>1. ASSUME NEW o \in Ops, NEW key \in EffectKeys, NEW req \in Requests, Intent(o, key, req)
      PROVE  JournalTypeOK'
    BY <1>1 DEF Intent
<1>2. ASSUME NEW o \in Ops, NEW now \in Times, Claim(o, now)
      PROVE  JournalTypeOK'
    <2>1. fence[o] + 1 \in Fences /\ now \in Nat /\ now + LeaseSeconds \in Nat
        <3>1. fence[o] \in 0..MaxFence /\ fence[o] < MaxFence
            BY <1>2 DEF Claim
        <3>2. now \in Nat /\ LeaseSeconds \in Nat /\ MaxFence \in Nat
            BY DEF JournalAssumption
        <3> QED
            BY <3>1, <3>2 DEF Fences
    <2>2. deliveries' \subseteq Deliveries
        BY <1>2, <2>1 DEF Claim, Deliveries
    <2>3. fence' \in [Ops -> 0..MaxFence]
        BY <1>2, <2>1 DEF Claim, Fences
    <2> QED
        BY <1>2, <2>1, <2>2, <2>3 DEF Claim
<1>3. ASSUME NEW o \in Ops, NEW f \in Fences, NEW succeeded \in BOOLEAN,
             RecordTransport(o, f, succeeded)
      PROVE  JournalTypeOK'
    <2>1. transports' \subseteq Transports
        BY <1>3 DEF RecordTransport, Transports
    <2> QED
        BY <1>3, <2>1 DEF RecordTransport, rowVars
<1>4. ASSUME NEW o \in Ops, NEW f \in Fences, NEW id \in ObservationIds, NEW kind \in Kinds,
             NEW ref \in References \cup {None}, Observe(o, f, id, kind, ref)
      PROVE  JournalTypeOK'
    <2>1. observations' \subseteq Observations
        BY <1>4 DEF Observe, Observations
    <2>2. StatusAfter(o, kind) \in Statuses
        BY DEF StatusAfter
    <2> QED
        BY <1>4, <2>1, <2>2 DEF Observe
<1>5. ASSUME NEW o \in Ops, NEW f \in Fences, NEW outcome \in Outcomes, NEW now \in Times,
             NEW ref \in References \cup {None}, NEW matched \in BOOLEAN,
             NEW authoritative \in BOOLEAN,
             Reconcile(o, f, outcome, now, ref, matched, authoritative)
      PROVE  JournalTypeOK'
    <2>1. reconciliations' \subseteq Reconciliations
        BY <1>5 DEF Reconcile, Reconciliations, ReferenceOf
    <2>2. ProofOf(outcome) \in {"absent", "idempotent", None}
        BY DEF ProofOf
    <2>3. ReferenceOf(outcome, ref) \in References \cup {None}
        BY DEF ReferenceOf
    <2> QED
        BY <1>5, <2>1, <2>2, <2>3 DEF Reconcile
<1>6. CASE UNCHANGED journalVars
    BY <1>6 DEF journalVars
<1> QED
    BY <1>1, <1>2, <1>3, <1>4, <1>5, <1>6 DEF JournalNext


-----------------------------------------------------------------------------
\* A delivery has been made exactly when the fence has left zero.
LEMMA AttemptedFence ==
    ASSUME JournalTypeOK, FencesNumberDeliveries, NEW o \in Ops
    PROVE  Attempted(o) <=> fence[o] > 0
<1>1. fence[o] \in Nat
    BY DEF JournalTypeOK
<1>2. ASSUME fence[o] > 0 PROVE Attempted(o)
    <2>1. fence[o] \in 1..fence[o]
        BY <1>1, <1>2
    <2> QED
        BY <2>1 DEF FencesNumberDeliveries, Attempted
<1>3. ASSUME Attempted(o) PROVE fence[o] > 0
    <2>1. PICK d \in deliveries : d.op = o
        BY <1>3 DEF Attempted
    <2>2. d.fence \in 1..MaxFence /\ d.fence <= fence[o]
        BY <2>1 DEF JournalTypeOK, Deliveries, Fences, FencesNumberDeliveries
    <2> QED
        BY <1>1, <2>2
<1> QED
    BY <1>2, <1>3

\* A new intent writes only an operation that had no rows anywhere.
LEMMA IntentStep ==
    ASSUME JournalInv, NEW o \in Ops, NEW key \in EffectKeys, NEW req \in Requests,
           Intent(o, key, req)
    PROVE  /\ ReferenceMatchesStatus' /\ ProofMeansUncertain' /\ FencesNumberDeliveries'
           /\ RetryJustified' /\ AcceptancesAgree' /\ AcceptanceEvidenced'
           /\ SupersededFencesSilent' /\ StatusReceipted'
<1> USE DEF JournalInv, JournalTypeOK
<1>1. ReferenceMatchesStatus'
    BY DEF Intent, ReferenceMatchesStatus, Progress
<1>2. ProofMeansUncertain'
    BY DEF Intent, ProofMeansUncertain
<1>3. FencesNumberDeliveries'
    BY DEF Intent, FencesNumberDeliveries
<1>4. RetryJustified' /\ AcceptancesAgree' /\ AcceptanceEvidenced'
    BY DEF Intent, RetryJustified, AcceptancesAgree, AcceptanceEvidenced
<1>5. SupersededFencesSilent'
    BY DEF Intent, SupersededFencesSilent, Decided, Progress, Observations
<1>6. StatusReceipted'
    BY DEF Intent, StatusReceipted
<1> QED
    BY <1>1, <1>2, <1>3, <1>4, <1>5, <1>6

\* A claim numbers its delivery with the next fence; every retry has its proof.
LEMMA ClaimStep ==
    ASSUME JournalInv, NEW o \in Ops, NEW now \in Times, Claim(o, now)
    PROVE  /\ ReferenceMatchesStatus' /\ ProofMeansUncertain' /\ FencesNumberDeliveries'
           /\ RetryJustified' /\ AcceptancesAgree' /\ AcceptanceEvidenced'
           /\ SupersededFencesSilent' /\ StatusReceipted'
<1> DEFINE new == [op |-> o, fence |-> fence[o] + 1, claimedAt |-> now,
                   leaseUntil |-> now + LeaseSeconds]
<1> USE DEF JournalInv, JournalTypeOK
<1>0. /\ fence[o] \in Nat
      /\ fence' = [fence EXCEPT ![o] = fence[o] + 1]
      /\ deliveries' = deliveries \cup {new}
      /\ status[o] \notin Decided
      /\ reference[o] = None
    BY DEF Claim, ClaimAdmitted, ReferenceMatchesStatus, Decided
<1>1. ReferenceMatchesStatus'
    BY <1>0 DEF Claim, ReferenceMatchesStatus, Progress
<1>2. ProofMeansUncertain'
    BY DEF Claim, ProofMeansUncertain
<1>3. FencesNumberDeliveries'
    <2>1. ASSUME NEW p \in Ops, NEW f \in 1..fence'[p]
          PROVE  \E d \in deliveries' : d.op = p /\ d.fence = f
        <3>1. CASE p = o /\ f = fence[o] + 1
            <4>1. new \in deliveries' /\ new.op = o /\ new.fence = fence[o] + 1
                BY <1>0
            <4> QED
                BY <3>1, <4>1
        <3>2. CASE ~(p = o /\ f = fence[o] + 1)
            <4>1. f \in 1..fence[p]
                BY <3>2, <1>0
            <4> QED
                BY <4>1, <1>0 DEF FencesNumberDeliveries
        <3> QED
            BY <3>1, <3>2
    <2>2. ASSUME NEW p \in Ops
          PROVE  status'[p] \in {"none", "intent"} <=> fence'[p] = 0
        BY <1>0 DEF Claim, FencesNumberDeliveries
    <2>3. ASSUME NEW d \in deliveries'
          PROVE  d.fence <= fence'[d.op]
        BY <1>0 DEF FencesNumberDeliveries, Deliveries, Fences
    <2>4. ASSUME NEW d \in deliveries
          PROVE  ~(d.op = o /\ d.fence = fence[o] + 1)
        BY <1>0 DEF FencesNumberDeliveries, Deliveries, Fences
    <2>5. ASSUME NEW d \in deliveries', NEW e \in deliveries', d.op = e.op, d.fence = e.fence
          PROVE  d = e
        BY <1>0, <2>4, <2>5 DEF FencesNumberDeliveries
    <2> QED
        BY <2>1, <2>2, <2>3, <2>5 DEF FencesNumberDeliveries
<1>4. RetryJustified'
    <2>1. ASSUME NEW d \in deliveries', d.fence > 1
          PROVE  \E r \in reconciliations' : /\ r.op = d.op
                                             /\ r.fence = d.fence - 1
                                             /\ r.outcome \in {"absent", "idempotent"}
        <3>1. CASE d \in deliveries
            BY <2>1, <3>1 DEF RetryJustified, Claim
        <3>2. CASE d = new
            <4>1. Attempted(o)
                BY <2>1, <3>2, <1>0, AttemptedFence
            <4>2. retryProof[o] # None /\ retryProof[o] \in {"absent", "idempotent"}
                BY <4>1, JournalAssumption DEF Claim, ClaimAdmitted
            <4> QED
                BY <4>2, <3>2, <1>0 DEF RetryJustified, Claim
        <3> QED
            BY <3>1, <3>2, <1>0
    <2>2. ASSUME NEW p \in Ops, retryProof'[p] # None
          PROVE  \E r \in reconciliations' :
                    r.op = p /\ r.fence = fence'[p] /\ r.outcome = retryProof'[p]
        BY <2>2 DEF RetryJustified, Claim
    <2> QED
        BY <2>1, <2>2 DEF RetryJustified
<1>5. AcceptancesAgree'
    BY <1>0 DEF Claim, AcceptancesAgree, Observations, Reconciliations
<1>6. AcceptanceEvidenced'
    BY DEF Claim, AcceptanceEvidenced
<1>7. SupersededFencesSilent'
    BY <1>0 DEF Claim, SupersededFencesSilent, Observations
<1>8. StatusReceipted'
    BY DEF Claim, StatusReceipted
<1> QED
    BY <1>1, <1>2, <1>3, <1>4, <1>5, <1>6, <1>7, <1>8


\* An observation of the current, unreconciled fence decides the operation or
\* leaves it as uncertain as it was.
LEMMA ObserveStep ==
    ASSUME JournalInv, NEW o \in Ops, NEW f \in Fences, NEW id \in ObservationIds,
           NEW kind \in Kinds, NEW ref \in References \cup {None},
           Observe(o, f, id, kind, ref)
    PROVE  /\ ReferenceMatchesStatus' /\ ProofMeansUncertain' /\ FencesNumberDeliveries'
           /\ RetryJustified' /\ AcceptancesAgree' /\ AcceptanceEvidenced'
           /\ SupersededFencesSilent' /\ StatusReceipted'
<1> DEFINE new == [id |-> id, op |-> o, fence |-> f, kind |-> kind, reference |-> ref]
<1> USE DEF JournalInv, JournalTypeOK
<1>0. /\ fence[o] = f /\ fence[o] > 0 /\ fence' = fence
      /\ retryProof[o] = None /\ retryProof' = retryProof
      /\ observations' = observations \cup {new}
      /\ reconciliations' = reconciliations
      /\ deliveries' = deliveries
      /\ status' = [status EXCEPT ![o] = StatusAfter(o, kind)]
      /\ reference' = [reference EXCEPT ![o] =
                          IF reference[o] = None /\ kind = "accepted" THEN ref ELSE reference[o]]
    BY AttemptedFence DEF Observe, FenceReports
<1>a. ObservationAdmitted(o, kind, ref)
    BY DEF Observe
<1>b. StatusAfter(o, kind) \notin {"none", "intent"} /\ status[o] \notin {"none", "intent"}
    BY <1>0 DEF StatusAfter, Kinds, Progress, FencesNumberDeliveries
<1>1. ReferenceMatchesStatus'
    <2>1. ASSUME NEW p \in Ops, p # o
          PROVE  reference'[p] # None <=> status'[p] \in Progress \cup {"terminal"}
        BY <1>0, <2>1 DEF ReferenceMatchesStatus
    <2>2. reference'[o] # None <=> status'[o] \in Progress \cup {"terminal"}
        BY <1>0, <1>a DEF ReferenceMatchesStatus, ObservationAdmitted, StatusAfter, Progress, Kinds
    <2> QED
        BY <2>1, <2>2 DEF ReferenceMatchesStatus
<1>2. ProofMeansUncertain'
    BY <1>0 DEF Observe, ProofMeansUncertain
<1>3. FencesNumberDeliveries'
    BY <1>0, <1>b DEF FencesNumberDeliveries
<1>4. RetryJustified'
    BY <1>0 DEF RetryJustified
<1>c. reference[o] # None => reference'[o] = reference[o]
    BY <1>0
<1>5. AcceptancesAgree'
    <2>1. ASSUME NEW b \in observations', b.kind = "accepted"
          PROVE  b.fence = fence'[b.op] /\ b.reference = reference'[b.op] /\ b.reference # None
        <3>1. CASE b \in observations
            BY <2>1, <3>1, <1>0, <1>c DEF AcceptancesAgree, Observations
        <3>2. CASE b = new
            BY <2>1, <3>2, <1>0, <1>a DEF ObservationAdmitted
        <3> QED
            BY <3>1, <3>2, <1>0
    <2>2. ASSUME NEW r \in reconciliations', r.outcome = "found"
          PROVE  r.fence = fence'[r.op] /\ r.reference = reference'[r.op] /\ r.reference # None
        BY <2>2, <1>0, <1>c DEF AcceptancesAgree, Reconciliations
    <2> QED
        BY <2>1, <2>2 DEF AcceptancesAgree
<1>6. AcceptanceEvidenced'
    <2>1. ASSUME NEW p \in Ops, reference'[p] # None
          PROVE  \/ \E b \in observations' : b.op = p /\ b.kind = "accepted"
                 \/ \E r \in reconciliations' : r.op = p /\ r.outcome = "found"
        <3>1. CASE reference[p] # None
            BY <3>1, <1>0 DEF AcceptanceEvidenced
        <3>2. CASE reference[p] = None
            <4>1. p = o /\ kind = "accepted"
                BY <2>1, <3>2, <1>0
            <4>2. new \in observations' /\ new.op = o /\ new.kind = kind
                BY <1>0
            <4> QED
                BY <4>1, <4>2
        <3> QED
            BY <3>1, <3>2
    <2> QED
        BY <2>1 DEF AcceptanceEvidenced
<1>7. SupersededFencesSilent'
    <2>1. status[o] \in Decided => status'[o] \in Decided
        BY <1>0, <1>a DEF StatusAfter, ObservationAdmitted, Decided, Progress, Kinds
    <2>2. kind # "unknown" => status'[o] \in Decided
        BY <1>0 DEF StatusAfter, Decided, Progress, Kinds
    <2>3. ASSUME NEW b \in observations', b.kind # "unknown"
          PROVE  b.fence = fence'[b.op] /\ status'[b.op] \in Decided
        <3>1. CASE b \in observations
            BY <2>1, <2>3, <3>1, <1>0 DEF SupersededFencesSilent, Observations
        <3>2. CASE b = new
            BY <2>2, <2>3, <3>2, <1>0
        <3> QED
            BY <3>1, <3>2, <1>0
    <2> QED
        BY <2>3 DEF SupersededFencesSilent
<1>8. StatusReceipted'
    <2>1. new \in observations' /\ new.op = o /\ new.kind = kind
        BY <1>0
    <2>2. status'[o] \in {kind, status[o]}
        BY <1>0 DEF StatusAfter
    <2>3. ASSUME NEW p \in Ops, status'[p] \in {"rejected", "running", "waiting", "terminal"}
          PROVE  \E b \in observations' : b.op = p /\ b.kind = status'[p]
        <3>1. CASE status'[p] = status[p]
            BY <2>3, <3>1, <1>0 DEF StatusReceipted
        <3>2. CASE status'[p] # status[p]
            BY <2>1, <2>2, <3>2, <1>0
        <3> QED
            BY <3>1, <3>2
    <2> QED
        BY <2>3 DEF StatusReceipted
<1> QED
    BY <1>1, <1>2, <1>3, <1>4, <1>5, <1>6, <1>7, <1>8

\* A reconciliation turns an undecided delivery into an accepted one, into one
\* that may be retried, or into one that is still uncertain.
LEMMA ReconcileStep ==
    ASSUME JournalInv, NEW o \in Ops, NEW f \in Fences, NEW outcome \in Outcomes,
           NEW now \in Times, NEW ref \in References \cup {None},
           NEW matched \in BOOLEAN, NEW authoritative \in BOOLEAN,
           Reconcile(o, f, outcome, now, ref, matched, authoritative)
    PROVE  /\ ReferenceMatchesStatus' /\ ProofMeansUncertain' /\ FencesNumberDeliveries'
           /\ RetryJustified' /\ AcceptancesAgree' /\ AcceptanceEvidenced'
           /\ SupersededFencesSilent' /\ StatusReceipted'
<1> DEFINE new == [op |-> o, fence |-> f, outcome |-> outcome,
                   reference |-> ReferenceOf(outcome, ref)]
<1> USE DEF JournalInv, JournalTypeOK
<1>0. /\ fence[o] = f /\ fence' = fence
      /\ reconciliations' = reconciliations \cup {new}
      /\ observations' = observations
      /\ deliveries' = deliveries
      /\ status[o] \in {"dispatched", "unknown"}
      /\ status' = [status EXCEPT ![o] = IF outcome = "found" THEN "accepted" ELSE "unknown"]
      /\ retryProof' = [retryProof EXCEPT ![o] = ProofOf(outcome)]
      /\ leaseUntil' = [leaseUntil EXCEPT ![o] = None]
    BY DEF Reconcile
<1>a. /\ reference[o] = None
      /\ reference' = [reference EXCEPT ![o] = ReferenceOf(outcome, ref)]
    BY <1>0 DEF Reconcile, ReferenceMatchesStatus, Progress
<1>b. outcome = "found" => ref # None
    BY DEF Reconcile, EvidenceAdmitted
<1>1. ReferenceMatchesStatus'
    BY <1>0, <1>a, <1>b DEF ReferenceMatchesStatus, ReferenceOf, Progress
<1>2. ProofMeansUncertain'
    BY <1>0 DEF ProofMeansUncertain, ProofOf
<1>3. FencesNumberDeliveries'
    BY <1>0 DEF FencesNumberDeliveries
<1>4. RetryJustified'
    <2>1. new \in reconciliations' /\ new.op = o /\ new.fence = fence'[o] /\ new.outcome = outcome
        BY <1>0
    <2>2. \A p \in Ops : retryProof'[p] # None =>
            \E r \in reconciliations' : r.op = p /\ r.fence = fence'[p] /\ r.outcome = retryProof'[p]
        BY <1>0, <2>1 DEF RetryJustified, ProofOf
    <2> QED
        BY <1>0, <2>2 DEF RetryJustified
<1>5. AcceptancesAgree'
    <2>1. ASSUME NEW b \in observations', b.kind = "accepted"
          PROVE  b.fence = fence'[b.op] /\ b.reference = reference'[b.op] /\ b.reference # None
        BY <2>1, <1>0, <1>a DEF AcceptancesAgree, Observations
    <2>2. ASSUME NEW r \in reconciliations', r.outcome = "found"
          PROVE  r.fence = fence'[r.op] /\ r.reference = reference'[r.op] /\ r.reference # None
        <3>1. CASE r \in reconciliations
            BY <2>2, <3>1, <1>0, <1>a DEF AcceptancesAgree, Reconciliations
        <3>2. CASE r = new
            BY <2>2, <3>2, <1>0, <1>a, <1>b DEF ReferenceOf
        <3> QED
            BY <3>1, <3>2, <1>0
    <2> QED
        BY <2>1, <2>2 DEF AcceptancesAgree
<1>6. AcceptanceEvidenced'
    <2>1. new \in reconciliations' /\ new.op = o /\ new.outcome = outcome
        BY <1>0
    <2>2. reference'[o] # None => outcome = "found"
        BY <1>a DEF ReferenceOf
    <2>3. ASSUME NEW p \in Ops, reference'[p] # None
          PROVE  \/ \E b \in observations' : b.op = p /\ b.kind = "accepted"
                 \/ \E r \in reconciliations' : r.op = p /\ r.outcome = "found"
        <3>1. CASE p = o
            BY <2>1, <2>2, <2>3, <3>1
        <3>2. CASE p # o
            BY <2>3, <3>2, <1>0, <1>a DEF AcceptanceEvidenced
        <3> QED
            BY <3>1, <3>2
    <2> QED
        BY <2>3 DEF AcceptanceEvidenced
<1>7. SupersededFencesSilent'
    BY <1>0 DEF SupersededFencesSilent, Observations, Decided, Progress
<1>8. StatusReceipted'
    BY <1>0 DEF StatusReceipted
<1> QED
    BY <1>1, <1>2, <1>3, <1>4, <1>5, <1>6, <1>7, <1>8

\* The inductive invariant survives every transaction.
LEMMA JournalInvStep == JournalInv /\ [JournalNext]_journalVars => JournalInv'
<1> SUFFICES ASSUME JournalInv, [JournalNext]_journalVars
             PROVE  JournalInv'
    OBVIOUS
<1>0. JournalTypeOK'
    BY JournalTypeStep DEF JournalInv
<1>1. ASSUME NEW o \in Ops, NEW key \in EffectKeys, NEW req \in Requests, Intent(o, key, req)
      PROVE  JournalInv'
    BY <1>0, <1>1, IntentStep DEF JournalInv
<1>2. ASSUME NEW o \in Ops, NEW now \in Times, Claim(o, now)
      PROVE  JournalInv'
    BY <1>0, <1>2, ClaimStep DEF JournalInv
<1>3. ASSUME NEW o \in Ops, NEW f \in Fences, NEW succeeded \in BOOLEAN,
             RecordTransport(o, f, succeeded)
      PROVE  JournalInv'
    BY <1>0, <1>3 DEF JournalInv, RecordTransport, rowVars, ReferenceMatchesStatus,
       ProofMeansUncertain, FencesNumberDeliveries, RetryJustified, AcceptancesAgree,
       AcceptanceEvidenced, SupersededFencesSilent, StatusReceipted
<1>4. ASSUME NEW o \in Ops, NEW f \in Fences, NEW id \in ObservationIds, NEW kind \in Kinds,
             NEW ref \in References \cup {None}, Observe(o, f, id, kind, ref)
      PROVE  JournalInv'
    BY <1>0, <1>4, ObserveStep DEF JournalInv
<1>5. ASSUME NEW o \in Ops, NEW f \in Fences, NEW outcome \in Outcomes, NEW now \in Times,
             NEW ref \in References \cup {None}, NEW matched \in BOOLEAN,
             NEW authoritative \in BOOLEAN,
             Reconcile(o, f, outcome, now, ref, matched, authoritative)
      PROVE  JournalInv'
    BY <1>0, <1>5, ReconcileStep DEF JournalInv
<1>6. CASE UNCHANGED journalVars
    BY <1>0, <1>6 DEF JournalInv, journalVars, ReferenceMatchesStatus,
       ProofMeansUncertain, FencesNumberDeliveries, RetryJustified, AcceptancesAgree,
       AcceptanceEvidenced, SupersededFencesSilent, StatusReceipted
<1> QED
    BY <1>1, <1>2, <1>3, <1>4, <1>5, <1>6 DEF JournalNext

-----------------------------------------------------------------------------
\* Whatever its callers do, the journal's tables keep their types and agree
\* with one another.
THEOREM JournalInvariant == JournalSpec => []JournalInv
<1>1. JournalInit => JournalInv
    BY InitJournalInv
<1>2. JournalInv /\ [JournalNext]_journalVars => JournalInv'
    BY JournalInvStep
<1> QED
    BY <1>1, <1>2, PTL DEF JournalSpec


\* The fence counts the delivery rows: fences 1 to fence[o] each have one.
LEMMA FenceCountsDeliveries ==
    ASSUME JournalTypeOK, FencesNumberDeliveries, NEW o \in Ops
    PROVE  Cardinality({d \in deliveries : d.op = o}) = fence[o]
<1> DEFINE mine == {d \in deliveries : d.op = o}
           number == [d \in mine |-> d.fence]
<1>1. fence[o] \in Nat
    BY DEF JournalTypeOK
<1>2. number \in [mine -> 1..fence[o]]
    BY <1>1 DEF JournalTypeOK, Deliveries, Fences, FencesNumberDeliveries
<1>3. \A d, e \in mine : number[d] = number[e] => d = e
    BY DEF FencesNumberDeliveries
<1>4. \A f \in 1..fence[o] : \E d \in mine : number[d] = f
    BY DEF FencesNumberDeliveries
<1> HIDE DEF mine, number
<1>5. ExistsBijection(mine, 1..fence[o])
    BY <1>2, <1>3, <1>4 DEF ExistsBijection, Bijection, Injection, Surjection, IsInjective
<1>6. ExistsBijection(1..fence[o], mine)
    BY <1>5, Fun_ExistsBijSymmetric
<1>7. IsFiniteSet(1..fence[o]) /\ Cardinality(1..fence[o]) = fence[o]
    BY <1>1, FS_Interval, SMTT(30)
<1> QED
    BY <1>6, <1>7, FS_Bijection DEF mine

\* The journal always opens again: what the store recomputes from its rows at
\* every restart agrees with what its transactions left in the columns.
THEOREM JournalAlwaysReopens == JournalSpec => []JournalReopens
<1>1. ASSUME JournalInv PROVE JournalReopens
    <2> USE <1>1, JournalAssumption DEF JournalInv
    <2> SUFFICES ASSUME NEW o \in Ops, status[o] # "none"
                 PROVE  OperationValid(o)
        BY DEF JournalReopens
    <2>1. fence[o] = Cardinality(DeliveriesOf(o))
        BY FenceCountsDeliveries DEF DeliveriesOf
    <2>2. fence[o] \in Nat
        BY DEF JournalTypeOK
    <2>3. DeliveriesOf(o) # {} <=> fence[o] > 0
        BY AttemptedFence DEF Attempted, DeliveriesOf
    <2>4. DeliveriesOf(o) # {} => \E d \in DeliveriesOf(o) : d.fence = fence[o]
        <3>1. fence[o] > 0 => fence[o] \in 1..fence[o]
            BY <2>2
        <3> QED
            BY <2>3, <3>1 DEF FencesNumberDeliveries, DeliveriesOf
    <2>5. \A d \in DeliveriesOf(o) : d.fence <= fence[o]
        BY DEF FencesNumberDeliveries, DeliveriesOf
    <2>6. status[o] = "intent" <=> DeliveriesOf(o) = {}
        BY <2>2, <2>3 DEF FencesNumberDeliveries
    <2>7. reference[o] # None <=> AcceptanceReceipt(o)
        BY DEF AcceptanceEvidenced, AcceptancesAgree, AcceptanceReceipt
    <2>8. status[o] \in Progress \cup {"terminal"} => AcceptanceReceipt(o)
        BY <2>7 DEF ReferenceMatchesStatus
    <2>9. status[o] \in {"rejected", "running", "waiting", "terminal"} =>
            \E b \in observations : b.op = o /\ b.kind = status[o]
        BY DEF StatusReceipted
    <2>10. retryProof[o] # None =>
            \E r \in reconciliations : r.op = o /\ r.fence = fence[o] /\ r.outcome = retryProof[o]
        BY DEF RetryJustified
    <2> QED
        BY <2>1, <2>4, <2>5, <2>6, <2>7, <2>8, <2>9, <2>10 DEF OperationValid
<1> QED
    BY <1>1, JournalInvariant, PTL

\* Every retry the journal ever made rests on a stored proof of absence or of a
\* same-key guarantee for the delivery before it.
THEOREM RetriesAreJustified == JournalSpec => []RetryJustified
<1>1. JournalInv => RetryJustified
    BY DEF JournalInv
<1> QED
    BY <1>1, JournalInvariant, PTL

\* No callback of a superseded fence is ever stored as anything but "unknown".
THEOREM SupersededFencesStaySilent == JournalSpec => []SupersededFencesSilent
<1>1. JournalInv => SupersededFencesSilent
    BY DEF JournalInv
<1> QED
    BY <1>1, JournalInvariant, PTL

\* All stored acceptances of an operation name the one reference it carries.
THEOREM AcceptancesNeverDiffer == JournalSpec => []AcceptancesAgree
<1>1. JournalInv => AcceptancesAgree
    BY DEF JournalInv
<1> QED
    BY <1>1, JournalInvariant, PTL

\* A known remote answer is final: no transaction retracts it, changes its
\* reference or delivers the operation again.
THEOREM OutcomesAreFinal == JournalSpec => OutcomeNeverRetracted
<1> DEFINE Kept(o) ==
        status[o] \in Decided =>
          /\ status'[o] \in Decided
          /\ fence'[o] = fence[o]
          /\ reference'[o] = reference[o]
          /\ status[o] \in {"terminal", "rejected"} => status'[o] = status[o]
          /\ status[o] \in Progress => status'[o] # "rejected"
<1>1. ASSUME JournalInv, [JournalNext]_journalVars
      PROVE  [\A o \in Ops : Kept(o)]_journalVars
    <2> SUFFICES ASSUME JournalNext, NEW p \in Ops, status[p] \in Decided
                 PROVE  /\ status'[p] \in Decided
                        /\ fence'[p] = fence[p]
                        /\ reference'[p] = reference[p]
                        /\ status[p] \in {"terminal", "rejected"} => status'[p] = status[p]
                        /\ status[p] \in Progress => status'[p] # "rejected"
        BY <1>1
    <2> USE <1>1 DEF JournalInv, JournalTypeOK, Decided, Progress
    <2>1. ASSUME NEW o \in Ops, NEW key \in EffectKeys, NEW req \in Requests, Intent(o, key, req)
          PROVE  Kept(p)
        BY <2>1 DEF Intent
    <2>2. ASSUME NEW o \in Ops, NEW now \in Times, Claim(o, now)
          PROVE  Kept(p)
        BY <2>2 DEF Claim, ClaimAdmitted
    <2>3. ASSUME NEW o \in Ops, NEW f \in Fences, NEW succeeded \in BOOLEAN,
                 RecordTransport(o, f, succeeded)
          PROVE  Kept(p)
        BY <2>3 DEF RecordTransport, rowVars
    <2>4. ASSUME NEW o \in Ops, NEW f \in Fences, NEW id \in ObservationIds, NEW kind \in Kinds,
                 NEW ref \in References \cup {None}, Observe(o, f, id, kind, ref)
          PROVE  Kept(p)
        <3>1. CASE p # o
            BY <2>4, <3>1 DEF Observe
        <3>2. CASE p = o
            BY <2>4, <3>2 DEF Observe, ObservationAdmitted, StatusAfter, ReferenceMatchesStatus, Kinds
        <3> QED
            BY <3>1, <3>2
    <2>5. ASSUME NEW o \in Ops, NEW f \in Fences, NEW outcome \in Outcomes, NEW now \in Times,
                 NEW ref \in References \cup {None}, NEW matched \in BOOLEAN,
                 NEW authoritative \in BOOLEAN,
                 Reconcile(o, f, outcome, now, ref, matched, authoritative)
          PROVE  Kept(p)
        BY <2>5 DEF Reconcile
    <2>6. Kept(p)
        <3> HIDE DEF Kept, JournalInv, JournalTypeOK, Decided, Progress
        <3> QED
            BY <2>1, <2>2, <2>3, <2>4, <2>5 DEF JournalNext
    <2> QED
        BY <2>6
<1> QED
    BY <1>1, JournalInvariant, PTL DEF JournalSpec, OutcomeNeverRetracted

-----------------------------------------------------------------------------
(* The delivery. *)

\* Every step of the composition is a step of the journal, or leaves it alone.
LEMMA StepOfJournal ==
    ASSUME DeliveryTypeOK, JournalInv, [Next]_vars
    PROVE  [JournalNext]_journalVars
<1> USE JournalAssumption, DeliveryAssumption DEF DeliveryTypeOK
<1> USE DEF Delivery, Effects, Lookups
<1>1. ASSUME NEW o \in Ops, Attempted(o)
      PROVE  fence[o] \in Fences
    BY <1>1, AttemptedFence DEF JournalInv, JournalTypeOK, Fences
<1>2. ASSUME NEW o \in Ops, NEW key \in EffectKeys, NEW req \in Requests, CommitIntent(o, key, req)
      PROVE  JournalNext
    BY <1>2 DEF CommitIntent, JournalNext
<1>3. ASSUME NEW o \in Ops, ClaimDelivery(o)
      PROVE  JournalNext
    BY <1>3 DEF ClaimDelivery, JournalNext
<1>4. ASSUME NEW o \in Ops, NEW f \in Fences, NEW succeeded \in BOOLEAN,
             ReportTransport(o, f, succeeded)
      PROVE  JournalNext
    BY <1>4 DEF ReportTransport, JournalNext
<1>5. ASSUME NEW o \in Ops, NEW f \in Fences, NEW answer \in Reportable(o, f), Report(o, f, answer)
      PROVE  JournalNext
    <2>1. answer[1] \in Kinds /\ answer[2] \in References \cup {None}
        BY DEF Reportable, Known, EffectsOf, Kinds
    <2>2. <<o, f, answer[1]>> \in ObservationIds
        BY <2>1
    <2> QED
        BY <1>5, <2>1, <2>2 DEF Report, JournalNext
<1>6. ASSUME NEW o \in Ops, NEW f, NEW outcome \in Outcomes, NEW ref \in References \cup {None},
             NEW matched \in BOOLEAN, NEW authoritative \in BOOLEAN,
             Reconcile(o, f, outcome, clock, ref, matched, authoritative)
      PROVE  JournalNext
    <2>1. f \in Fences
        BY <1>1, <1>6 DEF Reconcile
    <2> QED
        BY <1>6, <2>1 DEF JournalNext
<1>7. ASSUME NEW answer \in lookups, ReconcileAbsent(answer)
      PROVE  JournalNext
    <2>1. answer.op \in Ops /\ "absent" \in Outcomes
        BY DEF Outcomes
    <2>2. Reconcile(answer.op, answer.fence, "absent", clock, None, FALSE, TRUE)
        BY <1>7 DEF ReconcileAbsent, Reconcile, EvidenceAdmitted
    <2> QED
        BY <1>6, <2>1, <2>2
<1>8. ASSUME NEW o \in Ops, NEW e \in effects, ReconcileFound(o, e)
      PROVE  JournalNext
    BY <1>6, <1>8 DEF ReconcileFound, Outcomes
<1>9. ASSUME NEW o \in Ops, ReconcileIdempotent(o) \/ ReconcileUnknown(o)
      PROVE  JournalNext
    BY <1>6, <1>9 DEF ReconcileIdempotent, ReconcileUnknown, Outcomes
<1>10. CASE Crash \/ Tick
    BY <1>10 DEF Crash, Tick
<1>11. ASSUME NEW o \in Ops, NEW f \in Fences,
              \/ Send(o, f) \/ Abandon(o, f)
              \/ LoseRequest(o, f) \/ Recognise(o, f) \/ Refuse(o, f)
       PROVE  UNCHANGED journalVars
    BY <1>11 DEF Send, Abandon, LoseRequest, Recognise, Refuse
<1>12. ASSUME NEW o \in Ops, NEW authoritative \in BOOLEAN, LookUpAbsent(o, authoritative)
       PROVE  UNCHANGED journalVars
    BY <1>12 DEF LookUpAbsent
<1>13. ASSUME NEW o \in Ops, NEW f \in Fences, NEW ref \in References, Perform(o, f, ref)
       PROVE  UNCHANGED journalVars
    BY <1>13 DEF Perform
<1>14. ASSUME NEW e \in effects, Complete(e)
       PROVE  UNCHANGED journalVars
    BY <1>14 DEF Complete
<1>15. CASE UNCHANGED vars
    BY <1>15 DEF vars
<1> HIDE DEF DeliveryTypeOK
<1> QED
    BY <1>2, <1>3, <1>4, <1>5, <1>7, <1>8, <1>9, <1>10, <1>11, <1>12, <1>13, <1>14, <1>15
       DEF Next, Controller, Remote

\* So the journal's invariant is kept by the composition.
LEMMA JournalKept ==
    ASSUME DeliveryTypeOK, JournalInv, [Next]_vars
    PROVE  JournalInv'
BY StepOfJournal, JournalInvStep

\* A delivery that left the controller belongs to an operation with a row.
LEMMA DeliveryHasRow ==
    ASSUME JournalInv, EffectsOwned, DeliveriesPlaced, NEW o \in Ops, NEW f \in Fences,
           <<o, f>> \in outgoing \cup wire \cup refusals
    PROVE  status[o] # "none" /\ effectKey[o] \in EffectKeys /\ request[o] \in Requests
<1> USE JournalAssumption
<1>1. f <= fence[o] /\ f \in Nat /\ f > 0 /\ fence[o] \in Nat
    BY DEF DeliveriesPlaced, Fences, JournalInv, JournalTypeOK
<1>2. status[o] # "none"
    BY <1>1 DEF JournalInv, FencesNumberDeliveries
<1> QED
    BY <1>2 DEF EffectsOwned, JournalInv, JournalTypeOK

\* Every step keeps the types of the composed state.
LEMMA DeliveryTypeStep ==
    ASSUME DeliveryTypeOK, JournalInv, EffectsOwned, DeliveriesPlaced, [Next]_vars
    PROVE  DeliveryTypeOK'
<1> USE JournalAssumption, DeliveryAssumption DEF DeliveryTypeOK, Delivery, Effects, Lookups
<1>1. ASSUME NEW o \in Ops, NEW key \in EffectKeys, NEW req \in Requests, CommitIntent(o, key, req)
      PROVE  DeliveryTypeOK'
    BY <1>1 DEF CommitIntent, remoteVars
<1>2. ASSUME NEW o \in Ops, ClaimDelivery(o)
      PROVE  DeliveryTypeOK'
    <2>1. fence[o] + 1 \in Fences
        BY <1>2 DEF ClaimDelivery, Claim, JournalInv, JournalTypeOK, Fences
    <2> QED
        BY <1>2, <2>1 DEF ClaimDelivery, remoteVars
<1>3. ASSUME NEW o \in Ops, NEW f \in Fences, Send(o, f)
      PROVE  DeliveryTypeOK'
    BY <1>3 DEF Send
<1>4. ASSUME NEW o \in Ops, NEW f \in Fences, Abandon(o, f)
      PROVE  DeliveryTypeOK'
    BY <1>4 DEF Abandon, remoteVars
<1>5. ASSUME NEW o \in Ops, NEW f \in Fences, NEW succeeded \in BOOLEAN,
             ReportTransport(o, f, succeeded)
      PROVE  DeliveryTypeOK'
    BY <1>5 DEF ReportTransport, remoteVars
<1>6. ASSUME NEW o \in Ops, NEW f \in Fences, NEW answer \in Reportable(o, f), Report(o, f, answer)
      PROVE  DeliveryTypeOK'
    BY <1>6 DEF Report, remoteVars
<1>7. ASSUME NEW o \in Ops, NEW authoritative \in BOOLEAN, LookUpAbsent(o, authoritative)
      PROVE  DeliveryTypeOK'
    <2>1. fence[o] \in Fences
        BY <1>7 DEF LookUpAbsent, Uncertain, JournalInv, JournalTypeOK, FencesNumberDeliveries, Fences
    <2> QED
        BY <1>7, <2>1 DEF LookUpAbsent, remoteVars
<1>8. ASSUME NEW answer \in lookups, ReconcileAbsent(answer)
      PROVE  DeliveryTypeOK'
    BY <1>8 DEF ReconcileAbsent, remoteVars
<1>9. ASSUME NEW o \in Ops, NEW e \in effects, ReconcileFound(o, e)
      PROVE  DeliveryTypeOK'
    BY <1>9 DEF ReconcileFound, remoteVars
<1>10. ASSUME NEW o \in Ops, ReconcileIdempotent(o)
      PROVE  DeliveryTypeOK'
    BY <1>10 DEF ReconcileIdempotent, remoteVars
<1>11. ASSUME NEW o \in Ops, ReconcileUnknown(o)
      PROVE  DeliveryTypeOK'
    BY <1>11 DEF ReconcileUnknown, remoteVars
<1>12. ASSUME Crash
      PROVE  DeliveryTypeOK'
    BY <1>12 DEF Crash, remoteVars
<1>13. ASSUME Tick
      PROVE  DeliveryTypeOK'
    BY <1>13 DEF Tick, remoteVars
<1>14. ASSUME NEW o \in Ops, NEW f \in Fences, LoseRequest(o, f)
      PROVE  DeliveryTypeOK'
    BY <1>14 DEF LoseRequest
<1>15. ASSUME NEW o \in Ops, NEW f \in Fences, Recognise(o, f)
      PROVE  DeliveryTypeOK'
    BY <1>15 DEF Recognise
<1>16. ASSUME NEW o \in Ops, NEW f \in Fences, Refuse(o, f)
      PROVE  DeliveryTypeOK'
    BY <1>16 DEF Refuse
<1>17. ASSUME NEW o \in Ops, NEW f \in Fences, NEW ref \in References, Perform(o, f, ref)
      PROVE  DeliveryTypeOK'
    <2>1. effectKey[o] \in EffectKeys /\ request[o] \in Requests
        BY <1>17, DeliveryHasRow DEF Perform
    <2>2. [key |-> effectKey[o], request |-> request[o], reference |-> ref, done |-> FALSE] \in Effects
        BY <2>1
    <2>3. effects' \subseteq Effects
        BY <1>17, <2>2 DEF Perform
    <2> HIDE DEF Effects
    <2> QED
        BY <1>17, <2>3 DEF Perform
<1>18. ASSUME NEW e \in effects, Complete(e)
      PROVE  DeliveryTypeOK'
    BY <1>18 DEF Complete
<1>19. CASE UNCHANGED vars
    BY <1>19 DEF vars, journalVars, remoteVars
<1> HIDE DEF DeliveryTypeOK, Delivery, Effects, Lookups
<1> QED
    BY <1>1, <1>2, <1>3, <1>4, <1>5, <1>6, <1>7, <1>8, <1>9, <1>10, <1>11, <1>12, <1>13, <1>14, <1>15, <1>16, <1>17, <1>18, <1>19
       DEF Next, Controller, Remote

\* Only an intent gives an operation its key and request.
LEMMA RowsKept ==
    ASSUME DeliveryTypeOK, JournalInv, [Next]_vars
    PROVE  \/ \E o \in Ops, key \in EffectKeys, req \in Requests : Intent(o, key, req)
           \/ /\ UNCHANGED <<effectKey, request>>
              /\ \A o \in Ops : /\ status'[o] = "none" <=> status[o] = "none"
                               /\ fence[o] <= fence'[o]
<1> USE JournalAssumption DEF JournalInv, JournalTypeOK
<1>1. [JournalNext]_journalVars
    BY StepOfJournal
<1>2. ASSUME NEW o \in Ops, NEW now \in Times, Claim(o, now)
      PROVE  /\ UNCHANGED <<effectKey, request>>
             /\ \A p \in Ops : /\ status'[p] = "none" <=> status[p] = "none"
                              /\ fence[p] <= fence'[p]
    BY <1>2 DEF Claim, ClaimAdmitted
<1>3. ASSUME NEW o \in Ops, NEW f \in Fences, NEW succeeded \in BOOLEAN, RecordTransport(o, f, succeeded)
      PROVE  /\ UNCHANGED <<effectKey, request>>
             /\ \A p \in Ops : /\ status'[p] = "none" <=> status[p] = "none"
                              /\ fence[p] <= fence'[p]
    BY <1>3 DEF RecordTransport, rowVars
<1>4. ASSUME NEW o \in Ops, NEW f \in Fences, NEW id \in ObservationIds, NEW kind \in Kinds,
             NEW ref \in References \cup {None}, Observe(o, f, id, kind, ref)
      PROVE  /\ UNCHANGED <<effectKey, request>>
             /\ \A p \in Ops : /\ status'[p] = "none" <=> status[p] = "none"
                              /\ fence[p] <= fence'[p]
    BY <1>4 DEF Observe, FenceReports, StatusAfter, Kinds
<1>5. ASSUME NEW o \in Ops, NEW f \in Fences, NEW outcome \in Outcomes, NEW now \in Times,
             NEW ref \in References \cup {None}, NEW matched \in BOOLEAN, NEW authoritative \in BOOLEAN,
             Reconcile(o, f, outcome, now, ref, matched, authoritative)
      PROVE  /\ UNCHANGED <<effectKey, request>>
             /\ \A p \in Ops : /\ status'[p] = "none" <=> status[p] = "none"
                              /\ fence[p] <= fence'[p]
    BY <1>5 DEF Reconcile
<1>6. CASE UNCHANGED journalVars
    BY <1>6 DEF journalVars
<1> HIDE DEF JournalInv, JournalTypeOK
<1> QED
    BY <1>1, <1>2, <1>3, <1>4, <1>5, <1>6 DEF JournalNext

\* Only the service adds an effect or completes one.
LEMMA EffectsKept ==
    ASSUME [Next]_vars
    PROVE  \/ UNCHANGED effects
           \/ \E o \in Ops, f \in Fences, ref \in References : Perform(o, f, ref)
           \/ \E e \in effects : Complete(e)
<1> USE DEF remoteVars
<1>1. CASE Controller
    BY <1>1 DEF Controller, CommitIntent, ClaimDelivery, Send, Abandon, ReportTransport, Report,
                LookUpAbsent, ReconcileAbsent, ReconcileFound, ReconcileIdempotent,
                ReconcileUnknown, Crash, Tick
<1>2. CASE Remote
    BY <1>2 DEF Remote, LoseRequest, Recognise, Refuse
<1>3. CASE UNCHANGED vars
    BY <1>3 DEF vars
<1> QED
    BY <1>1, <1>2, <1>3 DEF Next

\* An operation whose request is on the wire and not recognised has no effect yet.
LEMMA FirstEffect ==
    ASSUME OneDeliveryAtWork, NEW o \in Ops, NEW f, <<o, f>> \in wire, ~Recognised(o)
    PROVE  EffectsOf(o) = {}
BY DEF OneDeliveryAtWork, Recognised

\* The effect the completion of e leaves in its place.
LEMMA CompletedEffect ==
    ASSUME effects \subseteq Effects, NEW e \in effects, Complete(e)
    PROVE  \E g \in Effects : /\ effects' = (effects \ {e}) \cup {g}
                              /\ g.key = e.key /\ g.request = e.request
                              /\ g.reference = e.reference /\ g.done
<1>1. [e EXCEPT !.done = TRUE] \in Effects
    BY DEF Effects
<1>2. /\ [e EXCEPT !.done = TRUE].key = e.key
      /\ [e EXCEPT !.done = TRUE].request = e.request
      /\ [e EXCEPT !.done = TRUE].reference = e.reference
      /\ [e EXCEPT !.done = TRUE].done = TRUE
    BY DEF Effects
<1> QED
    BY <1>1, <1>2 DEF Complete

\* Effects stay the single effect of their key's owner.
LEMMA EffectsOwnedStep ==
    ASSUME DeliveryTypeOK, JournalInv, EffectsOwned, DeliveriesPlaced, OneDeliveryAtWork, [Next]_vars
    PROVE  EffectsOwned'
<1> USE JournalAssumption
<1> DEFINE Rows == /\ \A o \in Ops : status[o] = "none" <=> effectKey[o] = None
                   /\ \A o \in Ops : status[o] # "none" => request[o] \in Requests
                   /\ \A o, p \in Ops : effectKey[o] = effectKey[p] /\ effectKey[o] # None => o = p
           Owned == \A e \in effects : \E o \in Ops : /\ e.key = effectKey[o] /\ e.request = request[o]
                                                     /\ fence[o] > 0
           Single == \A e, g \in effects : e.key = g.key => e = g
<1>0. Rows /\ Owned /\ Single /\ effects \subseteq Effects /\ JournalTypeOK
    BY DEF EffectsOwned, DeliveryTypeOK, JournalInv
<1>1. SUFFICES Rows' /\ Owned' /\ Single'
    BY DEF EffectsOwned
<1>2. ASSUME NEW o \in Ops, NEW key \in EffectKeys, NEW req \in Requests, Intent(o, key, req),
             UNCHANGED effects
      PROVE  Rows' /\ Owned' /\ Single'
    <2>1. Rows'
        BY <1>0, <1>2 DEF Intent, JournalTypeOK
    <2>2. ASSUME NEW e \in effects
          PROVE  \E p \in Ops : /\ e.key = effectKey'[p] /\ e.request = request'[p]
                                /\ fence'[p] > 0
        <3>1. PICK p \in Ops : /\ e.key = effectKey[p] /\ e.request = request[p]
                               /\ fence[p] > 0
            BY <1>0
        <3>2. e.key # None
            BY <1>0 DEF Effects
        <3>3. effectKey[o] = None
            BY <1>0, <1>2 DEF Intent
        <3> QED
            BY <1>0, <1>2, <3>1, <3>2, <3>3 DEF Intent, JournalTypeOK
    <2>3. Single'
        BY <1>0, <1>2
    <2> QED
        BY <1>2, <2>1, <2>2, <2>3
<1>3. ASSUME UNCHANGED <<effectKey, request>>,
             \A o \in Ops : status'[o] = "none" <=> status[o] = "none"
      PROVE  Rows'
    BY <1>0, <1>3
<1>4. ASSUME NEW o \in Ops, NEW f \in Fences, NEW ref \in References, Perform(o, f, ref)
      PROVE  Rows' /\ Owned' /\ Single'
    <2> DEFINE new == [key |-> effectKey[o], request |-> request[o], reference |-> ref, done |-> FALSE]
    <2>1. UNCHANGED <<status, effectKey, request, fence>> /\ effects' = effects \cup {new}
        BY <1>4 DEF Perform, journalVars
    <2>2. \A e \in effects : e.key # effectKey[o]
        BY <1>4, FirstEffect DEF Perform, EffectsOf
    <2>3. new.key = effectKey[o] /\ new.request = request[o]
        OBVIOUS
    <2>4. fence[o] > 0
        BY <1>0, <1>4 DEF Perform, DeliveriesPlaced, Fences, JournalTypeOK
    <2> HIDE DEF new
    <2> QED
        BY <1>0, <2>1, <2>2, <2>3, <2>4
<1>5. ASSUME NEW e \in effects, Complete(e)
      PROVE  Rows' /\ Owned' /\ Single'
    <2>1. PICK g \in Effects : /\ effects' = (effects \ {e}) \cup {g}
                               /\ g.key = e.key /\ g.request = e.request
        BY <1>0, <1>5, CompletedEffect
    <2>2. UNCHANGED <<status, effectKey, request, fence>>
        BY <1>5 DEF Complete, journalVars
    <2> QED
        BY <1>0, <2>1, <2>2
<1> HIDE DEF Rows, Owned, Single
<1>6. CASE UNCHANGED effects
    <2>1. CASE /\ UNCHANGED <<effectKey, request>>
               /\ \A o \in Ops : /\ status'[o] = "none" <=> status[o] = "none"
                                /\ fence[o] <= fence'[o]
        <3>1. Rows' /\ Single'
            BY <1>0, <1>3, <1>6, <2>1 DEF Single
        <3>2. \A o \in Ops : fence[o] \in Nat /\ fence'[o] \in Nat
            BY <1>0, JournalKept DEF JournalInv, JournalTypeOK
        <3>3. Owned'
            BY <1>0, <1>6, <2>1, <3>2 DEF Owned
        <3> QED
            BY <3>1, <3>3
    <2> QED
        BY <1>2, <1>6, <2>1, RowsKept
<1> QED
    BY <1>4, <1>5, <1>6, EffectsKept

\* A delivery stays in one place, under a fence that was claimed.
LEMMA DeliveriesPlacedStep ==
    ASSUME DeliveryTypeOK, JournalInv, DeliveriesPlaced, [Next]_vars
    PROVE  DeliveriesPlaced'
<1> USE JournalAssumption DEF DeliveriesPlaced
<1>0. /\ fence \in [Ops -> Nat] /\ outgoing \subseteq Ops \X Nat /\ wire \subseteq Ops \X Nat
      /\ refusals \subseteq Ops \X Nat /\ \A l \in lookups : l.op \in Ops /\ l.fence \in Nat
    BY DEF DeliveryTypeOK, Delivery, Lookups, Fences, JournalInv, JournalTypeOK
<1>1. ASSUME UNCHANGED <<fence, outgoing, wire, refusals>>, lookups' \subseteq lookups
      PROVE  DeliveriesPlaced'
    BY <1>1
<1>2. ASSUME NEW o \in Ops, ClaimDelivery(o)
      PROVE  DeliveriesPlaced'
    <2>1. /\ fence' = [fence EXCEPT ![o] = @ + 1] /\ outgoing' = outgoing \cup {<<o, fence[o] + 1>>}
          /\ UNCHANGED <<wire, refusals, lookups>>
        BY <1>2 DEF ClaimDelivery, Claim, remoteVars
    <2>2. \A p \in Ops : fence[p] <= fence'[p]
        BY <1>0, <2>1
    <2>3. fence'[o] = fence[o] + 1 /\ fence[o] \in Nat
        BY <1>0, <2>1
    <2>4. \A d \in outgoing \cup wire \cup refusals : d[1] \in Ops /\ d[2] \in Nat /\ fence'[d[1]] \in Nat
        BY <1>0, <2>1
    <2>5. <<o, fence[o] + 1>> \notin outgoing \cup wire \cup refusals
        BY <2>3
    <2>6. \A l \in lookups : l.fence <= fence'[l.op]
        BY <1>0, <2>1
    <2> QED
        BY <1>0, <2>1, <2>2, <2>3, <2>4, <2>5, <2>6
<1>3. ASSUME NEW o \in Ops, NEW f \in Fences,
             \/ Send(o, f) \/ Abandon(o, f)
             \/ LoseRequest(o, f) \/ Recognise(o, f) \/ Refuse(o, f)
      PROVE  DeliveriesPlaced'
    <2>1. UNCHANGED <<fence, lookups>>
        BY <1>3 DEF Send, Abandon, LoseRequest, Recognise, Refuse, journalVars
    <2> QED
        BY <1>3, <2>1 DEF Send, Abandon, LoseRequest, Recognise, Refuse, remoteVars
<1>4. ASSUME NEW o \in Ops, NEW f \in Fences, NEW ref \in References, Perform(o, f, ref)
      PROVE  DeliveriesPlaced'
    BY <1>4 DEF Perform, journalVars
<1>5. CASE Crash
    BY <1>5 DEF Crash, journalVars, remoteVars
<1>6. ASSUME NEW o \in Ops, NEW authoritative \in BOOLEAN, LookUpAbsent(o, authoritative)
      PROVE  DeliveriesPlaced'
    <2>1. /\ UNCHANGED <<fence, outgoing, wire, refusals>>
          /\ \A l \in lookups' : l \in lookups \/ (l.op = o /\ l.fence = fence[o])
        BY <1>6 DEF LookUpAbsent, journalVars, remoteVars
    <2> QED
        BY <1>0, <2>1
<1>7. ASSUME NEW o \in Ops, NEW key \in EffectKeys, NEW req \in Requests, CommitIntent(o, key, req)
      PROVE  DeliveriesPlaced'
    BY <1>1, <1>7 DEF CommitIntent, Intent, remoteVars
<1>8. ASSUME NEW o \in Ops, NEW f \in Fences, NEW succeeded \in BOOLEAN,
             ReportTransport(o, f, succeeded)
      PROVE  DeliveriesPlaced'
    BY <1>1, <1>8 DEF ReportTransport, RecordTransport, rowVars, remoteVars
<1>9. ASSUME NEW o \in Ops, NEW f \in Fences, NEW answer \in Reportable(o, f), Report(o, f, answer)
      PROVE  DeliveriesPlaced'
    BY <1>1, <1>9 DEF Report, Observe, remoteVars
<1>10. ASSUME NEW answer \in lookups, ReconcileAbsent(answer)
       PROVE  DeliveriesPlaced'
    BY <1>1, <1>10 DEF ReconcileAbsent, Reconcile, remoteVars
<1>11. ASSUME NEW o \in Ops, NEW e \in effects, ReconcileFound(o, e)
       PROVE  DeliveriesPlaced'
    BY <1>1, <1>11 DEF ReconcileFound, Reconcile, remoteVars
<1>12. ASSUME NEW o \in Ops, ReconcileIdempotent(o) \/ ReconcileUnknown(o)
       PROVE  DeliveriesPlaced'
    BY <1>1, <1>12 DEF ReconcileIdempotent, ReconcileUnknown, Reconcile, remoteVars
<1>13. CASE Tick
    BY <1>1, <1>13 DEF Tick, journalVars, remoteVars
<1>14. ASSUME NEW e \in effects, Complete(e)
       PROVE  DeliveriesPlaced'
    BY <1>1, <1>14 DEF Complete, journalVars
<1>15. CASE UNCHANGED vars
    BY <1>1, <1>15 DEF vars, journalVars, remoteVars
<1> HIDE DEF DeliveriesPlaced
<1> QED
    BY <1>2, <1>3, <1>4, <1>5, <1>6, <1>7, <1>8, <1>9, <1>10, <1>11, <1>12, <1>13, <1>14, <1>15
       DEF Next, Controller, Remote

\* Without a once-per-key service one delivery is at work at a time.
LEMMA OneDeliveryStep ==
    ASSUME DeliveryTypeOK, JournalInv, EffectsOwned, DeliveriesPlaced, OneDeliveryAtWork, [Next]_vars
    PROVE  OneDeliveryAtWork'
<1> USE JournalAssumption, DeliveryAssumption
<1> DEFINE Moving == outgoing \cup wire
           Guarded(o) == \/ <<o, fence[o]>> \in refusals
                         \/ retryProof[o] # None
                         \/ \E l \in lookups : l.op = o /\ l.fence = fence[o] /\ l.authoritative
           Single(o) == /\ \A d \in Moving : d[1] = o => d[2] = fence[o] /\ EffectsOf(o) = {}
                        /\ Guarded(o) => NoTrace(o)
<1>0. OneDeliveryAtWork <=> \A o \in Ops : effectKey[o] \notin Idempotent => Single(o)
    BY DEF OneDeliveryAtWork
<1>01. OneDeliveryAtWork' <=> \A o \in Ops : effectKey'[o] \notin Idempotent => Single(o)'
    BY DEF OneDeliveryAtWork
<1>02. /\ fence \in [Ops -> Nat] /\ effectKey \in [Ops -> EffectKeys \cup {None}]
       /\ retryProof \in [Ops -> {"absent", "idempotent", None}]
    BY DEF JournalInv, JournalTypeOK, Fences
<1>03. /\ \A d \in Moving \cup refusals : d[1] \in Ops /\ d[2] \in Nat /\ d[2] > 0 /\ d = <<d[1], d[2]>>
       /\ \A l \in lookups : l.op \in Ops /\ l.fence \in Nat
    BY DEF DeliveryTypeOK, Delivery, Lookups, Fences
<1>04. \A d \in Moving \cup refusals : d[2] <= fence[d[1]]
    BY DEF DeliveriesPlaced
<1>05. \A o \in Ops : fence[o] = 0 => NoTrace(o)
    BY <1>02, <1>03, <1>04 DEF NoTrace, EffectsOf, EffectsOwned, DeliveryTypeOK, Effects
<1>1. ASSUME UNCHANGED <<effectKey, fence, effects>>, Moving' \subseteq Moving,
             refusals' \subseteq refusals, lookups' \subseteq lookups,
             \A o \in Ops : retryProof'[o] # None => retryProof[o] # None
      PROVE  OneDeliveryAtWork'
    BY <1>0, <1>01, <1>1 DEF NoTrace, EffectsOf
<1>2. ASSUME NEW o \in Ops, NEW key \in EffectKeys, NEW req \in Requests, CommitIntent(o, key, req)
      PROVE  OneDeliveryAtWork'
    <2>1. /\ effectKey' = [effectKey EXCEPT ![o] = key] /\ status[o] = "none"
          /\ \A p \in Ops : effectKey[p] # key
          /\ UNCHANGED <<fence, retryProof, outgoing, wire, effects, refusals, lookups>>
        BY <1>2 DEF CommitIntent, Intent, remoteVars
    <2>2. fence[o] = 0
        BY <2>1 DEF JournalInv, FencesNumberDeliveries
    <2>3. NoTrace(o)
        BY <1>05, <2>2
    <2>4. \A e \in effects : e.key # key
        BY <2>1 DEF EffectsOwned
    <2>5. NoTrace(o)'
        BY <1>02, <2>1, <2>3, <2>4 DEF NoTrace, EffectsOf
    <2>6. Single(o)'
        BY <2>5 DEF NoTrace
    <2>7. ASSUME NEW p \in Ops, p # o, effectKey'[p] \notin Idempotent
          PROVE  Single(p)'
        <3>1. effectKey'[p] = effectKey[p]
            BY <1>02, <2>1, <2>7
        <3>2. EffectsOf(p)' = EffectsOf(p) /\ (NoTrace(p)' <=> NoTrace(p)) /\ (Guarded(p)' <=> Guarded(p))
            BY <2>1, <3>1 DEF EffectsOf, NoTrace
        <3> HIDE DEF Guarded
        <3> QED
            BY <1>0, <2>1, <2>7, <3>1, <3>2
    <2> HIDE DEF Single
    <2> QED
        BY <1>01, <2>6, <2>7
<1>3. ASSUME NEW o \in Ops, ClaimDelivery(o)
      PROVE  OneDeliveryAtWork'
    <2>1. /\ fence' = [fence EXCEPT ![o] = @ + 1] /\ outgoing' = outgoing \cup {<<o, fence[o] + 1>>}
          /\ retryProof' = [retryProof EXCEPT ![o] = None]
          /\ UNCHANGED <<effectKey, wire, effects, refusals, lookups>>
        BY <1>3 DEF ClaimDelivery, Claim, remoteVars
    <2>2. ASSUME effectKey[o] \notin Idempotent
          PROVE  NoTrace(o)
        <3>1. CASE Attempted(o)
            <4>1. retryProof[o] # None
                BY <1>3, <3>1 DEF ClaimDelivery, Claim, ClaimAdmitted
            <4> QED
                BY <1>0, <2>2, <4>1
        <3>2. CASE ~Attempted(o)
            <4>1. fence[o] = 0
                BY <1>02, <3>2 DEF Attempted, JournalInv, FencesNumberDeliveries
            <4> QED
                BY <1>05, <4>1
        <3> QED
            BY <3>1, <3>2
    <2>3. fence'[o] = fence[o] + 1 /\ fence[o] \in Nat /\ retryProof'[o] = None
        BY <1>02, <2>1
    <2>4. ~Guarded(o)'
        <3>1. <<o, fence[o] + 1>> \notin refusals
            BY <1>04, <2>3
        <3>2. \A l \in lookups : l.op = o => l.fence # fence[o] + 1
            BY <1>03, <2>3 DEF DeliveriesPlaced
        <3> QED
            BY <2>1, <2>3, <3>1, <3>2
    <2>5. ASSUME effectKey[o] \notin Idempotent
          PROVE  Single(o)'
        <3>1. EffectsOf(o)' = {}
            BY <2>1, <2>2, <2>5 DEF NoTrace, EffectsOf
        <3>2. \A d \in Moving' : d[1] = o => d[2] = fence'[o]
            BY <2>1, <2>2, <2>3, <2>5 DEF NoTrace
        <3> QED
            BY <2>4, <3>1, <3>2
    <2>6. ASSUME NEW p \in Ops, p # o, effectKey[p] \notin Idempotent
          PROVE  Single(p)'
        <3>1. fence'[p] = fence[p] /\ retryProof'[p] = retryProof[p]
            BY <1>02, <2>1, <2>6
        <3>2. \A d \in Moving' : d[1] = p => d \in Moving
            BY <2>1, <2>6
        <3>3. EffectsOf(p)' = EffectsOf(p) /\ (NoTrace(p) => NoTrace(p)') /\ (Guarded(p)' <=> Guarded(p))
            BY <2>1, <3>1, <3>2 DEF EffectsOf, NoTrace
        <3> HIDE DEF Guarded, Moving
        <3> QED
            BY <1>0, <2>6, <3>1, <3>2, <3>3
    <2> HIDE DEF Single
    <2> QED
        BY <1>01, <2>1, <2>5, <2>6
<1>4. ASSUME NEW o \in Ops, NEW authoritative \in BOOLEAN, LookUpAbsent(o, authoritative)
      PROVE  OneDeliveryAtWork'
    <2>1. /\ UNCHANGED <<effectKey, fence, retryProof, outgoing, wire, effects, refusals>>
          /\ EffectsOf(o) = {}
        BY <1>4 DEF LookUpAbsent, journalVars, remoteVars
    <2>2. \A l \in lookups' : l \in lookups \/ (l.op = o /\ (l.authoritative => NoTrace(o)))
        <3>1. CASE authoritative
            <4>1. \A d \in Moving : d[1] # o
                BY <1>03, <1>4, <3>1 DEF LookUpAbsent, DeliveryTypeOK, Delivery
            <4> QED
                BY <1>4, <2>1, <4>1 DEF LookUpAbsent, NoTrace
        <3>2. CASE ~authoritative
            <4>1. \A l \in lookups' : l \in lookups \/ (l.op = o /\ ~l.authoritative)
                BY <1>4, <3>2 DEF LookUpAbsent
            <4> QED
                BY <4>1
        <3> QED
            BY <3>1, <3>2
    <2>3. \A p \in Ops : EffectsOf(p)' = EffectsOf(p) /\ (NoTrace(p)' <=> NoTrace(p))
        BY <2>1 DEF EffectsOf, NoTrace
    <2> QED
        BY <1>0, <1>01, <2>1, <2>2, <2>3
<1>5. ASSUME NEW answer \in lookups, ReconcileAbsent(answer)
      PROVE  OneDeliveryAtWork'
    <2> DEFINE o == answer.op
    <2>1. /\ UNCHANGED <<effectKey, fence, outgoing, wire, effects, refusals>> /\ lookups' \subseteq lookups
          /\ answer.fence = fence[o] /\ answer.authoritative
          /\ retryProof' = [retryProof EXCEPT ![o] = "absent"]
        BY <1>5 DEF ReconcileAbsent, Reconcile, EvidenceAdmitted, ProofOf, remoteVars
    <2>2. Guarded(o)
        BY <2>1
    <2>3. \A p \in Ops : EffectsOf(p)' = EffectsOf(p) /\ (NoTrace(p)' <=> NoTrace(p))
        BY <2>1 DEF EffectsOf, NoTrace
    <2>4. \A p \in Ops : Guarded(p)' => Guarded(p)
        <3>1. \A p \in Ops : p # o => retryProof'[p] = retryProof[p]
            BY <1>02, <2>1
        <3> HIDE DEF o
        <3> QED
            BY <2>1, <2>2, <3>1
    <2>5. UNCHANGED Moving
        BY <2>1
    <2> HIDE DEF Guarded, Moving
    <2> QED
        BY <1>0, <1>01, <2>1, <2>3, <2>4, <2>5
<1>6. ASSUME NEW o \in Ops, ReconcileIdempotent(o)
      PROVE  OneDeliveryAtWork'
    <2>1. /\ UNCHANGED <<effectKey, fence, outgoing, wire, effects, refusals, lookups>>
          /\ effectKey[o] \in Idempotent
          /\ \A p \in Ops : p # o => retryProof'[p] = retryProof[p]
        BY <1>02, <1>6 DEF ReconcileIdempotent, Reconcile, remoteVars
    <2>2. \A p \in Ops : EffectsOf(p)' = EffectsOf(p) /\ (NoTrace(p)' <=> NoTrace(p))
        BY <2>1 DEF EffectsOf, NoTrace
    <2> QED
        BY <1>0, <1>01, <2>1, <2>2
<1>7. ASSUME NEW o \in Ops, NEW f \in Fences, Refuse(o, f)
      PROVE  OneDeliveryAtWork'
    <2>1. /\ UNCHANGED <<effectKey, fence, retryProof, outgoing, effects, lookups>>
          /\ wire' = wire \ {<<o, f>>} /\ refusals' = refusals \cup {<<o, f>>}
          /\ <<o, f>> \in wire /\ <<o, f>> \notin outgoing
        BY <1>7 DEF Refuse, journalVars, DeliveriesPlaced
    <2>2. \A p \in Ops : EffectsOf(p)' = EffectsOf(p) /\ (NoTrace(p) => NoTrace(p)')
        BY <2>1 DEF EffectsOf, NoTrace
    <2>3. ASSUME effectKey[o] \notin Idempotent
          PROVE  NoTrace(o)'
        <3>1. Single(o) /\ <<o, f>> \in Moving
            BY <1>0, <2>1, <2>3
        <3>2. \A d \in Moving : d[1] = o => d = <<o, f>>
            BY <1>03, <3>1
        <3>3. EffectsOf(o)' = {}
            BY <2>2, <3>1
        <3> QED
            BY <2>1, <3>2, <3>3 DEF NoTrace
    <2>4. \A p \in Ops : p # o => (Guarded(p)' <=> Guarded(p))
        BY <2>1
    <2>5. Moving' \subseteq Moving
        BY <2>1
    <2> HIDE DEF Guarded, Moving
    <2> QED
        BY <1>0, <1>01, <2>1, <2>2, <2>3, <2>4, <2>5
<1>8. ASSUME NEW o \in Ops, NEW f \in Fences, NEW ref \in References, Perform(o, f, ref)
      PROVE  OneDeliveryAtWork'
    <2> DEFINE new == [key |-> effectKey[o], request |-> request[o], reference |-> ref, done |-> FALSE]
    <2>1. /\ UNCHANGED <<effectKey, fence, retryProof, outgoing, refusals, lookups>>
          /\ wire' = wire \ {<<o, f>>} /\ effects' = effects \cup {new} /\ new.key = effectKey[o]
          /\ <<o, f>> \in wire /\ <<o, f>> \notin outgoing
        BY <1>8 DEF Perform, journalVars, DeliveriesPlaced
    <2>2. \A p \in Ops : Guarded(p)' <=> Guarded(p)
        BY <2>1
    <2>3. effectKey[o] # None
        BY <2>1, DeliveryHasRow
    <2> HIDE DEF new
    <2>4. \A p \in Ops : p # o => effectKey[p] # effectKey[o]
        BY <2>3 DEF EffectsOwned
    <2>5. \A p \in Ops : p # o => EffectsOf(p)' = EffectsOf(p) /\ (NoTrace(p) => NoTrace(p)')
        BY <2>1, <2>4 DEF EffectsOf, NoTrace
    <2>6. ASSUME effectKey[o] \notin Idempotent
          PROVE  ~Guarded(o) /\ \A d \in Moving' : d[1] # o
        <3>1. Single(o) /\ <<o, f>> \in Moving
            BY <1>0, <2>1, <2>6
        <3>2. ~NoTrace(o)
            BY <3>1 DEF NoTrace
        <3>3. \A d \in Moving : d[1] = o => d = <<o, f>>
            BY <1>03, <3>1
        <3> QED
            BY <2>1, <3>1, <3>2, <3>3
    <2>7. Moving' \subseteq Moving
        BY <2>1
    <2> HIDE DEF Guarded, Moving
    <2> QED
        BY <1>0, <1>01, <2>1, <2>2, <2>5, <2>6, <2>7
<1>9. ASSUME NEW e \in effects, Complete(e)
      PROVE  OneDeliveryAtWork'
    <2>1. PICK g \in Effects : effects' = (effects \ {e}) \cup {g} /\ g.key = e.key
        BY <1>9, CompletedEffect DEF DeliveryTypeOK
    <2>2. UNCHANGED <<effectKey, fence, retryProof, outgoing, wire, refusals, lookups>>
        BY <1>9 DEF Complete, journalVars
    <2>3. \A p \in Ops : EffectsOf(p) = {} => EffectsOf(p)' = {}
        BY <2>1, <2>2 DEF EffectsOf
    <2>4. \A p \in Ops : (Guarded(p)' <=> Guarded(p)) /\ (NoTrace(p) => NoTrace(p)')
        BY <2>2, <2>3 DEF NoTrace
    <2>5. UNCHANGED Moving
        BY <2>2
    <2> HIDE DEF Guarded, Moving
    <2> QED
        BY <1>0, <1>01, <2>2, <2>3, <2>4, <2>5
<1>10. ASSUME NEW o \in Ops, NEW f \in Fences,
              Send(o, f) \/ Abandon(o, f) \/ LoseRequest(o, f) \/ Recognise(o, f)
       PROVE  OneDeliveryAtWork'
    BY <1>1, <1>10 DEF Send, Abandon, LoseRequest, Recognise, journalVars, remoteVars
<1>11. CASE Crash \/ Tick
    BY <1>1, <1>11 DEF Crash, Tick, journalVars, remoteVars
<1>12. ASSUME NEW o \in Ops, NEW f \in Fences, NEW succeeded \in BOOLEAN,
              ReportTransport(o, f, succeeded)
       PROVE  OneDeliveryAtWork'
    BY <1>1, <1>12 DEF ReportTransport, RecordTransport, rowVars, remoteVars
<1>13. ASSUME NEW o \in Ops, NEW f \in Fences, NEW answer \in Reportable(o, f), Report(o, f, answer)
       PROVE  OneDeliveryAtWork'
    BY <1>1, <1>13 DEF Report, Observe, remoteVars
<1>14. ASSUME NEW o \in Ops, NEW e \in effects, ReconcileFound(o, e)
       PROVE  OneDeliveryAtWork'
    BY <1>02, <1>1, <1>14 DEF ReconcileFound, Reconcile, ProofOf, remoteVars
<1>15. ASSUME NEW o \in Ops, ReconcileUnknown(o)
       PROVE  OneDeliveryAtWork'
    BY <1>02, <1>1, <1>15 DEF ReconcileUnknown, Reconcile, ProofOf, remoteVars
<1>16. CASE UNCHANGED vars
    BY <1>1, <1>16 DEF vars, journalVars, remoteVars
<1> QED
    BY <1>2, <1>3, <1>4, <1>5, <1>6, <1>7, <1>8, <1>9, <1>10, <1>11, <1>12, <1>13, <1>14, <1>15, <1>16
       DEF Next, Controller, Remote

\* A report carries the current fence, and moves the row by its kind alone.
LEMMA ReportRow ==
    ASSUME JournalInv, NEW o \in Ops, NEW f \in Fences, NEW answer \in Reportable(o, f), Report(o, f, answer)
    PROVE  /\ fence[o] = f /\ status[o] \notin {"terminal", "rejected"}
           /\ UNCHANGED <<effectKey, request, fence, effects, refusals>>
           /\ \A p \in Ops : p # o => status'[p] = status[p] /\ reference'[p] = reference[p]
           /\ status'[o] \in {answer[1], status[o]}
           /\ \/ reference'[o] = reference[o]
              \/ answer[1] = "accepted" /\ reference'[o] = answer[2]
           /\ answer[1] = "terminal" => answer[2] = reference[o] /\ reference'[o] = reference[o]
<1>1. Observe(o, f, <<o, f, answer[1]>>, answer[1], answer[2])
    BY DEF Report
<1>2. UNCHANGED <<effectKey, request, fence, effects, refusals>>
    BY <1>1 DEF Report, Observe, remoteVars
<1>3. status \in [Ops -> Statuses] /\ reference \in [Ops -> References \cup {None}]
    BY DEF JournalInv, JournalTypeOK
<1> QED
    BY <1>1, <1>2, <1>3 DEF Observe, FenceReports, ObservationAdmitted, StatusAfter

\* What a rejection or a terminal answer reports was so at the service.
LEMMA ReportedFacts ==
    ASSUME NEW o \in Ops, NEW f \in Fences, NEW answer \in Reportable(o, f)
    PROVE  /\ answer[1] = "rejected" => <<o, f>> \in refusals
           /\ answer[1] \in {"accepted", "terminal"} =>
                 \E e \in EffectsOf(o) : e.reference = answer[2] /\ (answer[1] = "terminal" => e.done)
BY DEF Reportable, Known

\* A lookup changes the row of one uncertain operation, which carries no reference.
LEMMA ReconcileRow ==
    ASSUME JournalInv, NEW o \in Ops, NEW f, NEW outcome \in Outcomes, NEW now, NEW ref,
           NEW matched, NEW authoritative,
           Reconcile(o, f, outcome, now, ref, matched, authoritative)
    PROVE  /\ reference[o] = None /\ status[o] \in {"dispatched", "unknown"}
           /\ UNCHANGED <<effectKey, request, fence>>
           /\ \A p \in Ops : p # o => status'[p] = status[p] /\ reference'[p] = reference[p]
           /\ status'[o] \in {"accepted", "unknown"}
           /\ reference'[o] = IF outcome = "found" THEN ref ELSE None
<1>1. status \in [Ops -> Statuses] /\ reference \in [Ops -> References \cup {None}]
    BY DEF JournalInv, JournalTypeOK
<1>2. reference[o] = None
    BY DEF JournalInv, ReferenceMatchesStatus, Reconcile, Progress
<1> QED
    BY <1>1, <1>2 DEF Reconcile, ReferenceOf

\* The four reconciliations of the controller are reconciliations of the journal
\* that leave the service alone, and a "found" one names an effect of the operation.
LEMMA ControllerReconciles ==
    ASSUME DeliveryTypeOK, JournalInv,
           \/ \E answer \in lookups : ReconcileAbsent(answer)
           \/ \E o \in Ops, e \in effects : ReconcileFound(o, e)
           \/ \E o \in Ops : ReconcileIdempotent(o) \/ ReconcileUnknown(o)
    PROVE  \E o \in Ops :
              /\ reference[o] = None /\ status[o] \in {"dispatched", "unknown"}
              /\ UNCHANGED <<effectKey, request, fence, effects, refusals>>
              /\ \A p \in Ops : p # o => status'[p] = status[p] /\ reference'[p] = reference[p]
              /\ status'[o] \in {"accepted", "unknown"}
              /\ reference'[o] # None => \E e \in EffectsOf(o) : e.reference = reference'[o]
<1>1. ASSUME NEW answer \in lookups, ReconcileAbsent(answer)
      PROVE  /\ answer.op \in Ops /\ UNCHANGED <<effects, refusals>>
             /\ Reconcile(answer.op, answer.fence, "absent", clock, None, FALSE, TRUE)
    BY <1>1 DEF ReconcileAbsent, Reconcile, EvidenceAdmitted, remoteVars, DeliveryTypeOK, Lookups
<1>2. ASSUME NEW o \in Ops, NEW e \in effects, ReconcileFound(o, e)
      PROVE  /\ e \in EffectsOf(o) /\ UNCHANGED <<effects, refusals>>
             /\ Reconcile(o, fence[o], "found", clock, e.reference, TRUE, FALSE)
    BY <1>2 DEF ReconcileFound, Reconcile, EvidenceAdmitted, remoteVars
<1>3. ASSUME NEW o \in Ops, ReconcileIdempotent(o)
      PROVE  /\ UNCHANGED <<effects, refusals>>
             /\ Reconcile(o, fence[o], "idempotent", clock, None, TRUE, FALSE)
    BY <1>3 DEF ReconcileIdempotent, remoteVars
<1>4. ASSUME NEW o \in Ops, ReconcileUnknown(o)
      PROVE  /\ UNCHANGED <<effects, refusals>>
             /\ Reconcile(o, fence[o], "unknown", clock, None, FALSE, FALSE)
    BY <1>4 DEF ReconcileUnknown, remoteVars
<1> DEFINE Changed(o) ==
              /\ reference[o] = None /\ status[o] \in {"dispatched", "unknown"}
              /\ UNCHANGED <<effectKey, request, fence, effects, refusals>>
              /\ \A p \in Ops : p # o => status'[p] = status[p] /\ reference'[p] = reference[p]
              /\ status'[o] \in {"accepted", "unknown"}
              /\ reference'[o] # None => \E e \in EffectsOf(o) : e.reference = reference'[o]
<1>5. ASSUME NEW answer \in lookups, ReconcileAbsent(answer)
      PROVE  Changed(answer.op) /\ answer.op \in Ops
    BY <1>1, <1>5, ReconcileRow DEF Outcomes
<1>6. ASSUME NEW o \in Ops, NEW e \in effects, ReconcileFound(o, e)
      PROVE  Changed(o)
    <2> DEFINE r == e.reference
    <2>0. Reconcile(o, fence[o], "found", clock, r, TRUE, FALSE) /\ "found" \in Outcomes
        BY <1>2, <1>6 DEF Outcomes
    <2> HIDE DEF r
    <2>1. /\ reference[o] = None /\ status[o] \in {"dispatched", "unknown"}
          /\ UNCHANGED <<effectKey, request, fence>>
          /\ \A p \in Ops : p # o => status'[p] = status[p] /\ reference'[p] = reference[p]
          /\ status'[o] \in {"accepted", "unknown"}
          /\ reference'[o] = r
        BY <2>0, ReconcileRow, ZenonT(30)
    <2>2. e \in EffectsOf(o) /\ UNCHANGED <<effects, refusals>>
        BY <1>2, <1>6
    <2> QED
        BY <2>1, <2>2 DEF r
<1>7. ASSUME NEW o \in Ops, ReconcileIdempotent(o) \/ ReconcileUnknown(o)
      PROVE  Changed(o)
    BY <1>3, <1>4, <1>7, ReconcileRow DEF Outcomes
<1>8. \E o \in Ops : Changed(o)
    BY <1>5, <1>6, <1>7
<1> QED
    BY <1>8

\* The steps that leave keys, requests, statuses, references and fences alone.
LEMMA RowsUntouched ==
    ASSUME [Next]_vars,
           ~ \E o \in Ops, key \in EffectKeys, req \in Requests : CommitIntent(o, key, req),
           ~ \E o \in Ops : ClaimDelivery(o),
           ~ \E o \in Ops, f \in Fences : \E answer \in Reportable(o, f) : Report(o, f, answer),
           ~ \E answer \in lookups : ReconcileAbsent(answer),
           ~ \E o \in Ops, e \in effects : ReconcileFound(o, e),
           ~ \E o \in Ops : ReconcileIdempotent(o) \/ ReconcileUnknown(o)
    PROVE  UNCHANGED <<effectKey, request, status, reference, fence>>
<1>1. CASE Controller
    BY <1>1 DEF Controller, Send, Abandon, ReportTransport, RecordTransport, LookUpAbsent, Crash,
                Tick, rowVars, journalVars
<1>2. CASE Remote
    BY <1>2 DEF Remote, LoseRequest, Recognise, Refuse, Perform, Complete, journalVars
<1>3. CASE UNCHANGED vars
    BY <1>3 DEF vars, journalVars
<1> QED
    BY <1>1, <1>2, <1>3 DEF Next

\* The service only adds refusals.
LEMMA RefusalsKept ==
    ASSUME [Next]_vars
    PROVE  refusals \subseteq refusals'
<1> USE DEF remoteVars
<1>1. CASE Controller
    BY <1>1 DEF Controller, CommitIntent, ClaimDelivery, Send, Abandon, ReportTransport, Report,
                LookUpAbsent, ReconcileAbsent, ReconcileFound, ReconcileIdempotent,
                ReconcileUnknown, Crash, Tick
<1>2. CASE Remote
    BY <1>2 DEF Remote, LoseRequest, Recognise, Refuse, Perform, Complete
<1>3. CASE UNCHANGED vars
    BY <1>3 DEF vars
<1> QED
    BY <1>1, <1>2, <1>3 DEF Next

\* A rejected operation stays one whose current delivery the service refused.
LEMMA RejectionsRefusedStep ==
    ASSUME DeliveryTypeOK, JournalInv, RejectionsRefused, [Next]_vars
    PROVE  RejectionsRefused'
<1> USE DEF RejectionsRefused
<1>0. status \in [Ops -> Statuses] /\ fence \in [Ops -> 0..MaxFence] /\ refusals \subseteq refusals'
    BY RefusalsKept DEF JournalInv, JournalTypeOK
<1>1. ASSUME NEW o \in Ops, NEW key \in EffectKeys, NEW req \in Requests, CommitIntent(o, key, req)
      PROVE  RejectionsRefused'
    BY <1>0, <1>1 DEF CommitIntent, Intent
<1>2. ASSUME NEW o \in Ops, ClaimDelivery(o)
      PROVE  RejectionsRefused'
    BY <1>0, <1>2 DEF ClaimDelivery, Claim
<1>3. ASSUME NEW o \in Ops, NEW f \in Fences, NEW answer \in Reportable(o, f), Report(o, f, answer)
      PROVE  RejectionsRefused'
    BY <1>0, <1>3, ReportRow, ReportedFacts
<1>4. ASSUME \/ \E answer \in lookups : ReconcileAbsent(answer)
             \/ \E o \in Ops, e \in effects : ReconcileFound(o, e)
             \/ \E o \in Ops : ReconcileIdempotent(o) \/ ReconcileUnknown(o)
      PROVE  RejectionsRefused'
    <2>1. PICK o \in Ops : /\ UNCHANGED fence
                           /\ \A p \in Ops : p # o => status'[p] = status[p]
                           /\ status'[o] \in {"accepted", "unknown"}
        BY <1>4, ControllerReconciles
    <2> QED
        BY <1>0, <2>1
<1>5. ASSUME UNCHANGED <<status, fence>>
      PROVE  RejectionsRefused'
    BY <1>0, <1>5
<1> HIDE DEF RejectionsRefused
<1> QED
    BY <1>1, <1>2, <1>3, <1>4, <1>5, RowsUntouched

\* An operation's reference names its effect, which is complete when the
\* operation is terminal.
LEMMA ReferencesTrueStep ==
    ASSUME DeliveryTypeOK, JournalInv, EffectsOwned, JournalTruthful, [Next]_vars,
           NEW o \in Ops, reference'[o] # None
    PROVE  \E e \in effects' : /\ e.key = effectKey'[o] /\ e.reference = reference'[o]
                               /\ e.request = request'[o] /\ (status'[o] = "terminal" => e.done)
<1> DEFINE True(e) == /\ e.key = effectKey[o] /\ e.reference = reference[o]
                      /\ e.request = request[o] /\ (status[o] = "terminal" => e.done)
           TrueNext(e) == /\ e.key = effectKey'[o] /\ e.reference = reference'[o]
                          /\ e.request = request'[o] /\ (status'[o] = "terminal" => e.done)
<1> USE JournalAssumption
<1>0. reference[o] # None => \E e \in effects : True(e)
    BY DEF JournalTruthful, EffectsOf
<1>01. /\ status \in [Ops -> Statuses] /\ reference \in [Ops -> References \cup {None}]
       /\ effectKey \in [Ops -> EffectKeys \cup {None}] /\ request \in [Ops -> Requests \cup {None}]
       /\ effects \subseteq Effects
    BY DEF JournalInv, JournalTypeOK, DeliveryTypeOK
<1>02. \A e \in EffectsOf(o) : e.request = request[o]
    BY <1>01 DEF EffectsOwned, EffectsOf, Effects
<1>1. SUFFICES \E e \in effects' : TrueNext(e)
    OBVIOUS
<1>2. ASSUME NEW p \in Ops, NEW key \in EffectKeys, NEW req \in Requests, CommitIntent(p, key, req)
      PROVE  \E e \in effects' : TrueNext(e)
    <2>1. /\ UNCHANGED <<reference, effects>> /\ status[p] = "none"
          /\ effectKey' = [effectKey EXCEPT ![p] = key] /\ request' = [request EXCEPT ![p] = req]
          /\ status' = [status EXCEPT ![p] = "intent"]
        BY <1>2 DEF CommitIntent, Intent, remoteVars
    <2>2. o # p
        BY <2>1 DEF JournalInv, ReferenceMatchesStatus, Progress
    <2> QED
        BY <1>0, <1>01, <2>1, <2>2
<1>3. ASSUME NEW p \in Ops, ClaimDelivery(p)
      PROVE  \E e \in effects' : TrueNext(e)
    <2>1. /\ UNCHANGED <<reference, effectKey, request, effects>> /\ status[p] \notin Decided
          /\ status' = [status EXCEPT ![p] = "dispatched"]
        BY <1>3 DEF ClaimDelivery, Claim, ClaimAdmitted, remoteVars
    <2>2. o # p
        BY <2>1 DEF JournalInv, ReferenceMatchesStatus, Decided
    <2> QED
        BY <1>0, <1>01, <2>1, <2>2
<1>4. ASSUME NEW p \in Ops, NEW f \in Fences, NEW answer \in Reportable(p, f), Report(p, f, answer)
      PROVE  \E e \in effects' : TrueNext(e)
    <2>1. /\ UNCHANGED <<effectKey, request, effects>>
          /\ \A q \in Ops : q # p => status'[q] = status[q] /\ reference'[q] = reference[q]
          /\ status'[p] \in {answer[1], status[p]} /\ status[p] # "terminal"
          /\ \/ reference'[p] = reference[p]
             \/ answer[1] = "accepted" /\ reference'[p] = answer[2]
          /\ answer[1] = "terminal" => answer[2] = reference[p] /\ reference'[p] = reference[p]
        BY <1>4, ReportRow
    <2>2. answer[1] \in {"accepted", "terminal"} =>
             \E e \in EffectsOf(p) : e.reference = answer[2] /\ (answer[1] = "terminal" => e.done)
        BY <1>4, ReportedFacts
    <2>3. CASE o # p
        BY <1>0, <2>1, <2>3
    <2>4. CASE o = p /\ answer[1] \in {"accepted", "terminal"} /\ reference'[o] = answer[2]
        BY <1>02, <2>1, <2>2, <2>4 DEF EffectsOf
    <2>5. CASE o = p /\ answer[1] # "terminal" /\ reference'[o] = reference[o]
        BY <1>0, <2>1, <2>5
    <2> QED
        BY <2>1, <2>3, <2>4, <2>5
<1>5. ASSUME \/ \E answer \in lookups : ReconcileAbsent(answer)
             \/ \E p \in Ops, e \in effects : ReconcileFound(p, e)
             \/ \E p \in Ops : ReconcileIdempotent(p) \/ ReconcileUnknown(p)
      PROVE  \E e \in effects' : TrueNext(e)
    <2>1. PICK p \in Ops :
              /\ UNCHANGED <<effectKey, request, effects>>
              /\ \A q \in Ops : q # p => status'[q] = status[q] /\ reference'[q] = reference[q]
              /\ status'[p] \in {"accepted", "unknown"}
              /\ reference'[p] # None => \E e \in EffectsOf(p) : e.reference = reference'[p]
        BY <1>5, ControllerReconciles
    <2> QED
        BY <1>0, <1>02, <2>1 DEF EffectsOf
<1>6. ASSUME UNCHANGED <<effectKey, request, status, reference>>
      PROVE  \E e \in effects' : TrueNext(e)
    <2>1. PICK e \in effects : True(e)
        BY <1>0, <1>6
    <2>2. CASE e \in effects'
        BY <1>6, <2>1, <2>2
    <2>3. CASE Complete(e)
        BY <1>01, <1>6, <2>1, <2>3, CompletedEffect
    <2>4. e \in effects' \/ Complete(e)
        BY EffectsKept DEF Perform, Complete
    <2> QED
        BY <2>2, <2>3, <2>4
<1> HIDE DEF TrueNext
<1> QED
    BY <1>2, <1>3, <1>4, <1>5, <1>6, RowsUntouched

\* The whole invariant is inductive; a rejected operation has no effect because
\* its delivery was refused and nothing else was under way.
LEMMA DeliveryInvStep == DeliveryInv /\ [Next]_vars => DeliveryInv'
<1> SUFFICES ASSUME DeliveryInv, [Next]_vars
             PROVE  DeliveryInv'
    OBVIOUS
<1> USE DEF DeliveryInv
<1>1. /\ DeliveryTypeOK' /\ JournalInv' /\ EffectsOwned' /\ DeliveriesPlaced'
      /\ OneDeliveryAtWork' /\ RejectionsRefused'
    BY JournalKept, DeliveryTypeStep, EffectsOwnedStep, DeliveriesPlacedStep, OneDeliveryStep,
       RejectionsRefusedStep
<1>2. \A o \in Ops : reference'[o] # None =>
          \E e \in effects' : /\ e.key = effectKey'[o] /\ e.reference = reference'[o]
                              /\ e.request = request'[o] /\ (status'[o] = "terminal" => e.done)
    BY ReferencesTrueStep
<1>3. \A o \in Ops : status'[o] = "rejected" /\ effectKey'[o] \notin Idempotent => EffectsOf(o)' = {}
    BY <1>1 DEF RejectionsRefused, OneDeliveryAtWork, NoTrace
<1>4. JournalTruthful'
    BY <1>2, <1>3 DEF JournalTruthful, EffectsOf
<1> QED
    BY <1>1, <1>4

LEMMA DeliveryInvInit == Init => DeliveryInv
<1> SUFFICES ASSUME Init
             PROVE  DeliveryInv
    OBVIOUS
<1> USE JournalAssumption, DeliveryAssumption
<1>1. JournalInv
    BY InitJournalInv DEF Init
<1>2. DeliveryTypeOK /\ DeliveriesPlaced
    BY DEF Init, DeliveryTypeOK, DeliveriesPlaced
<1>3. EffectsOwned /\ RejectionsRefused /\ JournalTruthful
    BY DEF Init, JournalInit, EffectsOwned, RejectionsRefused, JournalTruthful
<1>4. OneDeliveryAtWork
    BY DEF Init, JournalInit, OneDeliveryAtWork, NoTrace, EffectsOf
<1> QED
    BY <1>1, <1>2, <1>3, <1>4 DEF DeliveryInv

\* The delivery invariant holds of every behaviour: whatever is lost, delayed,
\* repeated or reordered, and wherever the controller crashes.
THEOREM DeliveryInvariant == Spec => []DeliveryInv
<1>1. Init => DeliveryInv
    BY DeliveryInvInit
<1>2. DeliveryInv /\ [Next]_vars => DeliveryInv'
    BY DeliveryInvStep
<1> QED
    BY <1>1, <1>2, PTL DEF Spec

\* What the journal says of the world is so: references name effects that
\* exist, terminal ones are complete, rejected ones never happened.
THEOREM JournalIsTruthful == Spec => []JournalTruthful
<1>1. DeliveryInv => JournalTruthful
    BY DEF DeliveryInv
<1> QED
    BY <1>1, DeliveryInvariant, PTL

\* The composition is one of the journal's behaviours, so what the journal
\* guarantees to any caller it guarantees to this one.
THEOREM DeliveryUsesJournal == Spec => JournalSpec
<1>1. Init => JournalInit
    BY DEF Init
<1>2. DeliveryInv /\ [Next]_vars => [JournalNext]_journalVars
    BY StepOfJournal DEF DeliveryInv
<1> QED
    BY <1>1, <1>2, DeliveryInvariant, PTL DEF Spec, JournalSpec

-----------------------------------------------------------------------------
(* The refinement of ExternalEffect. *)

\* What an operation's owner has been told.
Told(o) == IF reference[o] # None THEN "acknowledged"
           ELSE IF status[o] = "rejected" THEN "refused" ELSE "requested"

\* The mapped counter of a key counts its only effect, and the mapped answer of
\* a key is what its only owner was told.
MappingRead ==
    \A k \in EffectKeys :
        /\ PerformedOf(k) = IF \E e \in effects : e.key = k THEN 1 ELSE 0
        /\ (\A o \in Ops : effectKey[o] # k) => AnswerOf(k) = "none"
        /\ \A o \in Ops : effectKey[o] = k => AnswerOf(k) = Told(o)

\* With one effect and one owner for a key the mapping reads as it should.
LEMMA MappingReads == EffectsOwned => MappingRead
<1> SUFFICES ASSUME EffectsOwned, NEW k \in EffectKeys
             PROVE  /\ PerformedOf(k) = IF \E e \in effects : e.key = k THEN 1 ELSE 0
                    /\ (\A o \in Ops : effectKey[o] # k) => AnswerOf(k) = "none"
                    /\ \A o \in Ops : effectKey[o] = k => AnswerOf(k) = Told(o)
    BY DEF MappingRead
<1>1. ASSUME NEW e \in effects, e.key = k
      PROVE  PerformedOf(k) = 1
    <2>1. {g \in effects : g.key = k} = {e}
        BY <1>1 DEF EffectsOwned
    <2> QED
        BY <2>1, FS_Singleton DEF PerformedOf
<1>2. ASSUME \A e \in effects : e.key # k
      PROVE  PerformedOf(k) = 0
    <2>1. {g \in effects : g.key = k} = {}
        BY <1>2
    <2> QED
        BY <2>1, FS_EmptySet DEF PerformedOf
<1>3. (\A o \in Ops : effectKey[o] # k) => AnswerOf(k) = "none"
    BY DEF AnswerOf, OwnerOf
<1>4. ASSUME NEW o \in Ops, effectKey[o] = k
      PROVE  AnswerOf(k) = Told(o)
    <2>1. OwnerOf(k) = {o}
        BY <1>4, JournalAssumption DEF OwnerOf, EffectsOwned
    <2>2. (CHOOSE p \in {o} : TRUE) = o
        OBVIOUS
    <2> QED
        BY <2>1, <2>2 DEF AnswerOf, Told
<1> QED
    BY <1>1, <1>2, <1>3, <1>4

LEMMA MappingReadsNext == EffectsOwned' => MappingRead'
BY MappingReads, PTL

\* Every step of the composition is a step of the abstract effect, or none.
LEMMA EffectStep ==
    ASSUME DeliveryInv, DeliveryInv', [Next]_vars
    PROVE  [EE!Next]_(EE!vars)
<1> USE JournalAssumption
<1> DEFINE done == [k \in EffectKeys |-> PerformedOf(k)]
           told == [k \in EffectKeys |-> AnswerOf(k)]
<1>0. MappingRead /\ MappingRead'
    BY MappingReads, MappingReadsNext DEF DeliveryInv
<1>01. /\ status \in [Ops -> Statuses] /\ reference \in [Ops -> References \cup {None}]
       /\ effectKey \in [Ops -> EffectKeys \cup {None}] /\ effects \subseteq Effects
    BY DEF DeliveryInv, DeliveryTypeOK, JournalInv, JournalTypeOK
<1>02. \A o, p \in Ops : effectKey[o] = effectKey[p] /\ effectKey[o] # None => o = p
    BY DEF DeliveryInv, EffectsOwned
<1>03. \A o \in Ops : status[o] # "none" => effectKey[o] \in EffectKeys
    BY <1>01 DEF DeliveryInv, EffectsOwned
\* The mapped counters stand still when no key gains an effect.
<1>1. ASSUME \A k \in EffectKeys : (\E e \in effects' : e.key = k) <=> (\E e \in effects : e.key = k)
      PROVE  done' = done
    BY <1>0, <1>1 DEF MappingRead
<1>2. ASSUME UNCHANGED effects
      PROVE  done' = done
    BY <1>1, <1>2
\* The mapped answers stand still when no owner is told anything new.
<1>3. ASSUME UNCHANGED effectKey, \A o \in Ops : effectKey[o] # None => Told(o)' = Told(o)
      PROVE  told' = told
    BY <1>0, <1>3 DEF MappingRead
<1>4. ASSUME UNCHANGED effectKey, NEW o \in Ops, effectKey[o] \in EffectKeys,
             \A p \in Ops : p # o => Told(p)' = Told(p)
      PROVE  told' = [told EXCEPT ![effectKey[o]] = Told(o)'] /\ told[effectKey[o]] = Told(o)
    BY <1>0, <1>02, <1>4 DEF MappingRead
<1>5. ASSUME NEW o \in Ops, NEW key \in EffectKeys, NEW req \in Requests, CommitIntent(o, key, req)
      PROVE  EE!Request(key)
    <2>1. /\ UNCHANGED <<effects, reference>> /\ \A p \in Ops : effectKey[p] # key
          /\ effectKey' = [effectKey EXCEPT ![o] = key] /\ status[o] = "none"
          /\ status' = [status EXCEPT ![o] = "intent"]
        BY <1>5 DEF CommitIntent, Intent, remoteVars
    <2>2. reference[o] = None /\ effectKey[o] = None
        BY <2>1 DEF DeliveryInv, JournalInv, ReferenceMatchesStatus, Progress, EffectsOwned
    <2>3. Told(o)' = "requested" /\ \A p \in Ops : p # o => Told(p)' = Told(p)
        BY <1>01, <2>1, <2>2 DEF Told
    <2>4. AnswerOf(key) = "none"
        BY <1>0, <2>1 DEF MappingRead
    <2>5. effectKey'[o] = key /\ \A p \in Ops : p # o => effectKey'[p] = effectKey[p]
        BY <1>01, <2>1
    <2>6. AnswerOf(key)' = "requested"
        BY <1>0, <2>3, <2>5 DEF MappingRead
    <2>7. ASSUME NEW k \in EffectKeys, k # key
          PROVE  AnswerOf(k)' = AnswerOf(k)
        <3>1. CASE \E p \in Ops : p # o /\ effectKey[p] = k
            BY <1>0, <2>3, <2>5, <3>1 DEF MappingRead
        <3>2. CASE \A p \in Ops : p # o => effectKey[p] # k
            <4>1. \A p \in Ops : effectKey[p] # k /\ effectKey'[p] # k
                BY <2>2, <2>5, <2>7, <3>2
            <4> QED
                BY <1>0, <4>1 DEF MappingRead
        <3> QED
            BY <3>1, <3>2
    <2>8. told[key] = "none" /\ told' = [told EXCEPT ![key] = "requested"]
        BY <2>4, <2>6, <2>7
    <2> QED
        BY <1>2, <2>1, <2>8 DEF EE!Request
<1>6. ASSUME NEW o \in Ops, ClaimDelivery(o)
      PROVE  done' = done /\ told' = told
    <2>1. /\ UNCHANGED <<effects, reference, effectKey>> /\ status[o] \notin Decided
          /\ status' = [status EXCEPT ![o] = "dispatched"]
        BY <1>6 DEF ClaimDelivery, Claim, ClaimAdmitted, remoteVars
    <2>2. \A p \in Ops : Told(p)' = Told(p)
        BY <1>01, <2>1 DEF Told, Decided
    <2> QED
        BY <1>2, <1>3, <2>1, <2>2
\* An answer moves what its owner was told from "requested", truthfully.
<1>7. ASSUME NEW o \in Ops, UNCHANGED <<effects, effectKey>>, effectKey[o] \in EffectKeys,
             Told(o) = "requested", \A p \in Ops : p # o => Told(p)' = Told(p)
      PROVE  [EE!Next]_(EE!vars)
    <2> DEFINE k == effectKey[o]
    <2>1. told' = [told EXCEPT ![k] = Told(o)'] /\ told[k] = "requested" /\ done' = done
        BY <1>2, <1>4, <1>7
    <2>2. CASE Told(o)' = "requested"
        <3>1. told' = told
            BY <2>1, <2>2
        <3> QED
            BY <2>1, <3>1 DEF EE!vars
    <2>3. CASE Told(o)' = "acknowledged"
        <3>1. \E e \in effects : e.key = k
            BY <1>7, <2>3 DEF DeliveryInv, JournalTruthful, EffectsOf, Told
        <3>2. done[k] = 1
            BY <1>0, <1>7, <3>1 DEF MappingRead
        <3>3. EE!Acknowledge(k)
            BY <2>1, <2>3, <3>2 DEF EE!Acknowledge
        <3> QED
            BY <1>7, <3>3 DEF EE!Next
    <2>4. CASE Told(o)' = "refused"
        <3>1. k \notin Idempotent => \A e \in effects : e.key # k
            BY <1>7, <2>4 DEF DeliveryInv, JournalTruthful, EffectsOf, Told
        <3>2. done[k] = 0 \/ k \in Idempotent
            BY <1>0, <1>7, <3>1 DEF MappingRead
        <3>3. EE!Refuse(k)
            BY <2>1, <2>4, <3>2 DEF EE!Refuse
        <3> QED
            BY <1>7, <3>3 DEF EE!Next
    <2> QED
        BY <2>2, <2>3, <2>4 DEF Told
<1>8. ASSUME NEW o \in Ops, NEW f \in Fences, NEW answer \in Reportable(o, f), Report(o, f, answer)
      PROVE  [EE!Next]_(EE!vars)
    <2>0. status[o] # "none"
        BY <1>8 DEF Report, Observe, FenceReports
    <2>1. /\ UNCHANGED <<effectKey, effects>>
          /\ \A p \in Ops : p # o => status'[p] = status[p] /\ reference'[p] = reference[p]
          /\ status[o] # "rejected"
        BY <1>8, ReportRow DEF DeliveryInv
    <2>2. \A p \in Ops : p # o => Told(p)' = Told(p)
        BY <2>1 DEF Told
    <2>3. CASE reference[o] = None
        BY <1>03, <1>7, <2>0, <2>1, <2>2, <2>3 DEF Told
    <2>4. CASE reference[o] # None
        <3>1. reference'[o] # None
            BY <1>01, <1>8, <2>4 DEF Report, Observe
        <3>2. \A p \in Ops : Told(p)' = Told(p)
            BY <2>2, <2>4, <3>1 DEF Told
        <3> QED
            BY <1>2, <1>3, <2>1, <3>2 DEF EE!vars
    <2> QED
        BY <2>3, <2>4
<1>9. ASSUME \/ \E answer \in lookups : ReconcileAbsent(answer)
             \/ \E o \in Ops, e \in effects : ReconcileFound(o, e)
             \/ \E o \in Ops : ReconcileIdempotent(o) \/ ReconcileUnknown(o)
      PROVE  [EE!Next]_(EE!vars)
    <2>1. PICK o \in Ops :
              /\ reference[o] = None /\ status[o] \in {"dispatched", "unknown"}
              /\ UNCHANGED <<effectKey, effects>>
              /\ \A p \in Ops : p # o => status'[p] = status[p] /\ reference'[p] = reference[p]
        BY <1>9, ControllerReconciles DEF DeliveryInv
    <2> QED
        BY <1>03, <1>7, <2>1 DEF Told
<1>10. ASSUME NEW o \in Ops, NEW f \in Fences, NEW ref \in References, Perform(o, f, ref)
       PROVE  EE!Perform(effectKey[o])
    <2> DEFINE k == effectKey[o]
               new == [key |-> effectKey[o], request |-> request[o], reference |-> ref, done |-> FALSE]
    <2>1. /\ UNCHANGED <<status, effectKey, reference>> /\ effects' = effects \cup {new}
          /\ new.key = k /\ <<o, f>> \in wire /\ ~Recognised(o)
        BY <1>10 DEF Perform, journalVars
    <2> HIDE DEF new
    <2>2. k \in EffectKeys
        BY <2>1, DeliveryHasRow DEF DeliveryInv
    <2>3. EffectsOf(o) = {}
        BY <2>1, FirstEffect DEF DeliveryInv
    <2>4. done[k] = 0 /\ done' = [done EXCEPT ![k] = 1]
        BY <1>0, <2>1, <2>2, <2>3 DEF MappingRead, EffectsOf
    <2>5. reference[o] = None
        BY <2>3 DEF DeliveryInv, JournalTruthful
    <2>6. status[o] = "rejected" => k \in Idempotent
        BY <2>1 DEF DeliveryInv, RejectionsRefused, OneDeliveryAtWork, NoTrace
    <2>7. told[k] = "requested" \/ (told[k] = "refused" /\ k \in Idempotent)
        BY <1>0, <2>2, <2>5, <2>6 DEF MappingRead, Told
    <2>8. told' = told
        BY <1>3, <2>1 DEF Told
    <2> QED
        BY <2>4, <2>7, <2>8 DEF EE!Perform
<1>11. ASSUME UNCHANGED <<effectKey, status, reference>>, effects' = effects
       PROVE  done' = done /\ told' = told
    BY <1>2, <1>3, <1>11 DEF Told
<1>12. ASSUME NEW e \in effects, Complete(e)
       PROVE  done' = done /\ told' = told
    <2>1. UNCHANGED <<effectKey, status, reference>>
        BY <1>12 DEF Complete, journalVars
    <2>2. PICK g \in Effects : effects' = (effects \ {e}) \cup {g} /\ g.key = e.key
        BY <1>01, <1>12, CompletedEffect
    <2>3. done' = done
        BY <1>1, <2>2
    <2> QED
        BY <1>3, <2>1, <2>3 DEF Told
<1>13. ASSUME done' = done, told' = told
       PROVE  UNCHANGED EE!vars
    BY <1>13 DEF EE!vars
<1>14. ASSUME NEW o \in Ops, NEW f \in Fences, NEW ref \in References, Perform(o, f, ref)
       PROVE  EE!Next
    <2>1. effectKey[o] \in EffectKeys
        BY <1>14, DeliveryHasRow DEF DeliveryInv, Perform
    <2> QED
        BY <1>10, <1>14, <2>1 DEF EE!Next
<1>15. ASSUME NEW o \in Ops, NEW key \in EffectKeys, NEW req \in Requests, CommitIntent(o, key, req)
       PROVE  EE!Next
    BY <1>5, <1>15 DEF EE!Next
<1> HIDE DEF done, told
<1>16. CASE UNCHANGED effects
    BY <1>6, <1>8, <1>9, <1>11, <1>13, <1>15, <1>16, RowsUntouched
<1> QED
    BY <1>12, <1>13, <1>14, <1>16, EffectsKept

\* The journal, its callers and the service implement the abstract effect: it is
\* performed at most once, and answered truthfully and for good.
THEOREM EffectsHappenOnce == Spec => EffectHappensOnce
<1>1. Init => EE!Init
    <2> SUFFICES ASSUME Init
                 PROVE  EE!Init
        OBVIOUS
    <2>1. MappingRead
        BY DeliveryInvInit, MappingReads DEF DeliveryInv
    <2>2. effects = {} /\ \A o \in Ops : effectKey[o] = None
        BY DEF Init, JournalInit
    <2> QED
        BY <2>1, <2>2, JournalAssumption DEF MappingRead, EE!Init
<1>2. DeliveryInv /\ DeliveryInv' /\ [Next]_vars => [EE!Next]_(EE!vars)
    BY EffectStep
<1> QED
    BY <1>1, <1>2, DeliveryInvariant, PTL DEF Spec, EffectHappensOnce, EE!Spec

=============================================================================
