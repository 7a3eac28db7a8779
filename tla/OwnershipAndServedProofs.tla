---------------------- MODULE OwnershipAndServedProofs ----------------------
(***************************************************************************)
(* Proofs about two components that share no state: the ownership of       *)
(* resources, for every set of commands, every shape of their resources    *)
(* and any number of edits and moves, and the served surface, for every    *)
(* set of requests and every bound on hosts, calls and decisions.          *)
(***************************************************************************)
EXTENDS WorkOwnership, ServedWork, FiniteSetTheorems, SequenceTheorems, TLAPS

-----------------------------------------------------------------------------
(* The ownership of resources. *)

\* Resources conflict both ways.
LEMMA ConflictsSymmetric ==
    ASSUME NEW c \in Commands, NEW d \in Commands, Conflicts(c, d)
    PROVE  Conflicts(d, c)
BY OwnershipAssumption DEF Conflicts

\* Only a current claim has authority.
LEMMA AuthorizedClaim ==
    ASSUME NEW c, NEW publication, Authorized(c, publication)
    PROVE  Owned(c) /\ c \notin released /\ c \notin unknown /\ Vacant(c)
BY DEF Authorized, Current, Undisturbed

\* Nobody is at work for a claim whose effects are all settled.
LEMMA QuiescentIsQuiet ==
    ASSUME OwnershipInv, NEW c \in Commands, Quiescent(c, None)
    PROVE  /\ Owned(c) /\ c \notin released /\ c \notin unknown /\ Settled(c)
           /\ \A e \in AllEffects : <<c, e>> \notin busy
<1>1. Owned(c) /\ c \notin released /\ c \notin unknown /\ Settled(c)
    BY DEF Quiescent, Current
<1>2. <<c, "run">> \notin busy
    BY <1>1 DEF OwnershipInv, BusyUnsettled, AllEffects
<1>3. ASSUME NEW e \in Effects PROVE <<c, e>> \notin busy
    <2>1. e # None /\ e # "run" /\ e \in AllEffects
        BY OwnershipAssumption DEF AllEffects
    <2>2. ops[<<c, e>>] # "none" => <<c, e>> \in witnessed
        BY <2>1 DEF Quiescent
    <2> QED
        BY <2>1, <2>2 DEF OwnershipInv, BusyUnsettled
<1> QED
    BY <1>1, <1>2, <1>3 DEF AllEffects

\* Whoever is at work retains its workspace, so that a vacant one conflicts with nobody.
LEMMA VacantIsFree ==
    ASSUME OwnershipInv, NEW c \in Commands, attempt[c] # "none", Vacant(c),
           Owned(c) => c \notin released, NEW d \in Commands, NEW e \in AllEffects,
           <<d, e>> \in busy, d # c
    PROVE  ~Conflicts(c, d)
<1>1. attempt[d] # "none"
    BY DEF OwnershipInv, AttemptsFirst
<1>2. d \notin released
    BY DEF OwnershipInv, ReleasedIsQuiet
<1>3. ASSUME NEW x \in Commands, attempt[x] # "none", ~Owned(x) PROVE Scopes[x] = {Workspace[x]}
    BY <1>3, OwnershipAssumption DEF OwnershipInv, AttemptsFirst
<1>4. CASE Owned(c) /\ Owned(d)
    BY <1>2, <1>4 DEF OwnershipInv, OneWorkerPerResource
<1>5. d \in Retained
    <2>1. CASE Owned(d)
        BY <1>1, <1>2, <2>1 DEF Retained, Holds
    <2>2. CASE ~Owned(d)
        <3>1. ops[<<d, e>>] # "none" /\ <<d, e>> \notin witnessed
            BY <2>2 DEF OwnershipInv, BusyUnsettled
        <3>2. e # None
            BY OwnershipAssumption DEF AllEffects
        <3>3. ~Witnessed(d, None)
            BY <3>1, <3>2 DEF Witnessed
        <3> QED
            BY <1>1, <2>2, <3>3 DEF Retained
    <2> QED
        BY <2>1, <2>2
<1>6. <<Workspace[c], Workspace[d]>> \notin Overlap
    BY <1>5 DEF Vacant
<1>7. CASE ~Owned(c)
    <2>1. Scopes[c] = {Workspace[c]}
        BY <1>3, <1>7
    <2>2. \A s \in Scopes[d] : <<Workspace[c], s>> \in Overlap => s = Workspace[d]
        BY <2>1, OwnershipAssumption, ZenonT(30)
    <2> QED
        BY <1>6, <2>1, <2>2 DEF Conflicts
<1>8. CASE ~Owned(d)
    <2>1. Scopes[d] = {Workspace[d]}
        BY <1>1, <1>3, <1>8
    <2>2. ASSUME NEW r \in Scopes[c], <<r, Workspace[d]>> \in Overlap PROVE FALSE
        <3>1. Workspace[d] \in Scopes[d]
            BY <2>1
        <3>2. <<Workspace[d], r>> \in Overlap
            BY <2>2, <3>1, OwnershipAssumption
        <3>3. r = Workspace[c]
            BY <3>1, <3>2, OwnershipAssumption, ZenonT(30)
        <3> QED
            BY <1>6, <2>2, <3>3
    <2> QED
        BY <2>1, <2>2 DEF Conflicts
<1> QED
    BY <1>4, <1>7, <1>8

-----------------------------------------------------------------------------
(* Steps that keep what the invariant speaks of, or add to the records. *)

\* A call as the invariant wants it.
CallOK(k) ==
    k # None =>
        /\ k = [op |-> k.op, claim |-> k.claim, subject |-> k.subject, step |-> k.step]
        /\ k.claim \in Commands /\ (k.op = "claim" => Mode[k.claim] # "generic")

\* The variables that the invariant speaks of, apart from the call under way.
Recorded == <<attempt, accepted, generation, proofs, observed, vouched, candidate, released, unknown,
              ops, witnessed, granted, busy, published>>

\* A call that goes on, the world and the clock change none of them.
LEMMA RecordedStep ==
    ASSUME OwnershipInv, UNCHANGED Recorded, CallOK(call')
    PROVE  OwnershipInv'
<1>1. /\ UNCHANGED <<attempt, accepted, generation, proofs, observed, vouched, candidate, released>>
      /\ UNCHANGED <<unknown, ops, witnessed, granted, busy, published>>
    BY DEF Recorded
<1>2. OwnershipTypeOK'
    BY <1>1 DEF OwnershipInv, OwnershipTypeOK, CallOK
<1>3. AttemptsFirst'
    BY <1>1 DEF OwnershipInv, AttemptsFirst, Owned
<1>4. BusyUnsettled'
    BY <1>1 DEF OwnershipInv, BusyUnsettled, Owned, Settled
<1>5. CandidateFinal'
    BY <1>1 DEF OwnershipInv, CandidateFinal, Owned, Settled
<1>6. OneWorkerPerResource'
    BY <1>1 DEF OwnershipInv, OneWorkerPerResource, Owned, Conflicts
<1>7. ReleasedIsQuiet'
    BY <1>1 DEF OwnershipInv, ReleasedIsQuiet
<1>8. PublishedAsAccepted'
    BY <1>1 DEF OwnershipInv, PublishedAsAccepted, Owned
<1>9. OwnershipReopens'
    BY <1>1 DEF OwnershipInv, OwnershipReopens, ClaimRecordsValid, PublicationValid, SettlementValid, Owned
<1> QED
    BY <1>2, <1>3, <1>4, <1>5, <1>6, <1>7, <1>8, <1>9 DEF OwnershipInv

\* The steps of which that is all.
LEMMA InertStep ==
    ASSUME OwnershipInv,
           \/ Fail
           \/ \E c \in Commands : Materialize(c) \/ Lapse(c)
           \/ \E w \in Workspaces : Displace(w) \/ \E clears \in BOOLEAN : Edit(w, clears)
           \/ UNCHANGED vars
    PROVE  OwnershipInv'
<1>1. UNCHANGED Recorded /\ (call' = call \/ call' = None)
    BY DEF Fail, Materialize, Lapse, Displace, Edit, vars, domainVars, claimVars, proofVars, effectVars,
           diskVars, Recorded
<1>2. CallOK(call')
    BY <1>1 DEF OwnershipInv, OwnershipTypeOK, CallOK
<1> QED
    BY <1>1, <1>2, RecordedStep

\* A call begins with the capture of a workspace.
LEMMA BeginStep ==
    ASSUME OwnershipInv, NEW op \in {"claim", "release", "cleanup"}, NEW c \in Commands, Begin(op, c)
    PROVE  OwnershipInv'
<1>1. UNCHANGED Recorded /\ Mode[c] # "generic"
    BY DEF Begin, domainVars, claimVars, proofVars, effectVars, Recorded
<1>2. PICK s : call' = [op |-> op, claim |-> c, subject |-> s, step |-> "captured"]
    BY DEF Begin
<1>3. CallOK(call')
    BY <1>1, <1>2 DEF CallOK
<1> QED
    BY <1>1, <1>3, RecordedStep

\* A cleanup goes from one step to the next.
LEMMA CleaningStep ==
    ASSUME OwnershipInv,
           CleanupChecked \/ CleanupReplayed \/ CleanupMoved \/ CleanupRemoved \/ CleanupReceipt
    PROVE  OwnershipInv'
<1>1. PICK from, to : CleanupStep(from, to)
    BY DEF CleanupChecked, CleanupReplayed, CleanupMoved, CleanupRemoved, CleanupReceipt
<1>2. UNCHANGED Recorded /\ call # None /\ call' = [call EXCEPT !.step = to]
    BY <1>1 DEF CleanupStep, At, domainVars, claimVars, proofVars, effectVars, Recorded
<1>3. CallOK(call')
    BY <1>2 DEF OwnershipInv, OwnershipTypeOK, CallOK
<1> QED
    BY <1>2, <1>3, RecordedStep

\* An observation is of a claim.
LEMMA ObserveStep ==
    ASSUME OwnershipInv, NEW op \in WorkerCalls \cup OwnerCalls, NEW c \in Commands, Observe(op, c)
    PROVE  OwnershipInv'
<1>1. /\ UNCHANGED <<attempt, accepted, generation, proofs, vouched, candidate, released, unknown>>
      /\ UNCHANGED <<ops, witnessed, granted, busy, published>>
      /\ DOMAIN observed' = DOMAIN observed
      /\ \A d \in DOMAIN observed : d # c => observed'[d] = observed[d]
    BY DEF Observe, domainVars, claimVars, effectVars
<1>2. Owned(c)
    BY AuthorizedClaim DEF Observe, Current
<1>3. CallOK(call')
    BY OwnershipAssumption DEF Observe, CallOK, WorkerCalls, OwnerCalls, AllEffects
<1>4. \A d \in Commands : d # c => observed'[d] = observed[d]
    BY <1>1 DEF OwnershipInv, OwnershipTypeOK
<1>5. OwnershipTypeOK'
    BY <1>1, <1>3 DEF OwnershipInv, OwnershipTypeOK, CallOK
<1>6. AttemptsFirst'
    BY <1>1 DEF OwnershipInv, AttemptsFirst, Owned
<1>7. BusyUnsettled'
    BY <1>1 DEF OwnershipInv, BusyUnsettled, Owned, Settled
<1>8. CandidateFinal'
    BY <1>1 DEF OwnershipInv, CandidateFinal, Owned, Settled
<1>9. OneWorkerPerResource'
    BY <1>1 DEF OwnershipInv, OneWorkerPerResource, Owned, Conflicts
<1>10. ReleasedIsQuiet'
    BY <1>1 DEF OwnershipInv, ReleasedIsQuiet
<1>11. PublishedAsAccepted'
    BY <1>1 DEF OwnershipInv, PublishedAsAccepted, Owned
<1>12. OwnershipReopens'
    BY <1>1, <1>2, <1>4 DEF OwnershipInv, OwnershipReopens, ClaimRecordsValid, PublicationValid, SettlementValid, Owned
<1> QED
    BY <1>5, <1>6, <1>7, <1>8, <1>9, <1>10, <1>11, <1>12 DEF OwnershipInv

\* Bytes are vouched for by their claim only.
LEMMA VouchStep ==
    ASSUME OwnershipInv, Reconcile \/ AcceptPreparation
    PROVE  OwnershipInv'
<1> DEFINE c == call.claim
<1>1. /\ UNCHANGED <<attempt, accepted, generation, proofs, observed, candidate, released, unknown>>
      /\ UNCHANGED <<ops, witnessed, granted, busy, published>>
      /\ call' = None
      /\ DOMAIN vouched' = DOMAIN vouched
      /\ \A d \in DOMAIN vouched : d # c => vouched'[d] = vouched[d]
    BY DEF Reconcile, AcceptPreparation, domainVars, claimVars, effectVars
<1>2. c \in Commands
    BY DEF OwnershipInv, OwnershipTypeOK, Reconcile, AcceptPreparation, At
<1>3. Owned(c)
    BY AuthorizedClaim DEF Reconcile, AcceptPreparation, Quiescent, Current
<1>4. \A d \in Commands : d # c => vouched'[d] = vouched[d]
    BY <1>1 DEF OwnershipInv, OwnershipTypeOK
<1>5. OwnershipTypeOK'
    BY <1>1 DEF OwnershipInv, OwnershipTypeOK
<1>6. AttemptsFirst'
    BY <1>1 DEF OwnershipInv, AttemptsFirst, Owned
<1>7. BusyUnsettled'
    BY <1>1 DEF OwnershipInv, BusyUnsettled, Owned, Settled
<1>8. CandidateFinal'
    BY <1>1 DEF OwnershipInv, CandidateFinal, Owned, Settled
<1>9. OneWorkerPerResource'
    BY <1>1 DEF OwnershipInv, OneWorkerPerResource, Owned, Conflicts
<1>10. ReleasedIsQuiet'
    BY <1>1 DEF OwnershipInv, ReleasedIsQuiet
<1>11. PublishedAsAccepted'
    BY <1>1 DEF OwnershipInv, PublishedAsAccepted, Owned
<1>12. OwnershipReopens'
    BY <1>1, <1>2, <1>3, <1>4 DEF OwnershipInv, OwnershipReopens, ClaimRecordsValid, PublicationValid, SettlementValid, Owned
<1> QED
    BY <1>5, <1>6, <1>7, <1>8, <1>9, <1>10, <1>11, <1>12 DEF OwnershipInv

-----------------------------------------------------------------------------
(* Proofs, candidates and releases. *)

\* A proof of the end of a run is recorded only when nobody runs.
LEMMA ProveStep ==
    ASSUME OwnershipInv, NEW c \in Commands, NEW stage \in {"start", "end"}, Prove(c, stage),
           Owned(c), stage = "end" => <<c, "run">> \notin busy, call' = call \/ call' = None
    PROVE  OwnershipInv'
<1>1. /\ UNCHANGED <<attempt, accepted, generation, observed, vouched, candidate, released, unknown>>
      /\ UNCHANGED <<ops, witnessed, granted, busy, published>>
      /\ proofs' = proofs \cup {<<c, stage>>}
    BY DEF Prove, domainVars, claimVars, effectVars
<1>2. \A d : Settled(d)' => Settled(d) \/ (d = c /\ <<c, "run">> \notin busy)
    BY <1>1 DEF Settled
<1>3. \A d : Settled(d) => Settled(d)'
    BY <1>1 DEF Settled
<1>4. OwnershipTypeOK'
    BY <1>1 DEF OwnershipInv, OwnershipTypeOK
<1>5. AttemptsFirst'
    BY <1>1 DEF OwnershipInv, AttemptsFirst, Owned
<1>6. BusyUnsettled'
    BY <1>1, <1>2 DEF OwnershipInv, BusyUnsettled, Owned
<1>7. CandidateFinal'
    BY <1>1, <1>3 DEF OwnershipInv, CandidateFinal, Owned
<1>8. OneWorkerPerResource'
    BY <1>1 DEF OwnershipInv, OneWorkerPerResource, Owned, Conflicts
<1>9. ReleasedIsQuiet'
    BY <1>1 DEF OwnershipInv, ReleasedIsQuiet
<1>10. PublishedAsAccepted'
    BY <1>1 DEF OwnershipInv, PublishedAsAccepted, Owned
<1>11. OwnershipReopens'
    BY <1>1 DEF OwnershipInv, OwnershipReopens, ClaimRecordsValid, PublicationValid, SettlementValid, Owned
<1> QED
    BY <1>4, <1>5, <1>6, <1>7, <1>8, <1>9, <1>10, <1>11 DEF OwnershipInv

\* quiesce(), and the witness of a configured producer.
LEMMA WitnessStep ==
    ASSUME OwnershipInv,
           Quiesce \/ \E c \in Commands, stage \in {"start", "end"} : Witness(c, stage)
    PROVE  OwnershipInv'
<1>1. CASE Quiesce
    <2> DEFINE c == call.claim
    <2>1. c \in Commands /\ Prove(c, "end") /\ <<c, "run">> \notin busy /\ call' = None
        BY <1>1 DEF Quiesce, At, OwnershipInv, OwnershipTypeOK
    <2>2. Owned(c)
        BY <1>1, AuthorizedClaim DEF Quiesce
    <2> HIDE DEF c
    <2> QED
        BY <2>1, <2>2, ProveStep
<1>2. ASSUME NEW c \in Commands, NEW stage \in {"start", "end"}, Witness(c, stage)
      PROVE  OwnershipInv'
    <2>1. Prove(c, stage) /\ call' = call /\ (stage = "end" => <<c, "run">> \notin busy)
        BY <1>2 DEF Witness, RunEnded
    <2>2. Owned(c)
        BY <1>2, AuthorizedClaim DEF Witness, Current
    <2> QED
        BY <2>1, <2>2, ProveStep
<1> QED
    BY <1>1, <1>2

\* A candidate is handed off once, by a worker that stopped.
LEMMA SubmitStep ==
    ASSUME OwnershipInv, Submit
    PROVE  OwnershipInv'
<1> DEFINE c == call.claim
<1>1. /\ UNCHANGED <<attempt, accepted, generation, proofs, observed, vouched, released, unknown>>
      /\ UNCHANGED <<ops, witnessed, granted, busy, published>>
      /\ call' = None
      /\ candidate' = [candidate EXCEPT ![c] = call.subject]
    BY DEF Submit, domainVars, claimVars, effectVars
<1>2. c \in Commands
    BY DEF OwnershipInv, OwnershipTypeOK, Submit, At
<1>3. Owned(c) /\ Settled(c) /\ \A e \in AllEffects : <<c, e>> \notin busy
    BY <1>2, QuiescentIsQuiet DEF Submit
<1>4. \A d \in Commands : d # c \/ candidate[d] # None => candidate'[d] = candidate[d]
    BY <1>1, <1>2 DEF OwnershipInv, OwnershipTypeOK, Submit
<1>5. OwnershipTypeOK'
    BY <1>1 DEF OwnershipInv, OwnershipTypeOK
<1>6. AttemptsFirst'
    BY <1>1 DEF OwnershipInv, AttemptsFirst, Owned
<1>7. BusyUnsettled'
    BY <1>1 DEF OwnershipInv, BusyUnsettled, Owned, Settled
<1>8. CandidateFinal'
    BY <1>1, <1>2, <1>3, <1>4 DEF OwnershipInv, CandidateFinal, Owned, Settled
<1>9. OneWorkerPerResource'
    BY <1>1 DEF OwnershipInv, OneWorkerPerResource, Owned, Conflicts
<1>10. ReleasedIsQuiet'
    BY <1>1, <1>3, <1>4 DEF OwnershipInv, ReleasedIsQuiet, AllEffects
<1>11. PublishedAsAccepted'
    BY <1>1, <1>4 DEF OwnershipInv, PublishedAsAccepted, Owned, CandidateFinal, OwnershipTypeOK
<1>12. OwnershipReopens'
    BY <1>1, <1>3, <1>4 DEF OwnershipInv, OwnershipReopens, ClaimRecordsValid, PublicationValid, SettlementValid, Owned
<1> QED
    BY <1>5, <1>6, <1>7, <1>8, <1>9, <1>10, <1>11, <1>12 DEF OwnershipInv

\* Resources are released when nobody works in them any more.
LEMMA ReleaseStep ==
    ASSUME OwnershipInv, Release \/ CleanupReleased
    PROVE  OwnershipInv'
<1> DEFINE c == call.claim
<1>1. /\ UNCHANGED <<attempt, accepted, generation, proofs, observed, vouched, candidate, unknown>>
      /\ UNCHANGED <<ops, witnessed, granted, busy, published>>
      /\ call' = None
      /\ released' = released \cup {c}
    BY DEF Release, CleanupReleased, domainVars, proofVars, effectVars
<1>2. c \in Commands
    BY DEF OwnershipInv, OwnershipTypeOK, Release, CleanupReleased, At
<1>3. Owned(c) /\ c \notin unknown /\ \A e \in AllEffects : <<c, e>> \notin busy
    BY <1>2, QuiescentIsQuiet DEF Release, CleanupReleased
<1>4. OwnershipTypeOK'
    BY <1>1 DEF OwnershipInv, OwnershipTypeOK
<1>5. AttemptsFirst'
    BY <1>1 DEF OwnershipInv, AttemptsFirst, Owned
<1>6. BusyUnsettled'
    BY <1>1 DEF OwnershipInv, BusyUnsettled, Owned, Settled
<1>7. CandidateFinal'
    BY <1>1 DEF OwnershipInv, CandidateFinal, Owned, Settled
<1>8. OneWorkerPerResource'
    BY <1>1, <1>3 DEF OwnershipInv, OneWorkerPerResource, Owned, Conflicts
<1>9. ReleasedIsQuiet'
    BY <1>1, <1>3 DEF OwnershipInv, ReleasedIsQuiet, OwnershipTypeOK
<1>10. PublishedAsAccepted'
    BY <1>1 DEF OwnershipInv, PublishedAsAccepted, Owned
<1>11. OwnershipReopens'
    BY <1>1, <1>3 DEF OwnershipInv, OwnershipReopens, ClaimRecordsValid, PublicationValid, SettlementValid, Owned
<1> QED
    BY <1>4, <1>5, <1>6, <1>7, <1>8, <1>9, <1>10, <1>11 DEF OwnershipInv

\* A quarantined claim was not released.
LEMMA QuarantineStep ==
    ASSUME OwnershipInv, NEW c \in Commands, Quarantine(c)
    PROVE  OwnershipInv'
<1>1. /\ UNCHANGED <<attempt, accepted, generation, proofs, observed, vouched, candidate, released>>
      /\ UNCHANGED <<ops, witnessed, granted, busy, published, call>>
      /\ unknown' = unknown \cup {c}
    BY DEF Quarantine, domainVars, proofVars, effectVars
<1>2. Owned(c) /\ c \notin released
    BY DEF Quarantine, Current
<1>3. OwnershipTypeOK'
    BY <1>1 DEF OwnershipInv, OwnershipTypeOK
<1>4. AttemptsFirst'
    BY <1>1 DEF OwnershipInv, AttemptsFirst, Owned
<1>5. BusyUnsettled'
    BY <1>1 DEF OwnershipInv, BusyUnsettled, Owned, Settled
<1>6. CandidateFinal'
    BY <1>1 DEF OwnershipInv, CandidateFinal, Owned, Settled
<1>7. OneWorkerPerResource'
    BY <1>1, <1>2 DEF OwnershipInv, OneWorkerPerResource, Owned, Conflicts
<1>8. ReleasedIsQuiet'
    BY <1>1 DEF OwnershipInv, ReleasedIsQuiet
<1>9. PublishedAsAccepted'
    BY <1>1 DEF OwnershipInv, PublishedAsAccepted, Owned
<1>10. OwnershipReopens'
    BY <1>1, <1>2 DEF OwnershipInv, OwnershipReopens, ClaimRecordsValid, PublicationValid, SettlementValid, Owned
<1> QED
    BY <1>3, <1>4, <1>5, <1>6, <1>7, <1>8, <1>9, <1>10 DEF OwnershipInv

-----------------------------------------------------------------------------
(* Operations. *)

\* An Operation that is reserved or taken up belongs to an Attempt.
LEMMA OpsStep ==
    ASSUME OwnershipInv, NEW c \in Commands, NEW e \in AllEffects,
           Reserve(c, e) \/ Dispatch(c, e) \/ Absent(c, e)
    PROVE  OwnershipInv'
<1>1. /\ UNCHANGED <<attempt, accepted, generation, proofs, observed, vouched, candidate, released>>
      /\ UNCHANGED <<unknown, witnessed, granted, busy, published>>
      /\ call' = call \/ call' = None
    BY DEF Reserve, Dispatch, Absent, domainVars, claimVars, proofVars
<1>2. PICK v : v # "none" /\ ops' = [ops EXCEPT ![<<c, e>>] = v]
    BY DEF Reserve, Dispatch, Absent
<1>3. attempt[c] # "none"
    BY DEF Reserve, Dispatch, Absent, OwnershipInv, AttemptsFirst
<1>4. /\ \A d \in Commands, f \in AllEffects : ops[<<d, f>>] # "none" => ops'[<<d, f>>] # "none"
      /\ \A d \in Commands, f \in AllEffects : d # c => ops'[<<d, f>>] = ops[<<d, f>>]
    BY <1>2 DEF OwnershipInv, OwnershipTypeOK
<1>5. OwnershipTypeOK'
    BY <1>1, <1>2 DEF OwnershipInv, OwnershipTypeOK
<1>6. AttemptsFirst'
    BY <1>1, <1>3, <1>4 DEF OwnershipInv, AttemptsFirst, Owned
<1>7. BusyUnsettled'
    BY <1>1, <1>4 DEF OwnershipInv, BusyUnsettled, Owned, Settled
<1>8. CandidateFinal'
    BY <1>1 DEF OwnershipInv, CandidateFinal, Owned, Settled
<1>9. OneWorkerPerResource'
    BY <1>1 DEF OwnershipInv, OneWorkerPerResource, Owned, Conflicts
<1>10. ReleasedIsQuiet'
    BY <1>1 DEF OwnershipInv, ReleasedIsQuiet
<1>11. PublishedAsAccepted'
    BY <1>1 DEF OwnershipInv, PublishedAsAccepted, Owned
<1>12. OwnershipReopens'
    <2>1. \A d \in Commands : ClaimRecordsValid(d)'
        BY <1>1 DEF OwnershipInv, OwnershipReopens, ClaimRecordsValid, Owned
    <2>2. ASSUME NEW d \in Commands, granted[d] # None PROVE ops'[<<d, "publish">>] # "none"
        <3>1. ops[<<d, "publish">>] # "none"
            BY <2>2 DEF OwnershipInv, OwnershipReopens, PublicationValid
        <3> QED
            BY <1>2, <3>1 DEF OwnershipInv, OwnershipTypeOK
    <2>3. \A d \in Commands : PublicationValid(d)'
        BY <1>1, <2>2 DEF OwnershipInv, OwnershipReopens, PublicationValid
    <2>4. \A d \in Commands : SettlementValid(d)'
        BY <1>1, <1>4 DEF OwnershipInv, OwnershipReopens, SettlementValid
    <2> QED
        BY <2>1, <2>3, <2>4 DEF OwnershipReopens
<1> QED
    BY <1>5, <1>6, <1>7, <1>8, <1>9, <1>10, <1>11, <1>12 DEF OwnershipInv

\* A settlement is of an effect that is over.
LEMMA SettleStep ==
    ASSUME OwnershipInv, NEW c \in Commands, NEW e \in AllEffects, Settle(c, e)
    PROVE  OwnershipInv'
<1>1. /\ UNCHANGED <<attempt, accepted, generation, proofs, observed, vouched, candidate, released>>
      /\ UNCHANGED <<unknown, ops, granted, busy, published, call>>
      /\ witnessed' = witnessed \cup {<<c, e>>}
    BY DEF Settle, domainVars, claimVars, proofVars
<1>2. ops[<<c, e>>] # "none" /\ <<c, e>> \notin busy
    BY DEF Settle
<1>3. attempt[c] # "none"
    BY <1>2 DEF OwnershipInv, AttemptsFirst
<1>4. OwnershipTypeOK'
    BY <1>1 DEF OwnershipInv, OwnershipTypeOK
<1>5. AttemptsFirst'
    BY <1>1 DEF OwnershipInv, AttemptsFirst, Owned
<1>6. BusyUnsettled'
    BY <1>1, <1>2 DEF OwnershipInv, BusyUnsettled, Owned, Settled
<1>7. CandidateFinal'
    BY <1>1 DEF OwnershipInv, CandidateFinal, Owned, Settled
<1>8. OneWorkerPerResource'
    BY <1>1 DEF OwnershipInv, OneWorkerPerResource, Owned, Conflicts
<1>9. ReleasedIsQuiet'
    BY <1>1 DEF OwnershipInv, ReleasedIsQuiet
<1>10. PublishedAsAccepted'
    BY <1>1 DEF OwnershipInv, PublishedAsAccepted, Owned
<1>11. OwnershipReopens'
    BY <1>1, <1>2, <1>3 DEF OwnershipInv, OwnershipReopens, ClaimRecordsValid, PublicationValid, SettlementValid, Owned
<1> QED
    BY <1>4, <1>5, <1>6, <1>7, <1>8, <1>9, <1>10, <1>11 DEF OwnershipInv

\* A publication is authorized for the accepted candidate.
LEMMA AuthorizeStep ==
    ASSUME OwnershipInv, Authorize
    PROVE  OwnershipInv'
<1> DEFINE c == call.claim
<1>1. /\ UNCHANGED <<attempt, accepted, generation, proofs, observed, vouched, candidate, released>>
      /\ UNCHANGED <<unknown, witnessed, busy, published>>
      /\ call' = None
      /\ ops' = [ops EXCEPT ![<<c, "publish">>] = "intent"]
      /\ granted' = [granted EXCEPT ![c] = call.subject]
    BY DEF Authorize, domainVars, claimVars, proofVars
<1>2. c \in Commands /\ "publish" \in AllEffects
    BY DEF OwnershipInv, OwnershipTypeOK, Authorize, At, AllEffects
<1>3. Owned(c) /\ candidate[c] = call.subject
    BY AuthorizedClaim DEF Authorize, HandedOff
<1>4. attempt[c] # "none" /\ accepted[c] # None
    BY DEF Authorize, Dispatchable, Permitted
<1>5. /\ \A d \in Commands, f \in AllEffects : ops[<<d, f>>] # "none" => ops'[<<d, f>>] # "none"
      /\ \A d \in Commands, f \in AllEffects : d # c => ops'[<<d, f>>] = ops[<<d, f>>]
      /\ ops'[<<c, "publish">>] # "none"
    BY <1>1, <1>2 DEF OwnershipInv, OwnershipTypeOK
<1>6. OwnershipTypeOK'
    BY <1>1 DEF OwnershipInv, OwnershipTypeOK
<1>7. AttemptsFirst'
    BY <1>1, <1>4, <1>5 DEF OwnershipInv, AttemptsFirst, Owned
<1>8. BusyUnsettled'
    BY <1>1, <1>5 DEF OwnershipInv, BusyUnsettled, Owned, Settled
<1>9. CandidateFinal'
    BY <1>1 DEF OwnershipInv, CandidateFinal, Owned, Settled
<1>10. OneWorkerPerResource'
    BY <1>1 DEF OwnershipInv, OneWorkerPerResource, Owned, Conflicts
<1>11. ReleasedIsQuiet'
    BY <1>1 DEF OwnershipInv, ReleasedIsQuiet
<1>12. PublishedAsAccepted'
    BY <1>1 DEF OwnershipInv, PublishedAsAccepted, Owned
<1>13. OwnershipReopens'
    <2>1. \A d \in Commands : d # c => granted'[d] = granted[d]
        BY <1>1 DEF OwnershipInv, OwnershipTypeOK
    <2>2. granted'[c] = call.subject
        BY <1>1, <1>2 DEF OwnershipInv, OwnershipTypeOK
    <2>3. \A d \in Commands : ClaimRecordsValid(d)'
        BY <1>1, <1>3, <2>1 DEF OwnershipInv, OwnershipReopens, ClaimRecordsValid, Owned
    <2>4. ASSUME NEW d \in Commands PROVE PublicationValid(d)'
        <3>1. CASE d = c
            BY <1>1, <1>3, <1>4, <1>5, <2>2, <3>1 DEF PublicationValid
        <3>2. CASE d # c
            <4>1. ops'[<<d, "publish">>] = ops[<<d, "publish">>]
                BY <1>2, <1>5, <3>2
            <4> QED
                BY <1>1, <2>1, <3>2, <4>1 DEF OwnershipInv, OwnershipReopens, PublicationValid
        <3> QED
            BY <3>1, <3>2
    <2>5. \A d \in Commands : SettlementValid(d)'
        BY <1>1, <1>5 DEF OwnershipInv, OwnershipReopens, SettlementValid
    <2> QED
        BY <2>3, <2>4, <2>5 DEF OwnershipReopens
<1> QED
    BY <1>6, <1>7, <1>8, <1>9, <1>10, <1>11, <1>12, <1>13 DEF OwnershipInv

\* Somebody goes to work on behalf of the store: in resources that are free, for an effect
\* that is not settled, and to publish nothing but the accepted candidate.
LEMMA DeliverStep ==
    ASSUME OwnershipInv, NEW c \in Commands, NEW e \in AllEffects, Deliver(c, e)
    PROVE  OwnershipInv'
<1>1. /\ UNCHANGED <<attempt, accepted, generation, proofs, observed, vouched, candidate, released>>
      /\ UNCHANGED <<unknown, witnessed, granted, call>>
      /\ ops' = [ops EXCEPT ![<<c, e>>] = "sent"]
      /\ busy' = busy \cup {<<c, e>>}
      /\ published' = IF e = "publish" THEN published \cup {<<c, content[Workspace[c]]>>} ELSE published
    BY DEF Deliver, domainVars, claimVars, proofVars
<1>2. /\ ops[<<c, e>>] = "claimed" /\ Vacant(c) /\ <<c, e>> \notin witnessed
      /\ Owned(c) => c \notin released
      /\ Owned(c) /\ e = "run" => ~Settled(c)
    BY AuthorizedClaim DEF Deliver, Dispatchable, Undisturbed, NotClosed, RunReady
<1>3. attempt[c] # "none"
    BY <1>2 DEF OwnershipInv, AttemptsFirst
<1>4. /\ \A d \in Commands, f \in AllEffects : ops[<<d, f>>] # "none" => ops'[<<d, f>>] # "none"
      /\ \A d \in Commands, f \in AllEffects : d # c => ops'[<<d, f>>] = ops[<<d, f>>]
      /\ ops'[<<c, e>>] # "none"
    BY <1>1 DEF OwnershipInv, OwnershipTypeOK
<1>5. Owned(c) /\ e = "publish" => content[Workspace[c]] = candidate[c] /\ accepted[c] # None
    BY DEF Deliver, Dispatchable, Permitted, HandedOff, Fresh
<1>6. c \notin released
    BY <1>2 DEF OwnershipInv, OwnershipReopens, ClaimRecordsValid
<1>7. \A p \in busy : p[1] # c => ~Conflicts(c, p[1]) /\ ~Conflicts(p[1], c)
    <2>1. ASSUME NEW p \in busy, p[1] # c PROVE ~Conflicts(c, p[1]) /\ ~Conflicts(p[1], c)
        <3>1. PICK d \in Commands, f \in AllEffects : p = <<d, f>>
            BY DEF OwnershipInv, OwnershipTypeOK
        <3>2. ~Conflicts(c, d)
            BY <1>2, <1>3, <2>1, <3>1, VacantIsFree
        <3> QED
            BY <3>1, <3>2, ConflictsSymmetric
    <2> QED
        BY <2>1
<1>8. \A p \in published' : p \in published \/ (p = <<c, content[Workspace[c]]>> /\ e = "publish")
    BY <1>1
<1>9. OwnershipTypeOK'
    BY <1>1, <1>8 DEF OwnershipInv, OwnershipTypeOK
<1>10. AttemptsFirst'
    BY <1>1, <1>3, <1>4, <1>8 DEF OwnershipInv, AttemptsFirst, Owned
<1>11. BusyUnsettled'
    BY <1>1, <1>2, <1>4 DEF OwnershipInv, BusyUnsettled, Owned, Settled
<1>12. CandidateFinal'
    <2>1. \A d \in Commands : (\E p \in published' : p[1] = d) =>
              (\E p \in published : p[1] = d) \/ (d = c /\ e = "publish")
        BY <1>8
    <2>2. \A d \in Commands : Owned(d) /\ (\E p \in published' : p[1] = d) => accepted[d] # None
        BY <1>5, <2>1 DEF OwnershipInv, CandidateFinal
    <2> QED
        BY <1>1, <2>2 DEF OwnershipInv, CandidateFinal, Owned, Settled
<1>13. OneWorkerPerResource'
    <2>1. \A p, q \in busy' : p[1] # q[1] => ~Conflicts(p[1], q[1])
        BY <1>1, <1>7 DEF OwnershipInv, OneWorkerPerResource
    <2> QED
        BY <1>1, <2>1 DEF OwnershipInv, OneWorkerPerResource, Owned, Conflicts
<1>14. ReleasedIsQuiet'
    <2>1. \A p \in busy' : p[1] \notin released'
        BY <1>1, <1>6 DEF OwnershipInv, ReleasedIsQuiet
    <2>2. candidate[c] # None => Owned(c) /\ Settled(c)
        BY DEF OwnershipInv, CandidateFinal, OwnershipReopens, ClaimRecordsValid
    <2>3. candidate[c] # None => e # "run"
        BY <1>2, <2>2
    <2> QED
        BY <1>1, <2>1, <2>3 DEF OwnershipInv, ReleasedIsQuiet
<1>15. PublishedAsAccepted'
    <2>1. Owned(c) /\ e = "publish" => accepted[c] = candidate[c]
        BY <1>5 DEF OwnershipInv, CandidateFinal
    <2> QED
        BY <1>1, <1>5, <1>8, <2>1 DEF OwnershipInv, PublishedAsAccepted, Owned
<1>16. OwnershipReopens'
    <2>1. \A d \in Commands : ClaimRecordsValid(d)'
        BY <1>1 DEF OwnershipInv, OwnershipReopens, ClaimRecordsValid, Owned
    <2>2. ASSUME NEW d \in Commands, granted[d] # None PROVE ops'[<<d, "publish">>] # "none"
        <3>1. ops[<<d, "publish">>] # "none"
            BY <2>2 DEF OwnershipInv, OwnershipReopens, PublicationValid
        <3> QED
            BY <1>1, <3>1 DEF OwnershipInv, OwnershipTypeOK
    <2>3. \A d \in Commands : PublicationValid(d)'
        BY <1>1, <2>2 DEF OwnershipInv, OwnershipReopens, PublicationValid
    <2>4. \A d \in Commands : SettlementValid(d)'
        BY <1>1, <1>4 DEF OwnershipInv, OwnershipReopens, SettlementValid
    <2> QED
        BY <2>1, <2>3, <2>4 DEF OwnershipReopens
<1> QED
    BY <1>9, <1>10, <1>11, <1>12, <1>13, <1>14, <1>15, <1>16 DEF OwnershipInv

-----------------------------------------------------------------------------
(* Attempts, their claims, and the world. *)

\* A claim is made with a new Attempt, of resources that no other claim holds.
LEMMA ClaimStep ==
    ASSUME OwnershipInv, Claim
    PROVE  OwnershipInv'
<1> DEFINE n == 1 + Cardinality({d \in Commands : Owned(d)})
<1>0. PICK c \in Commands : c = call.claim
    BY DEF OwnershipInv, OwnershipTypeOK, Claim, At
<1>1. /\ UNCHANGED <<accepted, proofs, observed, vouched, candidate, released, unknown, witnessed>>
      /\ UNCHANGED <<granted, busy, published>>
      /\ call' = None
      /\ generation' = [generation EXCEPT ![c] = n]
      /\ attempt' = [attempt EXCEPT ![c] = "prepared"]
      /\ ops' = [ops EXCEPT ![<<c, "run">>] = "intent"]
    BY <1>0 DEF Claim, proofVars
<1>2. c \in Commands /\ Mode[c] # "generic"
    BY <1>0 DEF OwnershipInv, OwnershipTypeOK, Claim, At
<1>3. /\ attempt[c] = "none"
      /\ \A d \in Commands : Holds(d) => UnitOf[d] # UnitOf[c] /\ ~Conflicts(c, d)
    BY <1>0 DEF Claim, Preparable
<1>4. ~Owned(c)
    BY <1>2, <1>3 DEF OwnershipInv, OwnershipReopens, ClaimRecordsValid
<1>5. n \in Nat /\ n > 0
    <2>1. Cardinality({d \in Commands : Owned(d)}) \in Nat
        BY OwnershipAssumption, FS_Subset, FS_CardinalityType
    <2> QED
        BY <2>1
<1> HIDE DEF n
<1>6. /\ \A d \in Commands : d # c => (Owned(d)' <=> Owned(d)) /\ attempt'[d] = attempt[d]
      /\ Owned(c)' /\ attempt'[c] = "prepared"
    <2>1. generation' \in [Commands -> Nat] /\ generation'[c] = n
          /\ \A d \in Commands : d # c => generation'[d] = generation[d]
        BY <1>1, <1>2, <1>5 DEF OwnershipInv, OwnershipTypeOK
    <2>2. (\A d \in Commands : d # c => attempt'[d] = attempt[d]) /\ attempt'[c] = "prepared"
        BY <1>1, <1>2 DEF OwnershipInv, OwnershipTypeOK
    <2> QED
        BY <1>5, <2>1, <2>2 DEF Owned
<1>7. /\ \A d \in Commands, f \in AllEffects : ops[<<d, f>>] # "none" => ops'[<<d, f>>] # "none"
      /\ \A d \in Commands, f \in AllEffects : d # c => ops'[<<d, f>>] = ops[<<d, f>>]
    BY <1>1 DEF OwnershipInv, OwnershipTypeOK
<1>8. /\ \A e \in AllEffects : <<c, e>> \notin busy
      /\ accepted[c] = None /\ \A p \in published : p[1] # c
    BY <1>2, <1>3 DEF OwnershipInv, AttemptsFirst
<1>9. OwnershipTypeOK'
    BY <1>1, <1>5 DEF OwnershipInv, OwnershipTypeOK
<1>10. AttemptsFirst'
    <2>1. ASSUME NEW d \in Commands, d # c, attempt[d] = "none", NEW e \in AllEffects
          PROVE  ops'[<<d, e>>] = "none" /\ <<d, e>> \notin busy
        BY <1>7, <2>1 DEF OwnershipInv, AttemptsFirst
    <2> QED
        BY <1>1, <1>2, <1>6, <2>1 DEF OwnershipInv, AttemptsFirst
<1>11. BusyUnsettled'
    BY <1>1, <1>6, <1>7, <1>8 DEF OwnershipInv, BusyUnsettled, Settled
<1>12. CandidateFinal'
    BY <1>1, <1>6, <1>8 DEF OwnershipInv, CandidateFinal, Settled
<1>13. OneWorkerPerResource'
    <2>1. \A d \in Commands : Owned(d) /\ d \notin released =>
              UnitOf[d] # UnitOf[c] /\ ~Conflicts(c, d) /\ ~Conflicts(d, c)
        BY <1>2, <1>3, ConflictsSymmetric DEF Holds
    <2>2. ASSUME NEW d \in Commands, NEW f \in Commands, Owned(d)', Owned(f)', d \notin released, f \notin released,
                 d # f
          PROVE  UnitOf[d] # UnitOf[f] /\ ~Conflicts(d, f)
        BY <1>6, <2>1, <2>2 DEF OwnershipInv, OneWorkerPerResource
    <2>3. \A d, f \in {x \in Commands : Owned(x)'} \ released' :
              d # f => UnitOf[d] # UnitOf[f] /\ ~Conflicts(d, f)
        BY <1>1, <2>2
    <2> QED
        BY <1>1, <2>3 DEF OwnershipInv, OneWorkerPerResource, Conflicts
<1>14. ReleasedIsQuiet'
    BY <1>1 DEF OwnershipInv, ReleasedIsQuiet
<1>15. PublishedAsAccepted'
    BY <1>1, <1>6, <1>8 DEF OwnershipInv, PublishedAsAccepted, OwnershipTypeOK
<1>16. OwnershipReopens'
    <2>1. \A d \in Commands : ClaimRecordsValid(d)'
        <3>1. \A d \in Commands : Owned(d) => Owned(d)' /\ d # c
            BY <1>4, <1>6
        <3>2. \A d \in Commands : Owned(d)' => attempt'[d] # "none"
            BY <1>6 DEF OwnershipInv, OwnershipReopens, ClaimRecordsValid
        <3> QED
            BY <1>1, <3>1, <3>2 DEF OwnershipInv, OwnershipReopens, ClaimRecordsValid
    <2>2. ASSUME NEW d \in Commands, granted[d] # None PROVE ops'[<<d, "publish">>] # "none"
        <3>1. ops[<<d, "publish">>] # "none"
            BY <2>2 DEF OwnershipInv, OwnershipReopens, PublicationValid
        <3> QED
            BY <1>1, <3>1 DEF OwnershipInv, OwnershipTypeOK
    <2>3. \A d \in Commands : PublicationValid(d)'
        BY <1>1, <2>2 DEF OwnershipInv, OwnershipReopens, PublicationValid
    <2>4. \A d \in Commands : SettlementValid(d)'
        BY <1>1, <1>6, <1>7 DEF OwnershipInv, OwnershipReopens, SettlementValid
    <2> QED
        BY <2>1, <2>3, <2>4 DEF OwnershipReopens
<1> QED
    BY <1>9, <1>10, <1>11, <1>12, <1>13, <1>14, <1>15, <1>16 DEF OwnershipInv

\* An Attempt without a claim.
LEMMA PrepareGenericStep ==
    ASSUME OwnershipInv, NEW c \in Commands, PrepareGeneric(c)
    PROVE  OwnershipInv'
<1>1. /\ UNCHANGED <<accepted, generation, proofs, observed, vouched, candidate, released, unknown>>
      /\ UNCHANGED <<witnessed, granted, busy, published, call>>
      /\ attempt' = [attempt EXCEPT ![c] = "prepared"]
      /\ ops' = [ops EXCEPT ![<<c, "run">>] = "intent"]
    BY DEF PrepareGeneric, claimVars, proofVars
<1>2. attempt[c] = "none" /\ Mode[c] = "generic"
    BY DEF PrepareGeneric, Preparable
<1>3. /\ \A d \in Commands : d # c => attempt'[d] = attempt[d]
      /\ attempt'[c] = "prepared"
    BY <1>1 DEF OwnershipInv, OwnershipTypeOK
<1>4. /\ \A d \in Commands, f \in AllEffects : ops[<<d, f>>] # "none" => ops'[<<d, f>>] # "none"
      /\ \A d \in Commands, f \in AllEffects : d # c => ops'[<<d, f>>] = ops[<<d, f>>]
    BY <1>1 DEF OwnershipInv, OwnershipTypeOK
<1>5. OwnershipTypeOK'
    BY <1>1 DEF OwnershipInv, OwnershipTypeOK
<1>6. AttemptsFirst'
    BY <1>1, <1>2, <1>3, <1>4 DEF OwnershipInv, AttemptsFirst, Owned
<1>7. BusyUnsettled'
    BY <1>1, <1>4 DEF OwnershipInv, BusyUnsettled, Owned, Settled
<1>8. CandidateFinal'
    BY <1>1 DEF OwnershipInv, CandidateFinal, Owned, Settled
<1>9. OneWorkerPerResource'
    BY <1>1 DEF OwnershipInv, OneWorkerPerResource, Owned, Conflicts
<1>10. ReleasedIsQuiet'
    BY <1>1 DEF OwnershipInv, ReleasedIsQuiet
<1>11. PublishedAsAccepted'
    BY <1>1 DEF OwnershipInv, PublishedAsAccepted, Owned
<1>12. OwnershipReopens'
    <2>1. \A d \in Commands : ClaimRecordsValid(d)'
        BY <1>1, <1>3 DEF OwnershipInv, OwnershipReopens, ClaimRecordsValid, Owned
    <2>2. ASSUME NEW d \in Commands, granted[d] # None PROVE ops'[<<d, "publish">>] # "none"
        <3>1. ops[<<d, "publish">>] # "none"
            BY <2>2 DEF OwnershipInv, OwnershipReopens, PublicationValid
        <3> QED
            BY <1>1, <3>1 DEF OwnershipInv, OwnershipTypeOK
    <2>3. \A d \in Commands : PublicationValid(d)'
        BY <1>1, <2>2 DEF OwnershipInv, OwnershipReopens, PublicationValid
    <2>4. \A d \in Commands : SettlementValid(d)'
        BY <1>1, <1>3, <1>4 DEF OwnershipInv, OwnershipReopens, SettlementValid
    <2> QED
        BY <2>1, <2>3, <2>4 DEF OwnershipReopens
<1> QED
    BY <1>5, <1>6, <1>7, <1>8, <1>9, <1>10, <1>11, <1>12 DEF OwnershipInv

\* An Attempt that goes on or ends stays an Attempt.
LEMMA AttemptStep ==
    ASSUME OwnershipInv, NEW c \in Commands, StartAttempt(c) \/ FinishAttempt(c) \/ EndAttempt(c)
    PROVE  OwnershipInv'
<1>1. /\ UNCHANGED <<accepted, generation, proofs, observed, vouched, candidate, released, unknown>>
      /\ UNCHANGED <<ops, witnessed, granted, busy, published, call>>
      /\ DOMAIN attempt' = DOMAIN attempt
    BY DEF StartAttempt, FinishAttempt, EndAttempt, claimVars, proofVars, effectVars
<1>2. \A d \in Commands : attempt'[d] = "none" <=> attempt[d] = "none"
    BY DEF StartAttempt, FinishAttempt, EndAttempt, OwnershipInv, OwnershipTypeOK
<1>3. OwnershipTypeOK'
    BY <1>1 DEF OwnershipInv, OwnershipTypeOK
<1>4. AttemptsFirst'
    BY <1>1, <1>2 DEF OwnershipInv, AttemptsFirst, Owned
<1>5. BusyUnsettled'
    BY <1>1 DEF OwnershipInv, BusyUnsettled, Owned, Settled
<1>6. CandidateFinal'
    BY <1>1 DEF OwnershipInv, CandidateFinal, Owned, Settled
<1>7. OneWorkerPerResource'
    BY <1>1 DEF OwnershipInv, OneWorkerPerResource, Owned, Conflicts
<1>8. ReleasedIsQuiet'
    BY <1>1 DEF OwnershipInv, ReleasedIsQuiet
<1>9. PublishedAsAccepted'
    BY <1>1 DEF OwnershipInv, PublishedAsAccepted, Owned
<1>10. OwnershipReopens'
    BY <1>1, <1>2 DEF OwnershipInv, OwnershipReopens, ClaimRecordsValid, PublicationValid, SettlementValid, Owned
<1> QED
    BY <1>3, <1>4, <1>5, <1>6, <1>7, <1>8, <1>9, <1>10 DEF OwnershipInv

\* What is accepted of a claim is its candidate.
LEMMA SatisfyStep ==
    ASSUME OwnershipInv, NEW c \in Commands, SatisfyWorkUnit(c)
    PROVE  OwnershipInv'
<1>1. /\ UNCHANGED <<attempt, generation, proofs, observed, vouched, candidate, released, unknown>>
      /\ UNCHANGED <<ops, witnessed, granted, busy, published, call>>
      /\ accepted' = [accepted EXCEPT ![c] = content[Workspace[c]]]
    BY DEF SatisfyWorkUnit, claimVars, proofVars, effectVars
<1>2. attempt[c] # "none"
    BY DEF SatisfyWorkUnit
<1>3. Owned(c) => candidate[c] # None /\ content[Workspace[c]] = candidate[c]
    BY DEF SatisfyWorkUnit, HandedOff, Fresh
<1>4. /\ \A d \in Commands : d # c => accepted'[d] = accepted[d]
      /\ accepted'[c] = content[Workspace[c]]
    BY <1>1 DEF OwnershipInv, OwnershipTypeOK
<1>5. OwnershipTypeOK'
    BY <1>1 DEF OwnershipInv, OwnershipTypeOK
<1>6. AttemptsFirst'
    BY <1>1, <1>2, <1>4 DEF OwnershipInv, AttemptsFirst, Owned
<1>7. BusyUnsettled'
    BY <1>1 DEF OwnershipInv, BusyUnsettled, Owned, Settled
<1>8. CandidateFinal'
    BY <1>1, <1>3, <1>4 DEF OwnershipInv, CandidateFinal, Owned, Settled
<1>9. OneWorkerPerResource'
    BY <1>1 DEF OwnershipInv, OneWorkerPerResource, Owned, Conflicts
<1>10. ReleasedIsQuiet'
    BY <1>1 DEF OwnershipInv, ReleasedIsQuiet
<1>11. PublishedAsAccepted'
    <2>1. \A d \in Commands : Owned(d) /\ accepted[d] # None => accepted'[d] = accepted[d]
        BY <1>3, <1>4 DEF OwnershipInv, CandidateFinal
    <2>2. ASSUME NEW p \in published, Owned(p[1]) PROVE p[2] = candidate[p[1]] /\ p[2] = accepted'[p[1]]
        BY <2>1, <2>2 DEF OwnershipInv, PublishedAsAccepted, CandidateFinal, OwnershipTypeOK
    <2> QED
        BY <1>1, <2>2 DEF PublishedAsAccepted, Owned
<1>12. OwnershipReopens'
    <2>1. \A d \in Commands : ClaimRecordsValid(d)'
        BY <1>1 DEF OwnershipInv, OwnershipReopens, ClaimRecordsValid, Owned
    <2>2. ASSUME NEW d \in Commands, granted[d] # None PROVE accepted'[d] # None
        <3>1. Owned(d) /\ accepted[d] # None
            BY <2>2 DEF OwnershipInv, OwnershipReopens, ClaimRecordsValid, PublicationValid
        <3> QED
            BY <1>3, <1>4, <3>1
    <2>3. \A d \in Commands : PublicationValid(d)'
        BY <1>1, <2>2 DEF OwnershipInv, OwnershipReopens, PublicationValid
    <2>4. \A d \in Commands : SettlementValid(d)'
        BY <1>1 DEF OwnershipInv, OwnershipReopens, SettlementValid
    <2> QED
        BY <2>1, <2>3, <2>4 DEF OwnershipReopens
<1> QED
    BY <1>5, <1>6, <1>7, <1>8, <1>9, <1>10, <1>11, <1>12 DEF OwnershipInv

\* A cooperative worker starts in resources that are free.
LEMMA PullStartStep ==
    ASSUME OwnershipInv, NEW c \in Commands, PullStart(c)
    PROVE  OwnershipInv'
<1>1. /\ UNCHANGED <<attempt, accepted, generation, proofs, observed, vouched, candidate, released>>
      /\ UNCHANGED <<unknown, ops, witnessed, granted, published, call>>
      /\ busy' = busy \cup {<<c, "run">>}
    BY DEF PullStart, domainVars, claimVars, proofVars, effectVars
<1>2. Owned(c) /\ c \notin released /\ Vacant(c) /\ ~Settled(c)
    BY AuthorizedClaim DEF PullStart
<1>3. attempt[c] # "none"
    BY <1>2 DEF OwnershipInv, OwnershipReopens, ClaimRecordsValid
<1>4. \A p \in busy : p[1] # c => ~Conflicts(c, p[1]) /\ ~Conflicts(p[1], c)
    <2>1. ASSUME NEW p \in busy, p[1] # c PROVE ~Conflicts(c, p[1]) /\ ~Conflicts(p[1], c)
        <3>1. PICK d \in Commands, f \in AllEffects : p = <<d, f>>
            BY DEF OwnershipInv, OwnershipTypeOK
        <3>2. ~Conflicts(c, d)
            BY <1>2, <1>3, <2>1, <3>1, VacantIsFree
        <3> QED
            BY <3>1, <3>2, ConflictsSymmetric
    <2> QED
        BY <2>1
<1>5. candidate[c] = None
    BY <1>2 DEF OwnershipInv, CandidateFinal
<1>6. OwnershipTypeOK'
    BY <1>1 DEF OwnershipInv, OwnershipTypeOK, AllEffects
<1>7. AttemptsFirst'
    BY <1>1, <1>3 DEF OwnershipInv, AttemptsFirst, Owned
<1>8. BusyUnsettled'
    BY <1>1, <1>2 DEF OwnershipInv, BusyUnsettled, Owned, Settled
<1>9. CandidateFinal'
    BY <1>1 DEF OwnershipInv, CandidateFinal, Owned, Settled
<1>10. OneWorkerPerResource'
    <2>1. \A p, q \in busy' : p[1] # q[1] => ~Conflicts(p[1], q[1])
        BY <1>1, <1>4 DEF OwnershipInv, OneWorkerPerResource
    <2> QED
        BY <1>1, <2>1 DEF OwnershipInv, OneWorkerPerResource, Owned, Conflicts
<1>11. ReleasedIsQuiet'
    BY <1>1, <1>2, <1>5 DEF OwnershipInv, ReleasedIsQuiet
<1>12. PublishedAsAccepted'
    BY <1>1 DEF OwnershipInv, PublishedAsAccepted, Owned
<1>13. OwnershipReopens'
    BY <1>1 DEF OwnershipInv, OwnershipReopens, ClaimRecordsValid, PublicationValid, SettlementValid, Owned
<1> QED
    BY <1>6, <1>7, <1>8, <1>9, <1>10, <1>11, <1>12, <1>13 DEF OwnershipInv

\* A worker may end at any time.
LEMMA EndStep ==
    ASSUME OwnershipInv, NEW c \in Commands, NEW e \in AllEffects, End(c, e)
    PROVE  OwnershipInv'
<1>1. /\ UNCHANGED <<attempt, accepted, generation, proofs, observed, vouched, candidate, released>>
      /\ UNCHANGED <<unknown, ops, witnessed, granted, published, call>>
      /\ busy' \subseteq busy
    BY DEF End, domainVars, claimVars, proofVars, effectVars
<1>2. OwnershipTypeOK'
    BY <1>1 DEF OwnershipInv, OwnershipTypeOK
<1>3. AttemptsFirst'
    BY <1>1 DEF OwnershipInv, AttemptsFirst, Owned
<1>4. BusyUnsettled'
    BY <1>1 DEF OwnershipInv, BusyUnsettled, Owned, Settled
<1>5. CandidateFinal'
    BY <1>1 DEF OwnershipInv, CandidateFinal, Owned, Settled
<1>6. OneWorkerPerResource'
    BY <1>1 DEF OwnershipInv, OneWorkerPerResource, Owned, Conflicts
<1>7. ReleasedIsQuiet'
    BY <1>1 DEF OwnershipInv, ReleasedIsQuiet
<1>8. PublishedAsAccepted'
    BY <1>1 DEF OwnershipInv, PublishedAsAccepted, Owned
<1>9. OwnershipReopens'
    BY <1>1 DEF OwnershipInv, OwnershipReopens, ClaimRecordsValid, PublicationValid, SettlementValid, Owned
<1> QED
    BY <1>2, <1>3, <1>4, <1>5, <1>6, <1>7, <1>8, <1>9 DEF OwnershipInv

-----------------------------------------------------------------------------
(* The theorems. *)

\* The empty store.
LEMMA OwnershipInit ==
    Init => OwnershipInv
<1> SUFFICES ASSUME Init PROVE OwnershipInv
    OBVIOUS
<1>1. OwnershipTypeOK
    BY DEF Init, OwnershipTypeOK
<1>2. AttemptsFirst /\ BusyUnsettled /\ CandidateFinal
    BY DEF Init, AttemptsFirst, BusyUnsettled, CandidateFinal, Owned
<1>3. OneWorkerPerResource /\ ReleasedIsQuiet /\ PublishedAsAccepted
    BY DEF Init, OneWorkerPerResource, ReleasedIsQuiet, PublishedAsAccepted, Owned
<1>4. OwnershipReopens
    BY DEF Init, OwnershipReopens, ClaimRecordsValid, PublicationValid, SettlementValid, Owned
<1> QED
    BY <1>1, <1>2, <1>3, <1>4 DEF OwnershipInv

\* Every step of the store, its callers, the workers and the editors keeps the invariant.
LEMMA OwnershipStep ==
    OwnershipInv /\ [Next]_vars => OwnershipInv'
<1> SUFFICES ASSUME OwnershipInv, [Next]_vars PROVE OwnershipInv'
    OBVIOUS
<1>1. CASE ClaimNext
    BY <1>1, BeginStep, ObserveStep, InertStep, ClaimStep, WitnessStep, VouchStep, SubmitStep, ReleaseStep,
       CleaningStep, AuthorizeStep, QuarantineStep
       DEF ClaimNext
<1>2. CASE EffectNext
    <2>1. Effects \subseteq AllEffects
        BY DEF AllEffects
    <2> QED
        BY <1>2, <2>1, OpsStep, DeliverStep, SettleStep DEF EffectNext
<1>3. CASE DomainNext
    BY <1>3, PrepareGenericStep, AttemptStep, SatisfyStep, InertStep DEF DomainNext
<1>4. CASE WorldNext
    BY <1>4, PullStartStep, EndStep, InertStep DEF WorldNext
<1>5. CASE UNCHANGED vars
    BY <1>5, InertStep
<1> QED
    BY <1>1, <1>2, <1>3, <1>4, <1>5 DEF Next

\* The inductive invariant of the ownership rows, the workers and the callers.
THEOREM OwnershipInvariant == Spec => []OwnershipInv
BY OwnershipInit, OwnershipStep, PTL DEF Spec

\* Nobody works on a resource that conflicts with one somebody else works on
\* (_check_retained_workspace_work() and _check_work_claim()).
THEOREM WorkersNeverCollide == Spec => []OneWorkerPerResource
<1>1. OwnershipInv => OneWorkerPerResource
    BY DEF OwnershipInv
<1> QED
    BY <1>1, OwnershipInvariant, PTL

\* Nobody works in resources that were released, nor on a candidate that was handed
\* off (release_claim_resources(), submit_claim_candidate()).
THEOREM ReleasesAreQuiet == Spec => []ReleasedIsQuiet
<1>1. OwnershipInv => ReleasedIsQuiet
    BY DEF OwnershipInv
<1> QED
    BY <1>1, OwnershipInvariant, PTL

\* What is published is the accepted candidate (_check_claim_candidate() and
\* check_operation_delivery()).
THEOREM PublicationsAreAccepted == Spec => []PublishedAsAccepted
<1>1. OwnershipInv => PublishedAsAccepted
    BY DEF OwnershipInv
<1> QED
    BY <1>1, OwnershipInvariant, PTL

\* The ownership rows always pass the checks of the next start
\* (_validate_ownership_records()).
THEOREM OwnershipAlwaysReopens == Spec => []OwnershipReopens
<1>1. OwnershipInv => OwnershipReopens
    BY DEF OwnershipInv
<1> QED
    BY <1>1, OwnershipInvariant, PTL

-----------------------------------------------------------------------------
(* The served surface.  The transactions of a command, in their order. *)

\* The actions of commands, and the names of their transactions.
AllActions == WorkerActions \cup OwnerActions
StepNames == {"claim", "prepare", "submit", "finish", "judge", "start", "dispatch", "stop", "retire"} \cup AllActions

\* The transactions of each command.
LEMMA StepsAre ==
    ASSUME NEW a \in AllActions
    PROVE  /\ Steps[a] \in Seq(StepNames) /\ Len(Steps[a]) \in 1..3
           /\ a = "claim" => Len(Steps[a]) = 2 /\ Steps[a][1] = "claim" /\ Steps[a][2] = "prepare"
           /\ a = "report" => Len(Steps[a]) = 3 /\ Steps[a][1] = "submit" /\ Steps[a][2] = "finish"
                                /\ Steps[a][3] = "judge"
           /\ a = "start-managed" => Len(Steps[a]) = 2 /\ Steps[a][1] = "start" /\ Steps[a][2] = "dispatch"
           /\ a = "stop" => Len(Steps[a]) = 2 /\ Steps[a][1] = "stop" /\ Steps[a][2] = "retire"
           /\ a \notin {"claim", "report", "start-managed", "stop"} => Len(Steps[a]) = 1 /\ Steps[a][1] = a
<1>1. CASE a = "claim"
    <2>1. Steps[a] = <<"claim", "prepare">>
        BY <1>1 DEF Steps, AllActions
    <2> QED
        BY <1>1, <2>1 DEF StepNames
<1>2. CASE a = "report"
    <2>1. Steps[a] = <<"submit", "finish", "judge">>
        BY <1>2 DEF Steps, AllActions
    <2> QED
        BY <1>2, <2>1 DEF StepNames
<1>3. CASE a = "start-managed"
    <2>1. Steps[a] = <<"start", "dispatch">>
        BY <1>3 DEF Steps, AllActions
    <2> QED
        BY <1>3, <2>1 DEF StepNames
<1>4. CASE a = "stop"
    <2>1. Steps[a] = <<"stop", "retire">>
        BY <1>4 DEF Steps, AllActions
    <2> QED
        BY <1>4, <2>1 DEF StepNames
<1>5. CASE a \notin {"claim", "report", "start-managed", "stop"}
    <2>1. Steps[a] = <<a>>
        BY <1>5 DEF Steps, AllActions
    <2>2. a \in StepNames
        BY DEF StepNames
    <2> QED
        BY <1>5, <2>1, <2>2
<1> QED
    BY <1>1, <1>2, <1>3, <1>4, <1>5

\* What is left of a command's transactions.
LEMMA SuffixIs ==
    ASSUME NEW a \in AllActions, NEW todo \in Remainders(Steps[a]), todo # << >>
    PROVE  \E i \in 1..Len(Steps[a]) :
              /\ Head(todo) = Steps[a][i] /\ todo = SubSeq(Steps[a], i, Len(Steps[a]))
              /\ Tail(todo) = SubSeq(Steps[a], i + 1, Len(Steps[a]))
              /\ Tail(todo) = << >> <=> i = Len(Steps[a])
              /\ {todo[k] : k \in DOMAIN todo} = {Steps[a][j] : j \in i..Len(Steps[a])}
              /\ {Tail(todo)[k] : k \in DOMAIN Tail(todo)} = {Steps[a][j] : j \in (i + 1)..Len(Steps[a])}
              /\ Tail(todo) # << >> => Head(Tail(todo)) = Steps[a][i + 1]
<1> DEFINE all == Steps[a]
           n == Len(all)
<1>1. all \in Seq(StepNames) /\ n \in Nat /\ n \in 1..3
    BY StepsAre
<1> HIDE DEF all, n
<1>2. PICK i \in 1..(n + 1) : todo = SubSeq(all, i, n)
    BY DEF Remainders, all, n
<1>3. \A m \in 1..(n + 1) :
         LET rest == SubSeq(all, m, n)
         IN  /\ Len(rest) = n - m + 1 /\ DOMAIN rest = 1..(n - m + 1)
             /\ \A k \in 1..(n - m + 1) : rest[k] = all[m + k - 1]
    <2> SUFFICES ASSUME NEW m \in 1..(n + 1)
                 PROVE  LET rest == SubSeq(all, m, n)
                        IN  /\ Len(rest) = n - m + 1 /\ DOMAIN rest = 1..(n - m + 1)
                            /\ \A k \in 1..(n - m + 1) : rest[k] = all[m + k - 1]
        OBVIOUS
    <2>1. m \in Int /\ n \in Int /\ \A k \in m..n : all[k] \in StepNames
        BY <1>1 DEF n
    <2>2. /\ SubSeq(all, m, n) \in Seq(StepNames)
          /\ Len(SubSeq(all, m, n)) = IF m <= n THEN n - m + 1 ELSE 0
          /\ \A k \in 1 .. n - m + 1 : SubSeq(all, m, n)[k] = all[m + k - 1]
        BY <2>1, SubSeqProperties
    <2>3. Len(SubSeq(all, m, n)) = n - m + 1
        BY <1>1, <2>2
    <2> QED
        BY <2>2, <2>3
<1>4. i <= n
    <2>1. i = n + 1 => todo = << >>
        BY <1>1, <1>2, SubSeqEmpty
    <2> QED
        BY <1>1, <2>1
<1>5. i \in 1..n /\ n \in i..n
    BY <1>1, <1>4
<1>6. Head(todo) = all[i] /\ Tail(todo) = SubSeq(all, i + 1, n)
    BY <1>1, <1>2, <1>5, HeadTailOfSubSeq DEF n
<1>7. \A m \in 1..(n + 1) :
         {SubSeq(all, m, n)[k] : k \in DOMAIN SubSeq(all, m, n)} = {all[j] : j \in m..n}
    <2> SUFFICES ASSUME NEW m \in 1..(n + 1)
                 PROVE  {SubSeq(all, m, n)[k] : k \in DOMAIN SubSeq(all, m, n)} = {all[j] : j \in m..n}
        OBVIOUS
    <2> DEFINE rest == SubSeq(all, m, n)
    <2>1. DOMAIN rest = 1..(n - m + 1) /\ \A k \in 1..(n - m + 1) : rest[k] = all[m + k - 1]
        BY <1>3
    <2> HIDE DEF rest
    <2>2. \A k \in DOMAIN rest : \E j \in m..n : rest[k] = all[j]
        <3> SUFFICES ASSUME NEW k \in DOMAIN rest
                     PROVE  \E j \in m..n : rest[k] = all[j]
            OBVIOUS
        <3>1. m + k - 1 \in m..n /\ rest[k] = all[m + k - 1]
            BY <1>1, <2>1
        <3> QED
            BY <3>1
    <2>3. \A j \in m..n : \E k \in DOMAIN rest : rest[k] = all[j]
        <3> SUFFICES ASSUME NEW j \in m..n
                     PROVE  \E k \in DOMAIN rest : rest[k] = all[j]
            OBVIOUS
        <3>1. j - m + 1 \in DOMAIN rest /\ m + (j - m + 1) - 1 = j
            BY <1>1, <2>1
        <3>2. rest[j - m + 1] = all[m + (j - m + 1) - 1]
            BY <1>1, <2>1
        <3> QED
            BY <3>1, <3>2
    <2>4. {rest[k] : k \in DOMAIN rest} = {all[j] : j \in m..n}
        BY <2>2, <2>3
    <2> QED
        BY <2>4 DEF rest
<1>8. i + 1 \in 1..(n + 1) /\ i \in 1..(n + 1)
    BY <1>1, <1>5
<1>9. Tail(todo) = << >> <=> i = n
    <2>1. i = n => Tail(todo) = << >>
        BY <1>1, <1>6, SubSeqEmpty
    <2>2. Len(Tail(todo)) = n - (i + 1) + 1
        BY <1>3, <1>6, <1>8
    <2>3. Tail(todo) = << >> => i = n
        <3> SUFFICES ASSUME Tail(todo) = << >>
                     PROVE  i = n
            OBVIOUS
        <3>1. Len(Tail(todo)) = 0
            BY EmptySeq
        <3>2. n \in Nat /\ i \in Nat
            BY <1>1, <1>5
        <3> QED
            BY <2>2, <3>1, <3>2
    <2> QED
        BY <2>1, <2>3
<1>10. Tail(todo) # << >> => Head(Tail(todo)) = all[i + 1]
    <2> SUFFICES ASSUME Tail(todo) # << >>
                 PROVE  Head(Tail(todo)) = all[i + 1]
        OBVIOUS
    <2>1. i + 1 \in 1..n /\ n \in (i + 1)..n
        BY <1>1, <1>5, <1>9
    <2> QED
        BY <1>1, <1>6, <2>1, HeadTailOfSubSeq DEF n
<1>11. {todo[k] : k \in DOMAIN todo} = {all[j] : j \in i..n}
    BY <1>2, <1>7, <1>8
<1>12. {Tail(todo)[k] : k \in DOMAIN Tail(todo)} = {all[j] : j \in (i + 1)..n}
    BY <1>6, <1>7, <1>8
<1> QED
    BY <1>2, <1>5, <1>6, <1>9, <1>10, <1>11, <1>12 DEF all, n

\* The next transaction of a command, and the ones after it.
LEMMA Onwards ==
    ASSUME NEW a \in AllActions, NEW todo \in Remainders(Steps[a]), todo # << >>
    PROVE  LET s == Head(todo)
               rest == StepsLeft(Tail(todo))
               left == StepsLeft(todo)
           IN  /\ Tail(todo) \in Remainders(Steps[a]) /\ \E i \in DOMAIN Steps[a] : Steps[a][i] = s
               /\ s \in left /\ rest \subseteq left /\ s \notin rest
               /\ Tail(todo) = << >> => s = Steps[a][Len(Steps[a])]
               /\ s \in {"prepare"} => a = "claim"
               /\ s \in {"finish", "judge"} => a = "report"
               /\ s \in {"stop", "retire"} => a = "stop"
               /\ s \in {"quiesce", "renew", "reconcile", "approve", "claim"} => a = s
               /\ s = "submit" => a \in {"submit", "report"}
               /\ s = "start" => a \in {"start", "start-managed"}
               /\ s = "dispatch" => a = "start-managed"
               /\ Tail(todo) # << >> =>
                     \/ a = "claim" /\ s = "claim" /\ Head(Tail(todo)) = "prepare" /\ rest = {"prepare"}
                     \/ a = "report" /\ s = "submit" /\ Head(Tail(todo)) = "finish" /\ rest = {"finish", "judge"}
                     \/ a = "report" /\ s = "finish" /\ Head(Tail(todo)) = "judge" /\ rest = {"judge"}
                     \/ a = "start-managed" /\ s = "start" /\ Head(Tail(todo)) = "dispatch" /\ rest = {"dispatch"}
                     \/ a = "stop" /\ s = "stop" /\ Head(Tail(todo)) = "retire" /\ rest = {"retire"}
<1> DEFINE all == Steps[a]
           n == Len(all)
           s == Head(todo)
           next == Tail(todo)
           rest == StepsLeft(next)
           left == StepsLeft(todo)
<1>1. PICK i \in 1..n :
         /\ s = all[i] /\ next = SubSeq(all, i + 1, n)
         /\ next = << >> <=> i = n
         /\ left = {all[j] : j \in i..n} /\ rest = {all[j] : j \in (i + 1)..n}
         /\ next # << >> => Head(next) = all[i + 1]
    BY SuffixIs DEF StepsLeft
<1>2. /\ all \in Seq(StepNames) /\ n \in 1..3
      /\ a = "claim" => n = 2 /\ all[1] = "claim" /\ all[2] = "prepare"
      /\ a = "report" => n = 3 /\ all[1] = "submit" /\ all[2] = "finish" /\ all[3] = "judge"
      /\ a = "start-managed" => n = 2 /\ all[1] = "start" /\ all[2] = "dispatch"
      /\ a = "stop" => n = 2 /\ all[1] = "stop" /\ all[2] = "retire"
      /\ a \notin {"claim", "report", "start-managed", "stop"} => n = 1 /\ all[1] = a
    BY StepsAre
<1>3. next \in Remainders(all)
    <2>1. i + 1 \in 1..(n + 1)
        BY <1>2
    <2> QED
        BY <1>1, <2>1 DEF Remainders
<1>4. DOMAIN all = 1..n
    BY <1>2
<1>5. i \in i..n /\ (i + 1)..n \subseteq i..n
    BY <1>2
<1> HIDE DEF all, n, s, next, rest, left
<1>6. s \in left /\ rest \subseteq left
    BY <1>1, <1>5
<1>7. s \notin rest
    <2>1. \A j \in (i + 1)..n : all[j] # all[i]
        BY <1>2, <1>4
    <2> QED
        BY <1>1, <2>1
<1>8. next # << >> => i < n
    BY <1>1, <1>2
<1>9. /\ s \in {"prepare"} => a = "claim"
      /\ s \in {"finish", "judge"} => a = "report"
      /\ s \in {"stop", "retire"} => a = "stop"
      /\ s \in {"quiesce", "renew", "reconcile", "approve", "claim"} => a = s
      /\ s = "submit" => a \in {"submit", "report"}
      /\ s = "start" => a \in {"start", "start-managed"}
      /\ s = "dispatch" => a = "start-managed"
    <2>1. i \in {1, 2, 3} /\ i <= n
        BY <1>2
    <2>2. CASE a = "claim"
        <3>1. s \in {"claim", "prepare"}
            BY <1>1, <1>2, <2>1, <2>2
        <3> QED
            BY <2>2, <3>1
    <2>3. CASE a = "report"
        <3>1. s \in {"submit", "finish", "judge"}
            BY <1>1, <1>2, <2>1, <2>3
        <3> QED
            BY <2>3, <3>1
    <2>4. CASE a = "start-managed"
        <3>1. s \in {"start", "dispatch"}
            BY <1>1, <1>2, <2>1, <2>4
        <3> QED
            BY <2>4, <3>1
    <2>5. CASE a = "stop"
        <3>1. s \in {"stop", "retire"}
            BY <1>1, <1>2, <2>1, <2>5
        <3> QED
            BY <2>5, <3>1
    <2>6. CASE a \notin {"claim", "report", "start-managed", "stop"}
        <3>1. s = a
            BY <1>1, <1>2, <2>1, <2>6
        <3>2. a \in WorkerActions \cup OwnerActions
            BY DEF AllActions
        <3> QED
            BY <2>6, <3>1, <3>2 DEF WorkerActions, OwnerActions
    <2> QED
        BY <2>2, <2>3, <2>4, <2>5, <2>6
<1>10. next # << >> =>
          \/ a = "claim" /\ s = "claim" /\ Head(next) = "prepare" /\ rest = {"prepare"}
          \/ a = "report" /\ s = "submit" /\ Head(next) = "finish" /\ rest = {"finish", "judge"}
          \/ a = "report" /\ s = "finish" /\ Head(next) = "judge" /\ rest = {"judge"}
          \/ a = "start-managed" /\ s = "start" /\ Head(next) = "dispatch" /\ rest = {"dispatch"}
          \/ a = "stop" /\ s = "stop" /\ Head(next) = "retire" /\ rest = {"retire"}
    <2> SUFFICES ASSUME next # << >>
                 PROVE  \/ a = "claim" /\ s = "claim" /\ Head(next) = "prepare" /\ rest = {"prepare"}
                        \/ a = "report" /\ s = "submit" /\ Head(next) = "finish" /\ rest = {"finish", "judge"}
                        \/ a = "report" /\ s = "finish" /\ Head(next) = "judge" /\ rest = {"judge"}
                        \/ a = "start-managed" /\ s = "start" /\ Head(next) = "dispatch" /\ rest = {"dispatch"}
                        \/ a = "stop" /\ s = "stop" /\ Head(next) = "retire" /\ rest = {"retire"}
        OBVIOUS
    <2>1. i < n /\ Head(next) = all[i + 1]
        BY <1>1, <1>8
    <2>2. CASE n = 2
        <3>1. i = 1
            BY <2>1, <2>2
        <3>2. (i + 1)..n = {2}
            BY <2>2, <3>1
        <3>3. rest = {all[2]}
            BY <1>1, <3>2
        <3> QED
            BY <1>1, <1>2, <2>1, <2>2, <3>1, <3>3
    <2>3. CASE n = 3 /\ i = 1
        <3>1. (i + 1)..n = {2, 3}
            BY <2>3
        <3>2. rest = {all[2], all[3]}
            BY <1>1, <3>1
        <3> QED
            BY <1>1, <1>2, <2>1, <2>3, <3>2
    <2>4. CASE n = 3 /\ i = 2
        <3>1. (i + 1)..n = {3}
            BY <2>4
        <3>2. rest = {all[3]}
            BY <1>1, <3>1
        <3> QED
            BY <1>1, <1>2, <2>1, <2>4, <3>2
    <2> QED
        BY <1>2, <2>1, <2>2, <2>3, <2>4
<1>11. next = << >> => s = all[n]
    BY <1>1
<1>12. \E k \in DOMAIN all : all[k] = s
    BY <1>1, <1>4
<1> QED
    BY <1>3, <1>6, <1>7, <1>9, <1>10, <1>11, <1>12 DEF all, n, s, next, rest, left

-----------------------------------------------------------------------------
(* The calls under way while the store moves on. *)

\* The Program, its Attempts and the managed process only go forward.
Ahead ==
    /\ prog'.mode = prog.mode /\ prog'.rev \in Int /\ prog.rev <= prog'.rev /\ (Over(prog) => Over(prog'))
    /\ \A k \in Claims : /\ att[k].status # "none" => att'[k].status # "none"
                         /\ att[k].status \in Ended => att'[k].status \in Ended
    /\ (runtime = "gone" /\ Over(prog)) => runtime' = "gone"

\* What is journalled stays, and a receipt is final.
Kept ==
    \A op \in DOMAIN ledger :
        /\ op \in DOMAIN ledger' /\ ledger'[op].exact = ledger[op].exact
        /\ ledger[op].receipt # "none" => ledger'[op].receipt = ledger[op].receipt

\* No transaction of this command happens.
Untouched(op) == {e \in log' : e.op = op} = {e \in log : e.op = op}

\* A request that clients send.
LEMMA SentAre ==
    ASSUME prog.mode \in Modes, NEW req \in Sent
    PROVE  /\ req.action \in AllActions /\ req.rev \in Int
           /\ Side(req) = "owner" <=> req.action \in OwnerActions
           /\ Side(req) \in {"owner", "worker"}
           /\ req.action = "claim" => req.key \in Claims
           /\ req.claim # NoClaim <=> req.action \in WorkerActions \ {"claim"}
<1>1. WellFormed(req)
    BY ServedAssumption DEF Sent
<1>2. req.action = "claim" => req.key \in Claims
    BY DEF Sent, Claims
<1> QED
    BY <1>1, <1>2 DEF WellFormed, AllActions, Side

\* The kinds of request, commands and calls do not change.
LEMMA SameSent ==
    ASSUME prog'.mode = prog.mode
    PROVE  Sent' = Sent /\ Exacts' = Exacts /\ Calls' = Calls
<1>1. Sent' = Sent
    BY DEF Sent
<1>2. Exacts' = Exacts
    BY <1>1 DEF Exacts
<1> QED
    BY <1>1, <1>2 DEF Calls

\* The transactions of a command that is not touched.
LEMMA UntouchedIs ==
    ASSUME NEW op, Untouched(op)
    PROVE  /\ \A e \in log' : e.op = op => e \in log
           /\ \A e \in log : e.op = op => e \in log'
           /\ DecisionsOf(log', op) = DecisionsOf(log, op)
BY DEF Untouched, DecisionsOf

\* A call under way stays what it was while the others go on.
LEMMA CallStays ==
    ASSUME NEW c, c \in Calls, c.req.action \in AllActions,
           FrameOK(c, prog, att, ledger, log), Ahead, Kept, log \subseteq log',
           c.pc = "run" => Untouched(Op(c.req))
    PROVE  FrameOK(c, prog', att', ledger', log')
<1> DEFINE op == Op(c.req)
           all == Steps[c.req.action]
<1>1. c.pc \in {"check", "run", "record", "reply"} /\ c.result \in Results
    BY DEF Calls
<1>2. c.result # "none"
    BY <1>1 DEF Results
<1> HIDE DEF op
<1>3. /\ c.exact.req = c.req
      /\ c.req.action = "report" => c.target \in Claims /\ c.target = c.req.claim
      /\ c.pc = "check" => Side(c.req) = "worker" /\ c.todo = all /\ c.at = c.req.rev
      /\ c.pc \in {"check", "run"} => c.result # "settled"
    BY DEF FrameOK
<1>4. c.pc # "check" => op \in DOMAIN ledger' /\ ledger'[op].exact = c.exact
    <2>1. c.pc # "check" => op \in DOMAIN ledger /\ ledger[op].exact = c.exact
        BY DEF FrameOK, op
    <2> QED
        BY <2>1 DEF Kept
<1>5. ASSUME c.pc = "run"
      PROVE  /\ c.todo # << >> /\ c.todo \in Remainders(all) /\ AtItsRevision(c, log')
             /\ Head(c.todo) = "judge" => att'[c.target].status \in Ended
             /\ Head(c.todo) = "retire" => Over(prog')
    <2>1. /\ c.todo # << >> /\ c.todo \in Remainders(all) /\ AtItsRevision(c, log)
          /\ Head(c.todo) = "judge" => att[c.target].status \in Ended
          /\ Head(c.todo) = "retire" => Over(prog)
        BY <1>5 DEF FrameOK
    <2>2. Head(c.todo) = "judge" => c.req.action = "report"
        BY <2>1, Onwards
    <2>3. Head(c.todo) = "judge" => att'[c.target].status \in Ended
        BY <1>3, <2>1, <2>2 DEF Ahead
    <2>4. Head(c.todo) = "retire" => Over(prog')
        BY <2>1 DEF Ahead
    <2>5. /\ \A e \in log' : e.op = op => e \in log
          /\ DecisionsOf(log', op) = DecisionsOf(log, op)
        BY <1>5, UntouchedIs DEF op
    <2>6. AtItsRevision(c, log')
        BY <2>1, <2>5 DEF AtItsRevision, op
    <2> QED
        BY <2>1, <2>3, <2>4, <2>6
<1>6. c.pc \in {"record", "reply"} => InLog(log', op, all[Len(all)], c.result)
    BY DEF FrameOK, InLog, op
<1>7. c.pc = "reply" => ledger'[op].receipt = c.result
    <2>1. c.pc = "reply" => op \in DOMAIN ledger /\ ledger[op].receipt = c.result
        BY DEF FrameOK, op
    <2> QED
        BY <1>2, <2>1 DEF Kept
<1> QED
    BY <1>3, <1>4, <1>5, <1>6, <1>7 DEF FrameOK, op

-----------------------------------------------------------------------------
(* A transaction of a command finds the revision that its caller named,    *)
(* advanced by the command's own decisions.                                *)

\* The next transaction of the innermost call, as the log keeps it.
Entry(result) == [op |-> Op(Top.req), step |-> Head(Top.todo), rev |-> prog.rev, result |-> result]

\* What all steps of commands have in common.
Transaction(rev, result) ==
    LET s == Head(Top.todo)
    IN  /\ Running("run") /\ Advance(rev, result) /\ ledger' = ledger /\ Ahead
        /\ rev \in Int /\ result \in Results
        /\ s # "retire" => AtRevision
        /\ s # "stop" => IF Decides(Entry(result)) THEN rev = prog.rev + 1 /\ prog'.rev = prog.rev + 1
                         ELSE rev = prog.rev
        /\ s = "claim" => att[Top.req.key].status = "none"
        /\ s = "prepare" => att'[Top.req.key].status # "none"
        /\ s = "finish" => att[Top.target].status = "running" /\ att'[Top.target].status \in Ended
        /\ s = "judge" => att'[Top.target].status \in Ended
        /\ s = "stop" => Over(prog')
        /\ result = "settled" => s = "retire" /\ (~KillMayHang => runtime' = "gone")

\* The innermost call, when there is one.
LEMMA TopIs ==
    ASSUME ServedInv, calls # << >>
    PROVE  /\ Len(calls) \in DOMAIN calls /\ Len(calls) \in Nat \ {0} /\ DOMAIN calls = 1..Len(calls)
           /\ calls \in Seq(Calls) /\ Top \in Calls /\ Top.req \in Sent /\ Top.req.action \in AllActions
           /\ FrameOK(Top, prog, att, ledger, log)
<1>1. calls \in Seq(Calls) /\ prog.mode \in Modes
    BY DEF ServedInv, ServedTypeOK
<1>2. Len(calls) \in Nat \ {0} /\ DOMAIN calls = 1..Len(calls)
    BY <1>1, EmptySeq
<1>3. Len(calls) \in DOMAIN calls
    BY <1>2
<1>4. Top \in Calls
    BY <1>1, <1>2 DEF Top
<1>5. Top.req \in Sent
    BY <1>4 DEF Calls
<1>6. Top.req.action \in AllActions
    BY <1>1, <1>5, SentAre
<1>7. FrameOK(Top, prog, att, ledger, log)
    BY <1>3 DEF ServedInv, FramesOK, Top
<1> QED
    BY <1>1, <1>2, <1>3, <1>4, <1>5, <1>6, <1>7

\* A transaction under way: its command, its place among the command's transactions and its revision.
LEMMA TurnIs ==
    ASSUME ServedInv, Running("run")
    PROVE  /\ calls # << >> /\ Top.todo # << >> /\ Top.todo \in Remainders(Steps[Top.req.action])
           /\ AtItsRevision(Top, log) /\ Top.exact.req = Top.req /\ Top.req.rev \in Int
           /\ Op(Top.req) \in DOMAIN ledger /\ ledger[Op(Top.req)].exact = Top.exact
           /\ Top.result # "settled"
           /\ Head(Top.todo) = "judge" => att[Top.target].status \in Ended
           /\ Head(Top.todo) = "retire" => Over(prog)
           /\ Head(Top.todo) \in {"claim", "prepare"} => Top.req.key \in Claims
           /\ Head(Top.todo) \in {"finish", "judge"} => Top.target \in Claims /\ Top.target = Top.req.claim
<1>1. calls # << >> /\ Top.pc = "run"
    BY DEF Running
<1>2. FrameOK(Top, prog, att, ledger, log) /\ Top.req \in Sent /\ Top.req.action \in AllActions
    BY <1>1, TopIs
<1>3. /\ Top.todo # << >> /\ Top.todo \in Remainders(Steps[Top.req.action])
      /\ AtItsRevision(Top, log) /\ Top.exact.req = Top.req
      /\ Op(Top.req) \in DOMAIN ledger /\ ledger[Op(Top.req)].exact = Top.exact
      /\ Top.result # "settled"
      /\ Head(Top.todo) = "judge" => att[Top.target].status \in Ended
      /\ Head(Top.todo) = "retire" => Over(prog)
      /\ Top.req.action = "report" => Top.target \in Claims /\ Top.target = Top.req.claim
    BY <1>1, <1>2 DEF FrameOK
<1>4. /\ Head(Top.todo) \in {"claim", "prepare"} => Top.req.action = "claim"
      /\ Head(Top.todo) \in {"finish", "judge"} => Top.req.action = "report"
    BY <1>2, <1>3, Onwards
<1>5. prog.mode \in Modes
    BY DEF ServedInv, ServedTypeOK
<1>6. /\ Top.req.rev \in Int
      /\ Top.req.action = "claim" => Top.req.key \in Claims
    BY <1>2, <1>5, SentAre
<1> QED
    BY <1>1, <1>3, <1>4, <1>6

\* The decisions of a command are finitely many, and so are those before one of its transactions.
LEMMA DecisionsFinite ==
    ASSUME IsFiniteSet(log), NEW op, NEW rev
    PROVE  LET before == {f \in log : f.op = op /\ Decides(f) /\ f.rev < rev}
           IN  /\ IsFiniteSet(DecisionsOf(log, op)) /\ Cardinality(DecisionsOf(log, op)) \in Nat
               /\ IsFiniteSet(before) /\ Cardinality(before) \in Nat
               /\ Cardinality(before) <= Cardinality(DecisionsOf(log, op))
<1> DEFINE before == {f \in log : f.op = op /\ Decides(f) /\ f.rev < rev}
           D == DecisionsOf(log, op)
<1>1. D \subseteq log /\ before \subseteq D
    BY DEF DecisionsOf
<1> HIDE DEF before, D
<1>2. IsFiniteSet(D)
    BY <1>1, FS_Subset
<1>3. IsFiniteSet(before) /\ Cardinality(before) <= Cardinality(D)
    BY <1>1, <1>2, FS_Subset
<1>4. Cardinality(D) \in Nat
    BY <1>2, FS_CardinalityType
<1>5. Cardinality(before) \in Nat
    BY <1>3, FS_CardinalityType
<1> QED
    BY <1>2, <1>3, <1>4, <1>5 DEF before, D

\* A transaction that changes anything else than the managed process is at the call's revision, which is
\* past all decisions of the command and all of its other transactions.
LEMMA TurnAtRevision ==
    ASSUME ServedInv, NEW rev, NEW result, Transaction(rev, result), Head(Top.todo) # "retire"
    PROVE  LET op == Op(Top.req)
           IN  /\ prog.rev = Top.req.rev + Cardinality(DecisionsOf(log, op))
               /\ \A f \in DecisionsOf(log, op) : f.rev < prog.rev
               /\ \A e \in log : e.op = op /\ e.step # "retire" => e.rev <= prog.rev
<1> DEFINE op == Op(Top.req)
           D == DecisionsOf(log, op)
<1>1. prog.rev = Top.at /\ Running("run")
    BY DEF Transaction, AtRevision
<1>2. AtItsRevision(Top, log) /\ Top.exact.req = Top.req /\ Top.req.rev \in Int /\ ledger[op].exact = Top.exact
    BY <1>1, TurnIs
<1>3. /\ Top.at = Top.req.rev + Cardinality(D)
      /\ \A f \in D : f.rev < Top.at
    BY <1>2 DEF AtItsRevision
<1>4. ASSUME NEW e \in log, e.op = op, e.step # "retire"
      PROVE  e.rev <= prog.rev
    <2> DEFINE before == {f \in log : f.op = op /\ Decides(f) /\ f.rev < e.rev}
    <2>1. e.rev = ledger[op].exact.req.rev + Cardinality(before)
        BY <1>4 DEF ServedInv, CommandsAtRevision
    <2>2. IsFiniteSet(log)
        BY DEF ServedInv, ServedTypeOK
    <2>3. Cardinality(D) \in Nat /\ Cardinality(before) \in Nat /\ Cardinality(before) <= Cardinality(D)
        BY <2>2, DecisionsFinite
    <2> HIDE DEF before, D, op
    <2> QED
        BY <1>1, <1>2, <1>3, <2>1, <2>3
<1> QED
    BY <1>1, <1>3, <1>4

\* The log after a transaction.
LEMMA LogAfter ==
    ASSUME NEW rev, NEW result, Transaction(rev, result)
    PROVE  /\ log' = log \cup {Entry(result)} /\ log \subseteq log' /\ Entry(result) \in log'
           /\ Entry(result).op = Op(Top.req) /\ Entry(result).step = Head(Top.todo)
           /\ Entry(result).rev = prog.rev /\ Entry(result).result = result
BY DEF Transaction, Advance, Entry

\* The decisions before a transaction stay the same.
LEMMA BeforeStays ==
    ASSUME ServedInv, NEW rev, NEW result, Transaction(rev, result),
           NEW e \in log', e.step # "retire"
    PROVE  {f \in log' : f.op = e.op /\ Decides(f) /\ f.rev < e.rev}
             = {f \in log : f.op = e.op /\ Decides(f) /\ f.rev < e.rev}
<1> DEFINE new == Entry(result)
<1>1. log' = log \cup {new} /\ new.op = Op(Top.req) /\ new.step = Head(Top.todo) /\ new.rev = prog.rev
    BY LogAfter
<1>2. prog.rev \in Int
    BY DEF ServedInv, ServedTypeOK
<1>3. e \in log => e.rev \in Int
    BY DEF ServedInv, ServedTypeOK
<1> HIDE DEF new
<1>4. e = new => e.rev = prog.rev
    BY <1>1
<1>5. ~(new.op = e.op /\ Decides(new) /\ new.rev < e.rev)
    <2> SUFFICES ASSUME new.op = e.op, Decides(new), new.rev < e.rev
                 PROVE  FALSE
        OBVIOUS
    <2>1. Head(Top.todo) # "retire"
        BY <1>1 DEF Decides
    <2>2. \A x \in log : x.op = Op(Top.req) /\ x.step # "retire" => x.rev <= prog.rev
        BY <2>1, TurnAtRevision
    <2>3. CASE e \in log
        <3>1. e.rev <= prog.rev
            BY <1>1, <2>2, <2>3
        <3> QED
            BY <1>1, <1>2, <1>3, <2>3, <3>1
    <2>4. CASE e = new
        BY <1>1, <1>2, <2>4
    <2> QED
        BY <1>1, <2>3, <2>4
<1> QED
    BY <1>1, <1>5

\* The new transaction stands at its caller's revision, advanced by its command's own decisions.
LEMMA EntryAtRevision ==
    ASSUME ServedInv, NEW rev, NEW result, Transaction(rev, result), Head(Top.todo) # "retire"
    PROVE  Entry(result).rev = ledger[Op(Top.req)].exact.req.rev
              + Cardinality({f \in log : f.op = Op(Top.req) /\ Decides(f) /\ f.rev < prog.rev})
<1> DEFINE op == Op(Top.req)
<1>1. /\ prog.rev = Top.req.rev + Cardinality(DecisionsOf(log, op))
      /\ \A f \in DecisionsOf(log, op) : f.rev < prog.rev
    BY TurnAtRevision
<1>2. {f \in log : f.op = op /\ Decides(f) /\ f.rev < prog.rev} = DecisionsOf(log, op)
    BY <1>1 DEF DecisionsOf
<1>3. Entry(result).rev = prog.rev
    BY LogAfter
<1>4. Running("run")
    BY DEF Transaction
<1>5. ledger[op].exact.req = Top.req
    BY <1>4, TurnIs
<1> QED
    BY <1>1, <1>2, <1>3, <1>5

\* A transaction of the same name happened at the same revision, if it happened.
LEMMA EntryOnce ==
    ASSUME ServedInv, NEW rev, NEW result, Transaction(rev, result),
           NEW f \in log, f.op = Op(Top.req), f.step = Head(Top.todo)
    PROVE  f.rev = prog.rev
<1>1. Running("run")
    BY DEF Transaction
<1>2. /\ AtItsRevision(Top, log) /\ Top.todo # << >> /\ Top.todo \in Remainders(Steps[Top.req.action])
      /\ calls # << >>
    BY <1>1, TurnIs
<1>3. Top.req.action \in AllActions /\ Top.req \in Sent
    BY <1>2, TopIs
<1>4. Head(Top.todo) \in StepsLeft(Top.todo) /\ (Head(Top.todo) = "retire" => Top.req.action = "stop")
    BY <1>2, <1>3, Onwards
<1>5. CASE Head(Top.todo) = "retire"
    <2>1. Top.req.action \in OwnerActions
        BY <1>4, <1>5 DEF OwnerActions
    <2>2. Side(Top.req) = "owner"
        BY <2>1 DEF Side
    <2> QED
        BY <1>2, <1>4, <2>2 DEF AtItsRevision
<1>6. CASE Head(Top.todo) # "retire"
    <2>1. prog.rev = Top.at
        BY <1>6 DEF Transaction, AtRevision
    <2> QED
        BY <1>2, <1>4, <1>6, <2>1 DEF AtItsRevision
<1> QED
    BY <1>5, <1>6

\* A transaction keeps every command at its revision, as it is above.
LEMMA TransactionRevisions ==
    ASSUME ServedInv, NEW rev, NEW result, Transaction(rev, result)
    PROVE  CommandsAtRevision'
<1> DEFINE new == Entry(result)
           Before(e, done) == {f \in done : f.op = e.op /\ Decides(f) /\ f.rev < e.rev}
<1>1. log' = log \cup {new} /\ new.op = Op(Top.req) /\ new.step = Head(Top.todo) /\ new.rev = prog.rev
    BY LogAfter
<1>2. ledger' = ledger /\ Running("run")
    BY DEF Transaction
<1>3. Op(Top.req) \in DOMAIN ledger
    BY <1>2, TurnIs
<1>4. ASSUME NEW e \in log', e.step # "retire"
      PROVE  e.rev = ledger[e.op].exact.req.rev + Cardinality(Before(e, log'))
    <2>1. Before(e, log') = Before(e, log)
        BY <1>4, BeforeStays
    <2>2. CASE e \in log
        BY <1>4, <2>1, <2>2 DEF ServedInv, CommandsAtRevision
    <2>3. CASE e = new
        <3>1. Head(Top.todo) # "retire"
            BY <1>1, <1>4, <2>3
        <3> QED
            BY <1>1, <2>1, <2>3, <3>1, EntryAtRevision
    <2> QED
        BY <1>1, <2>2, <2>3
<1>5. ASSUME NEW e \in log', NEW f \in log', f.op = e.op, f.step = e.step
      PROVE  f.rev = e.rev
    <2>1. \A x \in log : x.op = new.op /\ x.step = new.step => x.rev = new.rev
        BY <1>1, EntryOnce
    <2>2. \A x, y \in log : x.op = y.op /\ x.step = y.step => x.rev = y.rev
        BY DEF ServedInv, CommandsAtRevision
    <2> HIDE DEF new
    <2> QED
        BY <1>1, <1>5, <2>1, <2>2
<1>6. \A e \in log' : e.op \in DOMAIN ledger
    BY <1>1, <1>3 DEF ServedInv, CommandsAtRevision
<1> HIDE DEF new
<1> QED
    BY <1>2, <1>4, <1>5, <1>6 DEF CommandsAtRevision

\* A transaction is one of its command, and what it rests on is there.
LEMMA TransactionTransacted ==
    ASSUME ServedInv, NEW rev, NEW result, Transaction(rev, result)
    PROVE  Transacted'
<1> DEFINE new == Entry(result)
           Good(e) == LET req == ledger[e.op].exact.req
                      IN  /\ \E i \in DOMAIN Steps[req.action] : Steps[req.action][i] = e.step
                          /\ Decides(e) /\ e.step # "stop" => e.rev < prog'.rev
                          /\ e.step = "prepare" => req.key \in Claims /\ att'[req.key].status # "none"
                          /\ e.step = "judge" => req.claim \in Claims /\ att'[req.claim].status \in Ended
                          /\ e.result = "settled" => Over(prog') /\ (~KillMayHang => runtime' = "gone")
<1>1. /\ log' = log \cup {new} /\ new.op = Op(Top.req) /\ new.step = Head(Top.todo) /\ new.rev = prog.rev
      /\ new.result = result
    BY LogAfter
<1>2. ledger' = ledger /\ Running("run") /\ Ahead
    BY DEF Transaction
<1>3. /\ calls # << >> /\ Top.todo # << >> /\ Top.todo \in Remainders(Steps[Top.req.action])
      /\ ledger[Op(Top.req)].exact.req = Top.req
      /\ Head(Top.todo) = "retire" => Over(prog)
      /\ Head(Top.todo) \in {"claim", "prepare"} => Top.req.key \in Claims
      /\ Head(Top.todo) \in {"finish", "judge"} => Top.target \in Claims /\ Top.target = Top.req.claim
    BY <1>2, TurnIs
<1>4. Top.req.action \in AllActions
    BY <1>3, TopIs
<1>5. \E i \in DOMAIN Steps[Top.req.action] : Steps[Top.req.action][i] = Head(Top.todo)
    BY <1>3, <1>4, Onwards
<1>6. prog.rev \in Int /\ prog'.rev >= prog.rev
    BY <1>2 DEF ServedInv, ServedTypeOK, Ahead
<1>7. Good(new)
    <2> DEFINE s == Head(Top.todo)
    <2>1. /\ s # "stop" => IF Decides(new) THEN rev = prog.rev + 1 /\ prog'.rev = prog.rev + 1 ELSE rev = prog.rev
          /\ s = "prepare" => att'[Top.req.key].status # "none"
          /\ s = "judge" => att'[Top.target].status \in Ended
          /\ result = "settled" => s = "retire" /\ (~KillMayHang => runtime' = "gone")
        BY DEF Transaction
    <2>2. ledger[new.op].exact.req = Top.req
        BY <1>1, <1>3
    <2> HIDE DEF new, s
    <2>3. Decides(new) /\ new.step # "stop" => new.rev < prog'.rev
        BY <1>1, <1>6, <2>1 DEF s
    <2>4. new.step = "prepare" => Top.req.key \in Claims /\ att'[Top.req.key].status # "none"
        BY <1>1, <1>3, <2>1 DEF s
    <2>5. new.step = "judge" => Top.req.claim \in Claims /\ att'[Top.req.claim].status \in Ended
        BY <1>1, <1>3, <2>1 DEF s
    <2>6. Over(prog) => Over(prog')
        BY <1>2 DEF Ahead
    <2>7. new.result = "settled" => Over(prog') /\ (~KillMayHang => runtime' = "gone")
        BY <1>1, <1>3, <2>1, <2>6 DEF s
    <2>8. \E i \in DOMAIN Steps[Top.req.action] : Steps[Top.req.action][i] = new.step
        BY <1>1, <1>5
    <2> QED
        BY <2>2, <2>3, <2>4, <2>5, <2>7, <2>8
<1>8. ASSUME NEW e \in log
      PROVE  Good(e)
    <2> DEFINE req == ledger[e.op].exact.req
    <2>1. /\ \E i \in DOMAIN Steps[req.action] : Steps[req.action][i] = e.step
          /\ Decides(e) /\ e.step # "stop" => e.rev < prog.rev
          /\ e.step = "prepare" => req.key \in Claims /\ att[req.key].status # "none"
          /\ e.step = "judge" => req.claim \in Claims /\ att[req.claim].status \in Ended
          /\ e.result = "settled" => Over(prog) /\ (~KillMayHang => runtime = "gone")
        BY DEF ServedInv, Transacted
    <2>2. e.rev \in Int
        BY DEF ServedInv, ServedTypeOK
    <2>3. prog'.rev \in Int
        BY <1>2 DEF Ahead
    <2>4. Decides(e) /\ e.step # "stop" => e.rev < prog'.rev
        BY <1>6, <2>1, <2>2, <2>3
    <2>5. e.step = "prepare" => req.key \in Claims /\ att'[req.key].status # "none"
        BY <1>2, <2>1 DEF Ahead
    <2>6. e.step = "judge" => req.claim \in Claims /\ att'[req.claim].status \in Ended
        BY <1>2, <2>1 DEF Ahead
    <2>7. e.result = "settled" => Over(prog') /\ (~KillMayHang => runtime' = "gone")
        BY <1>2, <2>1 DEF Ahead
    <2> QED
        BY <2>1, <2>4, <2>5, <2>6, <2>7
<1> HIDE DEF new
<1>9. \A e \in log' : Good(e)
    BY <1>1, <1>7, <1>8
<1> QED
    BY <1>2, <1>9 DEF Transacted

\* Receipts are not touched by a transaction.
LEMMA TransactionJournalled ==
    ASSUME ServedInv, NEW rev, NEW result, Transaction(rev, result)
    PROVE  Journalled'
<1>1. log \subseteq log' /\ ledger' = ledger
    BY LogAfter DEF Transaction
<1>2. \A op, step, res : InLog(log, op, step, res) => InLog(log', op, step, res)
    BY <1>1 DEF InLog
<1> QED
    BY <1>1, <1>2 DEF ServedInv, Journalled

\* The innermost call after its transaction.
NextCall(rev, result) ==
    [Top EXCEPT !.todo = Tail(@), !.at = rev, !.result = result,
                !.pc = IF Tail(Top.todo) = << >> THEN "record" ELSE "run"]

\* A command after a transaction of its own.
LEMMA NextCallIs ==
    ASSUME ServedInv, NEW rev, NEW result, Transaction(rev, result)
    PROVE  LET c == NextCall(rev, result)
           IN  /\ c.req = Top.req /\ c.exact = Top.exact /\ c.target = Top.target
               /\ c.todo = Tail(Top.todo) /\ c.at = rev /\ c.result = result
               /\ c.pc = IF Tail(Top.todo) = << >> THEN "record" ELSE "run"
               /\ c \in Calls
<1> DEFINE c == NextCall(rev, result)
<1>1. Running("run") /\ rev \in Int /\ result \in Results
    BY DEF Transaction
<1>2. /\ calls # << >> /\ Top.todo # << >> /\ Top.todo \in Remainders(Steps[Top.req.action])
    BY <1>1, TurnIs
<1>3. Top \in Calls /\ Top.req \in Sent /\ Top.req.action \in AllActions
    BY <1>2, TopIs
<1>4. /\ c.req = Top.req /\ c.exact = Top.exact /\ c.target = Top.target
      /\ c.todo = Tail(Top.todo) /\ c.at = rev /\ c.result = result
      /\ c.pc = IF Tail(Top.todo) = << >> THEN "record" ELSE "run"
    BY <1>3 DEF Calls, NextCall
<1>5. Tail(Top.todo) \in Remainders(Steps[Top.req.action])
    BY <1>2, <1>3, Onwards
<1>6. Tail(Top.todo) \in UNION {Remainders(Steps[r.action]) : r \in Sent}
    BY <1>3, <1>5
<1>7. c \in Calls
    <2> DEFINE T == UNION {Remainders(Steps[r.action]) : r \in Sent}
    <2>1. Tail(Top.todo) \in T
        BY <1>6
    <2>2. Calls = [req : Sent, exact : Exacts, target : Claims \cup {NoClaim} \cup {r.claim : r \in Sent},
                   pc : {"check", "run", "record", "reply"}, todo : T, at : Int, result : Results]
        BY DEF Calls
    <2> HIDE DEF T
    <2> QED
        BY <1>1, <1>3, <2>1, <2>2 DEF NextCall
<1> QED
    BY <1>4, <1>7

\* A decision counts the command's decisions up, and nothing else does.
LEMMA CountUp ==
    ASSUME ServedInv, NEW rev, NEW result, Transaction(rev, result),
           Head(Top.todo) \notin {"retire", "stop"}
    PROVE  LET op == Op(Top.req)
           IN  /\ rev = Top.req.rev + Cardinality(DecisionsOf(log', op))
               /\ \A f \in DecisionsOf(log', op) : f.rev < rev
<1> DEFINE op == Op(Top.req)
           D == DecisionsOf(log, op)
           new == Entry(result)
<1>1. log' = log \cup {new} /\ new.op = op /\ new.rev = prog.rev
    BY LogAfter
<1>2. /\ prog.rev = Top.req.rev + Cardinality(D)
      /\ \A f \in D : f.rev < prog.rev
    BY TurnAtRevision
<1>3. IF Decides(new) THEN rev = prog.rev + 1 ELSE rev = prog.rev
    BY DEF Transaction
<1>4. prog.rev \in Int /\ IsFiniteSet(log) /\ \A f \in log : f.rev \in Int
    BY DEF ServedInv, ServedTypeOK
<1>5. IsFiniteSet(D) /\ Cardinality(D) \in Nat
    BY <1>4, DecisionsFinite
<1>6. Running("run")
    BY DEF Transaction
<1>7. Top.req.rev \in Int
    BY <1>6, TurnIs
<1>8. D \subseteq log
    BY DEF DecisionsOf
<1>9. CASE Decides(new)
    <2>1. DecisionsOf(log', op) = D \cup {new}
        BY <1>1, <1>9 DEF DecisionsOf
    <2> HIDE DEF new, D, op
    <2>2. new \notin D
        BY <1>1, <1>2, <1>4
    <2>3. Cardinality(D \cup {new}) = Cardinality(D) + 1
        BY <1>5, <2>2, FS_AddElement
    <2>4. rev = Top.req.rev + Cardinality(D \cup {new})
        BY <1>2, <1>3, <1>5, <1>7, <1>9, <2>3
    <2>5. \A f \in D \cup {new} : f.rev < rev
        <3>1. \A f \in D : f.rev < prog.rev + 1
            BY <1>2, <1>4, <1>8
        <3> QED
            BY <1>1, <1>3, <1>4, <1>9, <3>1
    <2> QED
        BY <2>1, <2>4, <2>5 DEF op
<1>10. CASE ~Decides(new)
    <2>1. DecisionsOf(log', op) = D
        BY <1>1, <1>10 DEF DecisionsOf
    <2> QED
        BY <1>2, <1>3, <1>10, <2>1
<1> QED
    BY <1>9, <1>10

\* What of the command's next transactions has happened already, an earlier call did at this revision.
LEMMA RestDone ==
    ASSUME ServedInv, NEW rev, NEW result, Transaction(rev, result),
           Tail(Top.todo) # << >>, Head(Top.todo) # "stop",
           NEW e \in log', e.op = Op(Top.req), e.step \in StepsLeft(Tail(Top.todo))
    PROVE  e.rev = rev /\ Side(Top.req) = "worker"
<1> DEFINE op == Op(Top.req)
           s == Head(Top.todo)
           rest == StepsLeft(Tail(Top.todo))
<1>1. Running("run") /\ IF Decides(Entry(result)) THEN rev = prog.rev + 1 ELSE rev = prog.rev
    BY DEF Transaction
<1>2. /\ calls # << >> /\ Top.todo # << >> /\ Top.todo \in Remainders(Steps[Top.req.action])
      /\ AtItsRevision(Top, log) /\ ledger[op].exact.req = Top.req
      /\ s \in {"finish", "judge"} => Top.target \in Claims /\ Top.target = Top.req.claim
    BY <1>1, TurnIs
<1>3. Top.req \in Sent /\ Top.req.action \in AllActions
    BY <1>2, TopIs
<1>4. s \notin rest /\ rest \subseteq StepsLeft(Top.todo)
    BY <1>2, <1>3, Onwards
<1>5. \/ Top.req.action = "claim" /\ s = "claim" /\ rest = {"prepare"}
      \/ Top.req.action = "report" /\ s = "submit" /\ rest = {"finish", "judge"}
      \/ Top.req.action = "report" /\ s = "finish" /\ rest = {"judge"}
      \/ Top.req.action = "start-managed" /\ s = "start"
    BY <1>2, <1>3, Onwards
<1>6. e \in log
    <2>1. log' = log \cup {Entry(result)} /\ Entry(result).step = s
        BY LogAfter
    <2> QED
        BY <1>4, <2>1
<1>7. e.step \in StepsLeft(Top.todo)
    BY <1>4
<1>8. s # "retire"
    BY <1>5
<1>9. e.rev = Top.at /\ Side(Top.req) # "owner"
    BY <1>2, <1>6, <1>7, <1>8 DEF AtItsRevision
<1>10. Top.at = prog.rev
    BY <1>8 DEF Transaction, AtRevision
<1>11. Side(Top.req) = "worker"
    BY <1>9 DEF Side
<1>12. ~Decides(Entry(result))
    <2>1. Entry(result).step = s
        BY LogAfter
    <2>2. s # "claim"
        <3> SUFFICES ASSUME s = "claim"
                     PROVE  FALSE
            OBVIOUS
        <3>1. e.step = "prepare"
            BY <1>5
        <3>2. att[Top.req.key].status # "none"
            BY <1>2, <1>6, <3>1 DEF ServedInv, Transacted
        <3> QED
            BY <3>2 DEF Transaction
    <2>3. s # "finish"
        <3> SUFFICES ASSUME s = "finish"
                     PROVE  FALSE
            OBVIOUS
        <3>1. e.step = "judge"
            BY <1>5
        <3>2. att[Top.req.claim].status \in Ended
            BY <1>2, <1>6, <3>1 DEF ServedInv, Transacted
        <3>3. att[Top.target].status = "running"
            BY DEF Transaction
        <3> QED
            BY <1>2, <3>2, <3>3 DEF Ended
    <2>4. s # "start"
        <3>1. Top.req.action = "start-managed" => Side(Top.req) = "owner"
            BY DEF Side, OwnerActions
        <3> QED
            BY <1>5, <1>9, <3>1
    <2> QED
        BY <1>5, <2>1, <2>2, <2>3, <2>4 DEF Decides
<1> QED
    BY <1>1, <1>9, <1>10, <1>11, <1>12

\* The command after its transaction is again what a call under way is.
LEMMA NextCallOK ==
    ASSUME ServedInv, NEW rev, NEW result, Transaction(rev, result)
    PROVE  FrameOK(NextCall(rev, result), prog', att', ledger', log')
<1> DEFINE c == NextCall(rev, result)
           op == Op(Top.req)
           s == Head(Top.todo)
           all == Steps[Top.req.action]
           next == Tail(Top.todo)
<1>1. Running("run") /\ ledger' = ledger
    BY DEF Transaction
<1>2. /\ calls # << >> /\ Top.todo # << >> /\ Top.todo \in Remainders(all)
      /\ AtItsRevision(Top, log) /\ Top.exact.req = Top.req
      /\ op \in DOMAIN ledger /\ ledger[op].exact = Top.exact
    BY <1>1, TurnIs
<1>3. Top.req \in Sent /\ Top.req.action \in AllActions /\ FrameOK(Top, prog, att, ledger, log)
    BY <1>2, TopIs
<1>4. /\ c.req = Top.req /\ c.exact = Top.exact /\ c.target = Top.target
      /\ c.todo = next /\ c.at = rev /\ c.result = result
      /\ c.pc = IF next = << >> THEN "record" ELSE "run"
    BY NextCallIs
<1>5. Top.req.action = "report" => Top.target \in Claims /\ Top.target = Top.req.claim
    BY <1>3 DEF FrameOK
<1>6. /\ next \in Remainders(all)
      /\ next = << >> => s = all[Len(all)]
      /\ next # << >> =>
            \/ Top.req.action = "claim" /\ s = "claim" /\ Head(next) = "prepare"
            \/ Top.req.action = "report" /\ s = "submit" /\ Head(next) = "finish"
            \/ Top.req.action = "report" /\ s = "finish" /\ Head(next) = "judge"
            \/ Top.req.action = "start-managed" /\ s = "start" /\ Head(next) = "dispatch"
            \/ Top.req.action = "stop" /\ s = "stop" /\ Head(next) = "retire" /\ StepsLeft(next) = {"retire"}
    BY <1>2, <1>3, Onwards, SMTT(30)
<1>7. /\ s = "finish" => att'[Top.target].status \in Ended
      /\ s = "stop" => Over(prog')
      /\ result = "settled" => s = "retire"
    BY DEF Transaction
<1>8. next = << >> => InLog(log', op, all[Len(all)], result)
    <2>1. /\ Entry(result) \in log' /\ Entry(result).op = op /\ Entry(result).step = s
          /\ Entry(result).result = result
        BY LogAfter
    <2> QED
        BY <1>6, <2>1 DEF InLog
<1>9. next # << >> => AtItsRevision(c, log')
    <2> SUFFICES ASSUME next # << >>
                 PROVE  AtItsRevision(c, log')
        OBVIOUS
    <2>1. CASE s = "stop"
        <3>1. Head(next) = "retire" /\ StepsLeft(next) = {"retire"}
            BY <1>6, <2>1
        <3>2. log' = log \cup {Entry(result)} /\ Entry(result).step = s
            BY LogAfter
        <3>3. StepsLeft(next) \subseteq StepsLeft(Top.todo)
            BY <1>2, <1>3, Onwards
        <3>4. Top.req.action = "stop"
            BY <1>6, <2>1
        <3>5. Side(Top.req) = "owner"
            BY <3>4 DEF Side, OwnerActions
        <3>6. \A e \in log' : e.op = op => e.step \notin StepsLeft(next)
            BY <1>2, <2>1, <3>1, <3>2, <3>3, <3>5 DEF AtItsRevision
        <3> HIDE DEF c, next, op
        <3> QED
            BY <1>4, <3>1, <3>6 DEF AtItsRevision, op
    <2>2. CASE s # "stop"
        <3>1. s \notin {"retire", "stop"}
            BY <1>6, <2>2
        <3>2. /\ rev = Top.req.rev + Cardinality(DecisionsOf(log', op))
              /\ \A f \in DecisionsOf(log', op) : f.rev < rev
            BY <3>1, CountUp
        <3>3. \A e \in log' : e.op = op /\ e.step \in StepsLeft(next) => e.rev = rev /\ Side(Top.req) = "worker"
            BY <2>2, RestDone
        <3> HIDE DEF c, next, op
        <3>4. "worker" # "owner"
            OBVIOUS
        <3> QED
            BY <1>4, <3>2, <3>3, <3>4 DEF AtItsRevision, op
    <2> QED
        BY <2>1, <2>2
<1> HIDE DEF c, next, op, s, all
<1>10. /\ next # << >> => result # "settled"
       /\ next # << >> /\ Head(next) = "judge" => att'[Top.target].status \in Ended
       /\ next # << >> /\ Head(next) = "retire" => Over(prog')
    BY <1>6, <1>7
<1>11. c.pc \in {"record", "run"} /\ (c.pc = "run" <=> next # << >>)
    BY <1>4
<1>12. Op(c.req) = op /\ Steps[c.req.action] = all
    BY <1>4 DEF op, all
<1>13. c.exact.req = c.req /\ c.exact = Top.exact
    BY <1>2, <1>4
<1> QED
    BY <1>1, <1>2, <1>4, <1>5, <1>6, <1>8, <1>9, <1>10, <1>11, <1>12, <1>13 DEF FrameOK, c

\* The other calls are of other commands, or have not looked at the journal.
LEMMA OtherCallsOK ==
    ASSUME ServedInv, NEW rev, NEW result, Transaction(rev, result),
           NEW i \in DOMAIN calls, i # Len(calls)
    PROVE  FrameOK(calls[i], prog', att', ledger', log')
<1>1. Running("run") /\ ledger' = ledger /\ Ahead
    BY DEF Transaction
<1>2. calls # << >>
    BY <1>1 DEF Running
<1>3. calls \in Seq(Calls) /\ DOMAIN calls = 1..Len(calls) /\ Len(calls) \in Nat \ {0} /\ Len(calls) \in DOMAIN calls
    BY <1>2, TopIs
<1>4. calls[i] \in Calls
    BY <1>3
<1>5. calls[i].req \in Sent
    BY <1>4 DEF Calls
<1>6. prog.mode \in Modes
    BY DEF ServedInv, ServedTypeOK
<1>7. calls[i].req.action \in AllActions
    BY <1>5, <1>6, SentAre
<1>8. log' = log \cup {Entry(result)} /\ log \subseteq log' /\ Entry(result).op = Op(Top.req)
    BY LogAfter
<1>9. Kept
    BY <1>1 DEF Kept
<1>10. ASSUME calls[i].pc = "run"
       PROVE  Untouched(Op(calls[i].req))
    <2>1. i < Len(calls)
        BY <1>3
    <2>2. Op(calls[i].req) # Op(Top.req)
        BY <1>3, <1>10, <2>1 DEF ServedInv, CallsNest, Top
    <2> QED
        BY <1>8, <2>2 DEF Untouched
<1>11. FrameOK(calls[i], prog, att, ledger, log)
    BY DEF ServedInv, FramesOK
<1> QED
    BY <1>1, <1>4, <1>7, <1>8, <1>9, <1>10, <1>11, CallStays

\* All calls are again what they have to be.
LEMMA TransactionCalls ==
    ASSUME ServedInv, NEW rev, NEW result, Transaction(rev, result)
    PROVE  calls' \in Seq(Calls') /\ FramesOK' /\ CallsNest'
<1> DEFINE n == Len(calls)
           c == NextCall(rev, result)
<1>1. Running("run") /\ Advance(rev, result) /\ Ahead
    BY DEF Transaction
<1>2. calls # << >>
    BY <1>1 DEF Running
<1>3. calls \in Seq(Calls) /\ DOMAIN calls = 1..n /\ n \in Nat \ {0} /\ n \in DOMAIN calls /\ Top \in Calls
    BY <1>2, TopIs
<1>4. calls' = [calls EXCEPT ![n] = c]
    BY <1>1 DEF Advance, NextCall
<1>5. /\ c \in Calls /\ c.req = Top.req /\ c.pc \in {"record", "run"}
    BY NextCallIs
<1>6. Calls' = Calls
    BY <1>1, SameSent DEF Ahead
<1> HIDE DEF c
<1>7. calls' \in Seq(Calls) /\ DOMAIN calls' = DOMAIN calls /\ calls'[n] = c
      /\ \A i \in DOMAIN calls : i # n => calls'[i] = calls[i]
    BY <1>3, <1>4, <1>5
<1>8. FrameOK(c, prog', att', ledger', log')
    BY NextCallOK DEF c
<1>9. \A i \in DOMAIN calls : i # n => FrameOK(calls[i], prog', att', ledger', log')
    BY OtherCallsOK
<1>10. FramesOK'
    <2>1. \A i \in DOMAIN calls : FrameOK(calls'[i], prog', att', ledger', log')
        BY <1>7, <1>8, <1>9
    <2> QED
        BY <1>7, <2>1 DEF FramesOK
<1>11. CallsNest'
    <2> SUFFICES ASSUME NEW i \in DOMAIN calls, NEW j \in DOMAIN calls, i < j, calls'[i].pc # "check"
                 PROVE  Op(calls'[i].req) # Op(calls'[j].req)
        BY <1>7 DEF CallsNest
    <2>1. i # n
        BY <1>3
    <2>2. calls'[i] = calls[i]
        BY <1>7, <2>1
    <2>3. calls'[j].req = calls[j].req
        BY <1>5, <1>7 DEF Top
    <2> QED
        BY <2>2, <2>3 DEF ServedInv, CallsNest
<1> QED
    BY <1>6, <1>7, <1>10, <1>11

-----------------------------------------------------------------------------
(* Every step of a command is such a transaction. *)

\* What the Program's head and the host's memory may be.
Programs ==
    [rev : Int, spec : Nat, status : {"absent", "draft", "active", "completed", "cancelled"}, mode : Modes, other : Nat]
Hosts ==
    [up : BOOLEAN, worker : Sessions, owner : Sessions, handoffs : SUBSET Claims,
     seen : SUBSET Decisions, sent : [Decisions -> Nat], dropped : BOOLEAN]

\* The types of the store and of the host's memory.
StoreTyped ==
    /\ prog \in Programs /\ att \in [Claims -> Attempts] /\ runtime \in {"none", "live", "gone"}
    /\ ledger \in [DOMAIN ledger -> [exact : Exacts, receipt : Results \cup {"none"}]] /\ host \in Hosts

\* The types of the store.
LEMMA StoreIsTyped ==
    ASSUME ServedInv
    PROVE  StoreTyped
BY DEF ServedInv, ServedTypeOK, StoreTyped, Programs, Hosts

\* A journal that stays has its type.
LEMMA LedgerTyped ==
    ASSUME ServedInv, ledger' = ledger, prog'.mode = prog.mode
    PROVE  ledger' \in [DOMAIN ledger' -> [exact : Exacts', receipt : Results \cup {"none"}]]
<1>1. Exacts' = Exacts
    BY SameSent
<1> QED
    BY <1>1 DEF ServedInv, ServedTypeOK

\* The Program after a decision.
LEMMA DecideIs ==
    ASSUME prog \in Programs, NEW status, Decide(status),
           status \in {"absent", "draft", "active", "completed", "cancelled"}
    PROVE  /\ prog' \in Programs /\ ledger' = ledger /\ prog'.rev = prog.rev + 1 /\ prog'.status = status
           /\ prog'.mode = prog.mode /\ prog'.spec = prog.spec
<1>1. prog' = [prog EXCEPT !.rev = @ + 1, !.status = status] /\ ledger' = ledger
    BY DEF Decide
<1>2. /\ prog'.rev = prog.rev + 1 /\ prog'.status = status
      /\ prog'.mode = prog.mode /\ prog'.spec = prog.spec
    BY <1>1 DEF Programs
<1>3. prog.rev + 1 \in Int
    BY DEF Programs
<1>4. prog' \in Programs
    BY <1>1, <1>3 DEF Programs
<1> QED
    BY <1>1, <1>2, <1>4

\* No Attempt disappears, and one that ended stays ended.
AttemptsAhead ==
    \A k \in Claims : /\ att[k].status # "none" => att'[k].status # "none"
                      /\ att[k].status \in Ended => att'[k].status \in Ended

\* One Attempt goes on.
LEMMA AttemptMoves ==
    ASSUME att \in [Claims -> Attempts], NEW k, NEW status, status # "none",
           status \in Live \cup {"none", "withdrawn", "finished", "rejected", "accepted"},
           att' = [att EXCEPT ![k].status = status],
           k \in Claims => (att[k].status \in Ended => status \in Ended)
    PROVE  att' \in [Claims -> Attempts] /\ AttemptsAhead /\ (k \in Claims => att'[k].status = status)
<1>1. ASSUME NEW j \in Claims
      PROVE  att'[j] = IF j = k THEN [att[j] EXCEPT !.status = status] ELSE att[j]
    OBVIOUS
<1>2. ASSUME NEW j \in Claims
      PROVE  /\ [att[j] EXCEPT !.status = status] \in Attempts
             /\ [att[j] EXCEPT !.status = status].status = status
    BY DEF Attempts
<1>3. att' \in [Claims -> Attempts]
    <2>1. \A j \in Claims : att'[j] \in Attempts
        BY <1>1, <1>2
    <2>2. DOMAIN att' = Claims
        OBVIOUS
    <2>3. att' = [j \in Claims |-> att'[j]]
        BY <2>2
    <2> QED
        BY <2>1, <2>3
<1>4. \A j \in Claims : att'[j].status = IF j = k THEN status ELSE att[j].status
    BY <1>1, <1>2
<1> QED
    BY <1>3, <1>4 DEF AttemptsAhead

\* All live Attempts are withdrawn.
LEMMA AttemptsWithdrawn ==
    ASSUME att \in [Claims -> Attempts], att' = [k \in Claims |-> Withdrawn(att[k])]
    PROVE  att' \in [Claims -> Attempts] /\ AttemptsAhead
<1>1. ASSUME NEW k \in Claims
      PROVE  /\ Withdrawn(att[k]) \in Attempts
             /\ Withdrawn(att[k]).status = IF att[k].status \in Live THEN "withdrawn" ELSE att[k].status
    BY DEF Withdrawn, Attempts
<1>2. \A k \in Claims : att'[k] = Withdrawn(att[k])
    OBVIOUS
<1>3. AttemptsAhead
    BY <1>1, <1>2 DEF AttemptsAhead, Live, Ended
<1> QED
    BY <1>1, <1>3

\* The Attempts stay.
LEMMA AttemptsSame ==
    ASSUME att \in [Claims -> Attempts], att' = att
    PROVE  att' \in [Claims -> Attempts] /\ AttemptsAhead
BY DEF AttemptsAhead

\* A transaction that admits a decision.
LEMMA DecisionAhead ==
    ASSUME prog \in Programs, prog' \in Programs, prog'.mode = prog.mode, prog'.rev = prog.rev + 1,
           Over(prog) => Over(prog'), AttemptsAhead, runtime' = runtime
    PROVE  Ahead
BY DEF Ahead, AttemptsAhead, Programs

\* A transaction that leaves the Program's head alone.
LEMMA RecordAhead ==
    ASSUME prog \in Programs, prog' = prog, AttemptsAhead, (runtime = "gone" /\ Over(prog)) => runtime' = "gone"
    PROVE  Ahead
BY DEF Ahead, AttemptsAhead, Programs

\* Which transactions admit a decision.
LEMMA DecidesIs ==
    ASSUME NEW result
    PROVE  /\ Decides(Entry(result)) <=>
                \/ Head(Top.todo) \in {"claim", "start", "finish", "stop", "approve"}
                \/ Head(Top.todo) = "judge" /\ result = "accepted"
           /\ {"accepted", "rejected", "review_unknown", "unknown-settlement", "settled", "approved"} \subseteq Results
BY DEF Decides, Entry, Results

\* A step of a command.
Committed == StoreTyped' /\ \E rev, result : Transaction(rev, result)

\* claim(): a new Attempt.
LEMMA ClaimCommits ==
    ASSUME ServedInv, StepClaim
    PROVE  Committed
<1>1. StoreTyped
    BY StoreIsTyped
<1>2. prog \in Programs /\ att \in [Claims -> Attempts]
    BY <1>1 DEF StoreTyped
<1>3. /\ Running("run") /\ Head(Top.todo) = "claim" /\ AtRevision /\ Claimable(Top.req)
      /\ Decide(prog.status) /\ Advance(prog.rev + 1, "accepted") /\ runtime' = runtime /\ host' = host
    BY DEF StepClaim, Turn
<1>4. /\ prog' \in Programs /\ ledger' = ledger /\ prog'.rev = prog.rev + 1 /\ prog'.status = prog.status
      /\ prog'.mode = prog.mode /\ prog'.spec = prog.spec
    <2>1. prog.status \in {"absent", "draft", "active", "completed", "cancelled"}
        BY <1>2 DEF Programs
    <2> QED
        BY <1>2, <1>3, <2>1, DecideIs
<1>5. att[Top.req.key].status = "none" /\ Top.req.of \in Claims \cup {NoClaim}
    BY <1>3 DEF Claimable
<1>6. att' \in [Claims -> Attempts] /\ AttemptsAhead
    <2> DEFINE new == [status |-> "claimed", spec |-> prog.spec, of |-> Top.req.of, review |-> "none"]
    <2>1. new \in Attempts /\ new.status = "claimed"
        BY <1>2, <1>5 DEF Attempts, Live, Programs
    <2>2. att' = [att EXCEPT ![Top.req.key] = new]
        BY DEF StepClaim
    <2> HIDE DEF new
    <2>3. att' \in [Claims -> Attempts]
        BY <1>2, <2>1, <2>2
    <2>4. \A k \in Claims : att'[k] = IF k = Top.req.key THEN new ELSE att[k]
        BY <1>2, <2>2
    <2> QED
        BY <1>5, <2>1, <2>3, <2>4 DEF AttemptsAhead, Ended
<1>7. Ahead
    <2>1. Over(prog) => Over(prog')
        BY <1>4 DEF Over
    <2> QED
        BY <1>2, <1>3, <1>4, <1>6, <2>1, DecisionAhead
<1>8. StoreTyped'
    <2>1. ledger' \in [DOMAIN ledger' -> [exact : Exacts', receipt : Results \cup {"none"}]]
        BY <1>4, LedgerTyped
    <2>2. runtime' \in {"none", "live", "gone"} /\ host' \in Hosts
        BY <1>1, <1>3 DEF StoreTyped
    <2> QED
        BY <1>4, <1>6, <2>1, <2>2 DEF StoreTyped
<1>9. Transaction(prog.rev + 1, "accepted")
    <2>1. Decides(Entry("accepted")) /\ "accepted" \in Results
        BY <1>3, DecidesIs
    <2>2. prog.rev + 1 \in Int
        BY <1>2 DEF Programs
    <2> QED
        BY <1>3, <1>4, <1>5, <1>7, <2>1, <2>2 DEF Transaction
<1> QED
    BY <1>8, <1>9 DEF Committed

\* The store after a transaction that admits a decision.
LEMMA DecisionStore ==
    ASSUME ServedInv, prog' \in Programs, prog'.mode = prog.mode, prog'.rev = prog.rev + 1, Over(prog) => Over(prog'),
           att' \in [Claims -> Attempts], AttemptsAhead, runtime' = runtime, ledger' = ledger, host' \in Hosts
    PROVE  StoreTyped' /\ Ahead
<1>1. StoreTyped
    BY StoreIsTyped
<1>2. prog \in Programs /\ runtime' \in {"none", "live", "gone"}
    BY <1>1 DEF StoreTyped
<1>3. Ahead
    BY <1>2, DecisionAhead
<1>4. ledger' \in [DOMAIN ledger' -> [exact : Exacts', receipt : Results \cup {"none"}]]
    BY LedgerTyped
<1> QED
    BY <1>2, <1>3, <1>4 DEF StoreTyped

\* The same, of a transaction that does not.
LEMMA RecordStore ==
    ASSUME ServedInv, prog' = prog, att' \in [Claims -> Attempts], AttemptsAhead, runtime' \in {"none", "live", "gone"},
           (runtime = "gone" /\ Over(prog)) => runtime' = "gone", ledger' = ledger, host' = host \/ host' \in Hosts
    PROVE  StoreTyped' /\ Ahead
<1>1. StoreTyped
    BY StoreIsTyped
<1>2. prog \in Programs /\ host' \in Hosts
    BY <1>1 DEF StoreTyped
<1>3. Ahead
    BY <1>2, RecordAhead
<1>4. ledger' \in [DOMAIN ledger' -> [exact : Exacts', receipt : Results \cup {"none"}]]
    BY LedgerTyped
<1> QED
    BY <1>2, <1>3, <1>4 DEF StoreTyped

\* The types of the store, field by field.
LEMMA StoreParts ==
    ASSUME ServedInv
    PROVE  /\ prog \in Programs /\ att \in [Claims -> Attempts] /\ runtime \in {"none", "live", "gone"} /\ host \in Hosts
           /\ prog.rev \in Int /\ prog.rev + 1 \in Int /\ prog.spec \in Nat
           /\ prog.status \in {"absent", "draft", "active", "completed", "cancelled"}
<1>1. prog \in Programs /\ att \in [Claims -> Attempts] /\ runtime \in {"none", "live", "gone"} /\ host \in Hosts
    BY StoreIsTyped DEF StoreTyped
<1>2. /\ prog.rev \in Int /\ prog.spec \in Nat
      /\ prog.status \in {"absent", "draft", "active", "completed", "cancelled"}
    BY <1>1 DEF Programs
<1> QED
    BY <1>1, <1>2

\* claim(): the workspace is ready.
LEMMA PrepareCommits ==
    ASSUME ServedInv, StepPrepare
    PROVE  Committed
<1>1. /\ Running("run") /\ Head(Top.todo) = "prepare" /\ AtRevision
      /\ Advance(prog.rev, "accepted") /\ runtime' = runtime /\ host' = host /\ ledger' = ledger /\ prog' = prog
      /\ att[Top.req.key].status = "claimed" /\ att' = [att EXCEPT ![Top.req.key].status = "ready"]
    BY DEF StepPrepare, Turn
<1>2. /\ att \in [Claims -> Attempts] /\ runtime \in {"none", "live", "gone"} /\ prog.rev \in Int
    BY StoreParts
<1>3. Top.req.key \in Claims
    BY <1>1, TurnIs
<1>4. att' \in [Claims -> Attempts] /\ AttemptsAhead /\ att'[Top.req.key].status = "ready"
    <2>1. "ready" # "none" /\ "ready" \in Live \cup {"none", "withdrawn", "finished", "rejected", "accepted"}
        BY DEF Live
    <2>2. att[Top.req.key].status \notin Ended
        BY <1>1 DEF Ended
    <2> QED
        BY <1>1, <1>2, <1>3, <2>1, <2>2, AttemptMoves
<1>5. StoreTyped' /\ Ahead
    BY <1>1, <1>2, <1>4, RecordStore
<1>6. ~Decides(Entry("accepted")) /\ "accepted" \in Results
    BY <1>1, DecidesIs
<1>7. Transaction(prog.rev, "accepted")
    BY <1>1, <1>2, <1>4, <1>5, <1>6 DEF Transaction
<1> QED
    BY <1>5, <1>7 DEF Committed

\* start(): the Attempt runs.
LEMMA StartCommits ==
    ASSUME ServedInv, StepStart
    PROVE  Committed
<1>1. /\ Running("run") /\ Head(Top.todo) = "start" /\ AtRevision /\ Decide(prog.status)
      /\ Advance(prog.rev + 1, "accepted") /\ runtime' = runtime /\ host' = host
      /\ att[Top.target].status = "ready" /\ att' = [att EXCEPT ![Top.target].status = "running"]
    BY DEF StepStart, Turn
<1>2. /\ att \in [Claims -> Attempts] /\ prog \in Programs /\ prog.rev + 1 \in Int /\ host' \in Hosts
      /\ prog.status \in {"absent", "draft", "active", "completed", "cancelled"}
    BY <1>1, StoreParts
<1>3. /\ prog' \in Programs /\ ledger' = ledger /\ prog'.rev = prog.rev + 1 /\ prog'.status = prog.status
      /\ prog'.mode = prog.mode
    BY <1>1, <1>2, DecideIs
<1>4. att' \in [Claims -> Attempts] /\ AttemptsAhead
    <2>1. "running" # "none" /\ "running" \in Live \cup {"none", "withdrawn", "finished", "rejected", "accepted"}
        BY DEF Live
    <2>2. att[Top.target].status \notin Ended
        BY <1>1 DEF Ended
    <2> QED
        BY <1>1, <1>2, <2>1, <2>2, AttemptMoves
<1>5. Over(prog) => Over(prog')
    BY <1>3 DEF Over
<1>6. StoreTyped' /\ Ahead
    BY <1>1, <1>2, <1>3, <1>4, <1>5, DecisionStore
<1>7. Decides(Entry("accepted")) /\ "accepted" \in Results
    BY <1>1, DecidesIs
<1>8. Transaction(prog.rev + 1, "accepted")
    BY <1>1, <1>2, <1>3, <1>6, <1>7 DEF Transaction
<1> QED
    BY <1>6, <1>8 DEF Committed

\* The managed process starts.
LEMMA DispatchCommits ==
    ASSUME ServedInv, StepDispatch, ~CloseHangs
    PROVE  Committed
<1>1. /\ Running("run") /\ Head(Top.todo) = "dispatch" /\ AtRevision /\ Approved
      /\ Advance(prog.rev, "accepted") /\ runtime' = "live" /\ host' = host /\ ledger' = ledger
      /\ prog' = prog /\ att' = att
    BY DEF StepDispatch, Turn
<1>2. att \in [Claims -> Attempts] /\ prog.rev \in Int
    BY StoreParts
<1>3. att' \in [Claims -> Attempts] /\ AttemptsAhead
    BY <1>1, <1>2, AttemptsSame
<1>4. ~Over(prog)
    BY <1>1 DEF Approved, Over
<1>5. StoreTyped' /\ Ahead
    BY <1>1, <1>3, <1>4, RecordStore
<1>6. ~Decides(Entry("accepted")) /\ "accepted" \in Results
    BY <1>1, DecidesIs
<1>7. Transaction(prog.rev, "accepted")
    BY <1>1, <1>2, <1>5, <1>6 DEF Transaction
<1> QED
    BY <1>5, <1>7 DEF Committed

\* Records of a claim that admit no decision.
LEMMA RecordCommits ==
    ASSUME ServedInv, StepRecord \/ StepReconcile
    PROVE  Committed
<1>1. /\ Running("run") /\ Head(Top.todo) \in {"quiesce", "renew", "submit", "reconcile"} /\ AtRevision
      /\ Advance(prog.rev, Top.result) /\ runtime' = runtime /\ host' = host /\ ledger' = ledger
      /\ prog' = prog /\ att' = att
    BY DEF StepRecord, StepReconcile, Turn, store
<1>2. att \in [Claims -> Attempts] /\ prog.rev \in Int /\ runtime \in {"none", "live", "gone"}
    BY StoreParts
<1>3. att' \in [Claims -> Attempts] /\ AttemptsAhead
    BY <1>1, <1>2, AttemptsSame
<1>4. StoreTyped' /\ Ahead
    BY <1>1, <1>2, <1>3, RecordStore
<1>5. ~Decides(Entry(Top.result))
    BY <1>1, DecidesIs
<1>6. Top.result # "settled" /\ calls # << >>
    BY <1>1, TurnIs
<1>7. Top.result \in Results
    <2>1. Top \in Calls
        BY <1>6, TopIs
    <2> QED
        BY <2>1 DEF Calls
<1>8. Transaction(prog.rev, Top.result)
    BY <1>1, <1>2, <1>4, <1>5, <1>6, <1>7 DEF Transaction
<1> QED
    BY <1>4, <1>8 DEF Committed

\* report() ends its running Attempt.
LEMMA FinishCommits ==
    ASSUME ServedInv, StepFinish, att[Top.target].status = "running"
    PROVE  Committed
<1>1. /\ Running("run") /\ Head(Top.todo) = "finish" /\ AtRevision /\ Decide(prog.status)
      /\ Advance(prog.rev + 1, "accepted") /\ runtime' = runtime /\ host' = host
      /\ att' = [att EXCEPT ![Top.target].status = "finished"]
    BY DEF StepFinish, Turn
<1>2. /\ att \in [Claims -> Attempts] /\ prog \in Programs /\ prog.rev + 1 \in Int /\ host' \in Hosts
      /\ prog.status \in {"absent", "draft", "active", "completed", "cancelled"}
    BY <1>1, StoreParts
<1>3. /\ prog' \in Programs /\ ledger' = ledger /\ prog'.rev = prog.rev + 1 /\ prog'.status = prog.status
      /\ prog'.mode = prog.mode
    BY <1>1, <1>2, DecideIs
<1>4. Top.target \in Claims
    BY <1>1, TurnIs
<1>5. att' \in [Claims -> Attempts] /\ AttemptsAhead /\ att'[Top.target].status = "finished"
    <2>1. "finished" # "none" /\ "finished" \in Live \cup {"none", "withdrawn", "finished", "rejected", "accepted"}
        BY DEF Live
    <2>2. "finished" \in Ended
        BY DEF Ended
    <2> QED
        BY <1>1, <1>2, <1>4, <2>1, <2>2, AttemptMoves
<1>6. Over(prog) => Over(prog')
    BY <1>3 DEF Over
<1>7. StoreTyped' /\ Ahead
    BY <1>1, <1>2, <1>3, <1>5, <1>6, DecisionStore
<1>8. Decides(Entry("accepted")) /\ "accepted" \in Results /\ "finished" \in Ended
    BY <1>1, DecidesIs DEF Ended
<1>9. Transaction(prog.rev + 1, "accepted")
    BY <1>1, <1>2, <1>3, <1>5, <1>7, <1>8 DEF Transaction
<1> QED
    BY <1>7, <1>9 DEF Committed

\* A report judges its Attempt.
LEMMA JudgedMoves ==
    ASSUME att \in [Claims -> Attempts], NEW k \in Claims, NEW status \in {"accepted", "rejected"},
           att' = [att EXCEPT ![k] = Judged(@, status)]
    PROVE  att' \in [Claims -> Attempts] /\ AttemptsAhead /\ att'[k].status = status
<1> DEFINE new == Judged(att[k], status)
<1>1. new \in Attempts /\ new.status = status
    <2>1. att[k] \in Attempts
        OBVIOUS
    <2> QED
        BY <2>1 DEF Judged, Attempts
<1>2. att' = [att EXCEPT ![k] = new]
    OBVIOUS
<1> HIDE DEF new
<1>3. att' \in [Claims -> Attempts] /\ \A j \in Claims : att'[j] = IF j = k THEN new ELSE att[j]
    BY <1>1, <1>2
<1>4. AttemptsAhead
    BY <1>1, <1>3 DEF AttemptsAhead, Ended
<1> QED
    BY <1>1, <1>3, <1>4

\* report(): the judgement, or a review of unknown fate.
LEMMA JudgeCommits ==
    ASSUME ServedInv, StepJudge
    PROVE  Committed
<1>1. /\ Running("run") /\ Head(Top.todo) = "judge" /\ AtRevision /\ runtime' = runtime /\ host' = host
    BY DEF StepJudge, Turn
<1>2. /\ att \in [Claims -> Attempts] /\ prog \in Programs /\ prog.rev \in Int /\ prog.rev + 1 \in Int /\ host' \in Hosts
      /\ runtime \in {"none", "live", "gone"}
    BY <1>1, StoreParts
<1>3. Top.target \in Claims /\ att[Top.target].status \in Ended
    BY <1>1, TurnIs
<1>4. CASE /\ Decide("completed") /\ att' = [att EXCEPT ![Top.target] = Judged(@, "accepted")]
           /\ Advance(prog.rev + 1, "accepted")
    <2>1. /\ prog' \in Programs /\ ledger' = ledger /\ prog'.rev = prog.rev + 1 /\ prog'.status = "completed"
          /\ prog'.mode = prog.mode
        BY <1>2, <1>4, DecideIs
    <2>2. att' \in [Claims -> Attempts] /\ AttemptsAhead /\ att'[Top.target].status = "accepted"
        BY <1>2, <1>3, <1>4, JudgedMoves
    <2>3. Over(prog) => Over(prog')
        BY <2>1 DEF Over
    <2>4. StoreTyped' /\ Ahead
        BY <1>1, <1>2, <2>1, <2>2, <2>3, DecisionStore
    <2>5. Decides(Entry("accepted")) /\ "accepted" \in Results /\ "accepted" \in Ended
        BY <1>1, DecidesIs DEF Ended
    <2>6. Transaction(prog.rev + 1, "accepted")
        BY <1>1, <1>2, <1>4, <2>1, <2>2, <2>4, <2>5 DEF Transaction
    <2> QED
        BY <2>4, <2>6 DEF Committed
<1>5. CASE /\ att' = [att EXCEPT ![Top.target] = Judged(@, "rejected")]
           /\ Advance(prog.rev, "rejected") /\ UNCHANGED <<prog, ledger>>
    <2>1. att' \in [Claims -> Attempts] /\ AttemptsAhead /\ att'[Top.target].status = "rejected"
        BY <1>2, <1>3, <1>5, JudgedMoves
    <2>2. prog' = prog /\ ledger' = ledger
        BY <1>5
    <2>3. StoreTyped' /\ Ahead
        BY <1>1, <1>2, <2>1, <2>2, RecordStore
    <2>4. ~Decides(Entry("rejected")) /\ "rejected" \in Results /\ "rejected" \in Ended
        BY <1>1, DecidesIs DEF Ended
    <2>5. Transaction(prog.rev, "rejected")
        BY <1>1, <1>2, <1>5, <2>1, <2>2, <2>3, <2>4 DEF Transaction
    <2> QED
        BY <2>3, <2>5 DEF Committed
<1>6. CASE Advance(prog.rev, "review_unknown") /\ UNCHANGED <<prog, att, ledger>>
    <2>1. prog' = prog /\ ledger' = ledger /\ att' = att
        BY <1>6
    <2>2. att' \in [Claims -> Attempts] /\ AttemptsAhead
        BY <1>2, <2>1, AttemptsSame
    <2>3. StoreTyped' /\ Ahead
        BY <1>1, <1>2, <2>1, <2>2, RecordStore
    <2>4. ~Decides(Entry("review_unknown")) /\ "review_unknown" \in Results
        BY <1>1, DecidesIs
    <2>5. Transaction(prog.rev, "review_unknown")
        BY <1>1, <1>2, <1>3, <1>6, <2>1, <2>3, <2>4 DEF Transaction
    <2> QED
        BY <2>3, <2>5 DEF Committed
<1> QED
    BY <1>4, <1>5, <1>6 DEF StepJudge

\* STOP cancels.
LEMMA StopCommits ==
    ASSUME ServedInv, StepStop
    PROVE  Committed
<1>1. /\ Running("run") /\ Head(Top.todo) = "stop" /\ AtRevision /\ runtime' = runtime /\ host' = host
    BY DEF StepStop, Turn
<1>2. /\ att \in [Claims -> Attempts] /\ prog \in Programs /\ prog.rev \in Int /\ prog.rev + 1 \in Int /\ host' \in Hosts
      /\ runtime \in {"none", "live", "gone"}
    BY <1>1, StoreParts
<1>3. "unknown-settlement" \in Results
    BY DEF Results
<1>4. CASE /\ prog.status \in {"draft", "active"} /\ Decide("cancelled")
           /\ att' = [k \in Claims |-> Withdrawn(att[k])]
           /\ Advance(prog.rev + 1, "unknown-settlement")
    <2>1. /\ prog' \in Programs /\ ledger' = ledger /\ prog'.rev = prog.rev + 1 /\ prog'.status = "cancelled"
          /\ prog'.mode = prog.mode
        BY <1>2, <1>4, DecideIs
    <2>2. att' \in [Claims -> Attempts] /\ AttemptsAhead
        BY <1>2, <1>4, AttemptsWithdrawn
    <2>3. Over(prog')
        BY <2>1 DEF Over
    <2>4. StoreTyped' /\ Ahead
        BY <1>1, <1>2, <2>1, <2>2, <2>3, DecisionStore
    <2>5. Transaction(prog.rev + 1, "unknown-settlement")
        BY <1>1, <1>2, <1>3, <1>4, <2>1, <2>3, <2>4 DEF Transaction
    <2> QED
        BY <2>4, <2>5 DEF Committed
<1>5. CASE /\ prog.status \in {"cancelled", "completed"}
           /\ Advance(prog.rev, "unknown-settlement") /\ UNCHANGED <<prog, att, ledger>>
    <2>1. prog' = prog /\ att' = att /\ ledger' = ledger
        BY <1>5
    <2>2. att' \in [Claims -> Attempts] /\ AttemptsAhead
        BY <1>2, <2>1, AttemptsSame
    <2>3. Over(prog')
        BY <1>5, <2>1 DEF Over
    <2>4. StoreTyped' /\ Ahead
        BY <1>1, <1>2, <2>1, <2>2, RecordStore
    <2>5. Transaction(prog.rev, "unknown-settlement")
        BY <1>1, <1>2, <1>3, <1>5, <2>1, <2>3, <2>4 DEF Transaction
    <2> QED
        BY <2>4, <2>5 DEF Committed
<1> QED
    BY <1>4, <1>5 DEF StepStop

\* STOP retires the managed process, or cannot tell.
LEMMA RetireCommits ==
    ASSUME ServedInv, StepRetire, ~CloseHangs
    PROVE  Committed
<1>1. /\ Running("run") /\ Head(Top.todo) = "retire" /\ prog' = prog /\ att' = att /\ ledger' = ledger /\ host' = host
      /\ \/ /\ host.owner.run \in {"held", "lost"} /\ runtime' = IF host.owner.run = "held" THEN "gone" ELSE runtime
            /\ Advance(prog.rev, "settled")
         \/ runtime' = runtime /\ Advance(prog.rev, "unknown-settlement")
    BY DEF StepRetire, Turn
<1>2. /\ att \in [Claims -> Attempts] /\ prog.rev \in Int /\ runtime \in {"none", "live", "gone"}
    BY StoreParts
<1>3. att' \in [Claims -> Attempts] /\ AttemptsAhead
    BY <1>1, <1>2, AttemptsSame
<1>4. runtime' \in {"none", "live", "gone"} /\ (runtime = "gone" => runtime' = "gone")
    BY <1>1, <1>2
<1>5. StoreTyped' /\ Ahead
    BY <1>1, <1>3, <1>4, RecordStore
<1>6. /\ ~Decides(Entry("settled")) /\ ~Decides(Entry("unknown-settlement"))
      /\ "settled" \in Results /\ "unknown-settlement" \in Results
    BY <1>1, DecidesIs
<1>7. CASE /\ host.owner.run \in {"held", "lost"} /\ runtime' = IF host.owner.run = "held" THEN "gone" ELSE runtime
           /\ Advance(prog.rev, "settled")
    <2>1. ~KillMayHang => runtime' = "gone"
        BY <1>7 DEF ServedInv, NoneLost
    <2>2. Transaction(prog.rev, "settled")
        BY <1>1, <1>2, <1>5, <1>6, <1>7, <2>1 DEF Transaction
    <2> QED
        BY <1>5, <2>2 DEF Committed
<1>8. CASE runtime' = runtime /\ Advance(prog.rev, "unknown-settlement")
    <2>1. Transaction(prog.rev, "unknown-settlement")
        BY <1>1, <1>2, <1>5, <1>6, <1>8 DEF Transaction
    <2> QED
        BY <1>5, <2>1 DEF Committed
<1> QED
    BY <1>1, <1>7, <1>8

\* An approval.
LEMMA ApproveCommits ==
    ASSUME ServedInv, StepApprove
    PROVE  Committed
<1>1. /\ Running("run") /\ Head(Top.todo) = "approve" /\ AtRevision /\ prog.status \in {"absent", "draft", "active"}
      /\ Advance(prog.rev + 1, "approved") /\ runtime' = runtime /\ ledger' = ledger
      /\ att' = [k \in Claims |-> Withdrawn(att[k])]
      /\ prog' = [prog EXCEPT !.rev = @ + 1, !.spec = @ + 1, !.status = IF @ = "absent" THEN "draft" ELSE @]
      /\ host' = [host EXCEPT !.owner.spec = prog.spec + 1]
    BY DEF StepApprove, Turn
<1>2. /\ att \in [Claims -> Attempts] /\ prog \in Programs /\ prog.rev + 1 \in Int /\ host \in Hosts
      /\ prog.spec \in Nat
    BY StoreParts
<1>3. prog.spec + 1 \in Nat
    BY <1>2
<1>4. /\ prog'.rev = prog.rev + 1 /\ prog'.mode = prog.mode
    BY <1>1, <1>2 DEF Programs
<1>5. prog' \in Programs
    BY <1>1, <1>2, <1>3 DEF Programs
<1>6. host' \in Hosts
    BY <1>1, <1>2, <1>3 DEF Hosts, Sessions
<1>7. att' \in [Claims -> Attempts] /\ AttemptsAhead
    BY <1>1, <1>2, AttemptsWithdrawn
<1>8. ~Over(prog)
    BY <1>1 DEF Over
<1>9. StoreTyped' /\ Ahead
    BY <1>1, <1>4, <1>5, <1>6, <1>7, <1>8, DecisionStore
<1>10. Decides(Entry("approved")) /\ "approved" \in Results
    BY <1>1, DecidesIs
<1>11. Transaction(prog.rev + 1, "approved")
    BY <1>1, <1>2, <1>4, <1>9, <1>10 DEF Transaction
<1> QED
    BY <1>9, <1>11 DEF Committed

-----------------------------------------------------------------------------
(* The steps between the transactions: calls that begin, are journalled, go *)
(* on, get their receipt and end.                                          *)

\* The parts of the invariant that are about commands.
LogTyped == IsFiniteSet(log) /\ \A e \in log : e.rev \in Int
CallsHold == calls \in Seq(Calls) /\ FramesOK /\ CallsNest
CommandsHold == StoreTyped /\ LogTyped /\ CommandsAtRevision /\ Journalled /\ Transacted /\ CallsHold

\* A step of a command keeps what is about commands.
LEMMA CommittedHolds ==
    ASSUME ServedInv, Committed
    PROVE  CommandsHold'
<1>1. PICK rev, result : Transaction(rev, result)
    BY DEF Committed
<1>2. StoreTyped'
    BY DEF Committed
<1>3. LogTyped'
    <2>1. log' = log \cup {Entry(result)} /\ Entry(result).rev = prog.rev
        BY <1>1, LogAfter
    <2>2. IsFiniteSet(log) /\ \A e \in log : e.rev \in Int
        BY DEF ServedInv, ServedTypeOK
    <2>3. prog.rev \in Int
        BY StoreParts
    <2>4. IsFiniteSet(log \cup {Entry(result)})
        BY <2>2, FS_AddElement
    <2> QED
        BY <2>1, <2>2, <2>3, <2>4 DEF LogTyped
<1>4. CommandsAtRevision' /\ Journalled' /\ Transacted'
    BY <1>1, TransactionRevisions, TransactionJournalled, TransactionTransacted
<1>5. CallsHold'
    BY <1>1, TransactionCalls DEF CallsHold
<1> QED
    BY <1>2, <1>3, <1>4, <1>5 DEF CommandsHold

\* While no transaction of a command happens, what happened stays as it was.
LEMMA LogStays ==
    ASSUME ServedInv, log' = log, Kept, Ahead
    PROVE  LogTyped' /\ CommandsAtRevision' /\ Transacted'
<1>1. LogTyped'
    BY DEF ServedInv, ServedTypeOK, LogTyped
<1>2. \A e \in log : e.op \in DOMAIN ledger /\ e.op \in DOMAIN ledger' /\ ledger'[e.op].exact = ledger[e.op].exact
    BY DEF ServedInv, CommandsAtRevision, Kept
<1>3. CommandsAtRevision'
    BY <1>2 DEF ServedInv, CommandsAtRevision
<1>4. Transacted'
    <2> DEFINE Good(e) == LET req == ledger'[e.op].exact.req
                          IN  /\ \E i \in DOMAIN Steps[req.action] : Steps[req.action][i] = e.step
                              /\ Decides(e) /\ e.step # "stop" => e.rev < prog'.rev
                              /\ e.step = "prepare" => req.key \in Claims /\ att'[req.key].status # "none"
                              /\ e.step = "judge" => req.claim \in Claims /\ att'[req.claim].status \in Ended
                              /\ e.result = "settled" => Over(prog') /\ (~KillMayHang => runtime' = "gone")
    <2>1. ASSUME NEW e \in log
          PROVE  Good(e)
        <3> DEFINE req == ledger[e.op].exact.req
        <3>1. /\ \E i \in DOMAIN Steps[req.action] : Steps[req.action][i] = e.step
              /\ Decides(e) /\ e.step # "stop" => e.rev < prog.rev
              /\ e.step = "prepare" => req.key \in Claims /\ att[req.key].status # "none"
              /\ e.step = "judge" => req.claim \in Claims /\ att[req.claim].status \in Ended
              /\ e.result = "settled" => Over(prog) /\ (~KillMayHang => runtime = "gone")
            BY DEF ServedInv, Transacted
        <3>2. e.rev \in Int /\ prog.rev \in Int
            BY StoreParts DEF ServedInv, ServedTypeOK
        <3>3. prog'.rev \in Int /\ prog.rev <= prog'.rev
            BY DEF Ahead
        <3>4. Decides(e) /\ e.step # "stop" => e.rev < prog'.rev
            BY <3>1, <3>2, <3>3
        <3>5. e.step = "prepare" => req.key \in Claims /\ att'[req.key].status # "none"
            BY <3>1 DEF Ahead
        <3>6. e.step = "judge" => req.claim \in Claims /\ att'[req.claim].status \in Ended
            BY <3>1 DEF Ahead
        <3>7. e.result = "settled" => Over(prog') /\ (~KillMayHang => runtime' = "gone")
            BY <3>1 DEF Ahead
        <3>8. ledger'[e.op].exact.req = req
            BY <1>2
        <3> HIDE DEF req
        <3> QED
            BY <3>1, <3>4, <3>5, <3>6, <3>7, <3>8
    <2> QED
        BY <2>1 DEF Transacted
<1> QED
    BY <1>1, <1>3, <1>4

\* A call that does not move.
LEMMA CallCarried ==
    ASSUME ServedInv, log' = log, Kept, Ahead, NEW i \in DOMAIN calls
    PROVE  FrameOK(calls[i], prog', att', ledger', log') /\ calls[i] \in Calls
<1>1. calls \in Seq(Calls) /\ prog.mode \in Modes /\ FrameOK(calls[i], prog, att, ledger, log)
    BY DEF ServedInv, ServedTypeOK, FramesOK
<1>2. calls[i] \in Calls
    BY <1>1
<1>3. calls[i].req \in Sent
    BY <1>2 DEF Calls
<1>4. calls[i].req.action \in AllActions
    BY <1>1, <1>3, SentAre
<1>5. Untouched(Op(calls[i].req)) /\ log \subseteq log'
    BY DEF Untouched
<1> QED
    BY <1>1, <1>2, <1>4, <1>5, CallStays

\* Calls that end, or none.
LEMMA CallsFewer ==
    ASSUME ServedInv, log' = log, Kept, Ahead, calls' \in Seq(Calls),
           \A i \in DOMAIN calls' : i \in DOMAIN calls /\ calls'[i] = calls[i]
    PROVE  CallsHold'
<1>1. Calls' = Calls
    BY SameSent DEF Ahead
<1>2. FramesOK'
    <2>1. \A i \in DOMAIN calls' : FrameOK(calls'[i], prog', att', ledger', log')
        BY CallCarried
    <2> QED
        BY <2>1 DEF FramesOK
<1>3. CallsNest'
    BY DEF ServedInv, CallsNest
<1> QED
    BY <1>1, <1>2, <1>3 DEF CallsHold

\* The innermost call goes on.
LEMMA TopGoesOn ==
    ASSUME ServedInv, log' = log, Kept, Ahead, calls # << >>, NEW c, c \in Calls, c.req = Top.req,
           calls' = [calls EXCEPT ![Len(calls)] = c], FrameOK(c, prog', att', ledger', log')
    PROVE  CallsHold'
<1> DEFINE n == Len(calls)
<1>1. calls \in Seq(Calls) /\ DOMAIN calls = 1..n /\ n \in Nat \ {0} /\ n \in DOMAIN calls
    BY TopIs
<1>2. Calls' = Calls
    BY SameSent DEF Ahead
<1>3. calls' \in Seq(Calls) /\ DOMAIN calls' = DOMAIN calls /\ calls'[n] = c
      /\ \A i \in DOMAIN calls : i # n => calls'[i] = calls[i]
    BY <1>1
<1>4. FramesOK'
    <2>1. \A i \in DOMAIN calls : FrameOK(calls[i], prog', att', ledger', log')
        BY CallCarried
    <2>2. \A i \in DOMAIN calls' : FrameOK(calls'[i], prog', att', ledger', log')
        BY <1>3, <2>1
    <2> QED
        BY <2>2 DEF FramesOK
<1>5. CallsNest'
    <2> SUFFICES ASSUME NEW i \in DOMAIN calls, NEW j \in DOMAIN calls, i < j, calls'[i].pc # "check"
                 PROVE  Op(calls'[i].req) # Op(calls'[j].req)
        BY <1>3 DEF CallsNest
    <2>1. i # n
        BY <1>1
    <2>2. calls'[i] = calls[i]
        BY <1>3, <2>1
    <2>3. calls'[j].req = calls[j].req
        BY <1>3 DEF Top
    <2> QED
        BY <2>2, <2>3 DEF ServedInv, CallsNest
<1> QED
    BY <1>2, <1>3, <1>4, <1>5 DEF CallsHold

\* A call begins.
LEMMA CallBegins ==
    ASSUME ServedInv, log' = log, Kept, Ahead, NEW c, c \in Calls, Op(c.req) \notin DOMAIN ledger,
           calls' = Append(calls, c), FrameOK(c, prog', att', ledger', log')
    PROVE  CallsHold'
<1> DEFINE n == Len(calls)
<1>0. calls \in Seq(Calls)
    BY DEF ServedInv, ServedTypeOK
<1>1. calls \in Seq(Calls) /\ DOMAIN calls = 1..n /\ n \in Nat
    BY <1>0
<1>2. Calls' = Calls
    BY SameSent DEF Ahead
<1>3. /\ calls' \in Seq(Calls) /\ DOMAIN calls' = 1..(n + 1) /\ calls'[n + 1] = c
      /\ \A i \in 1..n : calls'[i] = calls[i]
    <2>1. Append(calls, c) \in Seq(Calls) /\ Len(Append(calls, c)) = n + 1
        BY <1>1
    <2>2. Append(calls, c)[n + 1] = c /\ \A i \in 1..n : Append(calls, c)[i] = calls[i]
        BY <1>1
    <2>3. DOMAIN Append(calls, c) = 1..(n + 1)
        BY <2>1
    <2> QED
        BY <2>1, <2>2, <2>3
<1>4. FramesOK'
    <2>1. \A i \in DOMAIN calls : FrameOK(calls[i], prog', att', ledger', log')
        BY CallCarried
    <2>2. \A i \in DOMAIN calls' : i \in 1..n \/ i = n + 1
        BY <1>1, <1>3
    <2>3. \A i \in DOMAIN calls' : FrameOK(calls'[i], prog', att', ledger', log')
        BY <1>1, <1>3, <2>1, <2>2
    <2> QED
        BY <2>3 DEF FramesOK
<1>5. CallsNest'
    <2> SUFFICES ASSUME NEW i \in DOMAIN calls', NEW j \in DOMAIN calls', i < j, calls'[i].pc # "check"
                 PROVE  Op(calls'[i].req) # Op(calls'[j].req)
        BY DEF CallsNest
    <2>1. i \in 1..n /\ (j \in 1..n \/ j = n + 1)
        BY <1>1, <1>3
    <2>2. calls'[i] = calls[i]
        BY <1>3, <2>1
    <2>3. CASE j \in 1..n
        BY <1>1, <1>3, <2>1, <2>2, <2>3 DEF ServedInv, CallsNest
    <2>4. CASE j = n + 1
        <3>1. FrameOK(calls[i], prog, att, ledger, log)
            BY <1>1, <2>1 DEF ServedInv, FramesOK
        <3>2. Op(calls[i].req) \in DOMAIN ledger
            BY <2>2, <3>1 DEF FrameOK
        <3> QED
            BY <1>3, <2>2, <2>4, <3>2
    <2> QED
        BY <2>1, <2>3, <2>4
<1> QED
    BY <1>2, <1>3, <1>4, <1>5 DEF CallsHold

\* A command begins with its first transaction.
LEMMA WholeCommand ==
    ASSUME NEW a \in AllActions
    PROVE  /\ Steps[a] \in Remainders(Steps[a]) /\ Steps[a] # << >>
           /\ Head(Steps[a]) \notin {"prepare", "finish", "judge", "dispatch", "retire"}
<1>1. Steps[a] \in Seq(StepNames) /\ Len(Steps[a]) \in 1..3
    BY StepsAre
<1>2. SubSeq(Steps[a], 1, Len(Steps[a])) = Steps[a]
    BY <1>1, SubSeqFull
<1>3. 1 \in 1..(Len(Steps[a]) + 1)
    BY <1>1
<1>4. Steps[a] \in Remainders(Steps[a])
    BY <1>2, <1>3 DEF Remainders
<1>5. Steps[a] # << >>
    BY <1>1, SMTT(30)
<1>6. Head(Steps[a]) = Steps[a][1]
    BY <1>1, <1>5
<1>7. Steps[a][1] \in {"claim", "submit", "start", "stop"} \cup AllActions
    BY StepsAre
<1> QED
    BY <1>4, <1>5, <1>6, <1>7 DEF AllActions, WorkerActions, OwnerActions

\* A call as it begins.
LEMMA NewCallIs ==
    ASSUME ServedInv, NEW req \in Sent, NEW pc \in {"check", "run", "record", "reply"}
    PROVE  LET c == NewCall(req, pc)
           IN  /\ c \in Calls /\ c.req = req /\ c.exact = Exact(req) /\ c.target = Target(req) /\ c.pc = pc
               /\ c.todo = Steps[req.action] /\ c.at = req.rev /\ c.result = "accepted" /\ c.exact.req = req
<1> DEFINE c == NewCall(req, pc)
<1>1. prog.mode \in Modes
    BY DEF ServedInv, ServedTypeOK
<1>2. req.action \in AllActions /\ req.rev \in Int
    BY <1>1, SentAre
<1>3. host \in Hosts
    BY StoreParts
<1>4. host.owner.spec \in Nat /\ host.owner.bound \in Claims \cup {NoClaim}
    BY <1>3 DEF Hosts, Sessions
<1>5. Exact(req) \in Exacts /\ Exact(req).req = req
    <2> DEFINE b == CASE req.action = "stop" -> <<host.owner.spec, host.owner.bound>>
                      [] req.action \in {"start-managed", "reconcile"} -> <<0, host.owner.bound>>
                      [] OTHER -> <<0, NoClaim>>
    <2>1. b \in Nat \X (Claims \cup {NoClaim})
        <3>1. CASE req.action = "stop"
            BY <1>4, <3>1
        <3>2. CASE req.action \in {"start-managed", "reconcile"}
            BY <1>4, <3>2
        <3>3. CASE req.action \notin {"stop", "start-managed", "reconcile"}
            BY <3>3
        <3> QED
            BY <3>1, <3>2, <3>3
    <2>2. Exact(req) = [req |-> req, bind |-> b]
        BY DEF Exact
    <2> HIDE DEF b
    <2> QED
        BY <2>1, <2>2 DEF Exacts
<1>6. Target(req) \in Claims \cup {NoClaim} \cup {r.claim : r \in Sent}
    BY <1>4 DEF Target
<1>7. Steps[req.action] \in UNION {Remainders(Steps[r.action]) : r \in Sent}
    BY <1>2, WholeCommand
<1>8. c = [req |-> req, exact |-> Exact(req), target |-> Target(req), pc |-> pc,
           todo |-> Steps[req.action], at |-> req.rev, result |-> "accepted"]
    BY DEF NewCall
<1>9. "accepted" \in Results
    BY DEF Results
<1>10. c \in Calls
    <2> DEFINE T == UNION {Remainders(Steps[r.action]) : r \in Sent}
               G == Claims \cup {NoClaim} \cup {r.claim : r \in Sent}
    <2>1. Steps[req.action] \in T /\ Target(req) \in G
        BY <1>6, <1>7
    <2>2. Calls = [req : Sent, exact : Exacts, target : G,
                   pc : {"check", "run", "record", "reply"}, todo : T, at : Int, result : Results]
        BY DEF Calls
    <2> HIDE DEF T, G, c
    <2> QED
        BY <1>2, <1>5, <1>8, <1>9, <2>1, <2>2
<1> QED
    BY <1>5, <1>8, <1>10

\* The journal after a command was journalled, perhaps again.
LEMMA IntentIs ==
    ASSUME ServedInv, NEW c \in Calls, c.exact.req = c.req, ledger' = Intent(c),
           prog' = prog, att' = att, runtime' = runtime, log' = log, host' \in Hosts
    PROVE  /\ StoreTyped' /\ Kept /\ Ahead /\ Journalled' /\ Op(c.req) \in DOMAIN ledger'
           /\ Op(c.req) \notin DOMAIN ledger => ledger'[Op(c.req)].exact = c.exact
<1> DEFINE op == Op(c.req)
           new == [exact |-> c.exact, receipt |-> "none"]
           Receipts == [exact : Exacts, receipt : Results \cup {"none"}]
<1>1. /\ prog \in Programs /\ att \in [Claims -> Attempts] /\ runtime \in {"none", "live", "gone"}
    BY StoreParts
<1>2. ledger \in [DOMAIN ledger -> Receipts] /\ Exacts' = Exacts
    <2>1. Exacts' = Exacts
        BY SameSent
    <2> QED
        BY <2>1, StoreIsTyped DEF StoreTyped
<1>3. new \in Receipts /\ new.exact = c.exact /\ new.receipt = "none"
    BY DEF Calls
<1> HIDE DEF new, op
<1>4. /\ DOMAIN ledger' = DOMAIN ledger \cup {op}
      /\ \A o \in DOMAIN ledger : ledger'[o] = ledger[o]
      /\ op \notin DOMAIN ledger => ledger'[op] = new
    <2>1. ledger' = IF op \in DOMAIN ledger THEN ledger
                    ELSE [o \in DOMAIN ledger \cup {op} |-> IF o \in DOMAIN ledger THEN ledger[o] ELSE new]
        BY DEF Intent, op, new
    <2>2. CASE op \in DOMAIN ledger
        BY <2>1, <2>2
    <2>3. CASE op \notin DOMAIN ledger
        BY <2>1, <2>3
    <2> QED
        BY <2>2, <2>3
<1>5. ledger' \in [DOMAIN ledger' -> Receipts]
    <2> HIDE DEF Receipts
    <2>1. \A o \in DOMAIN ledger' : ledger'[o] \in Receipts
        BY <1>2, <1>3, <1>4
    <2>2. ledger' = [o \in DOMAIN ledger' |-> ledger'[o]]
        <3>1. CASE op \in DOMAIN ledger
            <4>1. ledger' = ledger
                BY <3>1 DEF Intent, op
            <4> QED
                BY <1>2, <4>1
        <3>2. CASE op \notin DOMAIN ledger
            <4>1. ledger' = [o \in DOMAIN ledger \cup {op} |-> IF o \in DOMAIN ledger THEN ledger[o] ELSE new]
                BY <3>2 DEF Intent, op, new
            <4> QED
                BY <4>1
        <3> QED
            BY <3>1, <3>2
    <2> QED
        BY <2>1, <2>2
<1>6. StoreTyped'
    BY <1>1, <1>2, <1>5 DEF StoreTyped
<1>7. Kept
    BY <1>4 DEF Kept
<1>8. Ahead
    <2>1. AttemptsAhead
        BY <1>1, AttemptsSame
    <2> QED
        BY <1>1, <2>1, RecordAhead
<1>9. Journalled'
    <2>1. \A o \in DOMAIN ledger :
             /\ Op(ledger[o].exact.req) = o
             /\ ledger[o].receipt # "none" => InLog(log, o, LastStep(ledger[o].exact.req), ledger[o].receipt)
        BY DEF ServedInv, Journalled
    <2>2. op \notin DOMAIN ledger => Op(ledger'[op].exact.req) = op /\ ledger'[op].receipt = "none"
        BY <1>3, <1>4 DEF op
    <2>3. \A o \in DOMAIN ledger' :
             /\ Op(ledger'[o].exact.req) = o
             /\ ledger'[o].receipt # "none" => InLog(log', o, LastStep(ledger'[o].exact.req), ledger'[o].receipt)
        BY <1>4, <2>1, <2>2
    <2> QED
        BY <2>3 DEF Journalled
<1>10. op \notin DOMAIN ledger => ledger'[op].exact = c.exact
    BY <1>3, <1>4
<1> QED
    BY <1>4, <1>6, <1>7, <1>8, <1>9, <1>10 DEF op

\* An owner's command begins, journalled.
LEMMA BeginOwnerHolds ==
    ASSUME ServedInv, NEW req \in Sent, BeginOwner(req)
    PROVE  CommandsHold'
<1> DEFINE c == NewCall(req, "run")
           op == Op(req)
<1>1. /\ Side(req) = "owner" /\ op \notin DOMAIN ledger /\ prog.rev = req.rev
      /\ calls' = Append(calls, c) /\ ledger' = Intent(c)
      /\ prog' = prog /\ att' = att /\ runtime' = runtime /\ log' = log
      /\ host' = IF req.action = "start-managed" THEN [host EXCEPT !.owner.run = IF @ = "idle" THEN "held" ELSE @] ELSE host
    BY DEF BeginOwner, CallerCurrent
<1>2. /\ c \in Calls /\ c.req = req /\ c.exact = Exact(req) /\ c.pc = "run" /\ c.todo = Steps[req.action]
      /\ c.at = req.rev /\ c.result = "accepted" /\ c.exact.req = req
    BY NewCallIs
<1>3. prog.mode \in Modes
    BY DEF ServedInv, ServedTypeOK
<1>4. req.action \in AllActions /\ req.rev \in Int /\ req.action \in OwnerActions
    BY <1>1, <1>3, SentAre
<1>5. host' \in Hosts
    BY <1>1, StoreParts DEF Hosts, Sessions
<1> HIDE DEF c
<1>6. /\ StoreTyped' /\ Kept /\ Ahead /\ Journalled' /\ op \in DOMAIN ledger'
      /\ ledger'[op].exact = c.exact
    BY <1>1, <1>2, <1>5, IntentIs
<1>7. \A e \in log : e.op # op
    BY <1>1 DEF ServedInv, CommandsAtRevision
<1>8. AtItsRevision(c, log')
    <2>1. DecisionsOf(log', op) = {}
        BY <1>1, <1>7 DEF DecisionsOf
    <2>2. Cardinality(DecisionsOf(log', op)) = 0
        BY <2>1, FS_EmptySet
    <2>3. c.at = c.req.rev + Cardinality(DecisionsOf(log', op))
        BY <1>2, <1>4, <2>2
    <2>4. \A e \in log' : e.op # op
        BY <1>1, <1>7
    <2> QED
        BY <1>2, <2>1, <2>3, <2>4 DEF AtItsRevision
<1>9. FrameOK(c, prog', att', ledger', log')
    <2>1. req.action # "report"
        BY <1>4 DEF OwnerActions
    <2>2. /\ Steps[req.action] \in Remainders(Steps[req.action]) /\ Steps[req.action] # << >>
          /\ Head(Steps[req.action]) \notin {"judge", "retire"}
        BY <1>4, WholeCommand
    <2> QED
        BY <1>2, <1>6, <1>8, <2>1, <2>2 DEF FrameOK
<1>10. CallsHold'
    BY <1>1, <1>2, <1>6, <1>9, CallBegins
<1>11. LogTyped' /\ CommandsAtRevision' /\ Transacted'
    BY <1>1, <1>6, LogStays
<1> QED
    BY <1>6, <1>10, <1>11 DEF CommandsHold

\* What does not change the store.
LEMMA StoreStays ==
    ASSUME ServedInv, prog' = prog, att' = att, ledger' = ledger, runtime' = runtime, log' = log, host' \in Hosts
    PROVE  /\ StoreTyped' /\ Kept /\ Ahead /\ Journalled' /\ LogTyped' /\ CommandsAtRevision' /\ Transacted'
<1>1. /\ prog \in Programs /\ att \in [Claims -> Attempts] /\ runtime \in {"none", "live", "gone"}
    BY StoreParts
<1>2. Kept
    BY DEF Kept
<1>3. Ahead
    <2>1. AttemptsAhead
        BY <1>1, AttemptsSame
    <2> QED
        BY <1>1, <2>1, RecordAhead
<1>4. ledger' \in [DOMAIN ledger' -> [exact : Exacts', receipt : Results \cup {"none"}]]
    BY LedgerTyped
<1>5. StoreTyped'
    BY <1>1, <1>4 DEF StoreTyped
<1>6. Journalled'
    BY DEF ServedInv, Journalled
<1>7. LogTyped' /\ CommandsAtRevision' /\ Transacted'
    BY <1>2, <1>3, LogStays
<1> QED
    BY <1>2, <1>3, <1>5, <1>6, <1>7

\* A worker's command begins, with its check.
LEMMA BeginWorkerHolds ==
    ASSUME ServedInv, NEW req \in Sent, BeginWorker(req)
    PROVE  CommandsHold'
<1> DEFINE c == NewCall(req, "check")
           op == Op(req)
<1>1. /\ Side(req) = "worker" /\ op \notin DOMAIN ledger /\ Admitted(req)
      /\ calls' = Append(calls, c) /\ ledger' = ledger
      /\ prog' = prog /\ att' = att /\ runtime' = runtime /\ log' = log /\ host' = host
    BY DEF BeginWorker, store
<1>2. /\ c \in Calls /\ c.req = req /\ c.pc = "check" /\ c.todo = Steps[req.action] /\ c.target = Target(req)
      /\ c.at = req.rev /\ c.result = "accepted" /\ c.exact.req = req
    BY NewCallIs
<1>3. host \in Hosts
    BY StoreParts
<1>4. req.action = "report" => Target(req) = req.claim /\ req.claim \in Claims
    BY <1>1, <1>3 DEF Admitted, CandidateAdmitted, Target, Hosts
<1> HIDE DEF c
<1>5. /\ StoreTyped' /\ Kept /\ Ahead /\ Journalled' /\ LogTyped' /\ CommandsAtRevision' /\ Transacted'
    BY <1>1, <1>3, StoreStays
<1>6. FrameOK(c, prog', att', ledger', log')
    BY <1>1, <1>2, <1>4 DEF FrameOK
<1>7. CallsHold'
    BY <1>1, <1>2, <1>5, <1>6, CallBegins
<1> QED
    BY <1>5, <1>7 DEF CommandsHold

\* A worker's command is journalled after its check: whatever an inner call of the same command did meanwhile
\* admitted no decision, or the revision would not be the caller's any more.
LEMMA JournalHolds ==
    ASSUME ServedInv, Journal
    PROVE  CommandsHold'
<1> DEFINE c == [Top EXCEPT !.pc = "run"]
           op == Op(Top.req)
           all == Steps[Top.req.action]
<1>1. /\ calls # << >> /\ Top.pc = "check" /\ prog.rev = Top.req.rev
      /\ op \in DOMAIN ledger => ledger[op].exact = Top.exact
      /\ ledger' = Intent(Top) /\ calls' = [calls EXCEPT ![Len(calls)].pc = "run"]
      /\ prog' = prog /\ att' = att /\ runtime' = runtime /\ log' = log /\ host' = host
    BY DEF Journal, Running, CallerCurrent
<1>2. /\ Top \in Calls /\ Top.req \in Sent /\ Top.req.action \in AllActions /\ FrameOK(Top, prog, att, ledger, log)
      /\ calls \in Seq(Calls) /\ Len(calls) \in DOMAIN calls
    BY <1>1, TopIs
<1>3. /\ c \in Calls /\ c.req = Top.req /\ c.exact = Top.exact /\ c.target = Top.target /\ c.pc = "run"
      /\ c.todo = Top.todo /\ c.at = Top.at /\ c.result = Top.result
    BY <1>2 DEF Calls
<1>4. calls' = [calls EXCEPT ![Len(calls)] = c]
    BY <1>1 DEF Top
<1>5. /\ Top.exact.req = Top.req /\ Side(Top.req) = "worker" /\ Top.todo = all /\ Top.at = Top.req.rev
      /\ Top.result # "settled"
      /\ Top.req.action = "report" => Top.target \in Claims /\ Top.target = Top.req.claim
    BY <1>1, <1>2 DEF FrameOK
<1>6. host \in Hosts /\ prog.rev \in Int
    BY StoreParts
<1> HIDE DEF c
<1>7. /\ StoreTyped' /\ Kept /\ Ahead /\ Journalled' /\ op \in DOMAIN ledger'
      /\ op \notin DOMAIN ledger => ledger'[op].exact = Top.exact
    BY <1>1, <1>2, <1>5, <1>6, IntentIs
<1>8. ledger'[op].exact = Top.exact
    BY <1>1, <1>7 DEF Kept
<1>9. \A e \in log : e.op = op => /\ ledger[op].exact.req = Top.req /\ e.step \notin {"stop", "retire"}
                                  /\ e.rev \in Int
    <2> SUFFICES ASSUME NEW e \in log, e.op = op
                 PROVE  /\ ledger[op].exact.req = Top.req /\ e.step \notin {"stop", "retire"}
                        /\ e.rev \in Int
        OBVIOUS
    <2>1. op \in DOMAIN ledger
        BY DEF ServedInv, CommandsAtRevision
    <2>2. ledger[op].exact.req = Top.req
        BY <1>1, <1>5, <2>1
    <2>3. \E i \in DOMAIN all : all[i] = e.step
        BY <2>2 DEF ServedInv, Transacted
    <2>4. Top.req.action # "stop"
        BY <1>5 DEF Side, OwnerActions
    <2>5. all \in Seq(StepNames) /\ DOMAIN all = 1..Len(all)
        BY <1>2, StepsAre
    <2>6. \A i \in DOMAIN all : all[i] \notin {"stop", "retire"}
        <3>1. \A i \in 1..Len(all) : i \in {1, 2, 3}
            <4>1. Len(all) \in 1..3
                BY <1>2, StepsAre
            <4>2. \A m \in 1..3 : \A i \in 1..m : i \in {1, 2, 3}
                OBVIOUS
            <4> HIDE DEF all
            <4> QED
                BY <4>1, <4>2
        <3>2. Top.req.action \in WorkerActions
            BY <1>2, <1>5 DEF Side, AllActions, OwnerActions
        <3>3. /\ Top.req.action = "claim" => Len(all) = 2 /\ all[1] = "claim" /\ all[2] = "prepare"
              /\ Top.req.action = "report" => Len(all) = 3 /\ all[1] = "submit" /\ all[2] = "finish" /\ all[3] = "judge"
              /\ Top.req.action \notin {"claim", "report"} => Len(all) = 1 /\ all[1] = Top.req.action
            BY <1>2, <3>2, StepsAre DEF WorkerActions
        <3> HIDE DEF all
        <3> QED
            BY <2>5, <3>1, <3>2, <3>3 DEF WorkerActions
    <2>7. e.rev \in Int
        BY DEF ServedInv, ServedTypeOK
    <2> QED
        BY <2>2, <2>3, <2>6, <2>7
<1>10. \A e \in log : e.op = op =>
          e.rev = Top.req.rev + Cardinality({f \in log : f.op = op /\ Decides(f) /\ f.rev < e.rev})
    BY <1>9 DEF ServedInv, CommandsAtRevision
<1>11. IsFiniteSet(log)
    BY DEF ServedInv, ServedTypeOK
<1>12. DecisionsOf(log, op) = {}
    <2> SUFFICES ASSUME NEW f \in log, f.op = op, Decides(f)
                 PROVE  FALSE
        BY DEF DecisionsOf
    <2> DEFINE before == {g \in log : g.op = op /\ Decides(g) /\ g.rev < f.rev}
    <2>1. f.rev < prog.rev
        BY <1>9 DEF ServedInv, Transacted
    <2>2. f.rev = Top.req.rev + Cardinality(before)
        BY <1>10
    <2>3. Cardinality(before) \in Nat
        BY <1>11, DecisionsFinite
    <2>4. f.rev \in Int
        BY <1>9
    <2> HIDE DEF before
    <2> QED
        BY <1>1, <1>6, <2>1, <2>2, <2>3, <2>4
<1>13. Cardinality(DecisionsOf(log, op)) = 0
    BY <1>12, FS_EmptySet
<1>14. \A e \in log : e.op = op => e.rev = Top.req.rev
    <2> SUFFICES ASSUME NEW e \in log, e.op = op
                 PROVE  e.rev = Top.req.rev
        OBVIOUS
    <2>1. {f \in log : f.op = op /\ Decides(f) /\ f.rev < e.rev} = {}
        BY <1>12 DEF DecisionsOf
    <2>2. e.rev = Top.req.rev + 0
        BY <1>10, <2>1, FS_EmptySet
    <2> QED
        BY <1>1, <1>6, <2>2
<1>15. AtItsRevision(c, log')
    <2>1. c.at = c.req.rev + Cardinality(DecisionsOf(log', op))
        BY <1>1, <1>3, <1>5, <1>6, <1>13
    <2>2. DecisionsOf(log', op) = {}
        BY <1>1, <1>12
    <2>3. \A e \in log' : e.op = op => e.rev = c.at
        BY <1>1, <1>3, <1>5, <1>14
    <2>4. Side(c.req) # "owner"
        BY <1>3, <1>5
    <2> QED
        BY <1>3, <2>1, <2>2, <2>3, <2>4 DEF AtItsRevision
<1>16. FrameOK(c, prog', att', ledger', log')
    <2>1. /\ all \in Remainders(all) /\ all # << >> /\ Head(all) \notin {"judge", "retire"}
        BY <1>2, WholeCommand
    <2> HIDE DEF all
    <2>2. c.todo = all
        BY <1>3, <1>5
    <2> QED
        BY <1>3, <1>5, <1>7, <1>8, <1>15, <2>1, <2>2 DEF FrameOK, all
<1>17. CallsHold'
    BY <1>1, <1>3, <1>4, <1>7, <1>16, TopGoesOn
<1>18. LogTyped' /\ CommandsAtRevision' /\ Transacted'
    BY <1>1, <1>7, LogStays
<1> QED
    BY <1>7, <1>17, <1>18 DEF CommandsHold

\* report() goes on to the judgement of an Attempt that has ended already.
LEMMA FinishAgainHolds ==
    ASSUME ServedInv, StepFinish, att[Top.target].status # "running"
    PROVE  CommandsHold'
<1> DEFINE c == [Top EXCEPT !.todo = Tail(@)]
           op == Op(Top.req)
           all == Steps[Top.req.action]
           next == Tail(Top.todo)
<1>1. /\ Running("run") /\ Head(Top.todo) = "finish" /\ AtRevision /\ runtime' = runtime /\ host' = host
      /\ att[Top.target].status = "finished" /\ calls' = [calls EXCEPT ![Len(calls)].todo = Tail(@)]
      /\ prog' = prog /\ att' = att /\ ledger' = ledger /\ log' = log
    BY DEF StepFinish, Turn
<1>2. /\ calls # << >> /\ Top.todo # << >> /\ Top.todo \in Remainders(all) /\ AtItsRevision(Top, log)
      /\ Top.exact.req = Top.req /\ op \in DOMAIN ledger /\ ledger[op].exact = Top.exact
      /\ Top.result # "settled" /\ Top.target \in Claims /\ Top.target = Top.req.claim /\ Top.pc = "run"
    BY <1>1, TurnIs DEF Running
<1>3. /\ Top \in Calls /\ Top.req \in Sent /\ Top.req.action \in AllActions
    BY <1>2, TopIs
<1>4. /\ next \in Remainders(all) /\ StepsLeft(next) \subseteq StepsLeft(Top.todo)
      /\ next = << >> => all[Len(all)] = "finish"
      /\ next # << >> => Head(next) = "judge"
      /\ Top.req.action = "report"
    <2> DEFINE s == Head(Top.todo)
    <2>1. /\ next \in Remainders(all) /\ StepsLeft(next) \subseteq StepsLeft(Top.todo)
          /\ next = << >> => s = all[Len(all)]
        BY <1>2, <1>3, Onwards
    <2>2. s \in {"finish", "judge"} => Top.req.action = "report"
        BY <1>2, <1>3, Onwards
    <2>3. next # << >> /\ s = "finish" => Head(next) = "judge"
        BY <1>2, <1>3, Onwards
    <2> QED
        BY <1>1, <2>1, <2>2, <2>3
<1>5. next # << >>
    <2>1. Len(all) = 3 /\ all[3] = "judge"
        BY <1>3, <1>4, StepsAre
    <2> QED
        BY <1>4, <2>1
<1>6. /\ c \in Calls /\ c.req = Top.req /\ c.exact = Top.exact /\ c.target = Top.target /\ c.pc = "run"
      /\ c.todo = next /\ c.at = Top.at /\ c.result = Top.result
    <2> DEFINE T == UNION {Remainders(Steps[r.action]) : r \in Sent}
    <2>1. next \in T
        BY <1>3, <1>4
    <2>2. Calls = [req : Sent, exact : Exacts, target : Claims \cup {NoClaim} \cup {r.claim : r \in Sent},
                   pc : {"check", "run", "record", "reply"}, todo : T, at : Int, result : Results]
        BY DEF Calls
    <2> HIDE DEF T
    <2> QED
        BY <1>2, <1>3, <2>1, <2>2
<1>7. calls' = [calls EXCEPT ![Len(calls)] = c]
    BY <1>1 DEF Top
<1>8. host \in Hosts
    BY StoreParts
<1>9. /\ StoreTyped' /\ Kept /\ Ahead /\ Journalled' /\ LogTyped' /\ CommandsAtRevision' /\ Transacted'
    BY <1>1, <1>8, StoreStays
<1> HIDE DEF c, next
<1>10. AtItsRevision(c, log')
    <2>1. /\ Top.at = Top.req.rev + Cardinality(DecisionsOf(log, op))
          /\ \A f \in DecisionsOf(log, op) : f.rev < Top.at
          /\ \A e \in log : e.op = op /\ e.step \in StepsLeft(Top.todo) => e.rev = Top.at
          /\ Side(Top.req) = "owner" => \A e \in log : e.op = op => e.step \notin StepsLeft(Top.todo)
        BY <1>1, <1>2 DEF AtItsRevision
    <2> QED
        BY <1>1, <1>4, <1>6, <2>1 DEF AtItsRevision
<1>11. att[Top.target].status \in Ended
    BY <1>1 DEF Ended
<1>12. FrameOK(c, prog', att', ledger', log')
    BY <1>1, <1>2, <1>4, <1>5, <1>6, <1>10, <1>11 DEF FrameOK
<1>13. CallsHold'
    BY <1>1, <1>2, <1>6, <1>7, <1>9, <1>12, TopGoesOn
<1> QED
    BY <1>9, <1>13 DEF CommandsHold

\* The receipt is written.
LEMMA RecordHolds ==
    ASSUME ServedInv, Record
    PROVE  CommandsHold'
<1> DEFINE c == [Top EXCEPT !.pc = "reply"]
           op == Op(Top.req)
<1>1. /\ calls # << >> /\ Top.pc = "record" /\ ledger[op].receipt \in {"none", Top.result}
      /\ ledger' = [ledger EXCEPT ![op].receipt = Top.result]
      /\ calls' = [calls EXCEPT ![Len(calls)].pc = "reply"]
      /\ host' = IF Top.req.action = "claim" THEN [host EXCEPT !.handoffs = @ \cup {Top.req.key}] ELSE host
      /\ prog' = prog /\ att' = att /\ runtime' = runtime /\ log' = log
    BY DEF Record, Running
<1>2. /\ Top \in Calls /\ Top.req \in Sent /\ Top.req.action \in AllActions /\ FrameOK(Top, prog, att, ledger, log)
    BY <1>1, TopIs
<1>3. /\ c \in Calls /\ c.req = Top.req /\ c.exact = Top.exact /\ c.target = Top.target /\ c.pc = "reply"
      /\ c.todo = Top.todo /\ c.at = Top.at /\ c.result = Top.result
    BY <1>2 DEF Calls
<1>4. calls' = [calls EXCEPT ![Len(calls)] = c]
    BY <1>1 DEF Top
<1>5. /\ Top.exact.req = Top.req /\ op \in DOMAIN ledger /\ ledger[op].exact = Top.exact
      /\ Top.req.action = "report" => Top.target \in Claims /\ Top.target = Top.req.claim
      /\ InLog(log, op, LastStep(Top.req), Top.result)
    BY <1>1, <1>2 DEF FrameOK, LastStep
<1>6. Top.result \in Results
    BY <1>2 DEF Calls
<1>7. /\ prog \in Programs /\ att \in [Claims -> Attempts] /\ runtime \in {"none", "live", "gone"} /\ host \in Hosts
    BY StoreParts
<1>8. host' \in Hosts
    <2>1. prog.mode \in Modes
        BY <1>7 DEF Programs
    <2>2. Top.req.action = "claim" => Top.req.key \in Claims
        BY <1>2, <2>1, SentAre
    <2> QED
        BY <1>1, <1>7, <2>2 DEF Hosts
<1> DEFINE Receipts == [exact : Exacts, receipt : Results \cup {"none"}]
<1>9. ledger \in [DOMAIN ledger -> Receipts] /\ Exacts' = Exacts
    <2>1. Exacts' = Exacts
        BY <1>1, SameSent
    <2> QED
        BY <2>1, StoreIsTyped DEF StoreTyped
<1>10. /\ DOMAIN ledger' = DOMAIN ledger /\ ledger'[op] = [ledger[op] EXCEPT !.receipt = Top.result]
       /\ \A o \in DOMAIN ledger : o # op => ledger'[o] = ledger[o]
    BY <1>1, <1>5, <1>9
<1>11. /\ ledger'[op] \in Receipts /\ ledger'[op].exact = ledger[op].exact /\ ledger'[op].receipt = Top.result
    BY <1>5, <1>6, <1>9, <1>10
<1>12. ledger' \in [DOMAIN ledger' -> Receipts]
    <2> HIDE DEF Receipts, op
    <2>1. \A o \in DOMAIN ledger' : ledger'[o] \in Receipts
        BY <1>9, <1>10, <1>11
    <2>2. ledger' = [o \in DOMAIN ledger' |-> ledger'[o]]
        BY <1>1, <1>9
    <2> QED
        BY <2>1, <2>2
<1>13. StoreTyped'
    BY <1>1, <1>7, <1>8, <1>9, <1>12 DEF StoreTyped
<1> HIDE DEF Receipts, op, c
<1>14. Kept
    <2>1. \A o \in DOMAIN ledger : o \in DOMAIN ledger' /\ ledger'[o].exact = ledger[o].exact
        BY <1>10, <1>11
    <2>2. \A o \in DOMAIN ledger : ledger[o].receipt # "none" => ledger'[o].receipt = ledger[o].receipt
        BY <1>1, <1>10, <1>11
    <2> QED
        BY <2>1, <2>2 DEF Kept
<1>15. Ahead
    <2>1. AttemptsAhead
        BY <1>1, <1>7, AttemptsSame
    <2> QED
        BY <1>1, <1>7, <2>1, RecordAhead
<1>16. Journalled'
    <2>1. \A o \in DOMAIN ledger :
             /\ Op(ledger[o].exact.req) = o
             /\ ledger[o].receipt # "none" => InLog(log, o, LastStep(ledger[o].exact.req), ledger[o].receipt)
        BY DEF ServedInv, Journalled
    <2>2. ledger'[op].exact.req = Top.req
        BY <1>5, <1>11
    <2>3. \A o \in DOMAIN ledger' :
             /\ Op(ledger'[o].exact.req) = o
             /\ ledger'[o].receipt # "none" => InLog(log', o, LastStep(ledger'[o].exact.req), ledger'[o].receipt)
        BY <1>1, <1>5, <1>10, <1>11, <2>1, <2>2 DEF op
    <2> QED
        BY <2>3 DEF Journalled
<1>17. FrameOK(c, prog', att', ledger', log')
    <2>1. InLog(log', op, Steps[Top.req.action][Len(Steps[Top.req.action])], Top.result)
        BY <1>1, <1>5 DEF LastStep
    <2> QED
        BY <1>3, <1>5, <1>10, <1>11, <2>1 DEF FrameOK, op
<1>18. CallsHold'
    BY <1>1, <1>3, <1>4, <1>14, <1>15, <1>17, TopGoesOn
<1>19. LogTyped' /\ CommandsAtRevision' /\ Transacted'
    BY <1>1, <1>14, <1>15, LogStays
<1> QED
    BY <1>13, <1>16, <1>18, <1>19 DEF CommandsHold

\* A decision of somebody else, and the recovery of a review.
LEMMA OthersHold ==
    ASSUME ServedInv, OtherDecision \/ ReviewResolves \/ StepAsk
    PROVE  CommandsHold'
<1>1. ledger' = ledger /\ runtime' = runtime /\ host' = host /\ calls' = calls /\ log' = log
    BY DEF OtherDecision, ReviewResolves, StepAsk
<1>2. /\ prog \in Programs /\ att \in [Claims -> Attempts] /\ runtime \in {"none", "live", "gone"} /\ host \in Hosts
      /\ prog.rev + 1 \in Int /\ prog.spec \in Nat
    BY StoreParts
<1>3. StoreTyped' /\ Ahead
    <2>1. CASE OtherDecision
        <3>1. PICK s \in {"active", "amended", "cancelled"} :
                 /\ CASE s = "active" -> prog.status = "draft"
                      [] s = "amended" -> prog.status = "active"
                      [] OTHER -> prog.status \in {"draft", "active"}
                 /\ prog' = [prog EXCEPT !.rev = @ + 1, !.other = @ + 1, !.spec = IF s = "amended" THEN @ + 1 ELSE @,
                                        !.status = IF s = "amended" THEN @ ELSE s]
                 /\ att' = IF s = "active" THEN att ELSE [k \in Claims |-> Withdrawn(att[k])]
            BY <2>1 DEF OtherDecision
        <3>2. ~Over(prog)
            BY <3>1 DEF Over
        <3>3. prog'.rev = prog.rev + 1 /\ prog'.mode = prog.mode
            BY <1>2, <3>1 DEF Programs
        <3>4. prog.spec + 1 \in Nat /\ prog.other + 1 \in Nat
            BY <1>2 DEF Programs
        <3>5. prog' \in Programs
            BY <1>2, <3>1, <3>4 DEF Programs
        <3>6. att' \in [Claims -> Attempts] /\ AttemptsAhead
            <4>1. CASE att' = att
                BY <1>2, <4>1, AttemptsSame
            <4>2. CASE att' = [k \in Claims |-> Withdrawn(att[k])]
                BY <1>2, <4>2, AttemptsWithdrawn
            <4> QED
                BY <3>1, <4>1, <4>2
        <3> QED
            BY <1>1, <1>2, <3>2, <3>3, <3>5, <3>6, DecisionStore
    <2>2. CASE ReviewResolves \/ StepAsk
        <3>1. PICK k \in Claims, review \in {"open", "resolved"} : att' = [att EXCEPT ![k].review = review]
            <4>1. CASE ReviewResolves
                BY <4>1 DEF ReviewResolves
            <4>2. CASE StepAsk
                <5>1. Top.target \in Claims
                    BY <4>2, TurnIs DEF StepAsk, Turn
                <5> QED
                    BY <4>2, <5>1 DEF StepAsk
            <4> QED
                BY <2>2, <4>1, <4>2
        <3> DEFINE new == [att[k] EXCEPT !.review = review]
        <3>2. new \in Attempts /\ new.status = att[k].status
            BY <1>2 DEF Attempts
        <3>3. att' = [att EXCEPT ![k] = new]
            BY <3>1
        <3> HIDE DEF new
        <3>4. att' \in [Claims -> Attempts]
            BY <1>2, <3>2, <3>3
        <3>5. \A j \in Claims : att'[j] = IF j = k THEN new ELSE att[j]
            BY <1>2, <3>3
        <3>6. AttemptsAhead
            BY <3>2, <3>5 DEF AttemptsAhead
        <3>7. prog' = prog
            BY <2>2 DEF ReviewResolves, StepAsk
        <3> QED
            BY <1>1, <1>2, <3>4, <3>6, <3>7, RecordStore
    <2> QED
        BY <2>1, <2>2
<1>4. Kept
    BY <1>1 DEF Kept
<1>5. Journalled'
    BY <1>1 DEF ServedInv, Journalled
<1>6. LogTyped' /\ CommandsAtRevision' /\ Transacted'
    BY <1>1, <1>3, <1>4, LogStays
<1>7. calls \in Seq(Calls)
    BY DEF ServedInv, ServedTypeOK
<1>8. CallsHold'
    BY <1>1, <1>3, <1>4, <1>7, CallsFewer
<1> QED
    BY <1>3, <1>5, <1>6, <1>8 DEF CommandsHold

\* A close raises in its wait: the call ends, and the process is forgotten.
LEMMA HangHolds ==
    ASSUME ServedInv, StepDispatch \/ StepRetire, CloseHangs
    PROVE  CommandsHold'
<1>1. /\ prog' = prog /\ att' = att /\ ledger' = ledger /\ log' = log /\ calls' = Popped
      /\ host' = [host EXCEPT !.owner.run = "lost"] /\ Running("run")
    BY DEF StepDispatch, StepRetire, CloseHangs, Turn
<1>2. att \in [Claims -> Attempts] /\ runtime \in {"none", "live", "gone"} /\ host \in Hosts
    BY StoreParts
<1>3. host' \in Hosts
    BY <1>1, <1>2 DEF Hosts, Sessions
<1>4. runtime' \in {"none", "live", "gone"} /\ ((runtime = "gone" /\ Over(prog)) => runtime' = "gone")
    <2>1. CASE StepDispatch
        <3>1. runtime' = "live" /\ ~Over(prog)
            BY <2>1 DEF StepDispatch, Approved, Over
        <3> QED
            BY <3>1
    <2>2. CASE StepRetire
        <3>1. runtime' = runtime
            <4>1. host.owner.run = "held" /\ host' # host
                BY <1>1, <1>2 DEF CloseHangs, Hosts, Sessions
            <4> QED
                BY <2>2, <4>1 DEF StepRetire
        <3> QED
            BY <1>2, <3>1
    <2> QED
        BY <2>1, <2>2
<1>5. att' \in [Claims -> Attempts] /\ AttemptsAhead
    BY <1>1, <1>2, AttemptsSame
<1>6. StoreTyped' /\ Ahead
    BY <1>1, <1>3, <1>4, <1>5, RecordStore
<1>7. Kept
    BY <1>1 DEF Kept
<1>8. Journalled'
    BY <1>1 DEF ServedInv, Journalled
<1>9. LogTyped' /\ CommandsAtRevision' /\ Transacted'
    BY <1>1, <1>6, <1>7, LogStays
<1>10. CallsHold'
    <2>1. calls # << >> /\ calls \in Seq(Calls)
        BY <1>1 DEF Running, ServedInv, ServedTypeOK
    <2>2. calls' \in Seq(Calls) /\ \A i \in DOMAIN calls' : i \in DOMAIN calls /\ calls'[i] = calls[i]
        BY <1>1, <2>1 DEF Popped
    <2> QED
        BY <1>1, <1>6, <1>7, <2>2, CallsFewer
<1> QED
    BY <1>6, <1>8, <1>9, <1>10 DEF CommandsHold

\* Steps that leave the store alone: calls go on, end, or are lost with the host.
LEMMA QuietHolds ==
    ASSUME ServedInv, UNCHANGED <<store, log>>, host' \in Hosts,
           calls' = calls \/ calls' = << >> \/ (calls # << >> /\ calls' = Popped)
    PROVE  CommandsHold'
<1>1. prog' = prog /\ att' = att /\ ledger' = ledger /\ runtime' = runtime /\ log' = log
    BY DEF store
<1>2. /\ StoreTyped' /\ Kept /\ Ahead /\ Journalled' /\ LogTyped' /\ CommandsAtRevision' /\ Transacted'
    BY <1>1, StoreStays
<1>3. calls \in Seq(Calls)
    BY DEF ServedInv, ServedTypeOK
<1>4. calls' \in Seq(Calls) /\ \A i \in DOMAIN calls' : i \in DOMAIN calls /\ calls'[i] = calls[i]
    <2>1. CASE calls' = calls
        BY <1>3, <2>1
    <2>2. CASE calls' = << >>
        BY <2>2
    <2>3. CASE calls' = Popped /\ calls # << >>
        <3>1. Len(calls) \in Nat \ {0} /\ DOMAIN calls = 1..Len(calls)
            BY <2>3, TopIs
        <3> DEFINE n == Len(calls)
        <3>2. n - 1 \in Int /\ 1 \in Int /\ n - 1 <= n
            BY <3>1
        <3>3. \A k \in 1..(n - 1) : calls[k] \in Calls
            BY <1>3, <3>1
        <3>4. /\ SubSeq(calls, 1, n - 1) \in Seq(Calls)
              /\ Len(SubSeq(calls, 1, n - 1)) = IF 1 <= n - 1 THEN n - 1 - 1 + 1 ELSE 0
              /\ \A k \in 1..(n - 1 - 1 + 1) : SubSeq(calls, 1, n - 1)[k] = calls[1 + k - 1]
            BY <3>2, <3>3, SubSeqProperties
        <3>5. calls' \in Seq(Calls) /\ Len(calls') = n - 1 /\ \A k \in 1..(n - 1) : calls'[k] = calls[k]
            <4> DEFINE sub == SubSeq(calls, 1, n - 1)
            <4>1. calls' = sub
                BY <2>3 DEF Popped
            <4> HIDE DEF sub
            <4>2. sub \in Seq(Calls) /\ Len(sub) = n - 1 /\ \A k \in 1..(n - 1) : sub[k] = calls[k]
                <5>1. \A k \in 1..(n - 1) : 1 + k - 1 = k
                    BY <3>1
                <5>2. n - 1 - 1 + 1 = n - 1
                    BY <3>1
                <5>3. Len(sub) = n - 1
                    BY <3>1, <3>4 DEF sub
                <5> QED
                    BY <3>4, <5>1, <5>2, <5>3 DEF sub
            <4> QED
                BY <4>1, <4>2
        <3>6. DOMAIN calls' = 1..(n - 1)
            BY <3>5
        <3>7. \A k \in 1..(n - 1) : k \in 1..n
            BY <3>1
        <3> QED
            BY <3>1, <3>5, <3>6, <3>7
    <2> QED
        BY <2>1, <2>2, <2>3
<1>5. CallsHold'
    BY <1>1, <1>2, <1>4, CallsFewer
<1> QED
    BY <1>2, <1>5 DEF CommandsHold

-----------------------------------------------------------------------------
(* Readers and the notifier. *)

\* The types of a projection and of a reader, and the part of the invariant that is about them.
Projections == [producer : Nat, seq : Nat, last : {"none", "same", "changed"}]
Readers ==
    [producer : Nat, seq : Nat, current : BOOLEAN, told : {"gap", "snapshot", "nothing new", "record", "before"}]
ReadersHold == proj \in Projections /\ reader \in Readers /\ ReaderSees

\* The reader and the projection, field by field.
LEMMA ReadersDo ==
    ASSUME ServedInv
    PROVE  /\ ReadersHold /\ proj.producer \in Nat /\ proj.seq \in Nat /\ proj.last \in {"none", "same", "changed"}
           /\ reader.producer \in Nat /\ reader.seq \in Nat /\ reader.current \in BOOLEAN
           /\ reader.producer <= proj.producer
<1>1. ReadersHold
    BY DEF ServedInv, ServedTypeOK, ReadersHold, Projections, Readers
<1>2. proj.producer \in Nat /\ proj.seq \in Nat /\ proj.last \in {"none", "same", "changed"}
    BY <1>1 DEF ReadersHold, Projections
<1>3. reader.producer \in Nat /\ reader.seq \in Nat /\ reader.current \in BOOLEAN
    BY <1>1 DEF ReadersHold, Readers
<1>4. reader.producer <= proj.producer
    BY <1>1 DEF ReadersHold, ReaderSees
<1> QED
    BY <1>1, <1>2, <1>3, <1>4

\* The facts change under the reader.
LEMMA ChangedSeen ==
    ASSUME ServedInv, Changed
    PROVE  ReadersHold'
<1>1. proj \in Projections /\ reader \in Readers /\ ReaderSees
    BY ReadersDo DEF ReadersHold
<1>2. /\ proj' = [proj EXCEPT !.last = IF @ = "none" THEN "none" ELSE "changed"]
      /\ reader' = [reader EXCEPT !.current = FALSE, !.told = IF @ = "gap" THEN "gap" ELSE "before"]
    BY DEF Changed
<1>3. /\ proj' \in Projections /\ proj'.producer = proj.producer /\ proj'.seq = proj.seq
      /\ proj'.last = IF proj.last = "none" THEN "none" ELSE "changed"
    BY <1>1, <1>2 DEF Projections
<1>4. /\ reader' \in Readers /\ reader'.producer = reader.producer /\ reader'.seq = reader.seq
      /\ reader'.current = FALSE /\ reader'.told = IF reader.told = "gap" THEN "gap" ELSE "before"
    BY <1>1, <1>2 DEF Readers
<1>5. ReaderSees'
    BY <1>1, <1>3, <1>4 DEF ReaderSees
<1> QED
    BY <1>3, <1>4, <1>5 DEF ReadersHold

\* The projection after a snapshot.
LEMMA SnapshotIs ==
    ASSUME ServedInv
    PROVE  /\ Snapshot \in Projections /\ Snapshot.producer = proj.producer /\ Snapshot.last = "same"
           /\ Snapshot.seq = IF proj.last = "changed" THEN proj.seq + 1 ELSE proj.seq
           /\ Snapshot.seq \in Nat /\ proj.seq <= Snapshot.seq
           /\ reader.told # "gap" /\ reader.producer = proj.producer =>
                reader.seq <= Snapshot.seq /\ (~reader.current => reader.seq < Snapshot.seq)
<1>1. proj \in Projections /\ reader \in Readers /\ ReaderSees /\ proj.seq \in Nat /\ reader.seq \in Nat
    BY ReadersDo DEF ReadersHold
<1>2. proj.seq + 1 \in Nat
    BY <1>1
<1>3. /\ Snapshot \in Projections /\ Snapshot.producer = proj.producer /\ Snapshot.last = "same"
      /\ Snapshot.seq = IF proj.last = "changed" THEN proj.seq + 1 ELSE proj.seq
    BY <1>1, <1>2 DEF Snapshot, Projections
<1>4. Snapshot.seq \in Nat /\ proj.seq <= Snapshot.seq
    BY <1>1, <1>3
<1>5. reader.told # "gap" /\ reader.producer = proj.producer =>
         reader.seq <= proj.seq /\ (~reader.current => reader.seq < proj.seq \/ proj.last = "changed")
    BY <1>1 DEF ReaderSees
<1>6. reader.told # "gap" /\ reader.producer = proj.producer =>
         reader.seq <= Snapshot.seq /\ (~reader.current => reader.seq < Snapshot.seq)
    BY <1>1, <1>3, <1>4, <1>5
<1> QED
    BY <1>3, <1>4, <1>6

\* A snapshot for somebody else leaves the reader where it was.
LEMMA SnapshotSeen ==
    ASSUME ServedInv, proj' = Snapshot, reader' = reader
    PROVE  ReadersHold'
<1>1. reader \in Readers /\ ReaderSees
    BY ReadersDo DEF ReadersHold
<1>2. /\ proj' \in Projections /\ proj'.producer = proj.producer /\ proj'.last = "same"
      /\ reader.told # "gap" /\ reader.producer = proj.producer =>
           reader.seq <= proj'.seq /\ (~reader.current => reader.seq < proj'.seq)
    BY SnapshotIs
<1>3. ReaderSees'
    BY <1>1, <1>2 DEF ReaderSees
<1> QED
    BY <1>1, <1>2, <1>3 DEF ReadersHold

\* A reader that takes a snapshot.
LEMMA ReadSnapshotSeen ==
    ASSUME ServedInv, ReadSnapshot
    PROVE  ReadersHold'
<1>1. /\ proj' = Snapshot
      /\ reader' = [producer |-> proj.producer, seq |-> Snapshot.seq, current |-> TRUE, told |-> "snapshot"]
    BY DEF ReadSnapshot
<1>2. /\ proj' \in Projections /\ proj'.producer = proj.producer /\ proj'.last = "same" /\ proj'.seq = Snapshot.seq
      /\ Snapshot.seq \in Nat /\ proj.producer \in Nat
    BY <1>1, SnapshotIs, ReadersDo
<1>3. /\ reader'.producer = proj.producer /\ reader'.seq = Snapshot.seq /\ reader'.current = TRUE
      /\ reader'.told = "snapshot" /\ reader' \in Readers
    BY <1>1, <1>2 DEF Readers
<1>4. ReaderSees'
    BY <1>2, <1>3 DEF ReaderSees
<1> QED
    BY <1>2, <1>3, <1>4 DEF ReadersHold

\* A reader told that there is nothing new, or given a record, is where the snapshot is.
LEMMA ReadSeen ==
    ASSUME ServedInv, ReadEvents \/ ReadRecord
    PROVE  ReadersHold'
<1>1. proj' = Snapshot /\ reader.told # "gap"
    BY DEF ReadEvents, ReadRecord
<1>2. PICK told \in {"gap", "nothing new", "record"} :
         /\ reader' = [reader EXCEPT !.told = told]
         /\ told # "gap" => reader.producer = proj.producer /\ ~(reader.seq < Snapshot.seq)
    <2>1. Snapshot.producer = proj.producer
        BY SnapshotIs
    <2>2. CASE ReadEvents
        <3>1. ~Gap(reader, Snapshot) => reader.producer = proj.producer /\ ~(reader.seq < Snapshot.seq)
            BY <2>1 DEF Gap
        <3>2. reader' = [reader EXCEPT !.told = IF Gap(reader, Snapshot) \/ ~Covered THEN "gap" ELSE "nothing new"]
            BY <2>2 DEF ReadEvents
        <3>3. CASE Gap(reader, Snapshot) \/ ~Covered
            BY <3>2, <3>3
        <3>4. CASE ~(Gap(reader, Snapshot) \/ ~Covered)
            BY <3>1, <3>2, <3>4
        <3> QED
            BY <3>3, <3>4
    <2>3. CASE ReadRecord
        <3> DEFINE same == <<reader.producer, reader.seq>> = <<proj.producer, Snapshot.seq>>
        <3>1. same => reader.producer = proj.producer /\ reader.seq = Snapshot.seq
            OBVIOUS
        <3>2. reader' = [reader EXCEPT !.told = IF same THEN "record" ELSE "gap"]
            BY <2>3 DEF ReadRecord
        <3>3. Snapshot.seq \in Nat
            BY SnapshotIs
        <3>4. CASE same
            <4>1. ~(reader.seq < Snapshot.seq)
                BY <3>1, <3>3, <3>4
            <4> QED
                BY <3>1, <3>2, <3>4, <4>1
        <3>5. CASE ~same
            BY <3>2, <3>5
        <3> QED
            BY <3>4, <3>5
    <2> QED
        BY <2>2, <2>3
<1>3. reader \in Readers /\ ReaderSees
    BY ReadersDo DEF ReadersHold
<1>4. /\ reader' \in Readers /\ reader'.producer = reader.producer /\ reader'.seq = reader.seq
      /\ reader'.current = reader.current /\ reader'.told = told
    BY <1>2, <1>3 DEF Readers
<1>5. /\ proj' \in Projections /\ proj'.producer = proj.producer /\ proj'.last = "same" /\ proj'.seq = Snapshot.seq
      /\ reader.producer = proj.producer =>
           reader.seq <= Snapshot.seq /\ (~reader.current => reader.seq < Snapshot.seq)
    BY <1>1, SnapshotIs
<1>6. told # "gap" => reader.current
    BY <1>2, <1>5
<1>7. reader.producer <= proj.producer
    BY ReadersDo
<1>8. ReaderSees'
    BY <1>4, <1>5, <1>6, <1>7 DEF ReaderSees
<1> QED
    BY <1>4, <1>5, <1>8 DEF ReadersHold

\* A new host is a new producer.
LEMMA RestartSeen ==
    ASSUME ServedInv, Restart
    PROVE  ReadersHold'
<1>1. proj' = [producer |-> proj.producer + 1, seq |-> 0, last |-> "none"] /\ reader' = reader
    BY DEF Restart
<1>2. /\ reader \in Readers /\ ReaderSees /\ proj.producer \in Nat /\ reader.producer \in Nat
      /\ reader.producer <= proj.producer
    BY ReadersDo DEF ReadersHold
<1>3. proj' \in Projections /\ proj'.producer = proj.producer + 1
    BY <1>1, <1>2 DEF Projections
<1>4. reader.producer # proj'.producer /\ reader.producer <= proj'.producer
    BY <1>2, <1>3
<1>5. ReaderSees'
    BY <1>1, <1>2, <1>4 DEF ReaderSees
<1> QED
    BY <1>1, <1>2, <1>3, <1>5 DEF ReadersHold

\* Nothing happens to readers.
LEMMA ReadersStay ==
    ASSUME ServedInv, proj' = proj, reader' = reader
    PROVE  ReadersHold'
<1>1. ReadersHold
    BY ReadersDo
<1> QED
    BY <1>1 DEF ReadersHold, ReaderSees

\* A host starts with an empty memory.
LEMMA NewHostIs ==
    /\ NewHost \in Hosts /\ [NewHost EXCEPT !.up = FALSE] \in Hosts
    /\ NewHost.seen = {} /\ [NewHost EXCEPT !.up = FALSE].seen = {}
    /\ \A d \in Decisions : NewHost.sent[d] = 0 /\ [NewHost EXCEPT !.up = FALSE].sent[d] = 0
    /\ NewHost.owner.run = "none" /\ [NewHost EXCEPT !.up = FALSE].owner.run = "none"
<1>1. NoSession \in Sessions
    BY DEF NoSession, Sessions
<1>2. NewHost = [up |-> TRUE, worker |-> NoSession, owner |-> NoSession, handoffs |-> {},
                 seen |-> {}, sent |-> [d \in Decisions |-> 0], dropped |-> FALSE]
    BY DEF NewHost
<1>3. NewHost \in Hosts
    BY <1>1, <1>2 DEF Hosts
<1>4. NewHost.seen = {} /\ NewHost.sent = [d \in Decisions |-> 0]
    BY <1>2
<1>5. [NewHost EXCEPT !.up = FALSE] \in Hosts
    BY <1>3 DEF Hosts
<1>6. /\ [NewHost EXCEPT !.up = FALSE].seen = NewHost.seen /\ [NewHost EXCEPT !.up = FALSE].sent = NewHost.sent
      /\ [NewHost EXCEPT !.up = FALSE].owner = NewHost.owner
    BY <1>3 DEF Hosts
<1>7. NewHost.owner.run = "none"
    BY <1>2 DEF NoSession
<1> QED
    BY <1>3, <1>4, <1>5, <1>6, <1>7

\* What the host's memory knows of what was announced, and of the managed process.
MemoryHolds == SentSeen /\ NoneLost

\* The notifier's memory is left alone, and no process is forgotten.
MemoryKept ==
    /\ host'.seen = host.seen /\ host'.sent = host.sent
    /\ ~KillMayHang /\ host.owner.run # "lost" => host'.owner.run # "lost"

\* That keeps the memory.
LEMMA MemoryStays ==
    ASSUME ServedInv, MemoryKept
    PROVE  MemoryHolds'
BY DEF ServedInv, SentSeen, NoneLost, MemoryHolds, MemoryKept

\* A write leaves the notifier alone.
LEMMA WritesRemember ==
    ASSUME ServedInv, Writes
    PROVE  MemoryHolds'
<1>1. host \in Hosts
    BY StoreParts
<1>2. \/ host' = host
      \/ host' = [host EXCEPT !.owner.run = IF @ = "idle" THEN "held" ELSE @]
      \/ KillMayHang /\ host' = [host EXCEPT !.owner.run = "lost"]
      \/ host' = [host EXCEPT !.owner.spec = prog.spec + 1]
      \/ host' = [host EXCEPT !.handoffs = @ \cup {Top.req.key}]
    <2>1. CASE \E r \in Requests[prog.mode] : BeginOwner(r)
        BY <2>1 DEF BeginOwner
    <2>2. CASE Journal \/ StepClaim \/ StepPrepare \/ StepStart
        BY <2>2 DEF Journal, StepClaim, StepPrepare, StepStart
    <2>3. CASE StepRecord \/ StepReconcile \/ StepFinish \/ StepAsk \/ StepJudge \/ StepStop
        BY <2>3 DEF StepRecord, StepReconcile, StepFinish, StepAsk, StepJudge, StepStop
    <2>4. CASE StepDispatch \/ StepRetire
        BY <2>4 DEF StepDispatch, StepRetire, CloseHangs
    <2>5. CASE StepApprove
        BY <2>5 DEF StepApprove
    <2>6. CASE Record
        BY <2>6 DEF Record
    <2>7. CASE OtherDecision \/ ReviewResolves \/ DeadlinePasses
        BY <2>7 DEF OtherDecision, ReviewResolves, DeadlinePasses
    <2> QED
        BY <2>1, <2>2, <2>3, <2>4, <2>5, <2>6, <2>7 DEF Writes
<1>3. MemoryKept
    <2>1. CASE host' = host
        BY <2>1 DEF MemoryKept
    <2>2. CASE host' = [host EXCEPT !.owner.run = IF @ = "idle" THEN "held" ELSE @]
        BY <1>1, <2>2 DEF MemoryKept, Hosts, Sessions
    <2>3. CASE KillMayHang /\ host' = [host EXCEPT !.owner.run = "lost"]
        BY <1>1, <2>3 DEF MemoryKept, Hosts, Sessions
    <2>4. CASE host' = [host EXCEPT !.owner.spec = prog.spec + 1]
        BY <1>1, <2>4 DEF MemoryKept, Hosts, Sessions
    <2>5. CASE host' = [host EXCEPT !.handoffs = @ \cup {Top.req.key}]
        BY <1>1, <2>5 DEF MemoryKept, Hosts
    <2> QED
        BY <1>2, <2>1, <2>2, <2>3, <2>4, <2>5
<1> QED
    BY <1>3, MemoryStays

\* A write keeps what is about commands.
LEMMA WritesHold ==
    ASSUME ServedInv, Writes
    PROVE  CommandsHold'
<1>1. CASE \E r \in Requests[prog.mode] : BeginOwner(r)
    BY <1>1, BeginOwnerHolds DEF Sent
<1>2. CASE Journal
    BY <1>2, JournalHolds
<1>3. CASE StepClaim \/ StepPrepare \/ StepStart
    BY <1>3, ClaimCommits, PrepareCommits, StartCommits, CommittedHolds
<1>4. CASE StepRecord \/ StepReconcile
    BY <1>4, RecordCommits, CommittedHolds
<1>5. CASE StepFinish
    BY <1>5, FinishCommits, FinishAgainHolds, CommittedHolds
<1>6. CASE StepJudge \/ StepStop \/ StepApprove
    BY <1>6, JudgeCommits, StopCommits, ApproveCommits, CommittedHolds
<1>7. CASE Record
    BY <1>7, RecordHolds
<1>8. CASE OtherDecision \/ ReviewResolves \/ StepAsk
    BY <1>8, OthersHold
<1>10. CASE StepDispatch \/ StepRetire
    BY <1>10, HangHolds, DispatchCommits, RetireCommits, CommittedHolds
<1>9. CASE DeadlinePasses
    <2>1. UNCHANGED <<store, log>> /\ host' = host /\ calls' = calls
        BY <1>9 DEF DeadlinePasses
    <2>2. host' \in Hosts
        BY <2>1, StoreParts
    <2> QED
        BY <2>1, <2>2, QuietHolds
<1> QED
    BY <1>1, <1>2, <1>3, <1>4, <1>5, <1>6, <1>7, <1>8, <1>9, <1>10 DEF Writes

\* What a session, an answer or a notification does to the host's memory.
LEMMA OpenSessionHost ==
    ASSUME ServedInv, NEW s \in {"worker", "owner"}, OpenSession(s)
    PROVE  host' \in Hosts /\ MemoryKept
<1>1. host \in Hosts /\ prog.spec \in Nat
    BY StoreParts
<1>2. PICK b \in Claims \cup {NoClaim}, m \in {"none", "idle"} :
         host' = [host EXCEPT ![s] = [open |-> TRUE, spec |-> prog.spec, bound |-> b, run |-> m],
                              !.handoffs = IF s = "worker" THEN {} ELSE @]
    BY DEF OpenSession
<1> DEFINE new == [open |-> TRUE, spec |-> prog.spec, bound |-> b, run |-> m]
<1>3. new \in Sessions /\ new.run # "lost"
    BY <1>1 DEF Sessions
<1> HIDE DEF new
<1>4. CASE s = "worker"
    <2>1. host' = [host EXCEPT !.worker = new, !.handoffs = {}]
        BY <1>2, <1>4 DEF new
    <2> QED
        BY <1>1, <1>3, <2>1 DEF Hosts, MemoryKept
<1>5. CASE s = "owner"
    <2>1. host' = [host EXCEPT !.owner = new, !.handoffs = @]
        BY <1>2, <1>5 DEF new
    <2>2. host' \in Hosts /\ host'.seen = host.seen /\ host'.sent = host.sent /\ host'.owner = new
        BY <1>1, <1>3, <2>1 DEF Hosts
    <2> QED
        BY <1>3, <2>2 DEF MemoryKept
<1> QED
    BY <1>4, <1>5

\* A repeated claim gets its handoff back.
LEMMA RepeatHost ==
    ASSUME ServedInv, NEW req \in Sent, Repeat(req), req.action # "report"
    PROVE  host' \in Hosts /\ MemoryKept
<1>1. host \in Hosts /\ prog \in Programs
    BY StoreParts
<1>2. host' = IF req.action = "claim" /\ ledger[Op(req)].receipt # "none"
              THEN [host EXCEPT !.handoffs = @ \cup {req.key}] ELSE host
    BY DEF Repeat
<1>3. req.action = "claim" => req.key \in Claims
    <2>1. prog.mode \in Modes
        BY <1>1 DEF Programs
    <2> QED
        BY <2>1, SentAre
<1> QED
    BY <1>1, <1>2, <1>3 DEF Hosts, MemoryKept

\* Each decision is sent once.
LEMMA PublishHost ==
    ASSUME ServedInv, Publish
    PROVE  host' \in Hosts /\ MemoryHolds'
<1>1. host \in Hosts
    BY StoreParts
<1>2. host.seen \subseteq Decisions /\ host.sent \in [Decisions -> Nat] /\ host.dropped \in BOOLEAN
    BY <1>1 DEF Hosts
<1>3. PICK sent \in SUBSET (Pending \ host.seen) :
         host' = [host EXCEPT !.seen = @ \cup sent,
                              !.sent = [d \in Decisions |-> IF d \in sent THEN @[d] + 1 ELSE @[d]],
                              !.dropped = @ \/ sent # Pending \ host.seen]
    BY DEF Publish
<1>4. sent \subseteq Decisions /\ \A d \in sent : d \notin host.seen
    BY <1>3 DEF Pending
<1> DEFINE counts == [d \in Decisions |-> IF d \in sent THEN host.sent[d] + 1 ELSE host.sent[d]]
           less == host.dropped \/ sent # Pending \ host.seen
<1>5. counts \in [Decisions -> Nat] /\ less \in BOOLEAN
    BY <1>2
<1>6. host' = [host EXCEPT !.seen = host.seen \cup sent, !.sent = counts, !.dropped = less]
    BY <1>3
<1>7. \A d \in Decisions : counts[d] = IF d \in sent THEN host.sent[d] + 1 ELSE host.sent[d]
    OBVIOUS
<1> HIDE DEF counts, less
<1>8. host' \in Hosts
    BY <1>1, <1>2, <1>4, <1>5, <1>6 DEF Hosts
<1>9. host'.seen = host.seen \cup sent /\ host'.sent = counts /\ host'.owner = host.owner
    BY <1>1, <1>6 DEF Hosts
<1>10. SentSeen'
    <2>1. \A d \in Decisions : host.sent[d] = (IF d \in host.seen THEN 1 ELSE 0)
        BY DEF ServedInv, SentSeen
    <2>2. \A d \in Decisions : host'.sent[d] = (IF d \in host'.seen THEN 1 ELSE 0)
        BY <1>4, <1>7, <1>9, <2>1
    <2> QED
        BY <2>2 DEF SentSeen
<1>11. NoneLost'
    BY <1>9 DEF ServedInv, NoneLost
<1> QED
    BY <1>8, <1>10, <1>11 DEF MemoryHolds

\* The parts of the invariant are all of it.
LEMMA ServedParts ==
    ASSUME CommandsHold', ReadersHold', MemoryHolds'
    PROVE  ServedInv'
<1>1. ServedTypeOK'
    BY DEF CommandsHold, StoreTyped, LogTyped, CallsHold, ReadersHold, ServedTypeOK, Programs, Hosts, Projections, Readers
<1> QED
    BY <1>1 DEF CommandsHold, CallsHold, ReadersHold, MemoryHolds, ServedInv

-----------------------------------------------------------------------------
(* The invariant, step by step. *)

\* Steps that leave the store alone keep the invariant.
LEMMA QuietNext ==
    ASSUME ServedInv, UNCHANGED <<store, log>>, host' \in Hosts, MemoryHolds', ReadersHold',
           calls' = calls \/ calls' = << >> \/ (calls # << >> /\ calls' = Popped)
    PROVE  ServedInv'
<1>1. CommandsHold'
    BY QuietHolds
<1> QED
    BY <1>1, ServedParts

\* A report, whether it is new or repeated, is announced.
LEMMA AnnounceKeeps ==
    ASSUME ServedInv, Announce, UNCHANGED <<store, log>>, reader' = reader,
           calls' = calls \/ (calls # << >> /\ calls' = Popped)
    PROVE  ServedInv'
<1>1. Publish /\ proj' = Snapshot
    BY DEF Announce
<1>2. host' \in Hosts /\ MemoryHolds'
    BY <1>1, PublishHost
<1>3. ReadersHold'
    BY <1>1, SnapshotSeen
<1> QED
    BY <1>2, <1>3, QuietNext

\* An answer goes out.
LEMMA ReplyKeeps ==
    ASSUME ServedInv, Reply
    PROVE  ServedInv'
<1>1. UNCHANGED <<store, log>> /\ reader' = reader /\ calls # << >> /\ calls' = Popped
    BY DEF Reply, Running
<1>2. CASE Top.req.action = "report"
    <2>1. Announce
        BY <1>2 DEF Reply
    <2> QED
        BY <1>1, <2>1, AnnounceKeeps
<1>3. CASE Top.req.action # "report"
    <2>1. host' = host /\ proj' = proj
        BY <1>3 DEF Reply
    <2>2. host' \in Hosts
        BY <2>1, StoreParts
    <2>3. MemoryHolds'
        BY <2>1, MemoryStays DEF MemoryKept
    <2>4. ReadersHold'
        BY <1>1, <2>1, ReadersStay
    <2> QED
        BY <1>1, <2>2, <2>3, <2>4, QuietNext
<1> QED
    BY <1>2, <1>3

\* A crash and a restart.
LEMMA HostKeeps ==
    ASSUME ServedInv, Crash \/ Restart
    PROVE  ServedInv'
<1>1. UNCHANGED <<store, log>> /\ reader' = reader /\ (calls' = calls \/ calls' = << >>)
    BY DEF Crash, Restart
<1>2. host' \in {NewHost, [NewHost EXCEPT !.up = FALSE]}
    BY DEF Crash, Restart
<1>3. host' \in Hosts /\ host'.seen = {} /\ host'.owner.run = "none"
      /\ \A d \in Decisions : host'.sent[d] = 0
    BY <1>2, NewHostIs
<1>4. MemoryHolds'
    BY <1>3 DEF MemoryHolds, SentSeen, NoneLost
<1>5. ReadersHold'
    <2>1. CASE Crash
        <3>1. proj' = proj
            BY <2>1 DEF Crash
        <3> QED
            BY <1>1, <3>1, ReadersStay
    <2>2. CASE Restart
        BY <2>2, RestartSeen
    <2> QED
        BY <2>1, <2>2
<1> QED
    BY <1>1, <1>3, <1>4, <1>5, QuietNext

\* Reads.
LEMMA ReadsKeep ==
    ASSUME ServedInv, ReadSnapshot \/ OtherSnapshot \/ ReadEvents \/ ReadRecord
    PROVE  ServedInv'
<1>1. UNCHANGED <<store, log>> /\ host' = host /\ calls' = calls
    BY DEF ReadSnapshot, OtherSnapshot, ReadEvents, ReadRecord
<1>2. host' \in Hosts
    BY <1>1, StoreParts
<1>3. MemoryHolds'
    BY <1>1, MemoryStays DEF MemoryKept
<1>4. ReadersHold'
    <2>1. CASE OtherSnapshot
        <3>1. proj' = Snapshot /\ reader' = reader
            BY <2>1 DEF OtherSnapshot
        <3> QED
            BY <3>1, SnapshotSeen
    <2>2. CASE ReadSnapshot
        BY <2>2, ReadSnapshotSeen
    <2>3. CASE ReadEvents \/ ReadRecord
        BY <2>3, ReadSeen
    <2> QED
        BY <2>1, <2>2, <2>3
<1> QED
    BY <1>1, <1>2, <1>3, <1>4, QuietNext

\* Frames that write nothing, and those that are refused.
LEMMA FramesKeep ==
    ASSUME ServedInv,
           \/ \E s \in {"worker", "owner"} : OpenSession(s)
           \/ \E r \in Requests[prog.mode] : BeginWorker(r) \/ Repeat(r)
           \/ CallRefused
    PROVE  ServedInv'
<1>1. CASE \E s \in {"worker", "owner"} : OpenSession(s)
    <2>1. PICK s \in {"worker", "owner"} : OpenSession(s)
        BY <1>1
    <2>2. UNCHANGED <<store, log>> /\ proj' = proj /\ reader' = reader /\ calls' = calls
        BY <2>1 DEF OpenSession
    <2>3. host' \in Hosts /\ MemoryKept
        BY <2>1, OpenSessionHost
    <2>4. MemoryHolds' /\ ReadersHold'
        BY <2>2, <2>3, MemoryStays, ReadersStay
    <2> QED
        BY <2>2, <2>3, <2>4, QuietNext
<1>2. CASE \E r \in Requests[prog.mode] : Repeat(r)
    <2>1. PICK r \in Sent : Repeat(r)
        BY <1>2 DEF Sent
    <2>2. UNCHANGED <<store, log>> /\ reader' = reader /\ calls' = calls
        BY <2>1 DEF Repeat
    <2>3. CASE r.action = "report"
        <3>1. Announce
            BY <2>1, <2>3 DEF Repeat
        <3> QED
            BY <2>2, <3>1, AnnounceKeeps
    <2>4. CASE r.action # "report"
        <3>1. proj' = proj
            BY <2>1, <2>4 DEF Repeat
        <3>2. host' \in Hosts /\ MemoryKept
            BY <2>1, <2>4, RepeatHost
        <3>3. MemoryHolds' /\ ReadersHold'
            BY <2>2, <3>1, <3>2, MemoryStays, ReadersStay
        <3> QED
            BY <2>2, <3>2, <3>3, QuietNext
    <2> QED
        BY <2>3, <2>4
<1>3. CASE \E r \in Requests[prog.mode] : BeginWorker(r)
    <2>1. PICK r \in Sent : BeginWorker(r)
        BY <1>3 DEF Sent
    <2>2. CommandsHold'
        BY <2>1, BeginWorkerHolds
    <2>3. host' = host /\ proj' = proj /\ reader' = reader
        BY <2>1 DEF BeginWorker
    <2>4. MemoryHolds' /\ ReadersHold'
        BY <2>3, MemoryStays, ReadersStay DEF MemoryKept
    <2> QED
        BY <2>2, <2>4, ServedParts
<1>4. CASE CallRefused
    <2>1. UNCHANGED <<store, log>> /\ host' = host /\ proj' = proj /\ reader' = reader /\ calls # << >> /\ calls' = Popped
        BY <1>4 DEF CallRefused
    <2>2. host' \in Hosts
        BY <2>1, StoreParts
    <2>3. MemoryHolds' /\ ReadersHold'
        BY <2>1, MemoryStays, ReadersStay DEF MemoryKept
    <2> QED
        BY <2>1, <2>2, <2>3, QuietNext
<1> QED
    BY <1>1, <1>2, <1>3, <1>4

\* The invariant holds at first.
LEMMA ServedInvInit == ServedInit => ServedInv
<1> SUFFICES ASSUME ServedInit
             PROVE  ServedInv
    OBVIOUS
<1>1. PICK m \in Modes : prog = [rev |-> -1, spec |-> 0, status |-> "absent", mode |-> m, other |-> 0]
    BY DEF ServedInit
<1>2. /\ att = [k \in Claims |-> [status |-> "none", spec |-> 0, of |-> NoClaim, review |-> "none"]]
      /\ ledger = << >> /\ runtime = "none" /\ host = NewHost
      /\ proj = [producer |-> 1, seq |-> 0, last |-> "none"] /\ calls = << >>
      /\ reader = [producer |-> 0, seq |-> 0, current |-> FALSE, told |-> "gap"] /\ log = {}
    BY DEF ServedInit
<1>3. prog \in Programs
    BY <1>1 DEF Programs
<1>4. att \in [Claims -> Attempts]
    <2>1. [status |-> "none", spec |-> 0, of |-> NoClaim, review |-> "none"] \in Attempts
        BY DEF Attempts
    <2> QED
        BY <1>2, <2>1
<1>5. DOMAIN ledger = {} /\ ledger \in [DOMAIN ledger -> [exact : Exacts, receipt : Results \cup {"none"}]]
    BY <1>2
<1>6. host \in Hosts
    BY <1>2, NewHostIs
<1>7. proj \in Projections /\ reader \in Readers
    BY <1>2 DEF Projections, Readers
<1>8. calls \in Seq(Calls) /\ DOMAIN calls = {}
    BY <1>2
<1>9. IsFiniteSet(log)
    BY <1>2, FS_EmptySet
<1>10. ServedTypeOK
    BY <1>2, <1>3, <1>4, <1>5, <1>6, <1>7, <1>8, <1>9 DEF ServedTypeOK, Programs, Hosts, Projections, Readers
<1>11. CommandsAtRevision /\ Transacted
    BY <1>2 DEF CommandsAtRevision, Transacted
<1>12. Journalled
    BY <1>5 DEF Journalled
<1>13. FramesOK /\ CallsNest
    BY <1>8 DEF FramesOK, CallsNest
<1>14. ReaderSees
    BY <1>2 DEF ReaderSees
<1>15. SentSeen /\ NoneLost
    BY <1>2, NewHostIs DEF SentSeen, NoneLost
<1> QED
    BY <1>10, <1>11, <1>12, <1>13, <1>14, <1>15 DEF ServedInv

\* Every step keeps it.
LEMMA ServedInvNext == ServedInv /\ [ServedNext]_servedVars => ServedInv'
<1> SUFFICES ASSUME ServedInv, [ServedNext]_servedVars
             PROVE  ServedInv'
    OBVIOUS
<1>1. CASE Writes /\ Changed
    <2>1. CommandsHold' /\ ReadersHold' /\ MemoryHolds'
        BY <1>1, WritesHold, ChangedSeen, WritesRemember
    <2> QED
        BY <2>1, ServedParts
<1>2. CASE Reply
    BY <1>2, ReplyKeeps
<1>3. CASE \/ \E s \in {"worker", "owner"} : OpenSession(s)
           \/ \E r \in Requests[prog.mode] : BeginWorker(r) \/ Repeat(r)
           \/ CallRefused
    BY <1>3, FramesKeep
<1>4. CASE ReadSnapshot \/ OtherSnapshot \/ ReadEvents \/ ReadRecord
    BY <1>4, ReadsKeep
<1>5. CASE Crash \/ Restart
    BY <1>5, HostKeeps
<1>6. CASE UNCHANGED servedVars
    <2>1. UNCHANGED <<store, log>> /\ host' = host /\ proj' = proj /\ reader' = reader /\ calls' = calls
        BY <1>6 DEF servedVars, store
    <2>2. host' \in Hosts
        BY <2>1, StoreParts
    <2>3. MemoryHolds' /\ ReadersHold'
        BY <2>1, MemoryStays, ReadersStay DEF MemoryKept
    <2> QED
        BY <2>1, <2>2, <2>3, QuietNext
<1> QED
    BY <1>1, <1>2, <1>3, <1>4, <1>5, <1>6 DEF ServedNext

\* Whatever frames, callbacks, crashes and repetitions do, the journal, the transactions, the calls under way,
\* the readers and the notifier agree: the strengthening that the properties of the served surface rest on.
THEOREM ServedInvariant == ServedSpec => []ServedInv
<1> QED
    BY ServedInvInit, ServedInvNext, PTL DEF ServedSpec

\* Every transaction of a served command was journalled first, happened once, and found the revision its caller
\* named, advanced by that command's own decisions only (expected_revision in served_local.py).
THEOREM CommandsRunAtTheirRevision == ServedSpec => []CommandsAtRevision
<1>1. ServedInv => CommandsAtRevision
    BY DEF ServedInv
<1> QED
    BY <1>1, ServedInvariant, PTL

-----------------------------------------------------------------------------
(* Answers and observers. *)

\* What each step may tell clients.
TrueAnswer ==
    /\ answer'.value # "unknown" =>
         /\ ledger'[answer'.op] = [exact |-> answer'.exact, receipt |-> answer'.value]
         /\ LET steps == Steps[answer'.exact.req.action]
            IN  \E e \in log' : e.op = answer'.op /\ e.step = steps[Len(steps)] /\ e.result = answer'.value
    /\ \A o \in DOMAIN ledger' : ledger'[o].receipt = "settled" /\ ~KillMayHang => runtime' = "gone"

\* What each step may tell observers.
Informed ==
    /\ reader'.told \in {"nothing new", "record"} => reader'.current
    /\ \A d \in Decisions : host'.sent[d] <= 1

\* A receipt in the journal is the result of its command's last transaction.
LEMMA ReceiptIs ==
    ASSUME ServedInv, NEW op \in DOMAIN ledger
    PROVE  /\ ledger[op] = [exact |-> ledger[op].exact, receipt |-> ledger[op].receipt]
           /\ ledger[op].receipt # "none" => InLog(log, op, LastStep(ledger[op].exact.req), ledger[op].receipt)
           /\ ledger[op].receipt = "settled" /\ ~KillMayHang => runtime = "gone"
<1>1. ledger[op] \in [exact : Exacts, receipt : Results \cup {"none"}]
    BY DEF ServedInv, ServedTypeOK
<1>2. ledger[op] = [exact |-> ledger[op].exact, receipt |-> ledger[op].receipt]
    BY <1>1
<1>3. ledger[op].receipt # "none" => InLog(log, op, LastStep(ledger[op].exact.req), ledger[op].receipt)
    BY DEF ServedInv, Journalled
<1>4. ledger[op].receipt = "settled" /\ ~KillMayHang => runtime = "gone"
    BY <1>3 DEF InLog, ServedInv, Transacted
<1> QED
    BY <1>2, <1>3, <1>4

\* No receipt of a settlement is in a journal whose managed process lives, if each wait returns in time.
SettledGone == \A o \in DOMAIN ledger : ledger[o].receipt = "settled" /\ ~KillMayHang => runtime = "gone"

\* A state that satisfies the invariant has no such receipt.
LEMMA SettlementsHold == ServedInv => SettledGone
BY ReceiptIs DEF SettledGone

\* What a step tells a client.
LEMMA ToldTrue ==
    ASSUME ServedInv, ServedNext, answer'.value # "unknown"
    PROVE  /\ ledger'[answer'.op] = [exact |-> answer'.exact, receipt |-> answer'.value]
           /\ LET steps == Steps[answer'.exact.req.action]
              IN  \E e \in log' : e.op = answer'.op /\ e.step = steps[Len(steps)] /\ e.result = answer'.value
<1>1. ~Silent
    BY DEF Silent, NoAnswer
<1>2. CASE Reply
    <2>1. calls # << >> /\ Top.pc = "reply" /\ Tell(Top, Top.result) /\ ledger' = ledger /\ log' = log
        BY <1>1, <1>2 DEF Reply, Running, store
    <2>2. FrameOK(Top, prog, att, ledger, log)
        BY <2>1, TopIs
    <2> DEFINE op == Op(Top.req)
    <2>3. /\ op \in DOMAIN ledger /\ ledger[op].exact = Top.exact /\ ledger[op].receipt = Top.result
          /\ Top.exact.req = Top.req
        BY <2>1, <2>2 DEF FrameOK
    <2>4. InLog(log, op, Steps[Top.req.action][Len(Steps[Top.req.action])], Top.result)
        BY <2>1, <2>2 DEF FrameOK
    <2>5. answer'.op = op /\ answer'.exact = Top.exact /\ answer'.value = Top.result
        BY <2>1 DEF Tell
    <2>6. ledger[op] = [exact |-> ledger[op].exact, receipt |-> ledger[op].receipt]
        BY <2>3, ReceiptIs
    <2> HIDE DEF op
    <2> QED
        BY <2>1, <2>3, <2>4, <2>5, <2>6 DEF InLog
<1>3. CASE \E r \in Requests[prog.mode] : Repeat(r)
    <2>1. PICK r \in Sent : Repeat(r)
        BY <1>3 DEF Sent
    <2> DEFINE op == Op(r)
               known == ledger[op].receipt
    <2>2. /\ op \in DOMAIN ledger /\ ledger[op].exact = Exact(r) /\ ledger' = ledger /\ log' = log
          /\ Tell(NewCall(r, "reply"), IF known = "none" THEN "unknown" ELSE known)
        BY <2>1 DEF Repeat, SameInput, store
    <2>3. NewCall(r, "reply").req = r /\ NewCall(r, "reply").exact = Exact(r)
        BY NewCallIs
    <2>4. /\ answer'.op = op /\ answer'.exact = Exact(r)
          /\ answer'.value = IF known = "none" THEN "unknown" ELSE known
        BY <2>2, <2>3 DEF Tell
    <2>5. known # "none" /\ answer'.value = known
        BY <2>4
    <2>6. /\ ledger[op] = [exact |-> ledger[op].exact, receipt |-> known]
          /\ InLog(log, op, LastStep(ledger[op].exact.req), known)
        BY <2>2, <2>5, ReceiptIs
    <2> HIDE DEF op, known
    <2> QED
        BY <2>2, <2>4, <2>5, <2>6 DEF InLog, LastStep
<1> QED
    BY <1>1, <1>2, <1>3 DEF ServedNext

\* A client is told the one receipt of exactly its request, of a command whose last transaction happened, or
\* "unknown"; and if the wait after SIGKILL returns in time, a settled STOP left no managed process.
THEOREM AnswersAreTrue == ServedSpec => AnswersTrue
<1>1. ServedInv /\ SettledGone' /\ [ServedNext]_servedVars => [TrueAnswer]_servedVars
    BY ToldTrue DEF SettledGone, TrueAnswer
<1>2. ServedInv => SettledGone
    BY SettlementsHold
<1>3. ServedSpec => [][TrueAnswer]_servedVars
    BY <1>1, <1>2, ServedInvariant, PTL DEF ServedSpec
<1> QED
    BY <1>3 DEF AnswersTrue, TrueAnswer

\* The same, of a state.
ToldOnce == (reader.told \in {"nothing new", "record"} => reader.current) /\ \A d \in Decisions : host.sent[d] <= 1

\* A reader told that nothing is new, or given a record, holds the facts of the store, and no decision is
\* announced twice by one host, whichever reports are repeated.
THEOREM ObserversAreInformed == ServedSpec => ObserversInformed
<1>1. ServedInv => ToldOnce
    <2> SUFFICES ASSUME ServedInv
                 PROVE  ToldOnce
        OBVIOUS
    <2>1. reader.told \in {"nothing new", "record"} => reader.current
        BY DEF ServedInv, ReaderSees
    <2>2. \A d \in Decisions : host.sent[d] = (IF d \in host.seen THEN 1 ELSE 0)
        BY DEF ServedInv, SentSeen
    <2>3. \A d \in Decisions : host.sent[d] <= 1
        BY <2>2
    <2> QED
        BY <2>1, <2>3 DEF ToldOnce
<1>2. ToldOnce' => Informed
    BY DEF ToldOnce, Informed
<1>3. ServedSpec => [][Informed]_servedVars
    BY <1>1, <1>2, ServedInvariant, PTL DEF ServedSpec
<1> QED
    BY <1>3 DEF ObserversInformed, Informed

=============================================================================
