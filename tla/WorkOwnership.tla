--------------------------- MODULE WorkOwnership ---------------------------
(***************************************************************************)
(* Ownership of the workspaces and other resources that work is done in    *)
(* (adapters/sqlite_store.py, lines 1271-2660 and 3122-3300; ports/        *)
(* ownership.py; core/ownership.py; adapters/owned_workspace.py).          *)
(*                                                                         *)
(* A command prepares one Attempt.  A "pull" or "managed" command claims   *)
(* its resources as well, and keeps them until it is released: neither the *)
(* expiry of the claim nor the end of the Attempt frees them.  A "generic" *)
(* command only names its workspace, and holds it until a trusted witness  *)
(* settled all its effects.  The workspace itself is a directory that the  *)
(* worker, and anybody else, may change at any moment; the store learns of *)
(* its bytes only by capturing them.                                       *)
(***************************************************************************)
EXTENDS Integers, Sequences, FiniteSets, SequencesExt

CONSTANTS
    Commands,     \* claim_work() commands, each preparing an Attempt of its own
    Mode,         \* Mode[c]: "pull", "managed" or "generic"
    UnitOf,       \* UnitOf[c]: the WorkUnit of the Attempt
    Workspace,    \* Workspace[c]: the workspace among its resources
    Scopes,       \* Scopes[c]: all its resources
    Overlap,      \* the pairs of resources that conflict
    Effects,      \* the Operations of an Attempt besides its run
    MaxMoves,     \* bound on the Attempts prepared, the changes and the moves of a workspace, together
    None

ASSUME OwnershipAssumption ==
    /\ IsFiniteSet(Commands)
    /\ Mode \in [Commands -> {"pull", "managed", "generic"}]
    /\ \A c \in Commands : Workspace[c] \in Scopes[c]
    /\ \A c \in Commands : Mode[c] = "generic" => Scopes[c] = {Workspace[c]}
    /\ \A c, d \in Commands : \A r \in Scopes[c], s \in Scopes[d] :
          /\ <<r, s>> \in Overlap => <<s, r>> \in Overlap
          /\ r = s => <<r, s>> \in Overlap
          /\ r = Workspace[c] /\ <<r, s>> \in Overlap => s = Workspace[d]  \* other kinds of resources do not
    /\ Effects \subseteq {"check", "publish"} /\ None \notin {"run", "check", "publish"}
    /\ MaxMoves \in Nat

VARIABLES
    attempt,      \* attempt[c]: status of the Attempt that c prepared
    satisfied,    \* the WorkUnits that are satisfied
    accepted,     \* accepted[c]: the bytes on which c's Attempt satisfied its unit
    generation,   \* generation[c]: 0 until c is claimed
    base,         \* base[c]: workspace_subject of the claim
    proofs,       \* ownership-proof: <<c, stage>>
    observed,     \* observed[c]: ownership-observation in their order
    prepared,     \* prepared[c]: the subject the controller materialized
    vouched,      \* vouched[c]: ownership-reconcile and ownership-prepared subjects
    candidate,    \* candidate[c]: ownership-candidate
    released,     \* ownership-release
    unknown,      \* ownership-unknown: quarantined
    ops,          \* ops[<<c, e>>]: the journal's view of an Operation
    witnessed,    \* <<c, e>> with a trusted-profile ownership-settlement
    granted,      \* granted[c]: the subject of the ownership-publication
    lapsed,       \* the commands whose Attempt has no authority any more
    call,         \* memory: the call under way
    place,        \* disk: where a workspace directory is
    content,      \* content[w]: the version of its bytes
    empty,        \* the empty workspaces
    receipt,      \* receipt[w]: the retirement witness
    busy,         \* <<c, e>> that somebody is physically working on
    published     \* history: <<c, subject>> of the publications sent

domainVars == <<attempt, satisfied, accepted>>
claimVars == <<generation, base, released, unknown>>
proofVars == <<proofs, observed, prepared, vouched, candidate>>
effectVars == <<ops, witnessed, granted, published>>
diskVars == <<place, content, empty, receipt>>
vars == <<domainVars, claimVars, proofVars, effectVars, lapsed, call, diskVars, busy>>

Workspaces == {Workspace[c] : c \in Commands}
AllEffects == {"run"} \cup Effects
Owned(c) == generation[c] > 0

Init ==
    /\ attempt = [c \in Commands |-> "none"] /\ satisfied = {}
    /\ accepted = [c \in Commands |-> None]
    /\ generation = [c \in Commands |-> 0]
    /\ base = [c \in Commands |-> None]
    /\ proofs = {} /\ released = {} /\ unknown = {}
    /\ observed = [c \in Commands |-> << >>] /\ vouched = [c \in Commands |-> {}]
    /\ candidate = [c \in Commands |-> None] /\ prepared = [c \in Commands |-> None]
    /\ ops = [p \in Commands \X AllEffects |-> "none"] /\ witnessed = {}
    /\ granted = [c \in Commands |-> None]
    /\ lapsed = {}
    /\ call = None
    /\ place = [w \in Workspaces |-> "there"] /\ content = [w \in Workspaces |-> 0]
    /\ empty = Workspaces /\ receipt = [w \in Workspaces |-> None]
    /\ busy = {} /\ published = {}

-----------------------------------------------------------------------------
(* The guards. *)

Conflicts(c, d) == \E r \in Scopes[c], s \in Scopes[d] : <<r, s>> \in Overlap

\* A "complete" or a "stop" proof: the code treats them alike.
Settled(c) == <<c, "end">> \in proofs

\* _generic_resource_settled() and _resource_settled(): a trusted settlement of
\* every reserved effect but one.
Witnessed(c, except) ==
    \A e \in AllEffects \ {except} : ops[<<c, e>>] # "none" => <<c, e>> \in witnessed

\* _original_workspace_retired(): the receipt of an rmdir of bytes known to c.
Retired(c) ==
    LET r == receipt[Workspace[c]] IN r # None /\ (r = base[c] \/ r \in vouched[c])

\* A claim holds its resources until its release, whatever else ends.
Holds(c) == Owned(c) /\ c \notin released

\* Mutant: an Attempt that ended retains its workspace no longer.
RetainedWhileLive ==
    {c \in Commands : /\ attempt[c] \in {"prepared", "executing"}
                      /\ IF Owned(c) THEN Holds(c) ELSE ~Witnessed(c, None)}

\* _retained_workspaces(): the Attempts that still hold their workspace.
Retained ==
    {c \in Commands : /\ attempt[c] # "none"
                      /\ IF Owned(c) THEN Holds(c) ELSE ~Witnessed(c, None)}

\* _check_retained_workspace_work(): any retained workspace that cannot be
\* identified any more, whoever holds it, stops the decision.
Vacant(c) ==
    \A d \in Retained \ {c} :
        /\ <<Workspace[c], Workspace[d]>> \notin Overlap
        /\ place[Workspace[d]] = "there" \/ (Owned(d) /\ place[Workspace[d]] = "gone" /\ Retired(d))

\* _check_workspace_claims() with the identity of c's own workspace.
Undisturbed(c) == Vacant(c) /\ place[Workspace[c]] = "there"

\* The part of _check_work_claim() that every caller needs.
Current(c) ==
    /\ Owned(c) /\ c \notin released \cup unknown
    /\ \A d \in Commands : generation[d] > generation[c] => ~Conflicts(c, d)

\* _check_work_claim(authority=True)
Authorized(c, publication) ==
    /\ Current(c) /\ Undisturbed(c)
    /\ c \notin lapsed
    /\ attempt[c] # "ended"
    /\ UnitOf[c] \in satisfied => publication

\* _check_work_claim(authority=False, settled=True).  The run is settled with the
\* proof; other effects need a trusted settlement.
Quiescent(c, except) ==
    /\ Current(c) /\ Vacant(c)
    /\ Settled(c)
    /\ \A e \in Effects \ {except} : ops[<<c, e>>] # "none" => <<c, e>> \in witnessed

\* _check_current_workspace_subject(): the cut captures the bytes twice.
Fresh(c, subject) == place[Workspace[c]] = "there" /\ content[Workspace[c]] = subject

\* _check_workspace_subject()
Vouched(c, subject) == subject = base[c] \/ subject \in vouched[c]

\* Mutant: an edit after the handoff is not noticed.
HandedOffAnyway(c, subject) == candidate[c] # None

\* _check_claim_candidate()
HandedOff(c, subject) ==
    /\ Fresh(c, subject)
    /\ candidate[c] = subject
    /\ observed[c] # << >> => Last(observed[c]) = subject

Moves(w) ==
    Cardinality({c \in Commands : attempt[c] # "none"}) + content[w] + (IF place[w] = "displaced" THEN 1 ELSE 0)

LiveAttempt(u) == \E d \in Commands : UnitOf[d] = u /\ attempt[d] \in {"prepared", "executing"}

\* What _check_ownership_command() and the domain ask of a new Attempt.
Preparable(c) ==
    /\ attempt[c] = "none"
    /\ Moves(Workspace[c]) < MaxMoves
    /\ UnitOf[c] \notin satisfied /\ ~LiveAttempt(UnitOf[c])
    /\ \A d \in Commands : Holds(d) => UnitOf[d] # UnitOf[c]
    /\ Vacant(c)

-----------------------------------------------------------------------------
(* The calls of ports/ownership.py.  Each captures the workspace; most record *)
(* the observation, in a decision of its own, before they do what they are    *)
(* for.  The bytes may change, and the process may die, between the steps.    *)

WorkerCalls == {"observe", "quiesce", "submit"}
OwnerCalls == {"inspect", "reconcile", "prepare", "authorize"} \cup AllEffects

\* A call that is bound to be refused records its observation at most, which
\* "observe" and "inspect" do as well.
Useful(op, c) ==
    /\ op = "quiesce" => Mode[c] = "pull" /\ ~Settled(c)
    /\ op = "run" => Mode[c] = "managed" /\ ~Settled(c)
    /\ op \in {"reconcile", "submit"} => Settled(c)
    /\ op = "prepare" => prepared[c] # None
    /\ op = "authorize" => accepted[c] # None
    /\ op \in Effects => ops[<<c, op>>] \in {"intent", "absent"}

\* The capture of an existing workspace, or the receipt of its retirement.
Begin(op, c) ==
    LET w == Workspace[c]
        replay == op = "cleanup" /\ receipt[w] # None /\ place[w] = "gone"
    IN  /\ call = None
        /\ Mode[c] # "generic"
        /\ IF op = "claim" THEN Preparable(c) ELSE Current(c) /\ Settled(c)
        /\ replay \/ place[w] = "there"
        /\ call' = [op |-> op, claim |-> c, subject |-> IF replay THEN receipt[w] ELSE content[w],
                    step |-> "captured"]
        /\ UNCHANGED <<domainVars, claimVars, proofVars, effectVars, lapsed, diskVars, busy>>

\* capture() and observe_claim_workspace(), by the worker or by the owner.  An edit
\* between the two is not told apart from one right after them.
Observe(op, c) ==
    LET subject == content[Workspace[c]]
    IN  /\ call = None
        /\ place[Workspace[c]] = "there"
        /\ IF op \in WorkerCalls THEN Authorized(c, FALSE) ELSE Current(c)
        /\ Useful(op, c)
        /\ observed' = [observed EXCEPT ![c] = IF subject \in Range(@) THEN @ ELSE Append(@, subject)]
        /\ call' = IF op \in {"observe", "inspect"} THEN None
                   ELSE [op |-> op, claim |-> c, subject |-> subject, step |-> "observed"]
        /\ UNCHANGED <<domainVars, claimVars, proofs, prepared, vouched, candidate, effectVars, lapsed, diskVars, busy>>

At(op, step) == call # None /\ call.op = op /\ call.step = step

\* A refusal of the call under way, or a crash.
Fail ==
    /\ call # None
    /\ call' = None
    /\ UNCHANGED <<domainVars, claimVars, proofVars, effectVars, lapsed, diskVars, busy>>

\* claim_work(): the claim, the Attempt and its intent, in one transaction.
Claim ==
    /\ At("claim", "captured")
    /\ LET c == call.claim
       IN  /\ Preparable(c)
           /\ \A d \in Commands : Holds(d) => ~Conflicts(c, d)
           /\ generation' = [generation EXCEPT ![c] = 1 + Cardinality({d \in Commands : Owned(d)})]
           /\ base' = [base EXCEPT ![c] = call.subject]
           /\ attempt' = [attempt EXCEPT ![c] = "prepared"]
           /\ ops' = [ops EXCEPT ![<<c, "run">>] = "intent"]
    /\ call' = None
    /\ UNCHANGED <<satisfied, accepted, released, unknown, proofVars, witnessed, granted, published, lapsed, diskVars, busy>>

Prove(c, stage) ==
    /\ <<c, stage>> \notin proofs
    /\ proofs' = proofs \cup {<<c, stage>>}
    /\ UNCHANGED <<domainVars, claimVars, observed, prepared, vouched, candidate, effectVars, lapsed, diskVars, busy>>

\* quiesce(): the promise of a cooperative worker that it stopped.
Quiesce ==
    /\ At("quiesce", "observed")
    /\ Mode[call.claim] = "pull"
    /\ <<call.claim, "run">> \notin busy
    /\ Authorized(call.claim, FALSE)
    /\ call' = None
    /\ Prove(call.claim, "end")

\* A configured producer speaks of the end of a run only when it has ended.
RunEnded(c) == <<c, "run">> \notin busy

\* witness() and record_claim_proof().  The end is recorded without authority.
Witness(c, stage) ==
    /\ call = None /\ Mode[c] # "generic"
    /\ IF stage = "start" THEN Mode[c] = "managed" /\ Authorized(c, FALSE)
       ELSE /\ Current(c)
            /\ Mode[c] = "managed" => <<c, "start">> \in proofs
            /\ RunEnded(c)
    /\ UNCHANGED call
    /\ Prove(c, stage)

\* reconcile_claim_workspace()
Reconcile ==
    /\ At("reconcile", "observed")
    /\ LET c == call.claim
       IN  /\ Quiescent(c, None)
           /\ Fresh(c, call.subject)
           /\ vouched' = [vouched EXCEPT ![c] = @ \cup {call.subject}]
    /\ call' = None
    /\ UNCHANGED <<domainVars, claimVars, proofs, observed, prepared, candidate, effectVars, lapsed, diskVars, busy>>

\* materialize(), into an empty workspace, with the artifact that says so.
Materialize(c) ==
    LET w == Workspace[c]
    IN  /\ call = None /\ prepared[c] = None
        /\ Authorized(c, FALSE)
        /\ w \in empty /\ Moves(w) < MaxMoves
        /\ content' = [content EXCEPT ![w] = @ + 1]
        /\ empty' = empty \ {w}
        /\ prepared' = [prepared EXCEPT ![c] = content[w] + 1]
        /\ UNCHANGED <<domainVars, claimVars, proofs, observed, vouched, candidate, effectVars, lapsed,
                       call, place, receipt, busy>>

\* accept_ordinary_preparation(): before any dispatch.
AcceptPreparation ==
    /\ At("prepare", "observed")
    /\ LET c == call.claim
       IN  /\ Authorized(c, FALSE)
           /\ attempt[c] = "prepared" /\ ops[<<c, "run">>] = "intent"
           /\ prepared[c] = call.subject
           /\ Fresh(c, call.subject)
           /\ vouched' = [vouched EXCEPT ![c] = @ \cup {call.subject}]
    /\ call' = None
    /\ UNCHANGED <<domainVars, claimVars, proofs, observed, prepared, candidate, effectVars, lapsed, diskVars, busy>>

\* submit_claim_candidate()
Submit ==
    /\ At("submit", "observed")
    /\ LET c == call.claim
       IN  /\ Authorized(c, FALSE) /\ Quiescent(c, None)
           /\ Fresh(c, call.subject) /\ Vouched(c, call.subject)
           /\ candidate[c] \in {None, call.subject}
           /\ candidate' = [candidate EXCEPT ![c] = call.subject]
    /\ call' = None
    /\ UNCHANGED <<domainVars, claimVars, proofs, observed, prepared, vouched, effectVars, lapsed, diskVars, busy>>

\* release_claim_resources()
Release ==
    /\ At("release", "captured")
    /\ LET c == call.claim
       IN  /\ Quiescent(c, None)
           /\ Fresh(c, call.subject) /\ Vouched(c, call.subject)
           /\ released' = released \cup {c}
    /\ call' = None
    /\ UNCHANGED <<domainVars, generation, base, unknown, proofVars, effectVars, lapsed, diskVars, busy>>

\* quarantine_work_claim(), by the owner or because the producer lost the scope.
Quarantine(c) ==
    /\ call = None
    /\ Current(c)
    /\ unknown' = unknown \cup {c}
    /\ UNCHANGED <<domainVars, generation, base, released, proofVars, effectVars, lapsed, call, diskVars, busy>>

-----------------------------------------------------------------------------
(* cleanup_work_claim() and retire_empty(): checks, directory, receipt, and *)
(* only then the release.                                                   *)

CleanupStep(from, to) ==
    /\ At("cleanup", from)
    /\ call' = [call EXCEPT !.step = to]
    /\ UNCHANGED <<domainVars, claimVars, proofVars, effectVars, lapsed, busy>>

CleanupChecked ==
    /\ CleanupStep("captured", "checked")
    /\ Quiescent(call.claim, None) /\ Vouched(call.claim, call.subject)
    /\ UNCHANGED diskVars

\* A retirement that an earlier call finished is only looked up.
CleanupReplayed ==
    /\ CleanupStep("checked", "retired")
    /\ receipt[Workspace[call.claim]] = call.subject
    /\ UNCHANGED diskVars

CleanupMoved ==
    LET w == Workspace[call.claim]
    IN  /\ CleanupStep("checked", "moved")
        /\ receipt[w] = None
        /\ Fresh(call.claim, call.subject) /\ w \in empty
        /\ place' = [place EXCEPT ![w] = "moved"]
        /\ UNCHANGED <<content, empty, receipt>>

\* rmdir() refuses a directory that somebody wrote into meanwhile.
CleanupRemoved ==
    LET w == Workspace[call.claim]
    IN  /\ CleanupStep("moved", "removed")
        /\ w \in empty
        /\ place' = [place EXCEPT ![w] = "gone"]
        /\ UNCHANGED <<content, empty, receipt>>

CleanupReceipt ==
    /\ CleanupStep("removed", "retired")
    /\ receipt' = [receipt EXCEPT ![Workspace[call.claim]] = call.subject]
    /\ UNCHANGED <<place, content, empty>>

CleanupReleased ==
    /\ At("cleanup", "retired")
    /\ Quiescent(call.claim, None)
    /\ released' = released \cup {call.claim}
    /\ call' = None
    /\ UNCHANGED <<domainVars, generation, base, unknown, proofVars, effectVars, lapsed, diskVars, busy>>

-----------------------------------------------------------------------------
(* Operations. *)

\* What the state of the Attempt and its WorkUnit permits.
Permitted(c, e) ==
    \/ e = "run" /\ attempt[c] \in {"prepared", "executing"}
    \/ /\ e = "check" /\ attempt[c] = "finished"
       /\ UnitOf[c] \notin satisfied /\ ~LiveAttempt(UnitOf[c])
    \/ e = "publish" /\ attempt[c] = "finished" /\ accepted[c] # None

\* A claim of a managed run, with the bytes of the moment.
RunReady(c) ==
    /\ Mode[c] = "managed"
    /\ <<c, "start">> \in proofs /\ ~Settled(c)
    /\ Vouched(c, content[Workspace[c]])

\* Mutant: a settled Operation may be sent again.
NeverClosed(c, e) == TRUE

\* A trusted settlement, at whatever fence, closes an Operation.
NotClosed(c, e) == <<c, e>> \notin witnessed

\* _check_work_dispatch()
Dispatchable(c, e) ==
    /\ c \notin lapsed
    /\ Undisturbed(c)
    /\ NotClosed(c, e)
    /\ Permitted(c, e)
    /\ IF Owned(c)
       THEN /\ Authorized(c, e = "publish")
            /\ e = "publish" => Quiescent(c, e) /\ HandedOff(c, candidate[c])
            /\ e = "run" => RunReady(c)
       ELSE e = "publish" => Witnessed(c, e)

\* authorize_claim_publication(): reservation, intent and authorization.
Authorize ==
    /\ At("authorize", "observed")
    /\ "publish" \in Effects
    /\ LET c == call.claim
       IN  /\ ops[<<c, "publish">>] = "none"
           /\ Authorized(c, TRUE) /\ Quiescent(c, None)
           /\ HandedOff(c, call.subject)
           /\ Dispatchable(c, "publish")
           /\ ops' = [ops EXCEPT ![<<c, "publish">>] = "intent"]
           /\ granted' = [granted EXCEPT ![c] = call.subject]
    /\ call' = None
    /\ UNCHANGED <<domainVars, claimVars, proofVars, witnessed, published, lapsed, diskVars, busy>>

\* budgeted_intent() for a check, or for the publication of a generic Attempt.
Reserve(c, e) ==
    /\ call = None
    /\ ops[<<c, e>>] = "none" /\ attempt[c] # "none"
    /\ c \notin lapsed /\ Undisturbed(c)
    /\ IF Owned(c) THEN e = "check" /\ Authorized(c, FALSE) ELSE e = "publish" => Dispatchable(c, e)
    /\ ops' = [ops EXCEPT ![<<c, e>>] = "intent"]
    /\ UNCHANGED <<domainVars, claimVars, proofVars, witnessed, granted, published, lapsed, call, diskVars, busy>>

\* _claim_operation(), for a claim with the bytes just observed.  The rest of the
\* journal is OperationJournal: an uncertain delivery is retried once it is absent.
Dispatch(c, e) ==
    /\ ops[<<c, e>>] \in {"intent", "absent"}
    /\ Dispatchable(c, e)
    /\ IF Owned(c)
       THEN /\ At(e, "observed") /\ call.claim = c
            /\ IF e = "run" THEN Fresh(c, call.subject) ELSE HandedOff(c, call.subject)
       ELSE call = None
    /\ call' = None
    /\ ops' = [ops EXCEPT ![<<c, e>>] = "claimed"]
    /\ UNCHANGED <<domainVars, claimVars, proofVars, witnessed, granted, published, lapsed, diskVars, busy>>

\* check_operation_delivery() immediately before the physical send.
Deliver(c, e) ==
    /\ call = None
    /\ ops[<<c, e>>] = "claimed"
    /\ Dispatchable(c, e)
    /\ Owned(c) /\ e # "run" => Quiescent(c, e) /\ HandedOff(c, candidate[c])
    /\ ops' = [ops EXCEPT ![<<c, e>>] = "sent"]
    /\ busy' = busy \cup {<<c, e>>}
    /\ published' = IF e = "publish" THEN published \cup {<<c, content[Workspace[c]]>>} ELSE published
    /\ UNCHANGED <<domainVars, claimVars, proofVars, witnessed, granted, lapsed, call, diskVars>>

\* reconcile() finds that the delivery did not happen.
Absent(c, e) ==
    /\ call = None
    /\ ops[<<c, e>>] = "claimed"
    /\ ops' = [ops EXCEPT ![<<c, e>>] = "absent"]
    /\ UNCHANGED <<domainVars, claimVars, proofVars, witnessed, granted, published, lapsed, call, diskVars, busy>>

\* record_work_settlement(), by a producer that knows the effect is over.  The run
\* of a claim is settled by the claim's own proof, which this would only repeat.
Settle(c, e) ==
    /\ call = None
    /\ ops[<<c, e>>] # "none" /\ <<c, e>> \notin witnessed \cup busy
    /\ Owned(c) => e # "run"
    /\ witnessed' = witnessed \cup {<<c, e>>}
    /\ UNCHANGED <<domainVars, claimVars, proofVars, ops, granted, published, lapsed, call, diskVars, busy>>

-----------------------------------------------------------------------------
(* What a start asks of the ownership rows: _validate_ownership_records(). *)

\* Every record is about a claim, and the claim about an Attempt of the Program.
ClaimRecordsValid(c) ==
    LET records == \/ \E stage \in {"start", "end"} : <<c, stage>> \in proofs
                   \/ observed[c] # << >> \/ vouched[c] # {} \/ candidate[c] # None
                   \/ granted[c] # None \/ c \in released \cup unknown
    IN  /\ records => Owned(c)
        /\ Owned(c) => attempt[c] # "none"

\* _validate_claim_publication(): the candidate, the acceptance and the Operation of an authorization.
PublicationValid(c) ==
    granted[c] # None => /\ candidate[c] = granted[c]
                         /\ accepted[c] # None
                         /\ ops[<<c, "publish">>] # "none"

\* _validate_resource_settlement(): the reservation a settlement is of.
SettlementValid(c) ==
    \A e \in AllEffects : <<c, e>> \in witnessed => ops[<<c, e>>] # "none" /\ attempt[c] # "none"

-----------------------------------------------------------------------------
(* Domain commands and the budget. *)

\* PrepareAttempt without a claim.
PrepareGeneric(c) ==
    /\ call = None /\ Mode[c] = "generic"
    /\ Preparable(c) /\ place[Workspace[c]] = "there"
    /\ attempt' = [attempt EXCEPT ![c] = "prepared"]
    /\ ops' = [ops EXCEPT ![<<c, "run">>] = "intent"]
    /\ UNCHANGED <<satisfied, accepted, claimVars, proofVars, witnessed, granted, published, lapsed, call, diskVars, busy>>

StartAttempt(c) ==
    /\ call = None /\ attempt[c] = "prepared"
    /\ Undisturbed(c)
    /\ Owned(c) => /\ Authorized(c, FALSE) /\ ~Settled(c)
                   /\ Mode[c] = "managed" => <<c, "start">> \in proofs
    /\ attempt' = [attempt EXCEPT ![c] = "executing"]
    /\ UNCHANGED <<satisfied, accepted, claimVars, proofVars, effectVars, lapsed, call, diskVars, busy>>

FinishAttempt(c) ==
    /\ call = None /\ attempt[c] = "executing"
    /\ Undisturbed(c)
    /\ Owned(c) => Authorized(c, FALSE) /\ Quiescent(c, None)
    /\ attempt' = [attempt EXCEPT ![c] = "finished"]
    /\ UNCHANGED <<satisfied, accepted, claimVars, proofVars, effectVars, lapsed, call, diskVars, busy>>

SatisfyWorkUnit(c) ==
    /\ call = None /\ attempt[c] = "finished"
    /\ UnitOf[c] \notin satisfied /\ ~LiveAttempt(UnitOf[c])
    /\ c \notin lapsed /\ Undisturbed(c)
    /\ IF Owned(c)
       THEN /\ Authorized(c, FALSE) /\ Quiescent(c, None)
            /\ candidate[c] # None /\ HandedOff(c, candidate[c])
       ELSE Witnessed(c, None)
    /\ satisfied' = satisfied \cup {UnitOf[c]}
    /\ accepted' = [accepted EXCEPT ![c] = content[Workspace[c]]]
    /\ UNCHANGED <<attempt, claimVars, proofVars, effectVars, lapsed, call, diskVars, busy>>

\* CancelAttempt, FailAttempt, or a withdrawal: ownership has no say.
EndAttempt(c) ==
    /\ call = None /\ attempt[c] \in {"prepared", "executing"}
    /\ attempt' = [attempt EXCEPT ![c] = "ended"]
    /\ UNCHANGED <<satisfied, accepted, claimVars, proofVars, effectVars, lapsed, call, diskVars, busy>>

\* The latest renewal of the claim runs out (how long it lasts is not modelled: a
\* renewal only keeps this away), the budget is revoked, stopped or past its
\* deadline, or an amendment supersedes the specification.
Lapse(c) ==
    /\ call = None /\ attempt[c] # "none" /\ c \notin lapsed
    /\ lapsed' = lapsed \cup {c}
    /\ UNCHANGED <<domainVars, claimVars, proofVars, effectVars, call, diskVars, busy>>

-----------------------------------------------------------------------------
(* The world outside the store. *)

\* A cooperative worker starts while its claim is current and it did not quiesce.
PullStart(c) ==
    /\ call = None /\ Mode[c] = "pull" /\ <<c, "run">> \notin busy
    /\ Authorized(c, FALSE) /\ ~Settled(c)
    /\ busy' = busy \cup {<<c, "run">>}
    /\ UNCHANGED <<domainVars, claimVars, proofVars, effectVars, lapsed, call, diskVars>>

\* It ends whenever it likes, also long after its authority has.
End(c, e) ==
    /\ <<c, e>> \in busy
    /\ busy' = busy \ {<<c, e>>}
    /\ UNCHANGED <<domainVars, claimVars, proofVars, effectVars, lapsed, call, diskVars>>

\* A worker or anybody else writes, also through a descriptor of a moved directory.
Edit(w, clears) ==
    /\ place[w] \in {"there", "moved"}
    /\ Moves(w) < MaxMoves
    /\ content' = [content EXCEPT ![w] = @ + 1]
    /\ empty' = IF clears THEN empty \cup {w} ELSE empty \ {w}
    /\ UNCHANGED <<domainVars, claimVars, proofVars, effectVars, lapsed, call, place, receipt, busy>>

\* Somebody moves the directory away or puts another one in its place.
Displace(w) ==
    /\ place[w] = "there" /\ Moves(w) < MaxMoves
    /\ place' = [place EXCEPT ![w] = "displaced"]
    /\ UNCHANGED <<domainVars, claimVars, proofVars, effectVars, lapsed, call, content, empty, receipt, busy>>

ClaimNext ==
    \/ \E op \in {"claim", "release", "cleanup"}, c \in Commands : Begin(op, c)
    \/ \E op \in WorkerCalls \cup OwnerCalls, c \in Commands : Observe(op, c)
    \/ Fail \/ Claim \/ Quiesce \/ Reconcile \/ AcceptPreparation \/ Submit \/ Release
    \/ CleanupChecked \/ CleanupReplayed \/ CleanupMoved \/ CleanupRemoved \/ CleanupReceipt \/ CleanupReleased
    \/ Authorize
    \/ \E c \in Commands : Materialize(c) \/ Quarantine(c)
    \/ \E c \in Commands, stage \in {"start", "end"} : Witness(c, stage)

EffectNext ==
    \/ \E c \in Commands, e \in Effects : Reserve(c, e)
    \/ \E c \in Commands, e \in AllEffects : Dispatch(c, e) \/ Deliver(c, e) \/ Absent(c, e) \/ Settle(c, e)

DomainNext ==
    \/ \E c \in Commands : PrepareGeneric(c) \/ StartAttempt(c) \/ FinishAttempt(c) \/ SatisfyWorkUnit(c)
    \/ \E c \in Commands : EndAttempt(c) \/ Lapse(c)

WorldNext ==
    \/ \E c \in Commands : PullStart(c)
    \/ \E c \in Commands, e \in AllEffects : End(c, e)
    \/ \E w \in Workspaces : Displace(w) \/ \E clears \in BOOLEAN : Edit(w, clears)

Next == ClaimNext \/ EffectNext \/ DomainNext \/ WorldNext

Spec == Init /\ [][Next]_vars

-----------------------------------------------------------------------------
(* Properties. *)

\* Nobody works on a resource that conflicts with one somebody else works on, however
\* claims expire, Attempts end, processes die or budgets are revoked: claims that were
\* not released hold disjoint resources and WorkUnits, a quarantined one for good.
OneWorkerPerResource ==
    /\ \A p, q \in busy : p[1] # q[1] => ~Conflicts(p[1], q[1])
    /\ unknown \cap released = {}
    /\ \A c, d \in {x \in Commands : Owned(x)} \ released :
          c # d => UnitOf[c] # UnitOf[d] /\ ~Conflicts(c, d)

\* Released resources are quiet, although deliveries and settlements come in any order:
\* neither the run nor any other effect of the claim is under way.  Nor is the worker of
\* a candidate, which it could still change while it is accepted and published.
ReleasedIsQuiet ==
    /\ \A p \in busy : p[1] \notin released
    /\ \A c \in Commands : candidate[c] # None => <<c, "run">> \notin busy

\* What is published is what was handed off by a worker that had stopped, and
\* what was accepted, although anybody may have edited the workspace since.
PublishedAsAccepted ==
    \A p \in published : Owned(p[1]) => p[2] = candidate[p[1]] /\ p[2] = accepted[p[1]]

\* Whatever the callers, the owner, the worker and the editors did, in whatever order, the
\* rows pass the checks of the next start; otherwise no controller could start again.
OwnershipReopens ==
    \A c \in Commands : ClaimRecordsValid(c) /\ PublicationValid(c) /\ SettlementValid(c)

-----------------------------------------------------------------------------
(* The inductive strengthening, in parts. *)

\* The records are about the commands, and so is the call under way.
OwnershipTypeOK ==
    /\ generation \in [Commands -> Nat]
    /\ DOMAIN attempt = Commands /\ DOMAIN accepted = Commands /\ DOMAIN candidate = Commands
    /\ DOMAIN observed = Commands /\ DOMAIN vouched = Commands /\ DOMAIN granted = Commands
    /\ DOMAIN ops = Commands \X AllEffects
    /\ busy \subseteq Commands \X AllEffects
    /\ \A p \in published : p[1] \in Commands
    /\ call # None =>
        /\ call = [op |-> call.op, claim |-> call.claim, subject |-> call.subject, step |-> call.step]
        /\ call.claim \in Commands /\ (call.op = "claim" => Mode[call.claim] # "generic")

\* Nothing happens for a command before its Attempt is prepared, and a claim is made
\* with the Attempt or never.
AttemptsFirst ==
    \A c \in Commands :
        /\ attempt[c] = "none" => /\ \A e \in AllEffects : ops[<<c, e>>] = "none" /\ <<c, e>> \notin busy
                                  /\ accepted[c] = None /\ \A p \in published : p[1] # c
        /\ Owned(c) => Mode[c] # "generic"
        /\ attempt[c] # "none" /\ ~Owned(c) => Mode[c] = "generic"

\* Whoever is at work has no settlement that says otherwise.
BusyUnsettled ==
    \A c \in Commands, e \in AllEffects : <<c, e>> \in busy =>
        /\ Owned(c) /\ e = "run" => ~Settled(c)
        /\ ~Owned(c) \/ e # "run" => ops[<<c, e>>] # "none" /\ <<c, e>> \notin witnessed

\* A candidate is of a worker that stopped, and what is accepted is the candidate.
CandidateFinal ==
    \A c \in Commands :
        /\ candidate[c] # None => Settled(c)
        /\ Owned(c) /\ accepted[c] # None => accepted[c] = candidate[c]
        /\ Owned(c) /\ (\E p \in published : p[1] = c) => accepted[c] # None

OwnershipInv ==
    /\ OwnershipTypeOK /\ AttemptsFirst /\ BusyUnsettled /\ CandidateFinal
    /\ OneWorkerPerResource /\ ReleasedIsQuiet /\ PublishedAsAccepted /\ OwnershipReopens
=============================================================================
