--------------------------- MODULE ProgramDomain ----------------------------
(***************************************************************************)
(* The Program aggregate of core/domain.py: an owner-approved              *)
(* specification with its revisions, the Attempts made on its WorkUnits,   *)
(* the satisfactions trusted issuers recorded, and the projection of those *)
(* facts to a status per WorkUnit.  One action per command of              *)
(* Program.apply(); a refused command raises and is not a step.            *)
(*                                                                         *)
(* An aggregate is an immutable value and every accepted command carries   *)
(* its current revision, so the revision counter itself is left to the     *)
(* store.  Sequence positions stand for record orders and identities: a    *)
(* spec is cited by its position in the history, an Attempt and a          *)
(* satisfaction by theirs.                                                 *)
(***************************************************************************)
EXTENDS Integers, Sequences, FiniteSets

CONSTANTS
    WorkUnits,        \* WorkUnit identities
    Specs,            \* semantic payloads of specifications, by name
    Body,             \* what a specification says, see SpecType
    FirstSpecs,       \* the specifications a Program may be created with
    Amendments,       \* what the owner may propose in place of a specification
    Actors,
    References,       \* opaque output references
    MaxSpecs,         \* bound on the revisions of the specification
    MaxSatisfactions, \* bound on the satisfactions recorded
    Nil

Actions == {"activate", "pause", "resume", "prepare", "start", "finish", "fail", "cancel_attempt"}
OwnerActions == {"amend", "cancel_program", "cancel_unit"}

\* The parts of a ProgramSpec that commands read.  "charter" stands for the
\* objective, criteria and policies, "intent" for a unit's own declaration
\* with the initial inputs it consumes, "consumes" for the dependencies whose
\* outputs it requires.
SpecType ==
    [units : SUBSET WorkUnits, deps : [WorkUnits -> SUBSET WorkUnits],
     consumes : [WorkUnits -> SUBSET WorkUnits], intent : [WorkUnits -> Nat], charter : Nat,
     owner : Actors, delegates : SUBSET Actors, issuers : SUBSET Actors,
     allowed : SUBSET Actions, authorityMax : Nat, budgetMax : Nat, budgetActive : Nat]

\* What the constructors of ProgramSpec and AuthorityEnvelope enforce: a
\* nonempty acyclic graph without dangling edges, inputs from direct
\* dependencies only, and no delegated worker that also accepts.
WellFormed(s) ==
    /\ s.units # {}
    /\ \A u \in s.units : s.deps[u] \subseteq s.units /\ s.consumes[u] \subseteq s.deps[u]
    /\ \A S \in SUBSET s.units : S # {} => \E u \in S : s.deps[u] \cap S = {}
    /\ s.issuers \cap s.delegates = {}

ASSUME ProgramAssumption ==
    /\ Body \in [Specs -> SpecType]
    /\ \A s \in Specs : WellFormed(Body[s])
    /\ FirstSpecs \subseteq Specs /\ Amendments \in [Specs -> SUBSET Specs]
    /\ MaxSpecs \in Nat
    /\ MaxSatisfactions \in Nat
    /\ Nil \notin Nat

VARIABLES
    status,         \* ProgramStatus
    history,        \* spec_history, by name; the last one is the current spec
    attempts,       \* attempts, in order of preparation
    satisfactions,  \* satisfactions, in record order
    cancellations,  \* WorkUnit cancellations
    withdrawals,    \* attempt_cancellations
    conclusions,    \* conclusions, in record order
    states          \* work_unit_states: the projection

domainVars == <<status, history, attempts, satisfactions, cancellations, withdrawals,
          conclusions, states>>

Live == {"prepared", "executing"}
Last(seq) == seq[Len(seq)]
Spec_(hist) == Body[Last(hist)]
spec == Spec_(history)

IsLive(a) == a.status \in Live

-----------------------------------------------------------------------------
(* Applicability fingerprints and the projection. *)

\* The unit and everything it depends on.
Closure(s, u) ==
    {v \in s.units : \A S \in SUBSET s.units :
        (u \in S /\ \A w \in S : s.deps[w] \subseteq S) => v \in S}

\* work_unit_applicability_fingerprint: the charter and the declarations of the
\* closure; neither budget nor authority.
Fingerprints ==
    [n \in Specs |-> [u \in Body[n].units |->
        LET s == Body[n]
        IN  <<s.charter, [v \in Closure(s, u) |-> <<s.intent[v], s.deps[v], s.consumes[v]>>]>>]]

\* The fingerprint of a unit in the r-th specification of a history.
FingerprintAt(hist, r, u) == Fingerprints[hist[r]][u]

\* Mutant: inputs are compared by their names only.
SameSubjectByName(left, right) == DOMAIN left = DOMAIN right

\* InputBinding.subject(): which output reference, not which fact recorded it.
Subject(inputs) == [p \in DOMAIN inputs |-> inputs[p].reference]
SameSubject(left, right) == Subject(left) = Subject(right)

\* _resolved_inputs: Nil until every dependency is satisfied.
ResolvedInputs(s, u, projected, sats) ==
    IF \E d \in s.deps[u] : projected[d].status # "satisfied" THEN Nil
    ELSE [p \in s.consumes[u] |->
            [reference |-> sats[projected[p].satisfaction].reference,
             satisfaction |-> projected[p].satisfaction]]

UnitState(st, a, f) == [status |-> st, attempt |-> a, satisfaction |-> f]

\* The latest satisfaction of the unit that applies to the current intent and
\* was earned on the current inputs.
MatchingSatisfactions(hist, atts, sats, u, inputs) ==
    {i \in DOMAIN sats :
        /\ sats[i].unit = u
        /\ FingerprintAt(hist, sats[i].rev, u) = FingerprintAt(hist, Len(hist), u)
        /\ inputs # Nil
        /\ SameSubject(atts[sats[i].source].inputs, inputs)}

LiveOf(atts, u) == {i \in DOMAIN atts : atts[i].unit = u /\ IsLive(atts[i])}

Largest(S) == CHOOSE i \in S : \A j \in S : j <= i
Smallest(S) == CHOOSE i \in S : \A j \in S : i <= j

\* _project for one unit, from the projection of its dependencies.
ProjectUnit(hist, atts, sats, cancels, u, projected) ==
    LET s == Spec_(hist)
        inputs == ResolvedInputs(s, u, projected, sats)
        matching == MatchingSatisfactions(hist, atts, sats, u, inputs)
        live == LiveOf(atts, u)
    IN  IF \/ \E d \in s.deps[u] : projected[d].status = "cancelled"
           \/ \E c \in cancels : /\ c.unit = u
                                 /\ FingerprintAt(hist, c.rev, u) = FingerprintAt(hist, Len(hist), u)
        THEN UnitState("cancelled", Nil, Nil)
        ELSE IF matching # {} THEN UnitState("satisfied", Nil, Largest(matching))
        ELSE IF live # {} /\ inputs # Nil /\ SameSubject(atts[Smallest(live)].inputs, inputs)
        THEN UnitState("active", Smallest(live), Nil)
        ELSE UnitState(IF inputs # Nil THEN "ready" ELSE "pending", Nil, Nil)

\* _project, in dependency order.
Project(hist, atts, sats, cancels) ==
    LET projected[u \in Spec_(hist).units] ==
            ProjectUnit(hist, atts, sats, cancels, u,
                        [d \in Spec_(hist).deps[u] |-> projected[d]])
    IN  projected

\* _program_status
ProgramStatus(previous, projected) ==
    IF previous \in {"cancelled", "draft"} THEN previous
    ELSE IF \A u \in DOMAIN projected : projected[u].status = "satisfied" THEN "completed"
    ELSE IF previous = "paused" THEN "paused" ELSE "active"

-----------------------------------------------------------------------------
(* Authority, and the common tail of every command. *)

\* _authorize
Authorized(action, actor) ==
    IF action \in OwnerActions THEN actor = spec.owner
    ELSE IF action = "satisfy" THEN actor \in spec.issuers
    ELSE action \in spec.allowed /\ actor \in spec.delegates \cup {spec.owner}

\* Mutant: an ended Attempt is cancelled as well.
WithdrawnAll(atts, ids) ==
    [i \in DOMAIN atts |-> IF i \in ids THEN [atts[i] EXCEPT !.status = "cancelled"] ELSE atts[i]]

\* cancel_live: the live ones among the given Attempts.
Withdrawn(atts, ids) ==
    [i \in DOMAIN atts |-> IF i \in ids /\ IsLive(atts[i])
                         THEN [atts[i] EXCEPT !.status = "cancelled"] ELSE atts[i]]

WithdrawalsOf(atts, ids, reason) ==
    {[attempt |-> i, reason |-> reason] : i \in {j \in ids : IsLive(atts[j])}}

\* A program ends, or is complete under another specification than before.
ConclusionsAfter(newStatus, hist) ==
    IF newStatus \in {"completed", "cancelled"} /\ (newStatus # status \/ Len(hist) # Len(history))
    THEN Append(conclusions, [status |-> newStatus, rev |-> Len(hist)])
    ELSE conclusions

\* Nothing is ready in a draft.
StatesOf(hist, newStatus, atts, sats, cancels) ==
    IF newStatus = "draft"
    THEN [u \in Spec_(hist).units |-> UnitState("pending", Nil, Nil)]
    ELSE Project(hist, atts, sats, cancels)

\* _assemble: project, derive the status, conclude.
Assemble(hist, newStatus, atts, sats, cancels) ==
    LET projected == StatesOf(hist, newStatus, atts, sats, cancels)
        final == ProgramStatus(newStatus, projected)
    IN  /\ history' = hist
        /\ attempts' = atts
        /\ satisfactions' = sats
        /\ cancellations' = cancels
        /\ states' = projected
        /\ status' = final
        /\ conclusions' = ConclusionsAfter(final, hist)

DomainInit ==
    /\ status = "draft"
    /\ \E first \in FirstSpecs :
        /\ history = <<first>>
        /\ states = [u \in Body[first].units |-> UnitState("pending", Nil, Nil)]
    /\ attempts = <<>>
    /\ satisfactions = <<>>
    /\ cancellations = {}
    /\ withdrawals = {}
    /\ conclusions = <<>>


-----------------------------------------------------------------------------
(* The commands.  Each is one branch of Program.apply() with its _assemble. *)

Activate(actor) ==
    /\ Authorized("activate", actor)
    /\ status = "draft"
    /\ Assemble(history, "active", attempts, satisfactions, cancellations)
    /\ UNCHANGED withdrawals

Pause(actor) ==
    /\ Authorized("pause", actor)
    /\ status = "active"
    /\ Assemble(history, "paused", attempts, satisfactions, cancellations)
    /\ UNCHANGED withdrawals

Resume(actor) ==
    /\ Authorized("resume", actor)
    /\ status = "paused"
    /\ Assemble(history, "active", attempts, satisfactions, cancellations)
    /\ UNCHANGED withdrawals

CancelProgram(actor) ==
    /\ Authorized("cancel_program", actor)
    /\ status \in {"draft", "active", "paused"}
    /\ Assemble(history, "cancelled", Withdrawn(attempts, DOMAIN attempts),
                satisfactions, cancellations)
    /\ withdrawals' = withdrawals \cup WithdrawalsOf(attempts, DOMAIN attempts, "program")

\* The unit and everything that depends on it.
Affected(u) == {v \in spec.units : u \in Closure(spec, v)}

CancelWorkUnit(actor, u) ==
    /\ Authorized("cancel_unit", actor)
    /\ status \in {"active", "paused"}
    /\ u \in spec.units
    /\ states[u].status # "cancelled"
    /\ LET ids == {i \in DOMAIN attempts : attempts[i].unit \in Affected(u)}
       IN  /\ Assemble(history, status, Withdrawn(attempts, ids), satisfactions,
                       cancellations \cup {[unit |-> u, rev |-> Len(history)]})
           /\ withdrawals' = withdrawals \cup WithdrawalsOf(attempts, ids, "unit")

\* Mutant: any Attempt that has ended may be remediated.
RemediationAdmittedEnded(u, source) ==
    /\ source \in DOMAIN attempts
    /\ ~IsLive(attempts[source])
    /\ attempts[source].unit = u
    /\ attempts[source].rev = Len(history)
    /\ \A i \in DOMAIN attempts : attempts[i].unit = u => i <= source

\* An Attempt that remediates names the unit's latest one, finished and made
\* under the current specification.
RemediationAdmitted(u, source) ==
    /\ source \in DOMAIN attempts
    /\ attempts[source].status = "finished"
    /\ attempts[source].unit = u
    /\ attempts[source].rev = Len(history)
    /\ \A i \in DOMAIN attempts : attempts[i].unit = u => i <= source

PrepareAttempt(actor, u, source) ==
    /\ Authorized("prepare", actor)
    /\ u \in spec.units
    /\ status = "active" /\ states[u].status = "ready"
    /\ LiveOf(attempts, u) = {}
    /\ source # Nil => RemediationAdmitted(u, source)
    /\ Len(attempts) < spec.budgetMax /\ Len(attempts) < spec.authorityMax
    /\ Cardinality({i \in DOMAIN attempts : IsLive(attempts[i])}) < spec.budgetActive
    /\ LET new == [unit |-> u, rev |-> Len(history), status |-> "prepared", actor |-> actor,
                   inputs |-> ResolvedInputs(spec, u, states, satisfactions), remediates |-> source]
       IN  Assemble(history, status, Append(attempts, new), satisfactions, cancellations)
    /\ UNCHANGED withdrawals

Running == {"active", "paused", "completed"}

\* An Attempt changes its status; the projection follows.
Replace(i, st) ==
    /\ Assemble(history, status, [attempts EXCEPT ![i].status = st], satisfactions, cancellations)
    /\ UNCHANGED withdrawals

StartAttempt(actor, i) ==
    /\ Authorized("start", actor)
    /\ attempts[i].unit \in spec.units
    /\ status = "active"
    /\ attempts[i].status = "prepared"
    /\ states[attempts[i].unit].attempt = i
    /\ Replace(i, "executing")

FinishAttempt(actor, i) ==
    /\ Authorized("finish", actor)
    /\ status \in Running
    /\ attempts[i].status = "executing"
    /\ Replace(i, "finished")

FailAttempt(actor, i) ==
    /\ Authorized("fail", actor)
    /\ status \in Running
    /\ IsLive(attempts[i])
    /\ Replace(i, "failed")

CancelAttempt(actor, i) ==
    /\ Authorized("cancel_attempt", actor)
    /\ status \in Running
    /\ IsLive(attempts[i])
    /\ Assemble(history, status, Withdrawn(attempts, {i}), satisfactions, cancellations)
    /\ withdrawals' = withdrawals \cup WithdrawalsOf(attempts, {i}, "attempt")

\* A trusted issuer accepts what a finished Attempt produced, under the
\* specification that Attempt was made for, current or not.
SatisfyWorkUnit(actor, source, ref) ==
    /\ Authorized("satisfy", actor)
    /\ status \in Running
    /\ attempts[source].status = "finished"
    /\ Len(satisfactions) < MaxSatisfactions
    /\ LET fact == [unit |-> attempts[source].unit, rev |-> attempts[source].rev,
                    source |-> source, reference |-> ref]
       IN  Assemble(history, status, attempts, Append(satisfactions, fact), cancellations)
    /\ UNCHANGED withdrawals

\* Mutant: a dropped delegate keeps its Attempts.
SupportedForAnyone(hist, atts, projected, i) ==
    LET s == Spec_(hist)
        u == atts[i].unit
        inputs == ResolvedInputs(s, u, projected, satisfactions)
    IN  /\ u \in s.units
        /\ FingerprintAt(hist, atts[i].rev, u) = FingerprintAt(hist, Len(hist), u)
        /\ inputs # Nil
        /\ SameSubject(atts[i].inputs, inputs)
        /\ projected[u].status # "cancelled"

\* What an amended specification must leave a live Attempt: its unit and
\* intent, its inputs, the next action it needs, and its actor.
Supported(hist, atts, projected, i) ==
    LET s == Spec_(hist)
        u == atts[i].unit
        inputs == ResolvedInputs(s, u, projected, satisfactions)
    IN  /\ u \in s.units
        /\ FingerprintAt(hist, atts[i].rev, u) = FingerprintAt(hist, Len(hist), u)
        /\ inputs # Nil
        /\ SameSubject(atts[i].inputs, inputs)
        /\ (IF atts[i].status = "prepared" THEN "start" ELSE "finish") \in s.allowed
        /\ atts[i].actor \in s.delegates \cup {s.owner}
        /\ projected[u].status # "cancelled"

Unsupported(hist, atts) ==
    LET projected == Project(hist, atts, satisfactions, cancellations)
    IN  {i \in DOMAIN atts : IsLive(atts[i]) /\ ~Supported(hist, atts, projected, i)}

\* The withdrawal loop; every round that is not the last withdraws someone.
Settled(hist) ==
    LET rounds[n \in 0..Len(attempts)] ==
            IF n = 0 THEN attempts
            ELSE Withdrawn(rounds[n - 1], Unsupported(hist, rounds[n - 1]))
    IN  rounds[Len(attempts)]

\* A semantically equal amendment returns the same aggregate: not a step.
AmendProgramSpec(actor, new) ==
    /\ Authorized("amend", actor)
    /\ status # "cancelled"
    /\ new # Last(history)
    /\ Len(history) < MaxSpecs
    /\ LET hist == Append(history, new)
           atts == Settled(hist)
       IN  /\ Assemble(hist, status, atts, satisfactions, cancellations)
           /\ withdrawals' = withdrawals \cup
                WithdrawalsOf(attempts, {i \in DOMAIN atts : atts[i] # attempts[i]}, "amendment")

DomainNext ==
    \E actor \in Actors :
        \/ Activate(actor) \/ Pause(actor) \/ Resume(actor) \/ CancelProgram(actor)
        \/ \E u \in WorkUnits : CancelWorkUnit(actor, u)
        \/ \E u \in WorkUnits, source \in DOMAIN attempts \cup {Nil} :
              PrepareAttempt(actor, u, source)
        \/ \E i \in DOMAIN attempts : StartAttempt(actor, i) \/ FinishAttempt(actor, i)
                                      \/ FailAttempt(actor, i) \/ CancelAttempt(actor, i)
        \/ \E i \in DOMAIN attempts, ref \in References : SatisfyWorkUnit(actor, i, ref)
        \/ \E new \in Amendments[Last(history)] : AmendProgramSpec(actor, new)

DomainSpec == DomainInit /\ [][DomainNext]_domainVars

-----------------------------------------------------------------------------
\* Every live Attempt keeps one current, non-cancelled unit, no unit has two, an active
\* unit names its own, and a draft or cancelled program has none: _validate() would raise
\* otherwise, so no accepted command dies there.  Nor does anybody work on an intent the
\* owner has changed or after the owner dropped the worker: the unit has the fingerprint
\* the Attempt was prepared for, and its actor is still the owner or a delegate.
LiveAttemptsSupported ==
    \A i \in DOMAIN attempts : IsLive(attempts[i]) =>
        /\ attempts[i].unit \in spec.units
        /\ LiveOf(attempts, attempts[i].unit) = {i}
        /\ states[attempts[i].unit].status # "cancelled"
        /\ states[attempts[i].unit].attempt \in {Nil, i}
        /\ status \notin {"draft", "cancelled"}
        /\ FingerprintAt(history, attempts[i].rev, attempts[i].unit)
             = FingerprintAt(history, Len(history), attempts[i].unit)
        /\ attempts[i].actor \in spec.delegates \cup {spec.owner}

\* A unit counts as satisfied only by a finished Attempt at its current intent
\* that consumed exactly the outputs its dependencies are satisfied by now.  The
\* program is completed exactly while every current unit is satisfied, and a finished
\* program has concluded, last, with this status for this revision.
SatisfiedOnCurrentInputs ==
    /\ \A u \in spec.units : states[u].status = "satisfied" =>
           LET f == satisfactions[states[u].satisfaction]
               a == attempts[f.source]
           IN  /\ f.unit = u /\ a.unit = u /\ a.status = "finished"
               /\ FingerprintAt(history, a.rev, u) = FingerprintAt(history, Len(history), u)
               /\ \A d \in spec.deps[u] : states[d].status = "satisfied"
               /\ DOMAIN a.inputs = spec.consumes[u]
               /\ \A p \in spec.consumes[u] :
                     a.inputs[p].reference = satisfactions[states[p].satisfaction].reference
    /\ status \notin {"draft", "cancelled"} =>
          (status = "completed" <=> \A u \in spec.units : states[u].status = "satisfied")
    /\ status \in {"completed", "cancelled"} =>
          conclusions # <<>> /\ Last(conclusions) = [status |-> status, rev |-> Len(history)]

\* Remediation is a chain: it cites an earlier finished Attempt of the same unit
\* and specification, and no Attempt is remediated twice.
RemediationChain ==
    \A i \in DOMAIN attempts : attempts[i].remediates # Nil =>
        LET j == attempts[i].remediates
        IN  /\ j < i
            /\ attempts[j].status = "finished"
            /\ attempts[j].unit = attempts[i].unit
            /\ attempts[j].rev = attempts[i].rev
            /\ \A k \in DOMAIN attempts : attempts[k].remediates = j => k = i

\* History is only ever extended: no command rewrites a specification, a fact or
\* an Attempt that has ended, a cancelled program stays as it is, and every Attempt
\* that a command cancels gets the one record of its withdrawal.
HistoryOnlyExtended ==
    [][/\ \A r \in DOMAIN history : history'[r] = history[r]
       /\ \A i \in DOMAIN satisfactions : satisfactions'[i] = satisfactions[i]
       /\ \A i \in DOMAIN conclusions : conclusions'[i] = conclusions[i]
       /\ \A i \in DOMAIN attempts :
            /\ ~IsLive(attempts[i]) => attempts'[i] = attempts[i]
            /\ attempts'[i].inputs = attempts[i].inputs
       /\ status # "cancelled"
       /\ withdrawals \subseteq withdrawals'
       /\ {i \in DOMAIN attempts' : attempts'[i].status = "cancelled"} = {w.attempt : w \in withdrawals'}
       /\ Cardinality(withdrawals') = Cardinality({w.attempt : w \in withdrawals'})]_domainVars

-----------------------------------------------------------------------------
(* The inductive invariant. *)

Inputs == UNION {[p -> [reference : References, satisfaction : 1..MaxSatisfactions]] : p \in SUBSET WorkUnits}
AttemptRecs ==
    [unit : WorkUnits, rev : Nat, status : Live \cup {"finished", "failed", "cancelled"}, actor : Actors,
     inputs : Inputs, remediates : Nat \cup {Nil}]
SatisfactionRecs == [unit : WorkUnits, rev : Nat, source : Nat, reference : References]

\* The types of the aggregate; every fact is of a revision that there is.
DomainTypeOK ==
    /\ status \in {"draft", "active", "paused", "completed", "cancelled"}
    /\ history \in Seq(Specs) /\ history # <<>>
    /\ attempts \in Seq(AttemptRecs)
    /\ \A i \in DOMAIN attempts :
          attempts[i].rev \in DOMAIN history /\ attempts[i].remediates \in DOMAIN attempts \cup {Nil}
    /\ satisfactions \in Seq(SatisfactionRecs) /\ Len(satisfactions) <= MaxSatisfactions
    /\ \A c \in cancellations : c.rev \in DOMAIN history
    /\ conclusions \in Seq([status : {"completed", "cancelled"}, rev : Nat])
    /\ status = "draft" => attempts = <<>>

\* The projection is that of the recorded facts.
StatesProjected == states = StatesOf(history, status, attempts, satisfactions, cancellations)

\* A satisfaction is of the unit and the specification of a finished Attempt.
Rooted(atts, sats) ==
    \A i \in DOMAIN sats :
        /\ sats[i].source \in DOMAIN atts
        /\ atts[sats[i].source].status = "finished"
        /\ atts[sats[i].source].unit = sats[i].unit /\ atts[sats[i].source].rev = sats[i].rev

\* The cancelled Attempts have one withdrawal each.
WithdrawalsKept ==
    /\ {i \in DOMAIN attempts : attempts[i].status = "cancelled"} = {w.attempt : w \in withdrawals}
    /\ \A v, w \in withdrawals : v.attempt = w.attempt => v = w

DomainInv ==
    /\ DomainTypeOK /\ StatesProjected /\ Rooted(attempts, satisfactions) /\ WithdrawalsKept
    /\ LiveAttemptsSupported /\ SatisfiedOnCurrentInputs /\ RemediationChain

=============================================================================
