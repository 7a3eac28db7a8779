------------------------------- MODULE Intake -------------------------------
(***************************************************************************)
(* The intake of one ordinary task: ports/intake.py over the store of      *)
(* ProgramStore, with the evidence readers of adapters/intake.py and       *)
(* adapters/ordinary_intake.py.                                            *)
(*                                                                         *)
(* A draft is a declaration with the evidence read for it.  The owner      *)
(* approves a draft under a decision identity; the decision, its one       *)
(* consumption and the Program follow each other as commits of their own,  *)
(* or come in one commit together with the work budget.  Every check ends  *)
(* with the caller's clock.  This clock and the readers are callbacks:     *)
(* while they run, other callers on the same thread write to the store,    *)
(* the native issue changes and time passes.  Any step may raise, and the  *)
(* process may die.  One call of the intake runs at a time.                *)
(***************************************************************************)
EXTENDS ProgramStore

CONSTANTS
    Task,          \* the Program of the task
    DecisionIds,   \* decision identities, and the command keys made of them
    OtherSpecs,    \* the specifications other callers propose
    Declarations,
    Terms,         \* Terms[d]: the expiries and policies, "plain" or "budget", given with d
    Freshness,     \* how old a baseline may be
    MaxNow,        \* bound on the time
    MaxNative,     \* bound on the changes of the native issue or branch
    MaxWork        \* bound on the drafts, the reviews and the records of other callers, together

ASSUME IntakeAssumption ==
    /\ Task \in Programs /\ DecisionIds \subseteq Keys /\ OtherSpecs \subseteq Specs
    /\ \A d \in DecisionIds : Terms[d] \subseteq [expires : Nat, policy : {"plain", "budget"}]
    /\ None \notin [draft : Nat, ev : {s[2] : s \in Specs}, expires : Nat, policy : {"plain", "budget"}]
    /\ Freshness \in Nat /\ MaxNow \in Nat

VARIABLES
    recs,      \* disk: drafts, reviews, decisions, consumptions, baseline age, budget
    ctl,       \* memory: the call under way, where it is and what it has read
    result,    \* memory: what the last call returned to its caller
    world      \* the native issue and branch, and the time

intakeVars == <<recs, ctl, result, world>>
allVars == <<vars, intakeVars>>

Quiet ==
    [pc |-> "idle", op |-> None, d |-> None, draft |-> 0, decl |-> None, expires |-> 0, policy |-> None,
     before |-> 0, ev |-> None, plan |-> None, chain |-> <<>>, basis |-> <<>>, expected |-> -1, at |-> 0]

IntakeInit ==
    /\ Init
    /\ recs = [drafts |-> <<>>, reviews |-> <<>>, decisions |-> [d \in DecisionIds |-> None],
               consumed |-> <<>>, age |-> 0, origin |-> None, bound |-> None]
    /\ ctl = Quiet
    /\ result = None
    /\ world = [native |-> 0, now |-> 1]

Current == disk.projection[Task]

\* What was asked for so far besides approvals, in records.
Work ==
    Cardinality({r \in disk.history : r.key \notin DecisionIds}) + Cardinality(disk.operations)
    + Len(recs.drafts) + Len(recs.reviews)

-----------------------------------------------------------------------------
(* Evidence. *)

\* _history(): the owner's judgements of one snapshot of the native issue.
ReviewsOf(n, decl) == SelectSeq(recs.reviews, LAMBDA r : r.native = n /\ r.decl = decl)

\* read(): the native issue, the branch and the changes are read twice, and a
\* difference makes the evidence stale.  The evidence of a snapshot includes the
\* last judgement of it.
Evidence(decl) ==
    IF world.native # ctl.before THEN [native |-> world.native, review |-> -1]
    ELSE [native |-> world.native, review |-> Len(ReviewsOf(world.native, decl))]

Remains(decl, ev) == ev.review > 0 /\ ReviewsOf(ev.native, decl)[ev.review].remains

\* _baseline_age(): a baseline that is read again cannot become younger.
BaselineAge(observed) == IF recs.age = 0 \/ observed < recs.age THEN observed ELSE recs.age

\* The specification an approved draft becomes.
Content(draft) == <<draft.decl, draft.ev>>

\* _check_authority(): the draft is the last one, its evidence is the current one,
\* work remains, and the Program was not abandoned.
CheckAuthority ==
    /\ ctl.draft = Len(recs.drafts)
    /\ ctl.ev = recs.drafts[ctl.draft].ev
    /\ Remains(ctl.decl, ctl.ev)
    /\ Current # None => ~Cancelled(Current.facts)

\* _check_time(), on the clock that is read last.
CheckTime == world.now < ctl.expires /\ world.now - recs.age <= Freshness

-----------------------------------------------------------------------------
(* Drafts and reviews. *)

\* prepare(), on the parent the caller expects, up to the reading of the evidence.
Prepare(decl) ==
    /\ Idle /\ ctl.pc = "idle" /\ Work < MaxWork
    /\ ctl' = [Quiet EXCEPT !.pc = "reading", !.op = "prepare", !.decl = decl, !.before = world.native]
    /\ result' = None
    /\ UNCHANGED <<vars, recs, world>>

\* The draft is recorded unless it says what the last one says; the age of the
\* baseline is, in any case.  Specs bounds what a draft may say.
RecordDraft(observed) ==
    /\ Idle /\ ctl.pc = "reading" /\ ctl.op = "prepare"
    /\ LET draft == [decl |-> ctl.decl, ev |-> Evidence(ctl.decl)]
           n == Len(recs.drafts)
       IN  /\ Content(draft) \in Specs
           /\ recs' = [recs EXCEPT !.age = BaselineAge(observed),
                                   !.drafts = IF n > 0 /\ recs.drafts[n] = draft THEN @ ELSE Append(@, draft)]
    /\ ctl' = Quiet
    /\ UNCHANGED <<vars, result, world>>

\* review(): the owner's judgement of a snapshot, which may have changed since.
Review(n, decl, remains) ==
    /\ Idle /\ ctl.pc = "idle" /\ Work < MaxWork
    /\ recs' = [recs EXCEPT !.reviews = Append(@, [native |-> n, decl |-> decl, remains |-> remains])]
    /\ UNCHANGED <<vars, ctl, result, world>>

-----------------------------------------------------------------------------
(* Approval and handoff. *)

\* approve(), up to the reading of the evidence.
Approve(d, i, terms) ==
    /\ Idle /\ ctl.pc = "idle"
    /\ ctl' = [Quiet EXCEPT !.pc = "reading", !.op = "approve", !.d = d, !.draft = i,
                            !.decl = recs.drafts[i].decl, !.expires = terms.expires, !.policy = terms.policy,
                            !.before = world.native]
    /\ result' = None
    /\ UNCHANGED <<vars, recs, world>>

\* handoff() of an approval the caller holds, for the Program it was told of.
Handoff ==
    /\ Idle /\ ctl.pc = "idle" /\ result # None
    /\ ctl' = [Quiet EXCEPT !.pc = "reading", !.op = "handoff", !.d = result.d, !.draft = result.draft,
                            !.decl = recs.drafts[result.draft].decl, !.chain = result.chain,
                            !.expires = recs.decisions[result.d].expires, !.before = world.native]
    /\ UNCHANGED <<vars, recs, result, world>>

\* _validate() with the evidence just read; its last act is to read the clock.
\* handoff() has loaded the Program before.
Received(observed) ==
    /\ Idle /\ ctl.pc = "reading" /\ ctl.op # "prepare"
    /\ recs' = [recs EXCEPT !.age = BaselineAge(observed)]
    /\ ctl.op = "handoff" => Current # None /\ Chain(Current.facts) = ctl.chain
    /\ LET read == [ctl EXCEPT !.pc = "first", !.ev = Evidence(ctl.decl)]
       IN  /\ read.ev = recs.drafts[ctl.draft].ev /\ Remains(ctl.decl, read.ev)
           /\ ctl.draft = Len(recs.drafts)
           /\ Current # None => ~Cancelled(Current.facts)
           /\ ctl' = read
    /\ UNCHANGED <<vars, result, world>>

\* _consumptions(): those of this decision.
Matching == {c \in DOMAIN recs.consumed : recs.consumed[c].decision = ctl.d}

\* What an approval comes to: the decision was consumed for the Program as it is;
\* or the Program is created, or amended at the revision that was consumed.
PlanFits(plan) ==
    LET done == Current # None /\ \E c \in Matching : recs.consumed[c].chain = Chain(Current.facts)
    IN  CASE plan = "again"  -> done
          [] plan = "create" -> Current = None
          [] plan = "amend"  -> /\ Current # None /\ ~done
                                /\ \A c \in Matching : recs.consumed[c].expected = Revision(Current.facts)

DecisionOf(plan) ==
    <<IF plan = "create" THEN "create" ELSE "amend", Content(recs.drafts[ctl.draft])>>

\* The specification that the approval leads to.
ChainAfter(plan) ==
    CASE plan = "again"  -> Chain(Current.facts)
      [] plan = "create" -> <<DecisionOf(plan)>>
      [] plan = "amend"  -> Chain(Apply(Current.facts, DecisionOf(plan)))

\* The clock was read in time; the way is chosen and, without a budget, everything is
\* validated again.  A budget is never removed.
Plan(plan) ==
    /\ Idle /\ ctl.pc = "first" /\ ctl.op = "approve"
    /\ CheckTime
    /\ PlanFits(plan)
    /\ ctl.policy = "plain" => recs.bound = None /\ CheckAuthority
    /\ ctl' = [ctl EXCEPT !.pc = IF ctl.policy = "plain" THEN "second" ELSE "accept",
                          !.plan = plan, !.chain = ChainAfter(plan),
                          !.basis = IF Current = None THEN <<>> ELSE Chain(Current.facts),
                          !.expected = IF plan = "amend" THEN Revision(Current.facts) ELSE -1]
    /\ UNCHANGED <<vars, recs, result, world>>

Decision == [draft |-> ctl.draft, ev |-> ctl.ev, expires |-> ctl.expires, policy |-> ctl.policy]
Consumption == [decision |-> ctl.d, draft |-> ctl.draft, chain |-> ctl.chain, expected |-> ctl.expected]

\* intent() refuses a key that has another content.
DecisionFree == recs.decisions[ctl.d] \in {None, Decision}
ConsumptionFree == ctl.plan # "again" => \A c \in Matching : recs.consumed[c] = Consumption

WithDecision(r) == [r EXCEPT !.decisions[ctl.d] = Decision]

WithConsumption(r) ==
    IF Matching # {} \/ ctl.plan = "again" THEN r ELSE [r EXCEPT !.consumed = Append(@, Consumption)]

\* Mutant: the command is admitted before its consumption is recorded.
RecordDecisionFirst ==
    /\ Idle /\ ctl.pc = "second" /\ ctl.op = "approve"
    /\ CheckTime /\ DecisionFree
    /\ recs' = WithDecision(recs)
    /\ ctl' = [ctl EXCEPT !.pc = "third"]
    /\ UNCHANGED <<vars, result, world>>

\* The decision is recorded.
RecordDecision ==
    /\ Idle /\ ctl.pc = "second" /\ ctl.op = "approve"
    /\ CheckTime /\ DecisionFree
    /\ recs' = WithDecision(recs)
    /\ ctl' = [ctl EXCEPT !.pc = "consume"]
    /\ UNCHANGED <<vars, result, world>>

\* Its consumption is recorded, unless it was before, and everything is validated again.
RecordConsumption ==
    /\ Idle /\ ctl.pc = "consume"
    /\ ConsumptionFree
    /\ recs' = WithConsumption(recs)
    /\ ctl' = IF CheckAuthority THEN [ctl EXCEPT !.pc = "third"] ELSE Quiet
    /\ UNCHANGED <<vars, result, world>>

ApprovalCall ==
    [key |-> ctl.d, program |-> Task, decision |-> DecisionOf(ctl.plan),
     expected |-> IF ctl.plan = "amend" THEN ctl.expected ELSE 0, intent |-> None]

\* create() or, on the specification that was amended, admit().
Submit ==
    /\ ctl.pc = "third" /\ ctl.plan # "again"
    /\ CheckTime
    /\ ctl.plan = "amend" => Chain(Current.facts) = ctl.basis
    /\ Begin(ApprovalCall)
    /\ ctl' = [ctl EXCEPT !.pc = "admitting"]
    /\ UNCHANGED <<recs, result, world>>

\* Without a command, or in a handoff, the last validation is followed by the final read.
Confirmed ==
    /\ Idle
    /\ \/ ctl.pc = "third" /\ ctl.plan = "again"
       \/ ctl.pc = "second" /\ ctl.op = "handoff"
    /\ CheckTime
    /\ ctl' = [ctl EXCEPT !.pc = "final"]
    /\ UNCHANGED <<vars, recs, result, world>>

\* handoff(): the decision and a consumption for this very specification are on record.
Compare ==
    /\ Idle /\ ctl.pc = "first" /\ ctl.op = "handoff"
    /\ CheckTime
    /\ recs.decisions[ctl.d].draft = ctl.draft /\ recs.decisions[ctl.d].ev = ctl.ev
    /\ \E c \in Matching : recs.consumed[c].chain = ctl.chain
    /\ CheckAuthority
    /\ ctl' = [ctl EXCEPT !.pc = "second"]
    /\ UNCHANGED <<vars, recs, result, world>>

\* _final_program(): a read cut whose clock is read after everything else.
OpenFinal ==
    /\ ctl.pc = "final"
    /\ OpenCut(Task)
    /\ Chain(Current.facts) = ctl.chain
    /\ CheckAuthority
    /\ ctl' = [ctl EXCEPT !.pc = "cut"]
    /\ UNCHANGED <<recs, result, world>>

Told(at) == [op |-> ctl.op, d |-> ctl.d, draft |-> ctl.draft, chain |-> ctl.chain, at |-> at]

CloseFinal ==
    /\ ctl.pc = "cut"
    /\ CloseCut /\ ~cut.touched
    /\ CheckTime
    /\ result' = Told(world.now)
    /\ ctl' = Quiet
    /\ UNCHANGED <<recs, world>>

-----------------------------------------------------------------------------
(* Approval with a work budget: accept_work_budget(). *)

\* The expiry of the first acceptance, and its specification until it is bound, cannot
\* be replaced.  It is committed by itself; then the caller validates.
AcceptBudget ==
    /\ Idle /\ ctl.pc = "accept"
    /\ recs.bound \in {None, ctl.expires}
    /\ recs.bound = None => recs.origin \in {None, [chain |-> ctl.chain, expires |-> ctl.expires]}
    /\ recs' = [recs EXCEPT !.origin = IF recs.bound = None
                                       THEN [chain |-> ctl.chain, expires |-> ctl.expires] ELSE @]
    /\ cut' = [program |-> Task, facts |-> IF Current = None THEN <<>> ELSE Current.facts,
               operations |-> disk.operations, touched |-> FALSE]
    /\ ctl' = IF CheckAuthority THEN [ctl EXCEPT !.pc = "validate"] ELSE [ctl EXCEPT !.pc = "refused"]
    /\ UNCHANGED <<disk, up, txn, answers, result, world>>

\* Nothing was written while the caller's validation read its clock.
Validated ==
    /\ ctl.pc = "validate"
    /\ CloseCut /\ ~cut.touched
    /\ CheckTime
    /\ ctl' = [ctl EXCEPT !.pc = "submit", !.at = world.now]
    /\ UNCHANGED <<recs, result, world>>

WithBudget(r) == WithConsumption(WithDecision([r EXCEPT !.bound = ctl.expires]))

\* The Program is as approved already: only the records are written.
AcceptRecords ==
    /\ Idle /\ ctl.pc = "submit"
    /\ ctl.chain = ctl.basis
    /\ DecisionFree /\ ConsumptionFree
    /\ recs' = WithBudget(recs)
    /\ result' = Told(ctl.at)
    /\ ctl' = Quiet
    /\ UNCHANGED <<vars, world>>

AcceptCommand ==
    /\ ctl.pc = "submit" /\ ctl.chain # ctl.basis
    /\ DecisionFree /\ ConsumptionFree
    /\ Begin(ApprovalCall)
    /\ ctl' = [ctl EXCEPT !.pc = "admitting"]
    /\ UNCHANGED <<recs, result, world>>

-----------------------------------------------------------------------------
(* The store under its callers. *)

\* The intake's own transaction: with a budget its records are part of it.
ApprovalCommits ==
    /\ ctl.pc = "admitting"
    /\ Commit
    /\ IF ctl.policy = "plain"
       THEN /\ ctl' = [ctl EXCEPT !.pc = "final"]
            /\ UNCHANGED <<recs, result>>
       ELSE /\ recs' = WithBudget(recs)
            /\ result' = Told(ctl.at)
            /\ ctl' = Quiet
    /\ UNCHANGED world

ApprovalFails ==
    /\ ctl.pc = "admitting"
    /\ Rollback
    /\ ctl' = Quiet
    /\ UNCHANGED <<recs, result, world>>

\* Other callers get the thread when no call of the intake runs, or while one reads
\* evidence or its clock.
Reentrant == ctl.pc \in {"idle", "reading", "first", "second", "third", "cut", "validate"}

OtherCalls ==
    [key : Keys \ DecisionIds, program : Programs, decision : {<<"create", s>> : s \in OtherSpecs},
     expected : {0}, intent : {None}]
    \cup [key : Keys \ DecisionIds, program : Programs,
          decision : {<<"amend", s>> : s \in OtherSpecs} \cup {<<"command", c>> : c \in Commands},
          expected : 0..MaxRecords, intent : Intents \cup {None}]

OtherBegins ==
    /\ Reentrant /\ Work < MaxWork
    /\ \/ \E call \in OtherCalls : Begin(call)
       \/ \E intent \in Intents : IntentAlone(intent)
    /\ UNCHANGED intakeVars

OtherReplays ==
    /\ Reentrant
    /\ \E call \in OtherCalls : Replay(call)
    /\ UNCHANGED intakeVars

Statement == Write /\ UNCHANGED intakeVars

OtherEnds ==
    /\ ctl.pc # "admitting"
    /\ Commit \/ Rollback
    /\ UNCHANGED intakeVars

\* A refusal, or an exception at any step.
GiveUp ==
    /\ Idle /\ ctl.pc \notin {"idle", "admitting"}
    /\ ctl' = Quiet /\ cut' = None
    /\ UNCHANGED <<disk, up, txn, answers, recs, result, world>>

ProcessDies ==
    /\ Crash
    /\ ctl' = Quiet /\ result' = None
    /\ UNCHANGED <<recs, world>>

Starts == Open /\ UNCHANGED intakeVars

TimePasses ==
    /\ world.now < MaxNow
    /\ world' = [world EXCEPT !.now = @ + 1]
    /\ UNCHANGED <<vars, recs, ctl, result>>

NativeChanges ==
    /\ world.native < MaxNative
    /\ world' = [world EXCEPT !.native = @ + 1]
    /\ UNCHANGED <<vars, recs, ctl, result>>

IntakeNext ==
    \/ \E decl \in Declarations : Prepare(decl)
    \/ \E observed \in 1..world.now : RecordDraft(observed) \/ Received(observed)
    \/ \E n \in 0..world.native, decl \in Declarations, remains \in BOOLEAN : Review(n, decl, remains)
    \/ \E d \in DecisionIds, i \in DOMAIN recs.drafts : \E terms \in Terms[d] : Approve(d, i, terms)
    \/ \E plan \in {"again", "create", "amend"} : Plan(plan)
    \/ Handoff \/ Compare \/ Confirmed \/ RecordDecision \/ RecordConsumption \/ Submit
    \/ OpenFinal \/ CloseFinal \/ AcceptBudget \/ Validated \/ AcceptRecords \/ AcceptCommand
    \/ ApprovalCommits \/ ApprovalFails
    \/ OtherBegins \/ OtherReplays \/ OtherEnds \/ Statement
    \/ GiveUp \/ ProcessDies \/ Starts \/ TimePasses \/ NativeChanges

IntakeSpec == IntakeInit /\ [][IntakeNext]_allVars

-----------------------------------------------------------------------------
(* Properties. *)

\* Whatever was interrupted and repeated, every command an approval gave the Program has
\* its durable decision, says what the decided draft says, and is the one use of that
\* decision.  (approve(), accept_work_budget().)
ApprovalsDecided ==
    /\ \A r \in disk.history : r.key \in DecisionIds =>
          LET decided == recs.decisions[r.key]
          IN  /\ decided # None
              /\ r.input.decision[2] = Content(recs.drafts[decided.draft])
              /\ \E c \in DOMAIN recs.consumed :
                    /\ recs.consumed[c].decision = r.key /\ recs.consumed[c].draft = decided.draft
                    /\ recs.consumed[c].chain = Chain(r.facts)
    /\ \A c, e \in DOMAIN recs.consumed : recs.consumed[c].decision = recs.consumed[e].decision => c = e

\* A caller is told of an approval, or the translator of a handoff, only while the Program is what
\* was approved and not abandoned, no newer draft exists, the decision has not expired and no
\* reading of the baseline is too old, although callbacks may have written in the meantime.
\* (_final_program(), accept_work_budget().)
HandoffCurrent ==
    [][result' # None /\ result' # result =>
          LET facts == disk'.projection[Task].facts
              draft == recs'.drafts[result'.draft]
              decided == recs'.decisions[result'.d]
          IN  /\ ~Cancelled(facts) /\ Chain(facts) = result'.chain
              /\ Chain(facts)[Len(Chain(facts))][2] = Content(draft)
              /\ result'.draft = Len(recs'.drafts) /\ decided # None /\ decided.draft = result'.draft
              /\ result'.at < decided.expires /\ result'.at - recs'.age <= Freshness]_result
-----------------------------------------------------------------------------
(* The inductive strengthening, in parts. *)

Pcs == {"idle", "reading", "first", "second", "consume", "third", "accept", "refused", "validate", "submit",
        "admitting", "final", "cut"}
Evidences == {s[2] : s \in Specs}
Policies == {"plain", "budget"}

Drafts == {draft \in [decl : {s[1] : s \in Specs}, ev : Evidences] : Content(draft) \in Specs}
DecisionRows == [draft : Nat, ev : Evidences, expires : Nat, policy : Policies]
Consumptions == [decision : DecisionIds, draft : Nat, chain : Facts, expected : Int]

\* The records have their types, and the caller's memory has what its step needs.
IntakeTypeOK ==
    /\ recs \in [drafts : Seq(Drafts),
                 reviews : Seq([native : Nat, decl : Declarations, remains : BOOLEAN]),
                 decisions : [DecisionIds -> DecisionRows \cup {None}], consumed : Seq(Consumptions),
                 age : Nat, origin : [chain : Facts, expires : Nat] \cup {None}, bound : Nat \cup {None}]
    /\ DOMAIN ctl = DOMAIN Quiet
    /\ ctl.pc \in Pcs /\ ctl.chain \in Facts /\ ctl.basis \in Facts /\ ctl.at \in Nat
    /\ ctl.expected \in Int
    /\ ctl.pc # "idle" => ctl.op \in {"prepare", "approve", "handoff"}
    /\ ctl.pc # "idle" /\ ctl.op # "prepare" =>
          ctl.d \in DecisionIds /\ ctl.draft \in DOMAIN recs.drafts /\ ctl.expires \in Nat
    /\ ctl.pc \notin {"idle", "reading"} => ctl.op # "prepare" /\ ctl.ev = recs.drafts[ctl.draft].ev
    /\ ctl.pc # "idle" /\ ctl.op = "approve" => ctl.policy \in Policies
    /\ result # None => result \in [op : {"approve", "handoff"}, d : DecisionIds, draft : Nat, chain : Facts,
                                    at : Nat]
    /\ world \in [native : Nat, now : Nat]

\* The way of an approval, with and without a budget.
WayTaken ==
    /\ ctl.pc \in {"consume", "third", "accept", "refused", "validate", "submit", "admitting"} => ctl.op = "approve"
    /\ ctl.op = "approve" /\ ctl.pc \in {"second", "consume", "third", "final", "cut"} => ctl.policy = "plain"
    /\ ctl.pc \in {"accept", "refused", "validate", "submit"} => ctl.policy = "budget"

\* One approval's transaction is told from all others by its key, nothing is committed where the
\* caller does not let others run, and a transaction that has written has touched the open cut.
CallsApart ==
    /\ ctl.pc # "idle" => up
    /\ ctl.pc \in {"accept", "submit"} => txn = None
    /\ txn # None => (txn.call.key \in DecisionIds <=> ctl.pc = "admitting")
    /\ cut # None /\ ~cut.touched /\ txn # None => txn.step = "history"
    /\ ctl.pc = "admitting" =>
          txn.call = ApprovalCall /\ Chain(txn.facts) = ctl.chain /\ ctl.plan # "again"

Says(chain, draft) == chain[Len(chain)][2] = Content(recs.drafts[draft])

\* The chain of an approval follows from the chain it was planned on.
PlanKept ==
    ctl.op = "approve" /\ ctl.pc \notin {"idle", "reading", "first"} =>
        \/ ctl.plan = "create" /\ ctl.basis = <<>> /\ ctl.chain = <<DecisionOf("create")>>
        \/ /\ ctl.plan = "amend"
           /\ ctl.chain = IF Says(ctl.basis, ctl.draft) THEN ctl.basis
                          ELSE Append(ctl.basis, DecisionOf("amend"))
        \/ /\ ctl.plan = "again" /\ ctl.chain = ctl.basis
           /\ \E c \in Matching : recs.consumed[c].chain = ctl.chain

\* What is on record at each step of a call, and what it will not contradict.
RecordsKept ==
    /\ ctl.op = "approve" /\ ctl.policy = "plain" =>
          /\ ctl.pc \in {"consume", "third", "admitting", "final", "cut"} => recs.decisions[ctl.d] = Decision
          /\ ctl.pc \in {"third", "admitting", "final", "cut"} /\ ctl.plan # "again" =>
                \E c \in Matching : recs.consumed[c] = Consumption
    /\ ctl.pc = "admitting" /\ ctl.policy = "budget" => DecisionFree /\ ConsumptionFree
    /\ ctl.pc # "idle" /\ ctl.op = "handoff" =>
          /\ recs.decisions[ctl.d] # None
          /\ recs.decisions[ctl.d].draft = ctl.draft /\ recs.decisions[ctl.d].expires = ctl.expires
          /\ ctl.pc \in {"second", "final", "cut"} => \E c \in Matching : recs.consumed[c].chain = ctl.chain
    /\ result # None => recs.decisions[result.d] # None /\ recs.decisions[result.d].draft = result.draft

\* A decision is about a draft; its consumption is too, and is for a specification that says so.
ConsumptionsDecided ==
    /\ \A d \in DecisionIds : recs.decisions[d] # None => recs.decisions[d].draft \in DOMAIN recs.drafts
    /\ \A c \in DOMAIN recs.consumed :
          LET decided == recs.decisions[recs.consumed[c].decision]
          IN  decided # None /\ decided.draft = recs.consumed[c].draft
              /\ Says(recs.consumed[c].chain, decided.draft)

\* What was validated last still holds while nothing is written.
ValidKept ==
    LET quiet == cut # None /\ ~cut.touched
    IN  /\ ctl.pc = "cut" /\ quiet =>
              Current # None /\ Chain(Current.facts) = ctl.chain /\ ~Cancelled(Current.facts)
        /\ ctl.pc \in {"accept", "submit"} \/ (ctl.pc = "validate" /\ quiet) =>
              /\ ctl.basis = IF Current = None THEN <<>> ELSE Chain(Current.facts)
              /\ ctl.plan # "create" => Current # None
              /\ Current # None /\ ctl.pc # "accept" => ~Cancelled(Current.facts)
        /\ ctl.pc \in {"cut", "validate", "submit"} \/ (ctl.pc = "admitting" /\ ctl.policy = "budget") =>
              ctl.draft = Len(recs.drafts)
        /\ ctl.pc = "submit" \/ (ctl.pc = "admitting" /\ ctl.policy = "budget") =>
              ctl.at < ctl.expires /\ ctl.at - recs.age <= Freshness

IntakeInv ==
    /\ StoreInv /\ IntakeTypeOK /\ WayTaken /\ CallsApart /\ PlanKept /\ RecordsKept
    /\ ConsumptionsDecided /\ ValidKept /\ ApprovalsDecided
=============================================================================
