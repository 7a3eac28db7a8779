----------------------------- MODULE WorkBudget -----------------------------
(***************************************************************************)
(* The finite work capacity of Programs and Projects                       *)
(* (adapters/sqlite_store.py, lines 3033-3100, 3185-3720 and 3934-3980;    *)
(* core/work_budget.py) and the callers that consume it: the preparation   *)
(* and the run of an Attempt, and its checks (ports/application.py,        *)
(* BudgetedChecks).                                                        *)
(*                                                                         *)
(* Capacity is reserved before work is sent, and only ever given back by   *)
(* evidence that the work is over: neither the end of an Attempt nor a     *)
(* crash nor a revocation returns any.  Reservations of a Program also     *)
(* count against the Project it belongs to.                                *)
(***************************************************************************)
EXTENDS Integers, FiniteSets, FiniteSetsExt

CONSTANTS
    Programs, Projects,
    ProjectOf,      \* ProjectOf[p]: the Project in the binding of p
    Attempts,
    ProgramOf,      \* ProgramOf[a]
    UnitOf,         \* UnitOf[a]
    RemediationOf,  \* RemediationOf[a]: the Attempt that a remediates, or None
    Policy,         \* Policy[s]: the immutable WorkBudgetPolicy of a Program or Project
    Snapshots,      \* sizes of the baseline snapshots of claims
    Sizes,          \* sizes of outputs and results
    Receipts,       \* usage receipts of providers
    Quantities,     \* what a receipt may report; None for an unknown quantity
    MaxFence,       \* bound on the deliveries of an Operation
    MaxUsage,       \* bound on the usage observations
    None

Categories == {"attempt", "verification", "retry", "remediation"}
CountOnly == {"retry", "remediation"}

ASSUME BudgetAssumption ==
    /\ ProjectOf \in [Programs -> Projects] /\ Programs \cap Projects = {}
    /\ ProgramOf \in [Attempts -> Programs]
    /\ \A s \in Programs \cup Projects :
          /\ Policy[s].counts \in [Categories -> Nat]
          /\ Policy[s].active \in Nat \ {0} /\ Policy[s].bytes \in Nat \ {0}
          /\ Policy[s].ceiling = None \/ Policy[s].ceiling \in Nat \ {0}
    /\ Snapshots \subseteq Nat \ {0} /\ Sizes \subseteq Nat \ {0} /\ Quantities \subseteq Nat \cup {None}
    /\ \A a \in Attempts : RemediationOf[a] # None => UnitOf[RemediationOf[a]] = UnitOf[a]
    /\ MaxFence \in Nat /\ MaxUsage \in Nat /\ None \notin Nat
    /\ None \notin [op : Attempts \X {"check"}, step : {"intended", "claimed", "running", "stored"}]

Ops == Attempts \X {"run", "check"}
CategoryOf(op) == IF op[2] = "run" THEN "attempt" ELSE "verification"

VARIABLES
    attempt,      \* attempt[a]: "none", "live", "finished" or "ended"
    satisfied,    \* the satisfied WorkUnits
    owned,        \* the Attempts prepared by claim_work()
    revoked,      \* Programs without authority: revoked, stopped or past their deadline
    reserved,     \* the "reservation" records
    settled,      \* Operations with a "settlement"
    closed,       \* Operations with a trusted-profile "ownership-settlement"
    stored,       \* stored[op]: the bytes of its distinct artifacts
    usage,        \* the "usage" records
    status,       \* status[op]: the journal's view
    fence,        \* fence[op]: its deliveries
    results,      \* the checks whose "result" artifact is stored
    checking,     \* memory: the check under way
    busy,         \* Operations that are being executed
    executions    \* history: executions[op]

domainVars == <<attempt, satisfied, owned, revoked>>
recordVars == <<reserved, settled, closed, stored>>
journalVars == <<status, fence, results>>
vars == <<domainVars, recordVars, usage, journalVars, checking, busy, executions>>

Init ==
    /\ attempt = [a \in Attempts |-> "none"]
    /\ satisfied = {} /\ owned = {} /\ revoked = {}
    /\ reserved = {} /\ settled = {} /\ closed = {} /\ usage = {}
    /\ stored = [op \in Ops |-> 0]
    /\ status = [op \in Ops |-> "none"] /\ fence = [op \in Ops |-> 0]
    /\ results = {} /\ checking = None /\ busy = {}
    /\ executions = [op \in Ops |-> 0]

-----------------------------------------------------------------------------
(* Accounting. *)

\* A reservation; n tells the retries of an Operation apart from itself.
Reservation(op, category, n, bytes) == [op |-> op, category |-> category, n |-> n, bytes |-> bytes]

Original(op, bytes) == Reservation(op, CategoryOf(op), 0, bytes)
IsReserved(op) == \E r \in reserved : r.op = op /\ r.n = 0 /\ r.category = CategoryOf(op)

\* Mutant: the Project's policy is not consulted.
ScopesOfProgram == [a \in Attempts |-> {ProgramOf[a]}]

\* The two policies that a reservation counts against.
ScopesOf == [a \in Attempts |-> {ProgramOf[a], ProjectOf[ProgramOf[a]]}]

\* The Attempts of a Program or Project.
AttemptsIn == [s \in Programs \cup Projects |-> {a \in Attempts : s \in {ProgramOf[a], ProjectOf[ProgramOf[a]]}}]

InScope(records, s) == {r \in records : r.op[1] \in AttemptsIn[s]}

Count(records, s, category) == Cardinality({r \in InScope(records, s) : r.category = category})

\* The Attempts with an Operation that nobody settled.
Active(records, s) ==
    {r.op[1] : r \in {q \in InScope(records, s) : q.category \notin CountOnly /\ q.op \notin settled}}

\* _retained_work_bytes(): what was reserved and, for a claim, not less than what is
\* stored.  (Only commands record a final count; they are not part of this module.)
Held(r) == IF r.op[1] \in owned /\ stored[r.op] > r.bytes THEN stored[r.op] ELSE r.bytes

HeldIn(records, s) ==
    MapThenSumSet(Held, {r \in InScope(records, s) : r.category \notin CountOnly})

\* _effective_usage(): the observations that no later one corrected.
Effective(facts) == {f \in facts : \A g \in facts : g.supersedes # f.id}

\* _check_resource_headroom().  Under a resource ceiling any other reservation may
\* have consumed all of it: nothing installed bounds what a client hides.
Headroom(records, a, except) ==
    \A s \in ScopesOf[a] : Policy[s].ceiling # None =>
        LET scoped == InScope(records, s)
            facts == Effective({f \in usage : \E r \in scoped : r.op = f.op})
        IN  /\ \A f \in facts : f.quantity # None
            /\ MapThenSumSet(LAMBDA f : f.quantity, facts) < Policy[s].ceiling
            /\ \A r \in scoped : r.op = except /\ r.category \notin CountOnly

\* check_work_authority()
Authority(a) == ProgramOf[a] \notin revoked

\* _reserve_work(), for a reservation that does not exist yet.
CanReserve(records, new) ==
    LET a == new.op[1]
    IN  /\ Authority(a)
        /\ \A s \in ScopesOf[a] :
            /\ Count(records, s, new.category) < Policy[s].counts[new.category]
            /\ a \in Active(records, s) \/ Cardinality(Active(records, s)) < Policy[s].active
            /\ HeldIn(records, s) + new.bytes <= Policy[s].bytes
        /\ Headroom(records, a, None)

Live(u) == \E a \in Attempts : UnitOf[a] = u /\ attempt[a] = "live"
Superseded(a) == \E b \in Attempts : RemediationOf[b] = a /\ attempt[b] # "none"

\* What the state of the Attempt and its WorkUnit permits.
Permitted(op) ==
    LET a == op[1]
    IN  IF op[2] = "run" THEN attempt[a] = "live"
        ELSE /\ attempt[a] = "finished" /\ ~Superseded(a)
             /\ UnitOf[a] \notin satisfied /\ ~Live(UnitOf[a])

\* check_work_dispatch(), the ownership checks aside.
Dispatchable(op) ==
    /\ IsReserved(op)
    /\ Authority(op[1])
    /\ op \notin closed
    /\ Permitted(op)
    /\ Headroom(reserved, op[1], op)

-----------------------------------------------------------------------------
(* Attempts. *)

\* PrepareAttempt with its reservations and its intent in one transaction.  A
\* snapshot makes it claim_work(), which also pays for its bytes.
Prepare(a, snapshot) ==
    LET run == <<a, "run">>
        remediation == IF RemediationOf[a] = None THEN {} ELSE {Reservation(run, "remediation", 0, 0)}
        new == Original(run, snapshot)
    IN  /\ attempt[a] = "none" /\ UnitOf[a] \notin satisfied /\ ~Live(UnitOf[a])
        /\ RemediationOf[a] # None => attempt[RemediationOf[a]] = "finished"
        /\ \A r \in remediation : CanReserve(reserved, r)
        /\ CanReserve(reserved \cup remediation, new)
        /\ reserved' = reserved \cup remediation \cup {new}
        /\ attempt' = [attempt EXCEPT ![a] = "live"]
        /\ owned' = IF snapshot > 0 THEN owned \cup {a} ELSE owned
        /\ stored' = [stored EXCEPT ![run] = snapshot]
        /\ status' = [status EXCEPT ![run] = "intent"]
        /\ UNCHANGED <<satisfied, revoked, settled, closed, usage, fence, results, checking, busy, executions>>

\* The effects of one Attempt changing its status.
SetAttempt(a, from, to) ==
    /\ attempt[a] = from
    /\ attempt' = [attempt EXCEPT ![a] = to]
    /\ UNCHANGED <<satisfied, owned, revoked, recordVars, usage, journalVars, checking, busy, executions>>

\* The runtime's terminal observation comes first.
FinishAttempt(a) == status[<<a, "run">>] = "terminal" /\ SetAttempt(a, "live", "finished")

\* CancelAttempt, FailAttempt, a withdrawal or STOP: nothing is given back.
EndAttempt(a) == SetAttempt(a, "live", "ended")

\* SatisfyWorkUnit records the completion of the run in its own transaction.
Satisfy(a) ==
    /\ attempt[a] = "finished" /\ ~Superseded(a) /\ Authority(a)
    /\ UnitOf[a] \notin satisfied
    /\ satisfied' = satisfied \cup {UnitOf[a]}
    /\ settled' = settled \cup {<<a, "run">>}
    /\ UNCHANGED <<attempt, owned, revoked, reserved, closed, stored, usage, journalVars,
                   checking, busy, executions>>

\* record_work_completion() after a rejected verification.
Reject(a) ==
    /\ attempt[a] = "finished" /\ Authority(a) /\ <<a, "run">> \notin settled
    /\ settled' = settled \cup {<<a, "run">>}
    /\ UNCHANGED <<domainVars, reserved, closed, stored, usage, journalVars, checking, busy, executions>>

\* revoke_work_budget(), a STOP or the deadline.
Revoke(p) ==
    /\ p \notin revoked
    /\ revoked' = revoked \cup {p}
    /\ UNCHANGED <<attempt, satisfied, owned, recordVars, usage, journalVars, checking, busy, executions>>

-----------------------------------------------------------------------------
(* The run of an Attempt. *)

\* _claim_operation() pays for a delivery after the first with a retry.
RetryOf(op) == IF fence[op] = 0 THEN {} ELSE {Reservation(op, "retry", fence[op] + 1, 0)}

\* _claim_operation(): the rest of the journal is OperationJournal.
ClaimDelivery(op) ==
    /\ status[op] \in {"intent", "absent"} /\ fence[op] < MaxFence
    /\ Dispatchable(op)
    /\ \A r \in RetryOf(op) : CanReserve(reserved, r)
    /\ reserved' = reserved \cup RetryOf(op)
    /\ status' = [status EXCEPT ![op] = "dispatched"]
    /\ fence' = [fence EXCEPT ![op] = @ + 1]
    /\ UNCHANGED <<domainVars, settled, closed, stored, usage, results, busy, executions>>

ClaimRun(a) == checking = None /\ ClaimDelivery(<<a, "run">>) /\ UNCHANGED checking

\* The delivery's last check, and the execution.
Execute(op) ==
    /\ Dispatchable(op)
    /\ busy' = busy \cup {op}
    /\ executions' = [executions EXCEPT ![op] = @ + 1]
    /\ UNCHANGED <<domainVars, recordVars, usage, fence, results>>

Run(a) ==
    /\ status[<<a, "run">>] = "dispatched"
    /\ status' = [status EXCEPT ![<<a, "run">>] = "sent"]
    /\ Execute(<<a, "run">>)
    /\ UNCHANGED checking

\* A lookup proves that a delivery did not happen.
Absent(a) ==
    /\ status[<<a, "run">>] = "dispatched"
    /\ status' = [status EXCEPT ![<<a, "run">>] = "absent"]
    /\ UNCHANGED <<domainVars, recordVars, usage, fence, results, checking, busy, executions>>

\* The run ends, whatever became of its Attempt, and its end is observed.
RunEnds(a) ==
    /\ <<a, "run">> \in busy
    /\ busy' = busy \ {<<a, "run">>}
    /\ status' = [status EXCEPT ![<<a, "run">>] = "terminal"]
    /\ UNCHANGED <<domainVars, recordVars, usage, fence, results, checking, executions>>

\* record_work_settlement(), or a claim's proof, by a producer that knows the
\* run to be over; also for one that was never sent.
Settle(a) ==
    /\ IsReserved(<<a, "run">>)
    /\ <<a, "run">> \notin busy \cup closed
    /\ settled' = settled \cup {<<a, "run">>}
    /\ closed' = closed \cup {<<a, "run">>}
    /\ UNCHANGED <<domainVars, reserved, stored, usage, journalVars, checking, busy, executions>>

-----------------------------------------------------------------------------
(* BudgetedChecks.check(), one at a time; the process may die at any step. *)

CheckAt(step) == checking # None /\ checking.step = step

NextStep(step) == checking' = [checking EXCEPT !.step = step]

BeginCheck(a) ==
    LET op == <<a, "check">>
    IN  /\ checking = None /\ attempt[a] = "finished"
        /\ Authority(a)
        /\ checking' = [op |-> op, step |-> "intended"]
        /\ IF IsReserved(op) THEN UNCHANGED <<reserved, status>>
           ELSE /\ CanReserve(reserved, Original(op, 0))
                /\ reserved' = reserved \cup {Original(op, 0)}
                /\ status' = [status EXCEPT ![op] = "intent"]
        /\ UNCHANGED <<domainVars, settled, closed, stored, usage, fence, results, busy, executions>>

FirstCheck ==
    /\ CheckAt("intended") /\ checking.op \notin results
    /\ fence[checking.op] = 0
    /\ ClaimDelivery(checking.op)
    /\ NextStep("claimed")

\* Mutant: a check that was interrupted is simply done again.
RepeatsOf(op) == {}

\* retry_work(): the next retry of the Operation.
WorkRetryOf(op) ==
    {Reservation(op, "retry", 1 + Cardinality({r \in reserved : r.op = op /\ r.category = "retry"}), 0)}

\* The check was claimed before, and its result is not there.
RetryCheck ==
    /\ CheckAt("intended") /\ checking.op \notin results
    /\ fence[checking.op] > 0
    /\ \A r \in WorkRetryOf(checking.op) : CanReserve(reserved, r)
    /\ reserved' = reserved \cup WorkRetryOf(checking.op)
    /\ NextStep("claimed")
    /\ UNCHANGED <<domainVars, settled, closed, stored, usage, journalVars, busy, executions>>

RunCheck ==
    /\ CheckAt("claimed")
    /\ Execute(checking.op)
    /\ NextStep("running")
    /\ UNCHANGED status

\* _check_owned_artifact_budget(): what a claim's artifacts need beyond what is
\* held for them must be there.
ArtifactFits(op, size) ==
    op[1] \in owned /\ IsReserved(op) =>
        LET r == CHOOSE x \in reserved : x.op = op /\ x.category = CategoryOf(op)
            extra == stored[op] + size - Held(r)
        IN  extra > 0 => \A s \in ScopesOf[op[1]] : HeldIn(reserved, s) + extra <= Policy[s].bytes

\* finalize_artifact() of the result.
StoreResult(size) ==
    /\ CheckAt("running")
    /\ ArtifactFits(checking.op, size)
    /\ stored' = IF checking.op[1] \in owned THEN [stored EXCEPT ![checking.op] = @ + size] ELSE stored
    /\ results' = results \cup {checking.op}
    /\ busy' = busy \ {checking.op}
    /\ NextStep("stored")
    /\ UNCHANGED <<domainVars, reserved, settled, closed, usage, status, fence, executions>>

\* _record_result(), right after the run or from the stored result.
SettleCheck ==
    /\ CheckAt("stored") \/ (CheckAt("intended") /\ checking.op \in results)
    /\ status' = [status EXCEPT ![checking.op] = IF @ = "dispatched" THEN "terminal" ELSE @]
    /\ settled' = settled \cup {checking.op}
    /\ closed' = closed \cup {checking.op}
    /\ checking' = None
    /\ UNCHANGED <<domainVars, reserved, stored, usage, fence, results, busy, executions>>

\* A refusal at any step, or a crash: a check runs in the process.
CheckFails ==
    /\ checking # None
    /\ checking' = None
    /\ busy' = busy \ {checking.op}
    /\ UNCHANGED <<domainVars, recordVars, usage, journalVars, executions>>

-----------------------------------------------------------------------------
(* Bytes and usage. *)

\* Another artifact of a claim's run: an output, or a later snapshot.
StoreOutput(a, size) ==
    LET run == <<a, "run">>
    IN  /\ a \in owned
        /\ ArtifactFits(run, size)
        /\ stored' = [stored EXCEPT ![run] = @ + size]
        /\ UNCHANGED <<domainVars, reserved, settled, closed, usage, journalVars, checking, busy, executions>>

\* Mutant: any observation of a receipt is taken.
UsageAdmittedAny(fact) == TRUE

\* record_usage(): the first observation of a receipt, or a correction of the
\* latest one, for the Operation it was first attributed to.
UsageAdmitted(fact) ==
    LET prior == {f \in Effective(usage) : f.receipt = fact.receipt}
    IN  /\ \A f \in prior : f.op = fact.op
        /\ IF prior = {} THEN fact.supersedes = None
           ELSE Cardinality(prior) = 1 /\ \A f \in prior : fact.supersedes = f.id

RecordUsage(op, receipt, quantity, supersedes) ==
    LET fact == [id |-> Cardinality(usage) + 1, op |-> op, receipt |-> receipt, quantity |-> quantity,
                 supersedes |-> supersedes]
    IN  /\ IsReserved(op) /\ Cardinality(usage) < MaxUsage
        /\ UsageAdmitted(fact)
        /\ usage' = usage \cup {fact}
        /\ UNCHANGED <<domainVars, recordVars, journalVars, checking, busy, executions>>

AttemptNext ==
    \E a \in Attempts :
        \/ \E snapshot \in Snapshots \cup {0} : Prepare(a, snapshot)
        \/ FinishAttempt(a) \/ EndAttempt(a) \/ Satisfy(a) \/ Reject(a)
        \/ ClaimRun(a) \/ Run(a) \/ Absent(a) \/ RunEnds(a) \/ Settle(a)

CheckNext ==
    \/ \E a \in Attempts : BeginCheck(a)
    \/ FirstCheck \/ RetryCheck \/ RunCheck \/ SettleCheck \/ CheckFails
    \/ \E size \in Sizes : StoreResult(size)

RecordNext ==
    \/ \E p \in Programs : Revoke(p)
    \/ \E a \in Attempts, size \in Sizes : StoreOutput(a, size)
    \/ \E a \in Attempts, receipt \in Receipts, quantity \in Quantities, supersedes \in 1..MaxUsage \cup {None} :
          RecordUsage(<<a, "run">>, receipt, quantity, supersedes)

Next == AttemptNext \/ CheckNext \/ RecordNext

Spec == Init /\ [][Next]_vars

-----------------------------------------------------------------------------
(* Properties. *)

\* The counts and the concurrency of the policies, and how many Attempts really are at work.
WorkKept ==
    \A s \in Programs \cup Projects :
        /\ \A category \in Categories : Count(reserved, s, category) <= Policy[s].counts[category]
        /\ Cardinality(Active(reserved, s)) <= Policy[s].active
        /\ Cardinality({op[1] : op \in {o \in busy : o[1] \in AttemptsIn[s]}}) <= Policy[s].active

\* No Program and no Project ever exceeds its counts, its concurrency or its bytes,
\* whatever was retried, corrected, cancelled or lost in between; nor are more of its
\* Attempts really at work than its policy allows, although Attempts end before their runs.
CapacityKept ==
    /\ WorkKept
    /\ \A s \in Programs \cup Projects : HeldIn(reserved, s) <= Policy[s].bytes

\* The reservations that pay for executions of an Operation.
Paying(op) == {r \in reserved : r.op = op /\ r.category # "remediation"}

\* Every execution, also one after a crash or a lost delivery, was paid for by a
\* reservation of its own, so no Operation is executed more often than allowed.
ExecutionsPaidFor ==
    \A op \in Ops : executions[op] <= Cardinality(Paying(op))

\* A receipt counts once, for one Operation, however often it is corrected.
UsageCountedOnce ==
    /\ \A f, g \in usage : f.receipt = g.receipt => f.op = g.op
    /\ \A f, g \in Effective(usage) : f.receipt = g.receipt => f = g

-----------------------------------------------------------------------------
(* The inductive strengthening, in parts. *)

\* The reservations are finitely many, and a check under way is of an Operation.
BudgetTypeOK ==
    /\ IsFiniteSet(reserved)
    /\ reserved \subseteq [op : Ops, category : Categories, n : Nat, bytes : Nat]
    /\ fence \in [Ops -> Nat] /\ executions \in [Ops -> Nat]
    /\ DOMAIN status = Ops /\ DOMAIN attempt = Attempts /\ busy \subseteq Ops
    /\ checking # None => /\ checking = [op |-> checking.op, step |-> checking.step]
                          /\ checking.op \in Attempts \X {"check"}

\* The executions of a run and of a check, with the one that a claim is about to cause.
RunsOf(a) == executions[<<a, "run">>] + (IF status[<<a, "run">>] = "dispatched" THEN 1 ELSE 0)
ChecksOf(a) == executions[<<a, "check">>] + (IF CheckAt("claimed") /\ checking.op = <<a, "check">> THEN 1 ELSE 0)

\* The executions of a run are as many as its deliveries at most, and each delivery but
\* the first has a retry of its number.
RunsPaid ==
    \A a \in Attempts :
        /\ RunsOf(a) <= fence[<<a, "run">>]
        /\ RunsOf(a) <= Cardinality(Paying(<<a, "run">>))
        /\ \A r \in reserved : r.op = <<a, "run">> /\ r.category = "retry" => r.n <= fence[<<a, "run">>]

RetriesOf(op) == {r \in reserved : r.op = op /\ r.category = "retry"}

\* A check is claimed once, and its retries are numbered by their count.
ChecksPaid ==
    \A a \in Attempts :
        /\ ChecksOf(a) <= Cardinality(Paying(<<a, "check">>))
        /\ ChecksOf(a) > 0 => fence[<<a, "check">>] > 0
        /\ \A r \in RetriesOf(<<a, "check">>) : r.n <= Cardinality(RetriesOf(<<a, "check">>))

\* What is being executed is reserved and not settled, and is what its status or the check
\* under way says; an Operation is settled for good or because it ended.
BusyAccounted ==
    /\ \A op \in busy : /\ IsReserved(op) /\ op \notin settled
                        /\ IF op[2] = "run" THEN status[op] = "sent"
                           ELSE CheckAt("running") /\ checking.op = op
    /\ \A a \in Attempts :
        /\ attempt[a] = "finished" => status[<<a, "run">>] = "terminal"
        /\ attempt[a] = "none" => status[<<a, "run">>] = "none"
        /\ <<a, "run">> \in settled => <<a, "run">> \in closed \/ status[<<a, "run">>] = "terminal"
        /\ <<a, "check">> \in settled => <<a, "check">> \in closed

\* Observations are numbered in their order, correct earlier ones, and each receipt has
\* one that nobody corrected.
UsageChained ==
    /\ IsFiniteSet(usage)
    /\ \A f \in usage : /\ f.id \in 1..Cardinality(usage)
                        /\ f.supersedes # None => f.supersedes \in 1..Cardinality(usage)
                        /\ \E g \in Effective(usage) : g.receipt = f.receipt
    /\ \A f, g \in usage : f.id = g.id => f = g

\* Only prepared Attempts have reservations, an Operation has one that holds bytes, and
\* bytes are stored for reserved Operations only.
BytesAccounted ==
    /\ stored \in [Ops -> Nat]
    /\ \A op \in Ops : stored[op] > 0 => IsReserved(op)
    /\ \A a \in owned : IsReserved(<<a, "run">>)
    /\ checking # None => IsReserved(checking.op)
    /\ \A r \in reserved : /\ attempt[r.op[1]] # "none"
                           /\ r.category \notin CountOnly => r.category = CategoryOf(r.op) /\ r.n = 0
    /\ \A r, q \in reserved :
          r.op = q.op /\ r.category \notin CountOnly /\ q.category \notin CountOnly => r = q

BudgetInv ==
    /\ BudgetTypeOK /\ RunsPaid /\ ChecksPaid /\ BusyAccounted /\ UsageChained
    /\ WorkKept /\ UsageCountedOnce
=============================================================================
