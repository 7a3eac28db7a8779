-------------------------- MODULE WorkBudgetProofs --------------------------
(***************************************************************************)
(* Proofs about the finite work capacity, for any sets of Programs,        *)
(* Projects, Attempts and receipts, any policies, and any number of        *)
(* deliveries and corrections.  The bytes that are held are a sum over a   *)
(* set, which is defined by recursion: the induction that such a sum needs *)
(* comes from the well-founded order of the natural numbers.               *)
(***************************************************************************)
EXTENDS WorkBudget, FiniteSetTheorems, WellFoundedInduction, TLAPS

-----------------------------------------------------------------------------
(* Usage. *)

\* record_usage() numbers a new observation above all others, and corrects at most one.
LEMMA UsageRecorded ==
    ASSUME UsageChained, UsageCountedOnce, NEW fact,
           fact.id = Cardinality(usage) + 1, UsageAdmitted(fact), usage' = usage \cup {fact}
    PROVE  UsageChained' /\ UsageCountedOnce'
<1> DEFINE n == Cardinality(usage)
           prior == {f \in Effective(usage) : f.receipt = fact.receipt}
<1>1. n \in Nat /\ IsFiniteSet(usage)
    BY FS_CardinalityType DEF UsageChained
<1>2. /\ \A f \in usage : f.id \in 1..n /\ (f.supersedes # None => f.supersedes \in 1..n)
      /\ \A f, g \in usage : f.id = g.id => f = g
    BY DEF UsageChained
<1>3. fact \notin usage
    BY <1>1, <1>2
<1>4. IsFiniteSet(usage') /\ Cardinality(usage') = n + 1
    BY <1>1, <1>3, FS_AddElement
<1> HIDE DEF n
<1>5. prior # {} => \E f \in prior : prior = {f} /\ fact.supersedes = f.id
    BY DEF UsageAdmitted, UsageCountedOnce
<1>6. /\ prior = {} => fact.supersedes = None
      /\ \A f \in prior : f.op = fact.op
    BY DEF UsageAdmitted
<1>7. Effective(usage) \subseteq usage
    BY DEF Effective
<1>8. fact.supersedes # None => fact.supersedes \in 1..n /\ \E f \in prior : f.id = fact.supersedes
    BY <1>2, <1>5, <1>6, <1>7
<1> HIDE DEF prior
<1>9. None # n + 1
    BY <1>1, BudgetAssumption
<1>10. fact \in Effective(usage')
    <2>1. ASSUME NEW g \in usage', g.supersedes = fact.id PROVE FALSE
        <3>1. g.supersedes # None /\ g.supersedes = n + 1
            BY <1>9, <2>1 DEF n
        <3>2. g.supersedes \in 1..n
            BY <1>2, <1>8, <2>1, <3>1
        <3> QED
            BY <1>1, <3>1, <3>2
    <2> QED
        BY <2>1 DEF Effective
<1>11. \A g \in Effective(usage') : g = fact \/ (g \in Effective(usage) /\ g.id # fact.supersedes)
    BY DEF Effective
<1>12. \A g \in Effective(usage) : g.id # fact.supersedes => g \in Effective(usage')
    BY DEF Effective
<1>13. \A f \in usage : f.receipt = fact.receipt => f.op = fact.op
    <2>1. ASSUME NEW f \in usage, f.receipt = fact.receipt PROVE f.op = fact.op
        <3>1. PICK g \in Effective(usage) : g.receipt = f.receipt
            BY DEF UsageChained
        <3>2. g \in prior
            BY <2>1, <3>1 DEF prior
        <3> QED
            BY <1>6, <1>7, <3>1, <3>2 DEF UsageCountedOnce
    <2> QED
        BY <2>1
<1>14. ASSUME NEW f \in usage' PROVE \E g \in Effective(usage') : g.receipt = f.receipt
    <2>1. CASE f.receipt = fact.receipt
        BY <1>10, <2>1
    <2>2. CASE f.receipt # fact.receipt
        <3>1. PICK g \in Effective(usage) : g.receipt = f.receipt
            BY <2>2 DEF UsageChained
        <3>2. g.id # fact.supersedes
            <4> SUFFICES ASSUME g.id = fact.supersedes PROVE FALSE
                OBVIOUS
            <4>1. fact.supersedes # None
                BY <1>1, <1>2, <1>7, BudgetAssumption
            <4>2. PICK h \in prior : h.id = fact.supersedes
                BY <1>8, <4>1
            <4>3. h = g
                BY <1>2, <1>7, <4>2 DEF prior
            <4> QED
                BY <2>2, <3>1, <4>2, <4>3 DEF prior
        <3> QED
            BY <1>12, <3>1, <3>2
    <2> QED
        BY <2>1, <2>2
<1>15. \A f \in usage' : f.id \in 1..(n + 1) /\ (f.supersedes # None => f.supersedes \in 1..(n + 1))
    BY <1>1, <1>2, <1>8 DEF n
<1>16. \A f, g \in usage' : f.id = g.id => f = g
    BY <1>1, <1>2 DEF n
<1>17. UsageChained'
    BY <1>4, <1>14, <1>15, <1>16 DEF UsageChained
<1>18. \A f, g \in usage' : f.receipt = g.receipt => f.op = g.op
    BY <1>13 DEF UsageCountedOnce
<1>19. ASSUME NEW f \in Effective(usage), f.id # fact.supersedes, f.receipt = fact.receipt PROVE FALSE
    <2>1. f \in prior
        BY <1>19 DEF prior
    <2> QED
        BY <1>5, <1>19, <2>1 DEF prior
<1>20. \A f, g \in Effective(usage') : f.receipt = g.receipt => f = g
    BY <1>11, <1>19 DEF UsageCountedOnce
<1> QED
    BY <1>17, <1>18, <1>20 DEF UsageCountedOnce

\* Nothing else writes an observation.
LEMMA UsageStep ==
    ASSUME UsageChained, UsageCountedOnce, [Next]_vars
    PROVE  UsageChained' /\ UsageCountedOnce'
<1>1. CASE UNCHANGED usage
    BY <1>1 DEF UsageChained, UsageCountedOnce, Effective
<1>2. ASSUME NEW op, NEW receipt, NEW quantity, NEW supersedes, RecordUsage(op, receipt, quantity, supersedes)
      PROVE  UsageChained' /\ UsageCountedOnce'
    <2> DEFINE fact == [id |-> Cardinality(usage) + 1, op |-> op, receipt |-> receipt, quantity |-> quantity,
                        supersedes |-> supersedes]
    <2>1. UsageAdmitted(fact) /\ usage' = usage \cup {fact} /\ fact.id = Cardinality(usage) + 1
        BY <1>2 DEF RecordUsage
    <2> HIDE DEF fact
    <2> QED
        BY <2>1, UsageRecorded
<1>3. CASE AttemptNext
    BY <1>1, <1>3 DEF AttemptNext, Prepare, FinishAttempt, EndAttempt, SetAttempt, Satisfy, Reject, ClaimRun,
        ClaimDelivery, Run, Execute, Absent, RunEnds, Settle
<1>4. CASE CheckNext
    BY <1>1, <1>4 DEF CheckNext, BeginCheck, FirstCheck, ClaimDelivery, RetryCheck, RunCheck, Execute,
        SettleCheck, CheckFails, StoreResult
<1>5. CASE RecordNext
    BY <1>1, <1>2, <1>5 DEF RecordNext, Revoke, StoreOutput
<1>6. CASE UNCHANGED vars
    BY <1>1, <1>6 DEF vars
<1> QED
    BY <1>3, <1>4, <1>5, <1>6 DEF Next

-----------------------------------------------------------------------------
(* Reservations. *)

Reservations == [op : Ops, category : Categories, n : Nat, bytes : Nat]

\* The counts and the concurrency that a set of reservations amounts to.
Kept(records) ==
    \A s \in Programs \cup Projects :
        /\ \A category \in Categories : Count(records, s, category) <= Policy[s].counts[category]
        /\ Cardinality(Active(records, s)) <= Policy[s].active

\* Finitely many reservations are of finitely many Attempts.
LEMMA ActiveFinite ==
    ASSUME NEW records, IsFiniteSet(records), NEW s
    PROVE  IsFiniteSet(Active(records, s))
<1> DEFINE S == {q \in InScope(records, s) : q.category \notin CountOnly /\ q.op \notin settled}
           f == [r \in S |-> r.op[1]]
<1>1. S \subseteq records
    BY DEF InScope
<1>2. IsFiniteSet(S)
    BY <1>1, FS_Subset
<1>3. f \in Surjection(S, Active(records, s))
    BY DEF Surjection, Active
<1> HIDE DEF S, f
<1> QED
    BY <1>2, <1>3, FS_Surjection

\* _reserve_work() admits a reservation only where there is room for it.
LEMMA ReserveKeeps ==
    ASSUME NEW records \in SUBSET Reservations, IsFiniteSet(records), Kept(records),
           NEW new \in Reservations, CanReserve(records, new)
    PROVE  Kept(records \cup {new}) /\ IsFiniteSet(records \cup {new})
<1> DEFINE more == records \cup {new}
           a == new.op[1]
<1>1. IsFiniteSet(more)
    BY FS_AddElement
<1>2. a \in Attempts /\ new.category \in Categories
    BY DEF Reservations, Ops
<1>3. ASSUME NEW s \in Programs \cup Projects, s \notin ScopesOf[a] PROVE InScope(more, s) = InScope(records, s)
    BY <1>2, <1>3 DEF InScope, ScopesOf, AttemptsIn
<1>4. ASSUME NEW s \in Programs \cup Projects, NEW category \in Categories
      PROVE  Count(more, s, category) <= Policy[s].counts[category]
    <2> DEFINE old == {r \in InScope(records, s) : r.category = category}
               now == {r \in InScope(more, s) : r.category = category}
    <2>1. Policy[s].counts[category] \in Nat /\ Cardinality(old) <= Policy[s].counts[category]
        BY BudgetAssumption DEF Kept, Count
    <2>2. old \subseteq records
        BY DEF InScope
    <2>3. IsFiniteSet(old) /\ Cardinality(old) \in Nat
        BY <2>2, FS_Subset, FS_CardinalityType
    <2>4. CASE s \notin ScopesOf[a] \/ category # new.category
        <3>1. now = old
            <4>1. CASE s \notin ScopesOf[a]
                BY <1>3, <4>1
            <4>2. CASE category # new.category
                BY <4>2 DEF InScope
            <4> QED
                BY <2>4, <4>1, <4>2
        <3> QED
            BY <2>1, <3>1 DEF Count
    <2>5. CASE s \in ScopesOf[a] /\ category = new.category
        <3>1. Cardinality(old) < Policy[s].counts[category]
            BY <2>5 DEF CanReserve, Count
        <3>2. now \subseteq old \cup {new}
            BY DEF InScope
        <3> HIDE DEF old, now
        <3>3. /\ IsFiniteSet(old \cup {new})
              /\ Cardinality(old \cup {new}) = IF new \in old THEN Cardinality(old) ELSE Cardinality(old) + 1
            BY <2>3, FS_AddElement
        <3>4. IsFiniteSet(now) /\ Cardinality(now) <= Cardinality(old \cup {new})
            BY <3>2, <3>3, FS_Subset
        <3>5. Cardinality(now) \in Nat /\ Cardinality(old \cup {new}) \in Nat
            BY <3>3, <3>4, FS_CardinalityType
        <3>6. Cardinality(now) <= Policy[s].counts[category]
            BY <2>1, <2>3, <3>1, <3>3, <3>4, <3>5
        <3> QED
            BY <3>6 DEF Count, now
    <2> QED
        BY <2>4, <2>5
<1>5. ASSUME NEW s \in Programs \cup Projects PROVE Cardinality(Active(more, s)) <= Policy[s].active
    <2> DEFINE old == Active(records, s)
               now == Active(more, s)
    <2>1. Policy[s].active \in Nat /\ Cardinality(old) <= Policy[s].active
        BY BudgetAssumption DEF Kept
    <2>2. IsFiniteSet(old) /\ Cardinality(old) \in Nat
        BY ActiveFinite, FS_CardinalityType
    <2>3. CASE s \notin ScopesOf[a]
        <3>1. now = old
            BY <1>3, <2>3 DEF Active
        <3> QED
            BY <2>1, <3>1
    <2>4. CASE s \in ScopesOf[a]
        <3>1. a \in old \/ Cardinality(old) < Policy[s].active
            BY <2>4 DEF CanReserve
        <3>2. now \subseteq old \cup {a}
            BY DEF Active, InScope
        <3> HIDE DEF old, now
        <3>3. /\ IsFiniteSet(old \cup {a})
              /\ Cardinality(old \cup {a}) = IF a \in old THEN Cardinality(old) ELSE Cardinality(old) + 1
            BY <2>2, FS_AddElement
        <3>4. IsFiniteSet(now) /\ Cardinality(now) <= Cardinality(old \cup {a})
            BY <3>2, <3>3, FS_Subset
        <3>5. Cardinality(now) \in Nat /\ Cardinality(old \cup {a}) \in Nat
            BY <3>3, <3>4, FS_CardinalityType
        <3>6. Cardinality(now) <= Policy[s].active
            BY <2>1, <2>2, <3>1, <3>3, <3>4, <3>5
        <3> QED
            BY <3>6 DEF now
    <2> QED
        BY <2>3, <2>4
<1> QED
    BY <1>1, <1>4, <1>5 DEF Kept

\* Settlements only make room, and whoever is at work is among the active Attempts.
LEMMA WorkStaysKept ==
    ASSUME NEW records, Kept(records), reserved' = records, IsFiniteSet(records),
           settled \subseteq settled', BusyAccounted'
    PROVE  WorkKept'
<1>1. ASSUME NEW s \in Programs \cup Projects, NEW category \in Categories
      PROVE  Count(reserved', s, category) <= Policy[s].counts[category]
    BY DEF Kept
<1>2. ASSUME NEW s \in Programs \cup Projects
      PROVE  /\ Cardinality(Active(reserved, s)') <= Policy[s].active
             /\ Cardinality({op[1] : op \in {o \in busy' : o[1] \in AttemptsIn[s]}}) <= Policy[s].active
    <2> DEFINE now == Active(reserved, s)'
               old == Active(records, s)
               working == {op[1] : op \in {o \in busy' : o[1] \in AttemptsIn[s]}}
    <2>1. now \subseteq old
        BY DEF Active, InScope
    <2>2. working \subseteq now
        <3>1. ASSUME NEW op \in busy', op[1] \in AttemptsIn[s] PROVE op[1] \in now
            <4>1. PICK r \in reserved' : r.op = op /\ r.category = CategoryOf(op)
                BY <3>1 DEF BusyAccounted, IsReserved
            <4>2. op \notin settled' /\ r.category \notin CountOnly
                BY <3>1, <4>1 DEF BusyAccounted, CategoryOf, CountOnly
            <4> QED
                BY <3>1, <4>1, <4>2 DEF Active, InScope
        <3> QED
            BY <3>1
    <2>3. IsFiniteSet(old) /\ Cardinality(old) <= Policy[s].active /\ Policy[s].active \in Nat
        BY ActiveFinite, BudgetAssumption DEF Kept
    <2> HIDE DEF now, old, working
    <2>4. IsFiniteSet(now) /\ Cardinality(now) <= Cardinality(old)
        BY <2>1, <2>3, FS_Subset
    <2>5. IsFiniteSet(working) /\ Cardinality(working) <= Cardinality(now)
        BY <2>2, <2>4, FS_Subset
    <2>6. Cardinality(working) \in Nat /\ Cardinality(now) \in Nat /\ Cardinality(old) \in Nat
        BY <2>3, <2>4, <2>5, FS_CardinalityType
    <2>7. Cardinality(now) <= Policy[s].active /\ Cardinality(working) <= Policy[s].active
        BY <2>3, <2>4, <2>5, <2>6
    <2> QED
        BY <2>7 DEF now, working
<1> QED
    BY <1>1, <1>2 DEF WorkKept, Count, InScope

-----------------------------------------------------------------------------
(* What pays for executions. *)

\* The part of the invariant that is about work.
WorkInv == BudgetTypeOK /\ RunsPaid /\ ChecksPaid /\ BusyAccounted /\ WorkKept

\* New reservations take nothing away from what an Operation was paid for.
LEMMA PaidMore ==
    ASSUME IsFiniteSet(reserved'), reserved \subseteq reserved', NEW op
    PROVE  /\ IsFiniteSet(Paying(op)) /\ Cardinality(Paying(op)) \in Nat
           /\ IsFiniteSet(Paying(op)') /\ Cardinality(Paying(op)') \in Nat
           /\ Cardinality(Paying(op)) <= Cardinality(Paying(op)')
<1>1. Paying(op) \subseteq Paying(op)' /\ Paying(op)' \subseteq reserved'
    BY DEF Paying
<1>2. IsFiniteSet(Paying(op)')
    BY <1>1, FS_Subset
<1> QED
    BY <1>1, <1>2, FS_Subset, FS_CardinalityType

\* A step that causes no execution of a run, and neither claims nor retries one.
LEMMA RunsKept ==
    ASSUME BudgetTypeOK, RunsPaid, BudgetTypeOK', reserved \subseteq reserved',
           \A a \in Attempts : RunsOf(a)' <= RunsOf(a) /\ fence'[<<a, "run">>] = fence[<<a, "run">>],
           \A r \in reserved' : r \in reserved \/ r.category # "retry" \/ r.op[2] # "run"
    PROVE  RunsPaid'
<1> SUFFICES ASSUME NEW a \in Attempts
             PROVE  /\ RunsOf(a)' <= fence'[<<a, "run">>]
                    /\ RunsOf(a)' <= Cardinality(Paying(<<a, "run">>)')
                    /\ \A r \in reserved' : r.op = <<a, "run">> /\ r.category = "retry" => r.n <= fence'[<<a, "run">>]
    BY DEF RunsPaid
<1>1. RunsOf(a) \in Nat /\ RunsOf(a)' \in Nat /\ fence[<<a, "run">>] \in Nat
    BY DEF BudgetTypeOK, RunsOf, Ops
<1>2. /\ Cardinality(Paying(<<a, "run">>)) \in Nat /\ Cardinality(Paying(<<a, "run">>)') \in Nat
      /\ Cardinality(Paying(<<a, "run">>)) <= Cardinality(Paying(<<a, "run">>)')
    BY PaidMore DEF BudgetTypeOK
<1>3. /\ RunsOf(a) <= fence[<<a, "run">>] /\ RunsOf(a) <= Cardinality(Paying(<<a, "run">>))
      /\ \A r \in reserved : r.op = <<a, "run">> /\ r.category = "retry" => r.n <= fence[<<a, "run">>]
    BY DEF RunsPaid
<1>4. \A r \in reserved' : r.op = <<a, "run">> /\ r.category = "retry" => r.n <= fence'[<<a, "run">>]
    BY <1>3
<1>5. RunsOf(a)' <= RunsOf(a) /\ fence'[<<a, "run">>] = fence[<<a, "run">>]
    OBVIOUS
<1> QED
    BY <1>1, <1>2, <1>3, <1>4, <1>5

\* The same for checks.
LEMMA ChecksKept ==
    ASSUME BudgetTypeOK, ChecksPaid, BudgetTypeOK', reserved \subseteq reserved',
           \A a \in Attempts : ChecksOf(a)' <= ChecksOf(a) /\ fence'[<<a, "check">>] >= fence[<<a, "check">>],
           \A r \in reserved' : r \in reserved \/ r.category # "retry" \/ r.op[2] # "check"
    PROVE  ChecksPaid'
<1> SUFFICES ASSUME NEW a \in Attempts
             PROVE  /\ ChecksOf(a)' <= Cardinality(Paying(<<a, "check">>)')
                    /\ ChecksOf(a)' > 0 => fence'[<<a, "check">>] > 0
                    /\ \A r \in RetriesOf(<<a, "check">>)' : r.n <= Cardinality(RetriesOf(<<a, "check">>)')
    BY DEF ChecksPaid
<1>1. ChecksOf(a) \in Nat /\ ChecksOf(a)' \in Nat
    BY DEF BudgetTypeOK, ChecksOf, Ops
<1>2. fence[<<a, "check">>] \in Nat /\ fence'[<<a, "check">>] \in Nat
    BY DEF BudgetTypeOK, Ops
<1>3. /\ Cardinality(Paying(<<a, "check">>)) \in Nat /\ Cardinality(Paying(<<a, "check">>)') \in Nat
      /\ Cardinality(Paying(<<a, "check">>)) <= Cardinality(Paying(<<a, "check">>)')
    BY PaidMore DEF BudgetTypeOK
<1>4. /\ ChecksOf(a) <= Cardinality(Paying(<<a, "check">>))
      /\ ChecksOf(a) > 0 => fence[<<a, "check">>] > 0
      /\ \A r \in RetriesOf(<<a, "check">>) : r.n <= Cardinality(RetriesOf(<<a, "check">>))
    BY DEF ChecksPaid
<1>5. RetriesOf(<<a, "check">>)' = RetriesOf(<<a, "check">>)
    BY DEF RetriesOf
<1>6. ChecksOf(a)' <= ChecksOf(a) /\ fence'[<<a, "check">>] >= fence[<<a, "check">>]
    OBVIOUS
<1> QED
    BY <1>1, <1>2, <1>3, <1>4, <1>5, <1>6

\* A step that reserves nothing keeps the counts and the concurrency.
LEMMA WorkUnreserved ==
    ASSUME WorkInv, UNCHANGED reserved, settled \subseteq settled', BusyAccounted'
    PROVE  WorkKept'
<1>1. PICK records : records = reserved
    OBVIOUS
<1>2. Kept(records) /\ IsFiniteSet(records)
    BY <1>1 DEF WorkInv, WorkKept, Kept, BudgetTypeOK
<1> QED
    BY <1>1, <1>2, WorkStaysKept

\* One more reservation is within the policies.
LEMMA WorkReserved ==
    ASSUME WorkInv, NEW new \in Reservations, CanReserve(reserved, new), reserved' = reserved \cup {new},
           settled \subseteq settled', BusyAccounted'
    PROVE  WorkKept'
<1>1. PICK records : records = reserved
    OBVIOUS
<1>2. Kept(records) /\ IsFiniteSet(records) /\ records \in SUBSET Reservations
    BY <1>1 DEF WorkInv, WorkKept, Kept, BudgetTypeOK, Reservations
<1>3. CanReserve(records, new)
    BY <1>1
<1>4. Kept(records \cup {new}) /\ IsFiniteSet(records \cup {new})
    BY <1>2, <1>3, ReserveKeeps
<1>5. reserved' = records \cup {new}
    BY <1>1
<1> QED
    BY <1>4, <1>5, WorkStaysKept

-----------------------------------------------------------------------------
(* Attempts. *)

\* An Attempt is prepared with its reservations.
LEMMA PrepareStep ==
    ASSUME WorkInv, NEW a \in Attempts, NEW snapshot \in Snapshots \cup {0}, Prepare(a, snapshot)
    PROVE  WorkInv'
<1> DEFINE run == <<a, "run">>
           remediation == IF RemediationOf[a] = None THEN {} ELSE {Reservation(run, "remediation", 0, 0)}
           new == Original(run, snapshot)
<1>1. /\ reserved' = reserved \cup remediation \cup {new}
      /\ attempt' = [attempt EXCEPT ![a] = "live"] /\ status' = [status EXCEPT ![run] = "intent"]
      /\ UNCHANGED <<fence, executions, settled, closed, checking, busy>>
      /\ attempt[a] = "none"
      /\ \A r \in remediation : CanReserve(reserved, r)
      /\ CanReserve(reserved \cup remediation, new)
    BY DEF Prepare
<1>2. /\ new \in Reservations /\ new.category = "attempt"
      /\ remediation \in SUBSET Reservations /\ \A r \in remediation : r.category = "remediation"
    BY BudgetAssumption DEF Original, Reservation, CategoryOf, Reservations, Ops, Categories
<1>3. run \in Ops /\ status[run] = "none"
    BY <1>1 DEF WorkInv, BusyAccounted, Ops
<1> HIDE DEF remediation, new
<1>4. PICK records : records = reserved
    OBVIOUS
<1>5. records \in SUBSET Reservations /\ IsFiniteSet(records) /\ Kept(records)
    BY <1>4 DEF WorkInv, WorkKept, BudgetTypeOK, Kept, Reservations
<1>6. PICK first : first = records \cup remediation
    OBVIOUS
<1>7. first \in SUBSET Reservations /\ IsFiniteSet(first) /\ Kept(first)
    <2>1. CASE RemediationOf[a] = None
        BY <1>5, <1>6, <2>1 DEF remediation
    <2>2. CASE RemediationOf[a] # None
        <3>1. PICK r : r = Reservation(run, "remediation", 0, 0)
            OBVIOUS
        <3>2. remediation = {r} /\ r \in Reservations /\ CanReserve(records, r)
            BY <1>1, <1>2, <1>4, <2>2, <3>1 DEF remediation
        <3>3. Kept(records \cup {r}) /\ IsFiniteSet(records \cup {r})
            BY <1>5, <3>2, ReserveKeeps
        <3> QED
            BY <1>2, <1>5, <1>6, <3>2, <3>3
    <2> QED
        BY <2>1, <2>2
<1>8. Kept(first \cup {new}) /\ IsFiniteSet(first \cup {new})
    BY <1>1, <1>2, <1>4, <1>6, <1>7, ReserveKeeps
<1>9. reserved' = first \cup {new}
    BY <1>1, <1>4, <1>6
<1>10. BudgetTypeOK'
    BY <1>1, <1>2, <1>7, <1>8, <1>9 DEF WorkInv, BudgetTypeOK, Reservations
<1>11. \A r \in reserved' : r \in reserved \/ r.category # "retry"
    BY <1>1, <1>2
<1>12. \A op \in Ops : op # run => status'[op] = status[op]
    BY <1>1 DEF WorkInv, BudgetTypeOK
<1>13. status'[run] = "intent"
    BY <1>1, <1>3 DEF WorkInv, BudgetTypeOK
<1>14. RunsPaid'
    <2>1. ASSUME NEW b \in Attempts PROVE RunsOf(b)' <= RunsOf(b) /\ fence'[<<b, "run">>] = fence[<<b, "run">>]
        BY <1>1, <1>3, <1>12, <1>13 DEF RunsOf, WorkInv, BudgetTypeOK, Ops
    <2> QED
        BY <1>1, <1>10, <1>11, <2>1, RunsKept DEF WorkInv
<1>15. ChecksPaid'
    <2>1. ASSUME NEW b \in Attempts PROVE ChecksOf(b)' <= ChecksOf(b) /\ fence'[<<b, "check">>] >= fence[<<b, "check">>]
        BY <1>1 DEF ChecksOf, CheckAt, WorkInv, BudgetTypeOK, Ops
    <2> QED
        BY <1>1, <1>10, <1>11, <2>1, ChecksKept DEF WorkInv
<1>16. BusyAccounted'
    <2>1. ASSUME NEW op \in busy PROVE IsReserved(op)' /\ status'[op] = status[op]
        <3>1. IsReserved(op) /\ op # run
            BY <1>3 DEF WorkInv, BusyAccounted
        <3> QED
            BY <1>1, <1>12, <3>1 DEF IsReserved, WorkInv, BudgetTypeOK
    <2>2. ASSUME NEW b \in Attempts
          PROVE  /\ attempt'[b] = "finished" => status'[<<b, "run">>] = "terminal"
                 /\ attempt'[b] = "none" => status'[<<b, "run">>] = "none"
                 /\ <<b, "run">> \in settled => <<b, "run">> \in closed \/ status'[<<b, "run">>] = "terminal"
        BY <1>1, <1>3, <1>12 DEF WorkInv, BusyAccounted, BudgetTypeOK, Ops
    <2> QED
        BY <1>1, <2>1, <2>2 DEF WorkInv, BusyAccounted, CheckAt
<1>17. WorkKept'
    BY <1>1, <1>8, <1>9, <1>16, WorkStaysKept
<1> QED
    BY <1>10, <1>14, <1>15, <1>16, <1>17 DEF WorkInv

\* Steps that neither reserve nor execute anything.
LEMMA OtherStep ==
    ASSUME WorkInv, (\E p \in Programs : Revoke(p)) \/ (\E a \in Attempts, size \in Sizes : StoreOutput(a, size))
           \/ (\E op, receipt, quantity, supersedes : RecordUsage(op, receipt, quantity, supersedes)) \/ UNCHANGED vars
    PROVE  WorkInv'
<1>1. /\ UNCHANGED <<attempt, reserved, settled, closed, status, fence, checking, busy, executions>>
    BY DEF Revoke, StoreOutput, RecordUsage, vars, domainVars, recordVars, journalVars
<1>2. BudgetTypeOK'
    BY <1>1 DEF WorkInv, BudgetTypeOK
<1>3. RunsPaid'
    BY <1>1 DEF WorkInv, RunsPaid, RunsOf, Paying
<1>4. ChecksPaid'
    BY <1>1 DEF WorkInv, ChecksPaid, ChecksOf, CheckAt, Paying, RetriesOf
<1>5. BusyAccounted'
    BY <1>1 DEF WorkInv, BusyAccounted, IsReserved, CheckAt
<1>6. WorkKept'
    BY <1>1, <1>5, WorkUnreserved
<1> QED
    BY <1>2, <1>3, <1>4, <1>5, <1>6 DEF WorkInv

\* The end of an Attempt gives nothing back.
LEMMA AttemptStep ==
    ASSUME WorkInv, NEW a \in Attempts, FinishAttempt(a) \/ EndAttempt(a)
    PROVE  WorkInv'
<1>1. /\ UNCHANGED <<reserved, settled, closed, status, fence, checking, busy, executions>>
      /\ attempt' = [attempt EXCEPT ![a] = attempt'[a]]
    BY DEF FinishAttempt, EndAttempt, SetAttempt, recordVars, journalVars, WorkInv, BudgetTypeOK
<1>2. attempt'[a] # "none" /\ (attempt'[a] = "finished" => status[<<a, "run">>] = "terminal")
    BY DEF FinishAttempt, EndAttempt, SetAttempt, WorkInv, BudgetTypeOK
<1>3. \A b \in Attempts : b # a => attempt'[b] = attempt[b]
    BY <1>1 DEF WorkInv, BudgetTypeOK
<1>4. BudgetTypeOK'
    BY <1>1 DEF WorkInv, BudgetTypeOK
<1>5. RunsPaid'
    BY <1>1 DEF WorkInv, RunsPaid, RunsOf, Paying
<1>6. ChecksPaid'
    BY <1>1 DEF WorkInv, ChecksPaid, ChecksOf, CheckAt, Paying, RetriesOf
<1>7. BusyAccounted'
    BY <1>1, <1>2, <1>3 DEF WorkInv, BusyAccounted, IsReserved, CheckAt
<1>8. WorkKept'
    BY <1>1, <1>7, WorkUnreserved
<1> QED
    BY <1>4, <1>5, <1>6, <1>7, <1>8 DEF WorkInv

\* The completion of a run is recorded after its end.
LEMMA CompleteStep ==
    ASSUME WorkInv, NEW a \in Attempts, Satisfy(a) \/ Reject(a)
    PROVE  WorkInv'
<1>1. /\ UNCHANGED <<attempt, reserved, closed, status, fence, checking, busy, executions>>
      /\ settled' = settled \cup {<<a, "run">>}
      /\ attempt[a] = "finished"
    BY DEF Satisfy, Reject, domainVars, recordVars, journalVars
<1>2. status[<<a, "run">>] = "terminal"
    BY <1>1 DEF WorkInv, BusyAccounted
<1>3. <<a, "run">> \notin busy
    BY <1>2 DEF WorkInv, BusyAccounted
<1>4. BudgetTypeOK'
    BY <1>1 DEF WorkInv, BudgetTypeOK
<1>5. RunsPaid'
    BY <1>1 DEF WorkInv, RunsPaid, RunsOf, Paying
<1>6. ChecksPaid'
    BY <1>1 DEF WorkInv, ChecksPaid, ChecksOf, CheckAt, Paying, RetriesOf
<1>7. BusyAccounted'
    BY <1>1, <1>2, <1>3 DEF WorkInv, BusyAccounted, IsReserved, CheckAt
<1>8. WorkKept'
    BY <1>1, <1>7, WorkUnreserved
<1> QED
    BY <1>4, <1>5, <1>6, <1>7, <1>8 DEF WorkInv

\* A settlement is of a run that is over or was never sent.
LEMMA SettleStep ==
    ASSUME WorkInv, NEW a \in Attempts, Settle(a)
    PROVE  WorkInv'
<1>1. /\ UNCHANGED <<attempt, reserved, status, fence, checking, busy, executions>>
      /\ settled' = settled \cup {<<a, "run">>}
      /\ closed' = closed \cup {<<a, "run">>}
      /\ <<a, "run">> \notin busy
    BY DEF Settle, domainVars, recordVars, journalVars
<1>2. BudgetTypeOK'
    BY <1>1 DEF WorkInv, BudgetTypeOK
<1>3. RunsPaid'
    BY <1>1 DEF WorkInv, RunsPaid, RunsOf, Paying
<1>4. ChecksPaid'
    BY <1>1 DEF WorkInv, ChecksPaid, ChecksOf, CheckAt, Paying, RetriesOf
<1>5. BusyAccounted'
    BY <1>1 DEF WorkInv, BusyAccounted, IsReserved, CheckAt
<1>6. WorkKept'
    BY <1>1, <1>5, WorkUnreserved
<1> QED
    BY <1>2, <1>3, <1>4, <1>5, <1>6 DEF WorkInv

-----------------------------------------------------------------------------
(* The run of an Attempt. *)

\* A delivery that did not happen executed nothing.
LEMMA AbsentStep ==
    ASSUME WorkInv, NEW a \in Attempts, Absent(a)
    PROVE  WorkInv'
<1> DEFINE run == <<a, "run">>
<1>1. /\ UNCHANGED <<attempt, reserved, settled, closed, fence, checking, busy, executions>>
      /\ status' = [status EXCEPT ![run] = "absent"]
      /\ status[run] = "dispatched"
    BY DEF Absent, domainVars, recordVars, journalVars
<1>2. /\ \A op \in Ops : op # run => status'[op] = status[op]
      /\ status'[run] = "absent" /\ run \in Ops
    BY <1>1 DEF WorkInv, BudgetTypeOK, Ops
<1>3. BudgetTypeOK'
    BY <1>1 DEF WorkInv, BudgetTypeOK
<1>4. RunsPaid'
    <2>1. ASSUME NEW b \in Attempts PROVE RunsOf(b)' <= RunsOf(b) /\ fence'[<<b, "run">>] = fence[<<b, "run">>]
        BY <1>1, <1>2 DEF RunsOf, WorkInv, BudgetTypeOK, Ops
    <2> QED
        BY <1>1, <1>3, <2>1, RunsKept DEF WorkInv
<1>5. ChecksPaid'
    BY <1>1 DEF WorkInv, ChecksPaid, ChecksOf, CheckAt, Paying, RetriesOf
<1>6. BusyAccounted'
    BY <1>1, <1>2, SMTT(30) DEF WorkInv, BusyAccounted, IsReserved, CheckAt, BudgetTypeOK, Ops
<1>7. WorkKept'
    BY <1>1, <1>6, WorkUnreserved
<1> QED
    BY <1>3, <1>4, <1>5, <1>6, <1>7 DEF WorkInv

\* A run that ended is not executed any more.
LEMMA RunEndsStep ==
    ASSUME WorkInv, NEW a \in Attempts, RunEnds(a)
    PROVE  WorkInv'
<1> DEFINE run == <<a, "run">>
<1>1. /\ UNCHANGED <<attempt, reserved, settled, closed, fence, checking, executions>>
      /\ status' = [status EXCEPT ![run] = "terminal"]
      /\ busy' = busy \ {run}
      /\ run \in busy
    BY DEF RunEnds, domainVars, recordVars, journalVars
<1>2. /\ \A op \in Ops : op # run => status'[op] = status[op]
      /\ status'[run] = "terminal" /\ run \in Ops
    BY <1>1 DEF WorkInv, BudgetTypeOK, Ops
<1>3. status[run] = "sent"
    BY <1>1 DEF WorkInv, BusyAccounted
<1>4. BudgetTypeOK'
    BY <1>1 DEF WorkInv, BudgetTypeOK
<1>5. RunsPaid'
    <2>1. ASSUME NEW b \in Attempts PROVE RunsOf(b)' <= RunsOf(b) /\ fence'[<<b, "run">>] = fence[<<b, "run">>]
        BY <1>1, <1>2, <1>3 DEF RunsOf, WorkInv, BudgetTypeOK, Ops
    <2> QED
        BY <1>1, <1>4, <2>1, RunsKept DEF WorkInv
<1>6. ChecksPaid'
    BY <1>1 DEF WorkInv, ChecksPaid, ChecksOf, CheckAt, Paying, RetriesOf
<1>7. BusyAccounted'
    BY <1>1, <1>2, <1>3 DEF WorkInv, BusyAccounted, IsReserved, CheckAt, BudgetTypeOK, Ops
<1>8. WorkKept'
    BY <1>1, <1>7, WorkUnreserved
<1> QED
    BY <1>4, <1>5, <1>6, <1>7, <1>8 DEF WorkInv

\* A claimed delivery is executed once.
LEMMA RunStep ==
    ASSUME WorkInv, NEW a \in Attempts, Run(a)
    PROVE  WorkInv'
<1> DEFINE run == <<a, "run">>
<1>1. /\ UNCHANGED <<attempt, reserved, settled, closed, fence, checking>>
      /\ status' = [status EXCEPT ![run] = "sent"]
      /\ status[run] = "dispatched"
      /\ busy' = busy \cup {run}
      /\ executions' = [executions EXCEPT ![run] = @ + 1]
    BY DEF Run, Execute, domainVars, recordVars, journalVars
<1>2. /\ \A op \in Ops : op # run => status'[op] = status[op]
      /\ status'[run] = "sent" /\ run \in Ops
    BY <1>1 DEF WorkInv, BudgetTypeOK, Ops
<1>3. IsReserved(run) /\ run \notin settled
    <2>1. IsReserved(run) /\ run \notin closed
        BY DEF Run, Execute, Dispatchable
    <2> QED
        BY <1>1, <2>1 DEF WorkInv, BusyAccounted
<1>4. /\ \A op \in Ops : op # run => executions'[op] = executions[op]
      /\ executions'[run] = executions[run] + 1
    BY <1>1, <1>2 DEF WorkInv, BudgetTypeOK
<1>5. <<a, "run">> = run /\ \A b \in Attempts : <<b, "check">> # run /\ <<b, "check">> \in Ops /\ <<b, "run">> \in Ops
    BY DEF Ops
<1>6. BudgetTypeOK'
    <2>1. executions' \in [Ops -> Nat]
        <3>1. executions \in [Ops -> Nat]
            BY DEF WorkInv, BudgetTypeOK
        <3> HIDE DEF run
        <3> QED
            BY <1>1, <1>2, <3>1
    <2> QED
        BY <1>1, <1>2, <2>1 DEF WorkInv, BudgetTypeOK
<1>7. RunsPaid'
    <2>1. ASSUME NEW b \in Attempts PROVE RunsOf(b)' <= RunsOf(b) /\ fence'[<<b, "run">>] = fence[<<b, "run">>]
        BY <1>1, <1>2, <1>4 DEF RunsOf, WorkInv, BudgetTypeOK, Ops
    <2> QED
        BY <1>1, <1>6, <2>1, RunsKept DEF WorkInv
<1>8. ChecksPaid'
    <2>1. ASSUME NEW b \in Attempts PROVE ChecksOf(b)' <= ChecksOf(b) /\ fence'[<<b, "check">>] >= fence[<<b, "check">>]
        BY <1>1, <1>4, <1>5 DEF ChecksOf, CheckAt, WorkInv, BudgetTypeOK, Ops
    <2> QED
        BY <1>1, <1>6, <2>1, ChecksKept DEF WorkInv
<1>9. BusyAccounted'
    <2>1. ASSUME NEW op \in busy PROVE IsReserved(op)' /\ status'[op] = status[op] /\ op \notin settled
        <3>1. IsReserved(op) /\ op \notin settled /\ op # run /\ op \in Ops
            BY <1>1 DEF WorkInv, BusyAccounted, BudgetTypeOK
        <3> QED
            BY <1>1, <1>2, <3>1 DEF IsReserved
    <2>2. ASSUME NEW b \in Attempts
          PROVE  /\ attempt'[b] = "finished" => status'[<<b, "run">>] = "terminal"
                 /\ attempt'[b] = "none" => status'[<<b, "run">>] = "none"
                 /\ <<b, "run">> \in settled => <<b, "run">> \in closed \/ status'[<<b, "run">>] = "terminal"
        BY <1>1, <1>2 DEF WorkInv, BusyAccounted, Ops
    <2>3. IsReserved(run)'
        BY <1>1, <1>3 DEF IsReserved
    <2>4. ASSUME NEW op \in busy'
          PROVE  /\ IsReserved(op)' /\ op \notin settled'
                 /\ IF op[2] = "run" THEN status'[op] = "sent" ELSE CheckAt("running")' /\ checking'.op = op
        <3>1. CASE op = run
            BY <1>1, <1>2, <1>3, <2>3, <3>1
        <3>2. CASE op \in busy
            BY <1>1, <2>1, <3>2 DEF WorkInv, BusyAccounted, CheckAt
        <3> QED
            BY <1>1, <3>1, <3>2
    <2> QED
        BY <1>1, <2>2, <2>4 DEF WorkInv, BusyAccounted
<1>10. WorkKept'
    BY <1>1, <1>9, WorkUnreserved
<1> QED
    BY <1>6, <1>7, <1>8, <1>9, <1>10 DEF WorkInv

\* A claim of a delivery after the first pays for it with the retry of its number.
LEMMA ClaimRunStep ==
    ASSUME WorkInv, NEW a \in Attempts, ClaimRun(a)
    PROVE  WorkInv'
<1> DEFINE run == <<a, "run">>
<1>1. /\ UNCHANGED <<attempt, settled, closed, checking, busy, executions>>
      /\ status' = [status EXCEPT ![run] = "dispatched"]
      /\ fence' = [fence EXCEPT ![run] = @ + 1]
      /\ status[run] \in {"intent", "absent"}
      /\ reserved' = reserved \cup RetryOf(run)
    BY DEF ClaimRun, ClaimDelivery, domainVars, recordVars, journalVars
<1>2. /\ \A op \in Ops : op # run => status'[op] = status[op]
      /\ status'[run] = "dispatched" /\ run \in Ops
    BY <1>1 DEF WorkInv, BudgetTypeOK, Ops
<1>3. fence[run] \in Nat /\ \A op \in Ops : fence'[op] = IF op = run THEN fence[run] + 1 ELSE fence[op]
    BY <1>1, <1>2 DEF WorkInv, BudgetTypeOK
<1>4. IsReserved(run)
    BY DEF ClaimRun, ClaimDelivery, Dispatchable
<1>5. PICK retry : retry = Reservation(run, "retry", fence[run] + 1, 0)
    OBVIOUS
<1>6. /\ retry \in Reservations /\ retry.category = "retry" /\ retry.op = run /\ retry.n = fence[run] + 1
      /\ retry \notin reserved
    <2>1. retry \in Reservations /\ retry.category = "retry" /\ retry.op = run /\ retry.n = fence[run] + 1
        BY <1>2, <1>3, <1>5 DEF Reservation, Reservations, Categories
    <2>2. \A r \in reserved : r.op = run /\ r.category = "retry" => r.n <= fence[run]
        BY DEF WorkInv, RunsPaid
    <2>3. ~(fence[run] + 1 <= fence[run])
        BY <1>3
    <2> QED
        BY <2>1, <2>2, <2>3
<1>7. reserved' = IF fence[run] = 0 THEN reserved ELSE reserved \cup {retry}
    BY <1>1, <1>5 DEF RetryOf
<1>8. fence[run] # 0 => CanReserve(reserved, retry)
    BY <1>5 DEF ClaimRun, ClaimDelivery, RetryOf
<1>9. BudgetTypeOK'
    <2>1. IsFiniteSet(reserved') /\ reserved' \subseteq Reservations
        BY <1>6, <1>7, FS_AddElement DEF WorkInv, BudgetTypeOK, Reservations
    <2>2. fence' \in [Ops -> Nat]
        <3>1. fence \in [Ops -> Nat]
            BY DEF WorkInv, BudgetTypeOK
        <3> HIDE DEF run
        <3> QED
            BY <1>1, <1>2, <3>1
    <2> QED
        BY <1>1, <2>1, <2>2 DEF WorkInv, BudgetTypeOK, Reservations
<1>10. RunsPaid'
    <2>1. ASSUME NEW b \in Attempts, b # a
          PROVE  /\ RunsOf(b)' <= fence'[<<b, "run">>]
                 /\ RunsOf(b)' <= Cardinality(Paying(<<b, "run">>)')
                 /\ \A r \in reserved' : r.op = <<b, "run">> /\ r.category = "retry" => r.n <= fence'[<<b, "run">>]
        <3>1. <<b, "run">> # run /\ <<b, "run">> \in Ops
            BY <2>1 DEF Ops
        <3>2. RunsOf(b)' = RunsOf(b) /\ fence'[<<b, "run">>] = fence[<<b, "run">>]
            BY <1>1, <1>2, <1>3, <3>1 DEF RunsOf
        <3>3. Paying(<<b, "run">>)' = Paying(<<b, "run">>)
            BY <1>6, <1>7, <3>1 DEF Paying
        <3>4. \A r \in reserved' : r.op = <<b, "run">> => r \in reserved
            BY <1>6, <1>7, <3>1
        <3> QED
            BY <3>2, <3>3, <3>4 DEF WorkInv, RunsPaid
    <2>2. executions[run] \in Nat /\ RunsOf(a) = executions[run] /\ RunsOf(a)' = executions[run] + 1
        BY <1>1, <1>2 DEF RunsOf, WorkInv, BudgetTypeOK
    <2>3. RunsOf(a)' <= fence'[run]
        <3>1. RunsOf(a) <= fence[run]
            BY DEF WorkInv, RunsPaid
        <3> QED
            BY <1>2, <1>3, <2>2, <3>1
    <2>4. RunsOf(a)' <= Cardinality(Paying(run)')
        <3>1. /\ IsFiniteSet(Paying(run)) /\ Cardinality(Paying(run)) \in Nat
              /\ IsFiniteSet(Paying(run)') /\ Cardinality(Paying(run)') \in Nat
              /\ Cardinality(Paying(run)) <= Cardinality(Paying(run)')
            BY <1>9, <1>7, PaidMore DEF BudgetTypeOK
        <3>2. CASE fence[run] = 0
            <4>1. PICK r \in reserved : r.op = run /\ r.category = CategoryOf(run)
                BY <1>4 DEF IsReserved
            <4>2. r \in Paying(run)
                BY <4>1 DEF Paying, CategoryOf
            <4>3. Cardinality(Paying(run)) # 0
                BY <3>1, <4>2, FS_EmptySet
            <4>4. executions[run] <= 0
                BY <2>2, <3>2 DEF WorkInv, RunsPaid
            <4> QED
                BY <2>2, <3>1, <4>3, <4>4
        <3>3. CASE fence[run] # 0
            <4>1. Paying(run)' = Paying(run) \cup {retry} /\ retry \notin Paying(run)
                BY <1>6, <1>7, <3>3 DEF Paying
            <4>2. Cardinality(Paying(run)') = Cardinality(Paying(run)) + 1
                BY <3>1, <4>1, FS_AddElement
            <4>3. RunsOf(a) <= Cardinality(Paying(run))
                BY DEF WorkInv, RunsPaid
            <4> QED
                BY <2>2, <3>1, <4>2, <4>3
        <3> QED
            BY <3>2, <3>3
    <2>5. ASSUME NEW r \in reserved', r.op = run, r.category = "retry" PROVE r.n <= fence'[run]
        <3>1. fence'[run] = fence[run] + 1
            BY <1>2, <1>3
        <3>2. CASE r = retry
            BY <1>3, <1>6, <3>1, <3>2
        <3>3. CASE r \in reserved
            <4>1. r.n <= fence[run] /\ r.n \in Nat
                BY <2>5, <3>3 DEF WorkInv, RunsPaid, BudgetTypeOK
            <4> QED
                BY <1>3, <3>1, <4>1
        <3> QED
            BY <1>7, <3>2, <3>3
    <2> QED
        BY <2>1, <2>3, <2>4, <2>5 DEF RunsPaid
<1>11. ChecksPaid'
    <2>1. ASSUME NEW b \in Attempts PROVE ChecksOf(b)' <= ChecksOf(b) /\ fence'[<<b, "check">>] >= fence[<<b, "check">>]
        <3>1. <<b, "check">> \in Ops /\ <<b, "check">> # run
            BY DEF Ops
        <3>2. fence'[<<b, "check">>] = fence[<<b, "check">>] /\ fence[<<b, "check">>] \in Nat
            BY <1>3, <3>1 DEF WorkInv, BudgetTypeOK
        <3>3. ChecksOf(b)' = ChecksOf(b) /\ ChecksOf(b) \in Nat
            BY <1>1, <3>1 DEF ChecksOf, CheckAt, WorkInv, BudgetTypeOK
        <3> QED
            BY <3>2, <3>3
    <2>2. reserved \subseteq reserved' /\ \A r \in reserved' : r \in reserved \/ r.op[2] # "check"
        BY <1>6, <1>7
    <2> QED
        BY <1>9, <2>1, <2>2, ChecksKept DEF WorkInv
<1>12. BusyAccounted'
    <2>1. ASSUME NEW op \in busy PROVE IsReserved(op)' /\ status'[op] = status[op]
        <3>1. IsReserved(op) /\ op # run /\ op \in Ops
            BY <1>1 DEF WorkInv, BusyAccounted, BudgetTypeOK
        <3> QED
            BY <1>2, <1>7, <3>1 DEF IsReserved
    <2>2. ASSUME NEW b \in Attempts
          PROVE  /\ attempt'[b] = "finished" => status'[<<b, "run">>] = "terminal"
                 /\ attempt'[b] = "none" => status'[<<b, "run">>] = "none"
                 /\ <<b, "run">> \in settled => <<b, "run">> \in closed \/ status'[<<b, "run">>] = "terminal"
        BY <1>1, <1>2 DEF WorkInv, BusyAccounted, Ops
    <2> QED
        BY <1>1, <2>1, <2>2 DEF WorkInv, BusyAccounted, CheckAt
<1>13. WorkKept'
    <2>1. CASE fence[run] = 0
        BY <1>1, <1>7, <1>12, <2>1, WorkUnreserved
    <2>2. CASE fence[run] # 0
        BY <1>1, <1>6, <1>7, <1>8, <1>12, <2>2, WorkReserved
    <2> QED
        BY <2>1, <2>2
<1> QED
    BY <1>9, <1>10, <1>11, <1>12, <1>13 DEF WorkInv

-----------------------------------------------------------------------------
(* Checks. *)

\* A check under way is of a check, and goes from step to step.
LEMMA CheckUnderWay ==
    ASSUME WorkInv, checking # None, NEW step \in {"intended", "claimed", "running", "stored"}
    PROVE  /\ \E a \in Attempts : checking.op = <<a, "check">>
           /\ checking.op \in Ops /\ checking.op[2] = "check"
           /\ [checking EXCEPT !.step = step] = [op |-> checking.op, step |-> step]
           /\ [op |-> checking.op, step |-> step] # None
<1>1. checking = [op |-> checking.op, step |-> checking.step] /\ checking.op \in Attempts \X {"check"}
    BY DEF WorkInv, BudgetTypeOK
<1>2. \E a \in Attempts : checking.op = <<a, "check">>
    BY <1>1
<1>3. checking.op \in Ops /\ checking.op[2] = "check"
    BY <1>2 DEF Ops
<1>4. [checking EXCEPT !.step = step] = [op |-> checking.op, step |-> step]
    BY <1>1
<1>5. [op |-> checking.op, step |-> step] # None
    BY <1>1, BudgetAssumption
<1> QED
    BY <1>2, <1>3, <1>4, <1>5

\* A check is reserved when it begins for the first time.
LEMMA BeginCheckStep ==
    ASSUME WorkInv, NEW a \in Attempts, BeginCheck(a)
    PROVE  WorkInv'
<1> DEFINE check == <<a, "check">>
<1>1. /\ UNCHANGED <<attempt, settled, closed, fence, busy, executions>>
      /\ checking = None
      /\ checking' = [op |-> check, step |-> "intended"]
      /\ IF IsReserved(check) THEN UNCHANGED <<reserved, status>>
         ELSE /\ CanReserve(reserved, Original(check, 0))
              /\ reserved' = reserved \cup {Original(check, 0)}
              /\ status' = [status EXCEPT ![check] = "intent"]
    BY DEF BeginCheck, domainVars, recordVars, journalVars
<1>2. check \in Ops /\ check[2] = "check"
    BY DEF Ops
<1>3. PICK new : new = Original(check, 0)
    OBVIOUS
<1>4. new \in Reservations /\ new.category = "verification"
    BY <1>2, <1>3 DEF Original, Reservation, CategoryOf, Reservations, Categories
<1>5. /\ reserved \subseteq reserved' /\ reserved' \subseteq reserved \cup {new}
      /\ \A op \in Ops : op # check => status'[op] = status[op]
      /\ DOMAIN status' = Ops
    BY <1>1, <1>3 DEF WorkInv, BudgetTypeOK
<1>6. \A r \in reserved' : r \in reserved \/ r.category # "retry"
    BY <1>4, <1>5
<1>7. BudgetTypeOK'
    <2>1. IsFiniteSet(reserved') /\ reserved' \subseteq Reservations
        <3>1. IsFiniteSet(reserved) /\ reserved \subseteq Reservations
            BY DEF WorkInv, BudgetTypeOK, Reservations
        <3>2. IsFiniteSet(reserved \cup {new})
            BY <3>1, FS_AddElement
        <3> QED
            BY <1>4, <1>5, <3>1, <3>2, FS_Subset
    <2> QED
        BY <1>1, <1>5, <2>1 DEF WorkInv, BudgetTypeOK, Reservations
<1>8. RunsPaid'
    <2>1. ASSUME NEW b \in Attempts PROVE RunsOf(b)' <= RunsOf(b) /\ fence'[<<b, "run">>] = fence[<<b, "run">>]
        <3>1. <<b, "run">> \in Ops /\ <<b, "run">> # check
            BY DEF Ops
        <3>2. RunsOf(b)' = RunsOf(b) /\ RunsOf(b) \in Nat
            BY <1>1, <1>5, <3>1 DEF RunsOf, WorkInv, BudgetTypeOK
        <3> QED
            BY <1>1, <3>2
    <2> QED
        BY <1>5, <1>6, <1>7, <2>1, RunsKept DEF WorkInv
<1>9. ChecksPaid'
    <2>1. ASSUME NEW b \in Attempts PROVE ChecksOf(b)' <= ChecksOf(b) /\ fence'[<<b, "check">>] >= fence[<<b, "check">>]
        <3>1. executions[<<b, "check">>] \in Nat /\ fence[<<b, "check">>] \in Nat
            BY DEF WorkInv, BudgetTypeOK, Ops
        <3>2. ChecksOf(b)' = executions[<<b, "check">>] /\ ChecksOf(b) >= executions[<<b, "check">>]
            BY <1>1, <1>1, <3>1 DEF ChecksOf, CheckAt
        <3> QED
            BY <1>1, <3>1, <3>2
    <2> QED
        BY <1>1, <1>7, <1>5, <1>6, <2>1, ChecksKept DEF WorkInv
<1>10. BusyAccounted'
    <2>1. ASSUME NEW op \in busy' PROVE op \in busy /\ op[2] = "run" /\ status'[op] = status[op] /\ IsReserved(op)'
        <3>1. op \in busy /\ op[2] = "run" /\ IsReserved(op)
            BY <1>1 DEF WorkInv, BusyAccounted, CheckAt
        <3>2. op \in Ops /\ op # check
            BY <1>2, <3>1 DEF WorkInv, BudgetTypeOK
        <3> QED
            BY <1>5, <3>1, <3>2 DEF IsReserved
    <2>2. \A b \in Attempts : status'[<<b, "run">>] = status[<<b, "run">>]
        BY <1>5 DEF Ops
    <2> QED
        BY <1>1, <2>1, <2>2 DEF WorkInv, BusyAccounted
<1>11. WorkKept'
    <2>1. CASE IsReserved(check)
        BY <1>1, <1>10, <2>1, WorkUnreserved
    <2>2. CASE ~IsReserved(check)
        BY <1>1, <1>3, <1>4, <1>10, <2>2, WorkReserved
    <2> QED
        BY <2>1, <2>2
<1> QED
    BY <1>7, <1>8, <1>9, <1>10, <1>11 DEF WorkInv

\* The first execution of a check is paid for by its own reservation.
LEMMA FirstCheckStep ==
    ASSUME WorkInv, FirstCheck
    PROVE  WorkInv'
<1> DEFINE check == checking.op
<1>1. /\ UNCHANGED <<attempt, settled, closed, busy, executions>>
      /\ CheckAt("intended") /\ fence[check] = 0 /\ IsReserved(check)
      /\ checking' = [checking EXCEPT !.step = "claimed"]
      /\ status' = [status EXCEPT ![check] = "dispatched"]
      /\ fence' = [fence EXCEPT ![check] = @ + 1]
      /\ reserved' = reserved
    BY DEF FirstCheck, ClaimDelivery, Dispatchable, RetryOf, NextStep, domainVars, recordVars, journalVars
<1>2. PICK a \in Attempts : /\ check = <<a, "check">> /\ check \in Ops /\ check[2] = "check"
                                /\ checking' = [op |-> check, step |-> "claimed"] /\ checking' # None
    BY <1>1, CheckUnderWay DEF CheckAt
<1>3. /\ \A op \in Ops : op # check => status'[op] = status[op] /\ fence'[op] = fence[op]
      /\ fence'[check] = 1
    <2>1. fence \in [Ops -> Nat] /\ DOMAIN status = Ops
        BY DEF WorkInv, BudgetTypeOK
    <2> HIDE DEF check
    <2> QED
        BY <1>1, <1>2, <2>1
<1>4. BudgetTypeOK'
    <2>1. fence' \in [Ops -> Nat] /\ DOMAIN status' = Ops
        <3>1. fence \in [Ops -> Nat] /\ DOMAIN status = Ops
            BY DEF WorkInv, BudgetTypeOK
        <3> HIDE DEF check
        <3> QED
            BY <1>1, <1>2, <3>1
    <2>2. checking' = [op |-> checking'.op, step |-> checking'.step] /\ checking'.op \in Attempts \X {"check"}
        <3> HIDE DEF check
        <3> QED
            BY <1>2
    <2> QED
        BY <1>1, <2>1, <2>2 DEF WorkInv, BudgetTypeOK
<1>5. RunsPaid'
    <2>1. ASSUME NEW b \in Attempts PROVE RunsOf(b)' <= RunsOf(b) /\ fence'[<<b, "run">>] = fence[<<b, "run">>]
        <3>1. <<b, "run">> \in Ops /\ <<b, "run">> # check
            BY <1>2 DEF Ops
        <3>2. RunsOf(b)' = RunsOf(b) /\ RunsOf(b) \in Nat /\ fence'[<<b, "run">>] = fence[<<b, "run">>]
            BY <1>1, <1>3, <3>1 DEF RunsOf, WorkInv, BudgetTypeOK
        <3> QED
            BY <3>2
    <2> QED
        BY <1>1, <1>4, <2>1, RunsKept DEF WorkInv
<1>6. ChecksPaid'
    <2>1. ASSUME NEW b \in Attempts, b # a
          PROVE  /\ ChecksOf(b)' <= Cardinality(Paying(<<b, "check">>)')
                 /\ ChecksOf(b)' > 0 => fence'[<<b, "check">>] > 0
                 /\ \A r \in RetriesOf(<<b, "check">>)' : r.n <= Cardinality(RetriesOf(<<b, "check">>)')
        <3>1. <<b, "check">> # check /\ <<b, "check">> \in Ops
            BY <1>2, <2>1 DEF Ops
        <3>2. ChecksOf(b)' = ChecksOf(b) /\ fence'[<<b, "check">>] = fence[<<b, "check">>]
            BY <1>1, <1>2, <1>3, <3>1 DEF ChecksOf, CheckAt
        <3>3. Paying(<<b, "check">>)' = Paying(<<b, "check">>) /\ RetriesOf(<<b, "check">>)' = RetriesOf(<<b, "check">>)
            BY <1>1, <3>1 DEF Paying, RetriesOf
        <3> QED
            BY <3>2, <3>3 DEF WorkInv, ChecksPaid
    <2>2. executions[check] \in Nat /\ ChecksOf(a) = executions[check] /\ ChecksOf(a)' = executions[check] + 1
        BY <1>1, <1>2 DEF ChecksOf, CheckAt, WorkInv, BudgetTypeOK
    <2>3. executions[check] = 0
        <3>1. ChecksOf(a) > 0 => fence[check] > 0
            BY <1>2 DEF WorkInv, ChecksPaid
        <3> QED
            BY <1>1, <2>2, <3>1
    <2>4. Cardinality(Paying(check)) \in Nat /\ Cardinality(Paying(check)) # 0
        <3>1. PICK r \in reserved : r.op = check /\ r.category = CategoryOf(check)
            BY <1>1 DEF IsReserved
        <3>2. r \in Paying(check)
            BY <1>2, <3>1 DEF Paying, CategoryOf
        <3>3. Paying(check) \subseteq reserved /\ IsFiniteSet(reserved)
            BY DEF Paying, WorkInv, BudgetTypeOK
        <3>4. IsFiniteSet(Paying(check))
            BY <3>3, FS_Subset
        <3> QED
            BY <3>2, <3>4, FS_CardinalityType, FS_EmptySet
    <2>5. Paying(<<a, "check">>)' = Paying(check) /\ RetriesOf(<<a, "check">>)' = RetriesOf(check)
        BY <1>1, <1>2 DEF Paying, RetriesOf
    <2>6. /\ ChecksOf(a)' <= Cardinality(Paying(<<a, "check">>)') /\ fence'[<<a, "check">>] > 0
          /\ \A r \in RetriesOf(<<a, "check">>)' : r.n <= Cardinality(RetriesOf(<<a, "check">>)')
        BY <1>2, <1>3, <2>2, <2>3, <2>4, <2>5 DEF WorkInv, ChecksPaid
    <2> QED
        BY <2>1, <2>6 DEF ChecksPaid
<1>7. BusyAccounted'
    <2>1. ASSUME NEW op \in busy' PROVE op \in busy /\ op[2] = "run" /\ status'[op] = status[op] /\ IsReserved(op)'
        <3>1. op \in busy /\ op[2] = "run" /\ IsReserved(op)
            BY <1>1 DEF WorkInv, BusyAccounted, CheckAt
        <3>2. op \in Ops /\ op # check
            BY <1>2, <3>1 DEF WorkInv, BudgetTypeOK
        <3> QED
            BY <1>1, <1>3, <3>1, <3>2 DEF IsReserved
    <2>2. \A b \in Attempts : status'[<<b, "run">>] = status[<<b, "run">>]
        BY <1>2, <1>3 DEF Ops
    <2> QED
        BY <1>1, <2>1, <2>2 DEF WorkInv, BusyAccounted
<1>8. WorkKept'
    BY <1>1, <1>7, WorkUnreserved
<1> QED
    BY <1>4, <1>5, <1>6, <1>7, <1>8 DEF WorkInv

\* A check that is done again is paid for by the next retry.
LEMMA RetryCheckStep ==
    ASSUME WorkInv, RetryCheck
    PROVE  WorkInv'
<1> DEFINE check == checking.op
<1>1. /\ UNCHANGED <<attempt, settled, closed, status, fence, busy, executions>>
      /\ CheckAt("intended") /\ fence[check] > 0
      /\ checking' = [checking EXCEPT !.step = "claimed"]
      /\ reserved' = reserved \cup WorkRetryOf(check)
      /\ \A r \in WorkRetryOf(check) : CanReserve(reserved, r)
    BY DEF RetryCheck, NextStep, domainVars, recordVars, journalVars
<1>2. PICK a \in Attempts : /\ check = <<a, "check">> /\ check \in Ops /\ check[2] = "check"
                                /\ checking' = [op |-> check, step |-> "claimed"] /\ checking' # None
    BY <1>1, CheckUnderWay DEF CheckAt
<1>3. IsFiniteSet(RetriesOf(check)) /\ Cardinality(RetriesOf(check)) \in Nat
    <2>1. RetriesOf(check) \subseteq reserved /\ IsFiniteSet(reserved)
        BY DEF RetriesOf, WorkInv, BudgetTypeOK
    <2> QED
        BY <2>1, FS_Subset, FS_CardinalityType
<1>4. PICK retry : retry = Reservation(check, "retry", 1 + Cardinality(RetriesOf(check)), 0)
    OBVIOUS
<1>5. WorkRetryOf(check) = {retry}
    BY <1>4 DEF WorkRetryOf, RetriesOf
<1>6. /\ retry \in Reservations /\ retry.category = "retry" /\ retry.op = check
      /\ retry.n = 1 + Cardinality(RetriesOf(check))
    BY <1>2, <1>3, <1>4 DEF Reservation, Reservations, Categories
<1>7. reserved' = reserved \cup {retry} /\ CanReserve(reserved, retry)
    BY <1>1, <1>5
<1>8. retry \notin reserved
    <2>1. \A r \in RetriesOf(check) : r.n <= Cardinality(RetriesOf(check))
        BY <1>2 DEF WorkInv, ChecksPaid
    <2>2. retry \notin RetriesOf(check)
        BY <1>3, <1>6, <2>1
    <2> QED
        BY <1>6, <2>2 DEF RetriesOf
<1>9. BudgetTypeOK'
    <2>1. IsFiniteSet(reserved') /\ reserved' \subseteq Reservations
        BY <1>6, <1>7, FS_AddElement DEF WorkInv, BudgetTypeOK, Reservations
    <2>2. checking' = [op |-> checking'.op, step |-> checking'.step] /\ checking'.op \in Attempts \X {"check"}
        <3> HIDE DEF check
        <3> QED
            BY <1>2
    <2> QED
        BY <1>1, <2>1, <2>2 DEF WorkInv, BudgetTypeOK, Reservations
<1>10. RunsPaid'
    <2>1. ASSUME NEW b \in Attempts PROVE RunsOf(b)' <= RunsOf(b) /\ fence'[<<b, "run">>] = fence[<<b, "run">>]
        BY <1>1 DEF RunsOf, WorkInv, BudgetTypeOK, Ops
    <2>2. reserved \subseteq reserved' /\ \A r \in reserved' : r \in reserved \/ r.op[2] # "run"
        BY <1>2, <1>6, <1>7
    <2> QED
        BY <1>9, <2>1, <2>2, RunsKept DEF WorkInv
<1>11. ChecksPaid'
    <2>1. ASSUME NEW b \in Attempts, b # a
          PROVE  /\ ChecksOf(b)' <= Cardinality(Paying(<<b, "check">>)')
                 /\ ChecksOf(b)' > 0 => fence'[<<b, "check">>] > 0
                 /\ \A r \in RetriesOf(<<b, "check">>)' : r.n <= Cardinality(RetriesOf(<<b, "check">>)')
        <3>1. <<b, "check">> # check /\ <<b, "check">> \in Ops
            BY <1>2, <2>1 DEF Ops
        <3>2. ChecksOf(b)' = ChecksOf(b) /\ fence'[<<b, "check">>] = fence[<<b, "check">>]
            BY <1>1, <1>2, <3>1 DEF ChecksOf, CheckAt
        <3>3. Paying(<<b, "check">>)' = Paying(<<b, "check">>) /\ RetriesOf(<<b, "check">>)' = RetriesOf(<<b, "check">>)
            BY <1>6, <1>7, <3>1 DEF Paying, RetriesOf
        <3> QED
            BY <3>2, <3>3 DEF WorkInv, ChecksPaid
    <2>2. executions[check] \in Nat /\ ChecksOf(a) = executions[check] /\ ChecksOf(a)' = executions[check] + 1
        BY <1>1, <1>2 DEF ChecksOf, CheckAt, WorkInv, BudgetTypeOK
    <2>3. /\ IsFiniteSet(Paying(<<a, "check">>)) /\ Cardinality(Paying(<<a, "check">>)) \in Nat
        BY <1>9, <1>7, PaidMore DEF BudgetTypeOK
    <2>4. /\ Paying(<<a, "check">>)' = Paying(<<a, "check">>) \cup {retry} /\ retry \notin Paying(<<a, "check">>)
          /\ RetriesOf(<<a, "check">>)' = RetriesOf(check) \cup {retry} /\ retry \notin RetriesOf(check)
        BY <1>2, <1>6, <1>7, <1>8 DEF Paying, RetriesOf
    <2>5. /\ Cardinality(Paying(<<a, "check">>)') = Cardinality(Paying(<<a, "check">>)) + 1
          /\ Cardinality(RetriesOf(<<a, "check">>)') = Cardinality(RetriesOf(check)) + 1
        BY <1>3, <2>3, <2>4, FS_AddElement
    <2>6. ChecksOf(a) <= Cardinality(Paying(<<a, "check">>))
        BY DEF WorkInv, ChecksPaid
    <2>7. ChecksOf(a)' <= Cardinality(Paying(<<a, "check">>)')
        BY <2>2, <2>3, <2>5, <2>6
    <2>8. fence'[<<a, "check">>] > 0
        BY <1>1, <1>2
    <2>9. ASSUME NEW r \in RetriesOf(<<a, "check">>)' PROVE r.n <= Cardinality(RetriesOf(<<a, "check">>)')
        <3>1. CASE r = retry
            BY <1>3, <1>6, <2>5, <3>1
        <3>2. CASE r \in RetriesOf(check)
            <4>1. r.n <= Cardinality(RetriesOf(check)) /\ r.n \in Nat
                BY <1>2, <3>2 DEF WorkInv, ChecksPaid, BudgetTypeOK, RetriesOf
            <4> QED
                BY <1>3, <2>5, <4>1
        <3> QED
            BY <2>4, <3>1, <3>2
    <2> QED
        BY <2>1, <2>7, <2>8, <2>9 DEF ChecksPaid
<1>12. BusyAccounted'
    <2>1. ASSUME NEW op \in busy' PROVE op \in busy /\ op[2] = "run" /\ status'[op] = status[op] /\ IsReserved(op)'
        <3>1. op \in busy /\ op[2] = "run" /\ IsReserved(op)
            BY <1>1 DEF WorkInv, BusyAccounted, CheckAt
        <3>2. op \in Ops /\ op # check
            BY <1>2, <3>1 DEF WorkInv, BudgetTypeOK
        <3> QED
            BY <1>1, <1>7, <3>1, <3>2 DEF IsReserved
    <2>2. \A b \in Attempts : status'[<<b, "run">>] = status[<<b, "run">>]
        BY <1>1 DEF Ops
    <2> QED
        BY <1>1, <2>1, <2>2 DEF WorkInv, BusyAccounted
<1>13. WorkKept'
    BY <1>1, <1>6, <1>7, <1>12, WorkReserved
<1> QED
    BY <1>9, <1>10, <1>11, <1>12, <1>13 DEF WorkInv

\* A check that was claimed or retried is executed once.
LEMMA RunCheckStep ==
    ASSUME WorkInv, RunCheck
    PROVE  WorkInv'
<1> DEFINE check == checking.op
<1>1. /\ UNCHANGED <<attempt, reserved, settled, closed, status, fence>>
      /\ CheckAt("claimed") /\ IsReserved(check) /\ check \notin closed
      /\ checking' = [checking EXCEPT !.step = "running"]
      /\ busy' = busy \cup {check}
      /\ executions' = [executions EXCEPT ![check] = @ + 1]
    BY DEF RunCheck, Execute, Dispatchable, NextStep, domainVars, recordVars, journalVars
<1>2. PICK a \in Attempts : /\ check = <<a, "check">> /\ check \in Ops /\ check[2] = "check"
                                /\ checking' = [op |-> check, step |-> "running"] /\ checking' # None
    BY <1>1, CheckUnderWay DEF CheckAt
<1>3. /\ \A op \in Ops : op # check => executions'[op] = executions[op]
      /\ executions'[check] = executions[check] + 1 /\ executions[check] \in Nat
    <2>1. executions \in [Ops -> Nat]
        BY DEF WorkInv, BudgetTypeOK
    <2> HIDE DEF check
    <2> QED
        BY <1>1, <1>2, <2>1
<1>4. check \notin settled
    BY <1>1, <1>2, ZenonT(30) DEF WorkInv, BusyAccounted
<1>5. BudgetTypeOK'
    <2>1. executions' \in [Ops -> Nat] /\ busy' \subseteq Ops
        <3>1. executions \in [Ops -> Nat] /\ busy \subseteq Ops
            BY DEF WorkInv, BudgetTypeOK
        <3> HIDE DEF check
        <3> QED
            BY <1>1, <1>2, <3>1
    <2>2. checking' = [op |-> checking'.op, step |-> checking'.step] /\ checking'.op \in Attempts \X {"check"}
        <3> HIDE DEF check
        <3> QED
            BY <1>2
    <2> QED
        BY <1>1, <2>1, <2>2 DEF WorkInv, BudgetTypeOK
<1>6. RunsPaid'
    <2>1. ASSUME NEW b \in Attempts PROVE RunsOf(b)' <= RunsOf(b) /\ fence'[<<b, "run">>] = fence[<<b, "run">>]
        <3>1. <<b, "run">> \in Ops /\ <<b, "run">> # check
            BY <1>2 DEF Ops
        <3>2. RunsOf(b)' = RunsOf(b) /\ RunsOf(b) \in Nat /\ fence'[<<b, "run">>] = fence[<<b, "run">>]
            BY <1>1, <1>3, <3>1 DEF RunsOf, WorkInv, BudgetTypeOK
        <3> QED
            BY <3>2
    <2> QED
        BY <1>1, <1>5, <2>1, RunsKept DEF WorkInv
<1>7. ChecksPaid'
    <2>1. ASSUME NEW b \in Attempts PROVE ChecksOf(b)' <= ChecksOf(b) /\ fence'[<<b, "check">>] >= fence[<<b, "check">>]
        <3>1. executions[<<b, "check">>] \in Nat /\ fence[<<b, "check">>] \in Nat /\ <<b, "check">> \in Ops
            BY DEF WorkInv, BudgetTypeOK, Ops
        <3>2. CASE <<b, "check">> = check
            <4>1. ChecksOf(b) = executions[check] + 1
                BY <1>1, <1>3, <3>2 DEF ChecksOf, CheckAt
            <4>2. ChecksOf(b)' = executions'[check]
                BY <1>2, <1>3, <3>2 DEF ChecksOf, CheckAt
            <4> QED
                BY <1>1, <1>3, <3>1, <4>1, <4>2
        <3>3. CASE <<b, "check">> # check
            <4>1. ChecksOf(b) = executions[<<b, "check">>]
                BY <3>1, <3>3 DEF ChecksOf
            <4>2. ChecksOf(b)' = executions[<<b, "check">>]
                BY <1>2, <1>3, <3>1, <3>3 DEF ChecksOf
            <4> QED
                BY <1>1, <3>1, <4>1, <4>2
        <3> QED
            BY <3>2, <3>3
    <2> QED
        BY <1>1, <1>5, <2>1, ChecksKept DEF WorkInv
<1>8. BusyAccounted'
    <2>1. ASSUME NEW op \in busy PROVE op[2] = "run" /\ IsReserved(op)
        BY <1>1 DEF WorkInv, BusyAccounted, CheckAt
    <2>2. CheckAt("running")' /\ checking'.op = check
        BY <1>2 DEF CheckAt
    <2>3. ASSUME NEW op \in busy'
          PROVE  /\ IsReserved(op)' /\ op \notin settled'
                 /\ IF op[2] = "run" THEN status'[op] = "sent" ELSE CheckAt("running")' /\ checking'.op = op
        <3>1. CASE op = check
            <4>1. IsReserved(op)'
                BY <1>1, <3>1 DEF IsReserved
            <4>2. op \notin settled' /\ op[2] # "run"
                BY <1>1, <1>2, <1>4, <3>1
            <4> QED
                BY <2>2, <3>1, <4>1, <4>2
        <3>2. CASE op \in busy
            <4>1. IsReserved(op)'
                BY <1>1, <2>1, <3>2 DEF IsReserved
            <4>2. op \notin settled /\ status[op] = "sent"
                BY <2>1, <3>2 DEF WorkInv, BusyAccounted
            <4> QED
                BY <1>1, <2>1, <3>2, <4>1, <4>2
        <3> QED
            BY <1>1, <3>1, <3>2
    <2> QED
        BY <1>1, <2>3 DEF WorkInv, BusyAccounted
<1>9. WorkKept'
    BY <1>1, <1>8, WorkUnreserved
<1> QED
    BY <1>5, <1>6, <1>7, <1>8, <1>9 DEF WorkInv

\* A stored result ends the execution.
LEMMA StoreResultStep ==
    ASSUME WorkInv, NEW size \in Sizes, StoreResult(size)
    PROVE  WorkInv'
<1> DEFINE check == checking.op
<1>1. /\ UNCHANGED <<attempt, reserved, settled, closed, status, fence, executions>>
      /\ CheckAt("running")
      /\ checking' = [checking EXCEPT !.step = "stored"]
      /\ busy' = busy \ {check}
    BY DEF StoreResult, NextStep, domainVars, recordVars, journalVars
<1>2. PICK a \in Attempts : /\ check = <<a, "check">> /\ check \in Ops /\ check[2] = "check"
                                /\ checking' = [op |-> check, step |-> "stored"] /\ checking' # None
    BY <1>1, CheckUnderWay DEF CheckAt
<1>3. BudgetTypeOK'
    <2>1. busy' \subseteq Ops
        BY <1>1 DEF WorkInv, BudgetTypeOK
    <2>2. checking' = [op |-> checking'.op, step |-> checking'.step] /\ checking'.op \in Attempts \X {"check"}
        <3> HIDE DEF check
        <3> QED
            BY <1>2
    <2> QED
        BY <1>1, <2>1, <2>2 DEF WorkInv, BudgetTypeOK
<1>4. RunsPaid'
    BY <1>1 DEF WorkInv, RunsPaid, RunsOf, Paying
<1>5. ChecksPaid'
    <2>1. ASSUME NEW b \in Attempts PROVE ChecksOf(b)' <= ChecksOf(b) /\ fence'[<<b, "check">>] >= fence[<<b, "check">>]
        <3>1. executions[<<b, "check">>] \in Nat /\ fence[<<b, "check">>] \in Nat
            BY DEF WorkInv, BudgetTypeOK, Ops
        <3>2. ChecksOf(b)' = executions[<<b, "check">>] /\ ChecksOf(b) >= executions[<<b, "check">>]
            BY <1>1, <1>2, <3>1 DEF ChecksOf, CheckAt
        <3> QED
            BY <1>1, <3>1, <3>2
    <2> QED
        BY <1>1, <1>3, <2>1, ChecksKept DEF WorkInv
<1>6. BusyAccounted'
    <2>1. ASSUME NEW op \in busy' PROVE op \in busy /\ op[2] = "run"
        BY <1>1 DEF WorkInv, BusyAccounted
    <2> QED
        BY <1>1, <2>1 DEF WorkInv, BusyAccounted, IsReserved
<1>7. WorkKept'
    BY <1>1, <1>6, WorkUnreserved
<1> QED
    BY <1>3, <1>4, <1>5, <1>6, <1>7 DEF WorkInv

\* A check is settled when nobody executes it.
LEMMA SettleCheckStep ==
    ASSUME WorkInv, SettleCheck
    PROVE  WorkInv'
<1> DEFINE check == checking.op
<1>1. /\ UNCHANGED <<attempt, reserved, fence, busy, executions>>
      /\ CheckAt("stored") \/ CheckAt("intended")
      /\ checking' = None
      /\ status' = [status EXCEPT ![check] = IF @ = "dispatched" THEN "terminal" ELSE @]
      /\ settled' = settled \cup {check}
      /\ closed' = closed \cup {check}
    BY DEF SettleCheck, domainVars, recordVars, journalVars
<1>2. PICK a \in Attempts : check = <<a, "check">> /\ check \in Ops /\ check[2] = "check"
    BY <1>1, CheckUnderWay DEF CheckAt
<1>3. \A op \in Ops : op # check => status'[op] = status[op]
    <2>1. DOMAIN status = Ops
        BY DEF WorkInv, BudgetTypeOK
    <2> HIDE DEF check
    <2> QED
        BY <1>1, <2>1
<1>4. BudgetTypeOK'
    BY <1>1 DEF WorkInv, BudgetTypeOK
<1>5. RunsPaid'
    <2>1. ASSUME NEW b \in Attempts PROVE RunsOf(b)' <= RunsOf(b) /\ fence'[<<b, "run">>] = fence[<<b, "run">>]
        <3>1. <<b, "run">> \in Ops /\ <<b, "run">> # check
            BY <1>2 DEF Ops
        <3>2. RunsOf(b)' = RunsOf(b) /\ RunsOf(b) \in Nat /\ fence'[<<b, "run">>] = fence[<<b, "run">>]
            BY <1>1, <1>3, <3>1 DEF RunsOf, WorkInv, BudgetTypeOK
        <3> QED
            BY <3>2
    <2> QED
        BY <1>1, <1>4, <2>1, RunsKept DEF WorkInv
<1>6. ChecksPaid'
    <2>1. ASSUME NEW b \in Attempts PROVE ChecksOf(b)' <= ChecksOf(b) /\ fence'[<<b, "check">>] >= fence[<<b, "check">>]
        <3>1. executions[<<b, "check">>] \in Nat /\ fence[<<b, "check">>] \in Nat
            BY DEF WorkInv, BudgetTypeOK, Ops
        <3>2. ChecksOf(b)' = executions[<<b, "check">>] /\ ChecksOf(b) >= executions[<<b, "check">>]
            BY <1>1, <1>2, <3>1 DEF ChecksOf, CheckAt
        <3> QED
            BY <1>1, <3>1, <3>2
    <2> QED
        BY <1>1, <1>4, <2>1, ChecksKept DEF WorkInv
<1>7. BusyAccounted'
    <2>1. ASSUME NEW op \in busy
          PROVE  op[2] = "run" /\ op # check /\ IsReserved(op)' /\ status'[op] = "sent" /\ op \notin settled'
        <3>1. op[2] = "run" /\ op # check
            BY <1>1, <1>2 DEF WorkInv, BusyAccounted, CheckAt
        <3>2. IsReserved(op)'
            BY <1>1 DEF WorkInv, BusyAccounted, IsReserved
        <3>3. status[op] = "sent" /\ op \notin settled /\ op \in Ops
            BY <3>1 DEF WorkInv, BusyAccounted, BudgetTypeOK
        <3> QED
            BY <1>1, <1>3, <3>1, <3>2, <3>3
    <2>2. ASSUME NEW b \in Attempts
          PROVE  /\ attempt'[b] = "finished" => status'[<<b, "run">>] = "terminal"
                 /\ attempt'[b] = "none" => status'[<<b, "run">>] = "none"
                 /\ <<b, "run">> \in settled' => <<b, "run">> \in closed' \/ status'[<<b, "run">>] = "terminal"
                 /\ <<b, "check">> \in settled' => <<b, "check">> \in closed'
        <3>1. <<b, "run">> # check /\ <<b, "run">> \in Ops
            BY <1>2 DEF Ops
        <3>2. status'[<<b, "run">>] = status[<<b, "run">>]
            BY <1>3, <3>1
        <3> HIDE DEF check
        <3> QED
            BY <1>1, <3>1, <3>2 DEF WorkInv, BusyAccounted
    <2> QED
        BY <1>1, <2>1, <2>2 DEF BusyAccounted
<1>8. WorkKept'
    BY <1>1, <1>7, WorkUnreserved
<1> QED
    BY <1>4, <1>5, <1>6, <1>7, <1>8 DEF WorkInv

\* A refusal or a crash ends the execution of a check with its process.
LEMMA CheckFailsStep ==
    ASSUME WorkInv, CheckFails
    PROVE  WorkInv'
<1>1. /\ UNCHANGED <<attempt, reserved, settled, closed, status, fence, executions>>
      /\ checking # None
      /\ checking' = None
      /\ busy' = busy \ {checking.op}
    BY DEF CheckFails, domainVars, recordVars, journalVars
<1>2. \A op \in busy' : op \in busy /\ op[2] = "run"
    BY <1>1 DEF WorkInv, BusyAccounted
<1>3. BudgetTypeOK'
    BY <1>1 DEF WorkInv, BudgetTypeOK
<1>4. RunsPaid'
    BY <1>1 DEF WorkInv, RunsPaid, RunsOf, Paying
<1>5. ChecksPaid'
    <2>1. ASSUME NEW b \in Attempts PROVE ChecksOf(b)' <= ChecksOf(b) /\ fence'[<<b, "check">>] >= fence[<<b, "check">>]
        <3>1. executions[<<b, "check">>] \in Nat /\ fence[<<b, "check">>] \in Nat
            BY DEF WorkInv, BudgetTypeOK, Ops
        <3>2. ChecksOf(b)' = executions[<<b, "check">>] /\ ChecksOf(b) >= executions[<<b, "check">>]
            BY <1>1, <1>2, <3>1 DEF ChecksOf, CheckAt
        <3> QED
            BY <1>1, <3>1, <3>2
    <2> QED
        BY <1>1, <1>3, <2>1, ChecksKept DEF WorkInv
<1>6. BusyAccounted'
    BY <1>1, <1>2 DEF WorkInv, BusyAccounted, IsReserved
<1>7. WorkKept'
    BY <1>1, <1>6, WorkUnreserved
<1> QED
    BY <1>3, <1>4, <1>5, <1>6, <1>7 DEF WorkInv

-----------------------------------------------------------------------------
(* The theorems. *)

\* Nothing is reserved at first.
LEMMA BudgetInit ==
    Init => BudgetInv
<1> SUFFICES ASSUME Init PROVE BudgetInv
    OBVIOUS
<1>1. IsFiniteSet({}) /\ Cardinality({}) = 0
    BY FS_EmptySet
<1>2. BudgetTypeOK
    BY <1>1 DEF Init, BudgetTypeOK
<1>3. \A op \in Ops : Paying(op) = {} /\ RetriesOf(op) = {}
    BY DEF Init, Paying, RetriesOf
<1>4. \A a \in Attempts : <<a, "run">> \in Ops /\ <<a, "check">> \in Ops
    BY DEF Ops
<1>5. RunsPaid
    <2>1. ASSUME NEW a \in Attempts
          PROVE  /\ Cardinality(Paying(<<a, "run">>)) = 0
                 /\ fence[<<a, "run">>] = 0
                 /\ executions[<<a, "run">>] = 0
                 /\ status[<<a, "run">>] # "dispatched"
        <3>1. Paying(<<a, "run">>) = {}
            BY <1>3, <1>4
        <3>2. Cardinality(Paying(<<a, "run">>)) = 0
            BY <1>1, <3>1
        <3> QED
            BY <1>4, <3>2 DEF Init
    <2>2. ASSUME NEW a \in Attempts
          PROVE  RunsOf(a) = 0
        BY <2>1 DEF RunsOf
    <2>3. ASSUME NEW a \in Attempts
          PROVE  /\ RunsOf(a) <= fence[<<a, "run">>]
                 /\ RunsOf(a) <= Cardinality(Paying(<<a, "run">>))
        BY <2>1, <2>2
    <2>4. \A r \in reserved : FALSE
        BY DEF Init
    <2> QED
        BY <2>3, <2>4, Zenon DEF RunsPaid
<1>6. ChecksPaid
    <2>1. ASSUME NEW a \in Attempts
          PROVE  /\ Cardinality(Paying(<<a, "check">>)) = 0
                 /\ executions[<<a, "check">>] = 0
                 /\ RetriesOf(<<a, "check">>) = {}
        <3>1. Paying(<<a, "check">>) = {} /\ RetriesOf(<<a, "check">>) = {}
            BY <1>3, <1>4
        <3>2. Cardinality(Paying(<<a, "check">>)) = 0
            BY <1>1, <3>1
        <3> QED
            BY <1>4, <3>1, <3>2 DEF Init
    <2>2. ~CheckAt("claimed")
        BY DEF Init, CheckAt
    <2>3. ASSUME NEW a \in Attempts
          PROVE  ChecksOf(a) = 0
        BY <2>1, <2>2 DEF ChecksOf
    <2>4. ASSUME NEW a \in Attempts
          PROVE  /\ ChecksOf(a) <= Cardinality(Paying(<<a, "check">>))
                 /\ ~(ChecksOf(a) > 0)
        BY <2>1, <2>3
    <2>5. ASSUME NEW a \in Attempts
          PROVE  \A r \in RetriesOf(<<a, "check">>) : FALSE
        BY <2>1
    <2> QED
        BY <2>4, <2>5, Zenon DEF ChecksPaid
<1>7. BusyAccounted
    BY <1>4 DEF Init, BusyAccounted
<1>8. UsageChained /\ UsageCountedOnce
    BY <1>1 DEF Init, UsageChained, UsageCountedOnce, Effective
<1>9. WorkKept
    <2>1. ASSUME NEW s \in Programs \cup Projects
          PROVE  /\ \A category \in Categories : Policy[s].counts[category] \in Nat
                 /\ Policy[s].active \in Nat
        BY BudgetAssumption
    <2>2. ASSUME NEW s \in Programs \cup Projects, NEW category \in Categories
          PROVE  Count(reserved, s, category) <= Policy[s].counts[category]
        <3>1. {r \in InScope(reserved, s) : r.category = category} = {}
            BY DEF Init, InScope
        <3>2. Count(reserved, s, category) = 0
            BY <1>1, <3>1 DEF Count
        <3>3. Policy[s].counts[category] \in Nat
            BY <2>1
        <3> QED
            BY <3>2, <3>3
    <2>3. ASSUME NEW s \in Programs \cup Projects
          PROVE  /\ Active(reserved, s) = {}
                 /\ {op[1] : op \in {o \in busy : o[1] \in AttemptsIn[s]}} = {}
        BY DEF Init, Active, InScope
    <2>4. ASSUME NEW s \in Programs \cup Projects
          PROVE  /\ Cardinality(Active(reserved, s)) <= Policy[s].active
                 /\ Cardinality({op[1] : op \in {o \in busy : o[1] \in AttemptsIn[s]}}) <= Policy[s].active
        <3>1. Cardinality(Active(reserved, s)) = 0
            BY <1>1, <2>3
        <3>2. Cardinality({op[1] : op \in {o \in busy : o[1] \in AttemptsIn[s]}}) = 0
            BY <1>1, <2>3
        <3> QED
            BY <2>1, <3>1, <3>2
    <2> QED
        BY <2>2, <2>4 DEF WorkKept
<1> QED
    BY <1>2, <1>5, <1>6, <1>7, <1>8, <1>9 DEF BudgetInv

\* Every step of the budget keeps the invariant.
LEMMA BudgetStep ==
    BudgetInv /\ [Next]_vars => BudgetInv'
<1> SUFFICES ASSUME BudgetInv, [Next]_vars PROVE BudgetInv'
    OBVIOUS
<1>1. WorkInv /\ UsageChained /\ UsageCountedOnce
    BY DEF BudgetInv, WorkInv
<1>2. UsageChained' /\ UsageCountedOnce'
    BY <1>1, UsageStep
<1>3. WorkInv'
    <2>1. CASE AttemptNext
        BY <1>1, <2>1, PrepareStep, AttemptStep, CompleteStep, ClaimRunStep, RunStep, AbsentStep, RunEndsStep, SettleStep
           DEF AttemptNext
    <2>2. CASE CheckNext
        BY <1>1, <2>2, BeginCheckStep, FirstCheckStep, RetryCheckStep, RunCheckStep, SettleCheckStep, CheckFailsStep,
           StoreResultStep
           DEF CheckNext
    <2>3. CASE RecordNext
        BY <1>1, <2>3, OtherStep DEF RecordNext
    <2>4. CASE UNCHANGED vars
        BY <1>1, <2>4, OtherStep
    <2> QED
        BY <2>1, <2>2, <2>3, <2>4 DEF Next
<1> QED
    BY <1>2, <1>3 DEF BudgetInv, WorkInv

\* The inductive invariant of the reservations, the deliveries, the checks and the usage.
THEOREM BudgetInvariant == Spec => []BudgetInv
BY BudgetInit, BudgetStep, PTL DEF Spec

\* The counts and the concurrency of every policy are kept, and no more Attempts are really
\* at work than the policies allow (_reserve_work(), _claim_operation()).
THEOREM WorkStaysWithinPolicy == Spec => []WorkKept
<1>1. BudgetInv => WorkKept
    BY DEF BudgetInv
<1> QED
    BY <1>1, BudgetInvariant, PTL

\* Every execution was paid for by a reservation of its own (_claim_operation() and
\* retry_work()).
THEOREM ExecutionsArePaidFor == Spec => []ExecutionsPaidFor
<1>1. BudgetInv => ExecutionsPaidFor
    <2> SUFFICES ASSUME BudgetInv, NEW op \in Ops PROVE executions[op] <= Cardinality(Paying(op))
        BY DEF ExecutionsPaidFor
    <2>1. executions[op] \in Nat /\ IsFiniteSet(reserved) /\ Paying(op) \subseteq reserved
        BY DEF BudgetInv, BudgetTypeOK, Paying
    <2>2. Cardinality(Paying(op)) \in Nat
        BY <2>1, FS_Subset, FS_CardinalityType
    <2>3. PICK a \in Attempts : op = <<a, "run">> \/ op = <<a, "check">>
        BY DEF Ops
    <2>4. CASE op = <<a, "run">>
        <3>1. RunsOf(a) <= Cardinality(Paying(op)) /\ RunsOf(a) >= executions[op]
            BY <2>1, <2>4 DEF BudgetInv, RunsPaid, RunsOf
        <3>2. RunsOf(a) \in Nat
            BY <2>1, <2>4 DEF RunsOf
        <3> QED
            BY <2>1, <2>2, <3>1, <3>2
    <2>5. CASE op = <<a, "check">>
        <3>1. ChecksOf(a) <= Cardinality(Paying(op)) /\ ChecksOf(a) >= executions[op]
            BY <2>1, <2>5 DEF BudgetInv, ChecksPaid, ChecksOf
        <3>2. ChecksOf(a) \in Nat
            BY <2>1, <2>5 DEF ChecksOf
        <3> QED
            BY <2>1, <2>2, <3>1, <3>2
    <2> QED
        BY <2>3, <2>4, <2>5
<1> QED
    BY <1>1, BudgetInvariant, PTL

\* A receipt of a provider counts once, for one Operation (record_usage()).
THEOREM UsageIsCountedOnce == Spec => []UsageCountedOnce
<1>1. BudgetInv => UsageCountedOnce
    BY DEF BudgetInv
<1> QED
    BY <1>1, BudgetInvariant, PTL

-----------------------------------------------------------------------------
(* Sums over finite sets: induction, from the well-founded order of the natural *)
(* numbers, and what it shows about the recursive function behind a sum.       *)

\* A set of natural numbers that is not empty has a least element.
LEMMA Least ==
    ASSUME NEW T, T \subseteq Nat, T # {}
    PROVE  \E n \in T : \A m \in T : n <= m
<1> DEFINE R == OpToRel(<, Nat)
<1>1. IsWellFoundedOn(R, Nat)
  BY NatLessThanWellFounded, Zenon
<1>2. PICK n \in T : \A m \in T : ~(<<m, n>> \in R)
  <2> HIDE DEF R
  <2> QED
      BY <1>1, WFMin
<1>3. ASSUME NEW m \in T PROVE n <= m
  <2>1. m \in Nat /\ n \in Nat
    OBVIOUS
  <2>2. m < n => <<m, n>> \in R
    BY <2>1 DEF OpToRel
  <2> HIDE DEF R
  <2> QED
      BY <2>1, <2>2, <1>2
<1> QED
    BY <1>3

\* A set that has 0 and, with a number, also the next one, has all of them.
LEMMA Induction ==
    ASSUME NEW S, 0 \in S, \A n \in Nat : n \in S => n + 1 \in S
    PROVE  Nat \subseteq S
<1> SUFFICES ASSUME ~(Nat \subseteq S) PROVE FALSE
  OBVIOUS
<1> DEFINE T == Nat \ S
<1>1. T # {} /\ T \subseteq Nat
  OBVIOUS
<1>2. PICK n \in T : \A m \in T : n <= m
  <2> HIDE DEF T
  <2> QED
      BY <1>1, Least
<1>3. n \in Nat /\ n # 0 /\ n - 1 \in Nat
  BY <1>2
<1>4. n - 1 \in S
  BY <1>2, <1>3
<1>5. n - 1 + 1 = n
  BY <1>3
<1>6. n - 1 + 1 \in S
  BY <1>3, <1>4
<1> QED
    BY <1>2, <1>5, <1>6

\* One step of a sum of F, and the function that has the sum of every subset of S.
SumStep(it, F, s) == IF s = {} THEN 0 ELSE LET x == CHOOSE x \in s : TRUE IN F[x] + it[s \ {x}]
IsSum(it, F, S) == it = [s \in SUBSET S |-> SumStep(it, F, s)]
Sum(F, S) == (CHOOSE it : IsSum(it, F, S))[S]
Upto(S, n) == {s \in SUBSET S : Cardinality(s) <= n}

\* Without one of its elements a finite set has one element less.
LEMMA Smaller ==
    ASSUME NEW S, IsFiniteSet(S), NEW s \in SUBSET S, s # {}, NEW x \in s
    PROVE  /\ Cardinality(s) \in Nat \ {0} /\ s \ {x} \in SUBSET S
           /\ Cardinality(s \ {x}) = Cardinality(s) - 1
           /\ IsFiniteSet(s)
<1>1. IsFiniteSet(s)
  BY FS_Subset
<1>2. Cardinality(s) \in Nat
  BY <1>1, FS_CardinalityType
<1>3. Cardinality(s) # 0
  BY <1>1, FS_EmptySet
<1>4. Cardinality(s \ {x}) = Cardinality(s) - 1
  BY <1>1, FS_RemoveElement
<1> QED
    BY <1>1, <1>2, <1>3, <1>4

\* There is such a function.
LEMMA SumExists ==
    ASSUME NEW S, IsFiniteSet(S), NEW F
    PROVE  \E it : IsSum(it, F, S)
<1> DEFINE B(it, n) == it = [s \in Upto(S, n) |-> SumStep(it, F, s)]
           T == {n \in Nat : \E it : B(it, n)}
<1>1. 0 \in T
  <2> DEFINE it == [s \in Upto(S, 0) |-> 0]
  <2>1. ASSUME NEW s \in Upto(S, 0) PROVE SumStep(it, F, s) = 0
    <3>1. IsFiniteSet(s)
      BY FS_Subset DEF Upto
    <3>2. Cardinality(s) \in Nat /\ Cardinality(s) <= 0
      BY <3>1, FS_CardinalityType DEF Upto
    <3>3. s = {}
      BY <3>1, <3>2, FS_EmptySet
    <3> QED
        BY <3>3 DEF SumStep
  <2>2. B(it, 0)
    BY <2>1
  <2> HIDE DEF B
  <2> QED
      BY <2>2
<1>2. ASSUME NEW n \in Nat, n \in T PROVE n + 1 \in T
  <2>1. PICK f : B(f, n)
    BY <1>2
  <2> DEFINE g == [s \in Upto(S, n + 1) |-> SumStep(f, F, s)]
  <2>2. ASSUME NEW s \in Upto(S, n) PROVE s \in Upto(S, n + 1) /\ g[s] = f[s]
    <3>1. IsFiniteSet(s)
      BY FS_Subset DEF Upto
    <3>2. Cardinality(s) \in Nat
      BY <3>1, FS_CardinalityType
    <3>3. s \in Upto(S, n + 1)
      BY <3>2 DEF Upto
    <3>4. f[s] = SumStep(f, F, s)
      BY <2>1
    <3> QED
        BY <3>3, <3>4
  <2>3. ASSUME NEW s \in Upto(S, n + 1) PROVE SumStep(g, F, s) = SumStep(f, F, s)
    <3>1. CASE s = {}
      BY <3>1 DEF SumStep
    <3>2. CASE s # {}
      <4> DEFINE x == CHOOSE x \in s : TRUE
      <4>1. x \in s
        BY <3>2
      <4> HIDE DEF x
      <4>2. /\ Cardinality(s) \in Nat /\ s \ {x} \in SUBSET S
            /\ Cardinality(s \ {x}) = Cardinality(s) - 1
        <5>1. s \in SUBSET S
          BY DEF Upto
        <5> QED
            BY <3>2, <4>1, <5>1, Smaller
      <4>3. s \ {x} \in Upto(S, n)
        BY <4>2 DEF Upto
      <4>4. g[s \ {x}] = f[s \ {x}]
        <5> HIDE DEF g
        <5> QED
            BY <4>3, <2>2
      <4> HIDE DEF g
      <4> QED
          BY <3>2, <4>4 DEF SumStep, x
    <3> QED
        BY <3>1, <3>2
  <2>4. B(g, n + 1)
    BY <2>3
  <2> HIDE DEF B, g
  <2> QED
      BY <2>4
<1>3. Nat \subseteq T
  <2> HIDE DEF T
  <2> QED
      BY <1>1, <1>2, Induction
<1>4. Cardinality(S) \in Nat
  BY FS_CardinalityType
<1>5. PICK it : B(it, Cardinality(S))
  BY <1>3, <1>4
<1>6. Upto(S, Cardinality(S)) = SUBSET S
  <2>1. \A s \in SUBSET S : Cardinality(s) <= Cardinality(S)
    BY FS_Subset
  <2> QED
      BY <2>1 DEF Upto
<1> QED
    BY <1>5, <1>6 DEF IsSum

\* Its values are natural numbers.
LEMMA SumNat ==
    ASSUME NEW S, IsFiniteSet(S), NEW F, \A x \in S : F[x] \in Nat, NEW it, IsSum(it, F, S)
    PROVE  /\ \A s \in SUBSET S : it[s] \in Nat
           /\ it[{}] = 0
           /\ \A s \in SUBSET S : s # {} => \E y \in s : it[s] = F[y] + it[s \ {y}]
<1> DEFINE T == {n \in Nat : \A s \in SUBSET S : Cardinality(s) = n => it[s] \in Nat}
<1>0. \A s \in SUBSET S : it[s] = SumStep(it, F, s)
    BY DEF IsSum
<1>1. it[{}] = 0
    BY <1>0 DEF SumStep
<1>2. ASSUME NEW s \in SUBSET S, s # {} PROVE \E y \in s : it[s] = F[y] + it[s \ {y}]
  <2>1. (CHOOSE x \in s : TRUE) \in s
    BY <1>2
  <2> QED
      BY <1>0, <1>2, <2>1 DEF SumStep
<1>3. 0 \in T
  <2>1. \A s \in SUBSET S : Cardinality(s) = 0 => s = {}
    BY FS_Subset, FS_EmptySet
  <2> QED
      BY <2>1, <1>1
<1>4. ASSUME NEW n \in Nat, n \in T PROVE n + 1 \in T
  <2>1. ASSUME NEW s \in SUBSET S, Cardinality(s) = n + 1 PROVE it[s] \in Nat
    <3>1. s # {}
      BY <2>1, FS_EmptySet
    <3>2. PICK y \in s : it[s] = F[y] + it[s \ {y}]
      BY <1>2, <3>1
    <3>3. s \ {y} \in SUBSET S /\ Cardinality(s \ {y}) = n
      BY <2>1, <3>1, Smaller
    <3>4. it[s \ {y}] \in Nat /\ F[y] \in Nat
      BY <1>4, <3>3
    <3> QED
        BY <3>2, <3>4
  <2> QED
      BY <2>1
<1>5. Nat \subseteq T
  <2> HIDE DEF T
  <2> QED
      BY <1>3, <1>4, Induction
<1>6. \A s \in SUBSET S : Cardinality(s) \in Nat
    BY FS_Subset, FS_CardinalityType
<1> QED
    BY <1>1, <1>2, <1>5, <1>6

\* Any element may come first.
LEMMA SumUnfolds ==
    ASSUME NEW S, IsFiniteSet(S), NEW F, \A x \in S : F[x] \in Nat, NEW it, IsSum(it, F, S)
    PROVE  \A s \in SUBSET S : \A x \in s : it[s] = F[x] + it[s \ {x}]
<1> DEFINE P(s) == \A x \in s : it[s] = F[x] + it[s \ {x}]
           T == {n \in Nat : \A s \in SUBSET S : Cardinality(s) = n => P(s)}
<1>0. /\ \A s \in SUBSET S : it[s] \in Nat
      /\ \A s \in SUBSET S : s # {} => \E y \in s : it[s] = F[y] + it[s \ {y}]
    BY SumNat
<1>1. 0 \in T
  <2>1. \A s \in SUBSET S : Cardinality(s) = 0 => s = {}
    BY FS_Subset, FS_EmptySet
  <2> QED
      BY <2>1
<1>2. ASSUME NEW n \in Nat, n \in T PROVE n + 1 \in T
  <2>1. ASSUME NEW s \in SUBSET S, Cardinality(s) = n + 1, NEW x \in s
        PROVE  it[s] = F[x] + it[s \ {x}]
    <3>1. PICK y \in s : it[s] = F[y] + it[s \ {y}]
      BY <1>0
    <3>2. CASE x # y
      <4> DEFINE rest == (s \ {y}) \ {x}
      <4>1. it[s \ {y}] = F[x] + it[rest] /\ it[s \ {x}] = F[y] + it[rest]
        <5>1. /\ s \ {x} \in SUBSET S /\ Cardinality(s \ {x}) = n
              /\ s \ {y} \in SUBSET S /\ Cardinality(s \ {y}) = n
          BY <2>1, Smaller
        <5>2. rest = (s \ {x}) \ {y}
          OBVIOUS
        <5> HIDE DEF rest
        <5>3. it[s \ {x}] = F[y] + it[rest]
          BY <1>2, <3>2, <5>1, <5>2
        <5>4. it[s \ {y}] = F[x] + it[rest]
          BY <1>2, <3>2, <5>1 DEF rest
        <5> QED
            BY <5>3, <5>4
      <4>2. it[rest] \in Nat /\ F[x] \in Nat /\ F[y] \in Nat
        BY <1>0
      <4> HIDE DEF rest
      <4> QED
          BY <3>1, <4>1, <4>2
    <3> QED
        BY <3>1, <3>2
  <2> QED
      BY <2>1
<1>3. Nat \subseteq T
  <2> HIDE DEF T
  <2> QED
      BY <1>1, <1>2, Induction
<1>4. \A s \in SUBSET S : Cardinality(s) \in Nat
    BY FS_Subset, FS_CardinalityType
<1> QED
    BY <1>3, <1>4

\* A sum depends on the values in the set alone.
LEMMA SumsAgree ==
    ASSUME NEW S, IsFiniteSet(S), NEW F, \A x \in S : F[x] \in Nat, NEW it, IsSum(it, F, S),
           NEW R, IsFiniteSet(R), NEW G, \A x \in R : G[x] \in Nat, NEW jt, IsSum(jt, G, R)
    PROVE  \A s \in SUBSET (S \cap R) : (\A x \in s : F[x] = G[x]) => it[s] = jt[s]
<1> DEFINE P(s) == (\A x \in s : F[x] = G[x]) => it[s] = jt[s]
           T == {n \in Nat : \A s \in SUBSET (S \cap R) : Cardinality(s) = n => P(s)}
<1>0. IsFiniteSet(S \cap R)
    BY FS_Subset
<1>1. 0 \in T
  <2>1. \A s \in SUBSET (S \cap R) : Cardinality(s) = 0 => s = {}
    BY <1>0, FS_Subset, FS_EmptySet
  <2>2. it[{}] = 0 /\ jt[{}] = 0
    BY SumNat
  <2> QED
      BY <2>1, <2>2
<1>2. ASSUME NEW n \in Nat, n \in T PROVE n + 1 \in T
  <2>1. ASSUME NEW s \in SUBSET (S \cap R), Cardinality(s) = n + 1, \A x \in s : F[x] = G[x]
        PROVE  it[s] = jt[s]
    <3>1. s # {}
      BY <2>1, FS_EmptySet
    <3>2. PICK x \in s : TRUE
      BY <3>1
    <3>3. it[s] = F[x] + it[s \ {x}] /\ jt[s] = G[x] + jt[s \ {x}]
      <4>1. s \in SUBSET S /\ s \in SUBSET R
        OBVIOUS
      <4>2. it[s] = F[x] + it[s \ {x}]
        BY <4>1, SumUnfolds
      <4>3. jt[s] = G[x] + jt[s \ {x}]
        BY <4>1, SumUnfolds
      <4> QED
          BY <4>2, <4>3
    <3>4. s \ {x} \in SUBSET (S \cap R) /\ Cardinality(s \ {x}) = n
      <4> DEFINE both == S \cap R
      <4>1. IsFiniteSet(both) /\ s \in SUBSET both
        BY <1>0
      <4> HIDE DEF both
      <4>2. s \ {x} \in SUBSET both /\ Cardinality(s \ {x}) = Cardinality(s) - 1
        BY <4>1, <3>1, Smaller
      <4> QED
          BY <2>1, <4>2 DEF both
    <3> QED
        BY <1>2, <2>1, <3>3, <3>4
  <2> QED
      BY <2>1
<1>3. Nat \subseteq T
  <2> HIDE DEF T
  <2> QED
      BY <1>1, <1>2, Induction
<1>4. \A s \in SUBSET (S \cap R) : Cardinality(s) \in Nat
    BY <1>0, FS_Subset, FS_CardinalityType
<1> QED
    BY <1>3, <1>4

\* The sum of a set is the value of any such function.
LEMMA SumOfAll ==
    ASSUME NEW S, IsFiniteSet(S), NEW F, \A x \in S : F[x] \in Nat, NEW it, IsSum(it, F, S)
    PROVE  it[S] = Sum(F, S)
<1> DEFINE jt == CHOOSE j : IsSum(j, F, S)
<1>1. IsSum(jt, F, S) /\ Sum(F, S) = jt[S]
    BY SumExists DEF Sum
<1> HIDE DEF jt
<1>2. S \in SUBSET (S \cap S)
    OBVIOUS
<1> QED
    BY <1>1, <1>2, SumsAgree

\* A sum is a natural number, and nothing sums up to 0.
LEMMA SumIs ==
    ASSUME NEW S, IsFiniteSet(S), NEW F, \A x \in S : F[x] \in Nat
    PROVE  Sum(F, S) \in Nat /\ (S = {} => Sum(F, S) = 0)
<1> DEFINE it == CHOOSE i : IsSum(i, F, S)
<1>1. IsSum(it, F, S) /\ Sum(F, S) = it[S]
    BY SumExists DEF Sum
<1> HIDE DEF it
<1>2. it[S] \in Nat /\ it[{}] = 0
    BY <1>1, SumNat
<1> QED
    BY <1>1, <1>2

\* The sum without one element.
LEMMA SumRemoves ==
    ASSUME NEW S, IsFiniteSet(S), NEW F, \A y \in S : F[y] \in Nat, NEW x \in S,
           NEW G, \A y \in S \ {x} : G[y] = F[y]
    PROVE  Sum(F, S) = F[x] + Sum(G, S \ {x})
<1> DEFINE R == S \ {x}
           it == CHOOSE i : IsSum(i, F, S)
           jt == CHOOSE j : IsSum(j, G, R)
<1>1. IsSum(it, F, S) /\ Sum(F, S) = it[S]
    BY SumExists DEF Sum
<1>2. IsFiniteSet(R) /\ (\A y \in R : G[y] \in Nat /\ F[y] = G[y]) /\ R \in SUBSET (S \cap R)
    BY FS_Subset
<1> HIDE DEF R
<1>3. IsSum(jt, G, R) /\ Sum(G, R) = jt[R]
    BY <1>2, SumExists DEF Sum
<1> HIDE DEF it, jt
<1>4. it[R] = jt[R]
    BY <1>1, <1>2, <1>3, SumsAgree
<1>5. it[S] = F[x] + it[S \ {x}]
    BY <1>1, SumUnfolds
<1> QED
    BY <1>1, <1>3, <1>4, <1>5 DEF R

-----------------------------------------------------------------------------
(* The bytes that are held. *)

\* Held() for given claims and stored bytes, the reservations that hold bytes in a scope,
\* and what they hold.
HeldAs(own, sto, r) == IF r.op[1] \in own /\ sto[r.op] > r.bytes THEN sto[r.op] ELSE r.bytes
HoldingIn(records, s) == {r \in InScope(records, s) : r.category \notin CountOnly}
BytesOf(own, sto, T) == Sum([r \in T |-> HeldAs(own, sto, r)], T)

\* The sum of the model is the sum of the lemmas.
LEMMA HeldSums ==
    ASSUME NEW own, NEW sto, NEW T, IsFiniteSet(T), \A r \in T : HeldAs(own, sto, r) \in Nat
    PROVE  MapThenSumSet(LAMBDA r : HeldAs(own, sto, r), T) = BytesOf(own, sto, T)
<1> DEFINE F == [r \in T |-> HeldAs(own, sto, r)]
           it == CHOOSE it : it = [s \in SUBSET T |-> IF s = {} THEN 0 ELSE HeldAs(own, sto, CHOOSE x \in s : TRUE) + it[s \ {CHOOSE x \in s : TRUE}]]
<1>1. MapThenSumSet(LAMBDA r : HeldAs(own, sto, r), T) = it[T]
    BY Zenon DEF MapThenSumSet, MapThenFoldSet
<1>2. PICK jt : IsSum(jt, F, T)
    BY SumExists
<1>3. jt = [s \in SUBSET T |-> IF s = {} THEN 0 ELSE HeldAs(own, sto, CHOOSE x \in s : TRUE) + jt[s \ {CHOOSE x \in s : TRUE}]]
    BY <1>2 DEF IsSum, SumStep
<1>4. it = [s \in SUBSET T |-> IF s = {} THEN 0 ELSE HeldAs(own, sto, CHOOSE x \in s : TRUE) + it[s \ {CHOOSE x \in s : TRUE}]]
    BY <1>3
<1>5. IsSum(it, F, T)
    BY <1>4 DEF IsSum, SumStep
<1>6. \A r \in T : F[r] \in Nat
    OBVIOUS
<1> HIDE DEF F, it
<1>7. it[T] = Sum(F, T)
    BY <1>5, <1>6, SumOfAll
<1> QED
    BY <1>1, <1>7 DEF F, BytesOf

\* What a reservation holds is a natural number.
LEMMA HeldNat ==
    ASSUME NEW own, NEW sto \in [Ops -> Nat], NEW r \in Reservations
    PROVE  HeldAs(own, sto, r) \in Nat
BY DEF HeldAs, Reservations

\* _retained_work_bytes() in these terms.
LEMMA HeldInIs ==
    ASSUME IsFiniteSet(reserved), reserved \subseteq Reservations, stored \in [Ops -> Nat], NEW s
    PROVE  /\ HeldIn(reserved, s) = BytesOf(owned, stored, HoldingIn(reserved, s))
           /\ IsFiniteSet(HoldingIn(reserved, s)) /\ HoldingIn(reserved, s) \subseteq reserved
<1> DEFINE T == HoldingIn(reserved, s)
<1>1. T \subseteq reserved
    BY DEF HoldingIn, InScope
<1>2. IsFiniteSet(T)
    BY <1>1, FS_Subset
<1>3. \A r \in T : HeldAs(owned, stored, r) \in Nat
    BY <1>1, HeldNat
<1>4. HeldIn(reserved, s) = MapThenSumSet(LAMBDA r : HeldAs(owned, stored, r), T)
    BY Zenon DEF HeldIn, Held, HeldAs, HoldingIn, MapThenSumSet, MapThenFoldSet
<1> HIDE DEF T
<1>5. MapThenSumSet(LAMBDA r : HeldAs(owned, stored, r), T) = BytesOf(owned, stored, T)
    BY <1>2, <1>3, HeldSums
<1> QED
    BY <1>1, <1>2, <1>4, <1>5 DEF T

\* The same for other records.
LEMMA HeldInRecords ==
    ASSUME NEW records, IsFiniteSet(records), records \subseteq Reservations, stored \in [Ops -> Nat], NEW s
    PROVE  HeldIn(records, s) = BytesOf(owned, stored, HoldingIn(records, s))
<1> DEFINE T == HoldingIn(records, s)
<1>1. T \subseteq records
    BY DEF HoldingIn, InScope
<1>2. IsFiniteSet(T)
    BY <1>1, FS_Subset
<1>3. \A r \in T : HeldAs(owned, stored, r) \in Nat
    BY <1>1, HeldNat
<1>4. HeldIn(records, s) = MapThenSumSet(LAMBDA r : HeldAs(owned, stored, r), T)
    BY Zenon DEF HeldIn, Held, HeldAs, HoldingIn, MapThenSumSet, MapThenFoldSet
<1> HIDE DEF T
<1>5. MapThenSumSet(LAMBDA r : HeldAs(owned, stored, r), T) = BytesOf(owned, stored, T)
    BY <1>2, <1>3, HeldSums
<1> QED
    BY <1>4, <1>5 DEF T

\* A reservation more.
LEMMA BytesAdded ==
    ASSUME NEW T \in SUBSET Reservations, IsFiniteSet(T), NEW new \in Reservations, new \notin T,
           NEW own, NEW sto \in [Ops -> Nat], NEW own2, NEW sto2 \in [Ops -> Nat],
           \A r \in T : HeldAs(own2, sto2, r) = HeldAs(own, sto, r)
    PROVE  BytesOf(own2, sto2, T \cup {new}) = HeldAs(own2, sto2, new) + BytesOf(own, sto, T)
<1> DEFINE R == T \cup {new}
           F == [r \in R |-> HeldAs(own2, sto2, r)]
           G == [r \in T |-> HeldAs(own, sto, r)]
<1>1. IsFiniteSet(R) /\ R \ {new} = T /\ new \in R
    BY FS_AddElement
<1>2. \A r \in R : F[r] \in Nat
    BY HeldNat
<1>3. \A r \in R \ {new} : G[r] = F[r]
    OBVIOUS
<1>4. F[new] = HeldAs(own2, sto2, new)
    OBVIOUS
<1>5. BytesOf(own2, sto2, R) = Sum(F, R) /\ BytesOf(own, sto, T) = Sum(G, T)
    BY DEF BytesOf
<1> HIDE DEF R, F, G
<1>6. Sum(F, R) = F[new] + Sum(G, R \ {new})
    BY <1>1, <1>2, <1>3, SumRemoves
<1>7. BytesOf(own2, sto2, R) = HeldAs(own2, sto2, new) + BytesOf(own, sto, T)
    BY <1>1, <1>4, <1>5, <1>6
<1> QED
    BY <1>7 DEF R

\* Another size of one reservation.
LEMMA BytesChanged ==
    ASSUME NEW T \in SUBSET Reservations, IsFiniteSet(T), NEW x \in T,
           NEW own, NEW sto \in [Ops -> Nat], NEW own2, NEW sto2 \in [Ops -> Nat],
           \A r \in T \ {x} : HeldAs(own2, sto2, r) = HeldAs(own, sto, r)
    PROVE  BytesOf(own2, sto2, T) + HeldAs(own, sto, x) = HeldAs(own2, sto2, x) + BytesOf(own, sto, T)
<1> DEFINE R == T \ {x}
<1>1. IsFiniteSet(R) /\ R \in SUBSET Reservations /\ x \notin R /\ R \cup {x} = T /\ x \in Reservations
    BY FS_Subset
<1>2. \A r \in R : HeldAs(own2, sto2, r) = HeldAs(own, sto, r) /\ HeldAs(own, sto, r) = HeldAs(own, sto, r)
    OBVIOUS
<1>3. BytesOf(own, sto, R) \in Nat
  <2> DEFINE G == [r \in R |-> HeldAs(own, sto, r)]
  <2>1. \A r \in R : G[r] \in Nat
    BY <1>1, HeldNat
  <2> HIDE DEF R, G
  <2>2. Sum(G, R) \in Nat
    BY <1>1, <2>1, SumIs
  <2> QED
      BY <2>2 DEF BytesOf, G
<1> HIDE DEF R
<1>4. BytesOf(own2, sto2, R \cup {x}) = HeldAs(own2, sto2, x) + BytesOf(own, sto, R)
    BY <1>1, <1>2, BytesAdded
<1>5. BytesOf(own, sto, R \cup {x}) = HeldAs(own, sto, x) + BytesOf(own, sto, R)
    BY <1>1, <1>2, BytesAdded
<1>6. HeldAs(own, sto, x) \in Nat /\ HeldAs(own2, sto2, x) \in Nat
    BY <1>1, HeldNat
<1> QED
    BY <1>1, <1>3, <1>4, <1>5, <1>6

\* The same after a step.
LEMMA HeldInNext ==
    ASSUME IsFiniteSet(reserved'), reserved' \subseteq Reservations, stored' \in [Ops -> Nat], NEW s
    PROVE  HeldIn(reserved, s)' = BytesOf(owned', stored', HoldingIn(reserved', s))
<1> DEFINE T == HoldingIn(reserved', s)
<1>1. T \subseteq reserved'
    BY DEF HoldingIn, InScope
<1>2. IsFiniteSet(T)
    BY <1>1, FS_Subset
<1>3. \A r \in T : HeldAs(owned', stored', r) \in Nat
    BY <1>1, HeldNat
<1>4. HeldIn(reserved, s)' = MapThenSumSet(LAMBDA r : HeldAs(owned', stored', r), T)
    BY Zenon DEF HeldIn, Held, HeldAs, HoldingIn, InScope, MapThenSumSet, MapThenFoldSet
<1> HIDE DEF T
<1>5. MapThenSumSet(LAMBDA r : HeldAs(owned', stored', r), T) = BytesOf(owned', stored', T)
    BY <1>2, <1>3, HeldSums
<1> QED
    BY <1>4, <1>5 DEF T

\* Every Program and Project within its bytes, and with the accounting that it rests on.
BytesKept == \A s \in Programs \cup Projects : HeldIn(reserved, s) <= Policy[s].bytes
BytesInv == BudgetTypeOK /\ BytesAccounted /\ BytesKept

LEMMA CapacityParts == CapacityKept <=> WorkKept /\ BytesKept
BY DEF CapacityKept, BytesKept

\* A step that reserves at most further attempts at an Operation, and stores nothing.
LEMMA NothingHeld ==
    ASSUME BytesInv, BudgetTypeOK', UNCHANGED <<owned, stored>>,
           \A a \in Attempts : attempt[a] # "none" => attempt'[a] # "none",
           checking' # None => (checking # None /\ checking'.op = checking.op) \/ IsReserved(checking.op)',
           reserved \subseteq reserved',
           \A r \in reserved' \ reserved : r.category \in CountOnly /\ attempt[r.op[1]] # "none"
    PROVE  BytesInv'
<1>1. /\ IsFiniteSet(reserved) /\ reserved \subseteq Reservations /\ stored \in [Ops -> Nat]
      /\ IsFiniteSet(reserved') /\ reserved' \subseteq Reservations /\ stored' \in [Ops -> Nat]
    BY DEF BytesInv, BudgetTypeOK, BytesAccounted, Reservations
<1>2. ASSUME NEW op, IsReserved(op) PROVE IsReserved(op)'
    BY <1>2 DEF IsReserved
<1>3. \A r \in reserved' : r.op[1] \in Attempts
    BY <1>1 DEF Reservations, Ops
<1>4. BytesAccounted'
  <2>1. \A r \in reserved' : attempt'[r.op[1]] # "none"
    BY <1>3 DEF BytesInv, BytesAccounted
  <2>2. \A r \in reserved' : r.category \notin CountOnly => r \in reserved
    OBVIOUS
  <2>3. checking' # None => IsReserved(checking.op)'
    BY <1>2 DEF BytesInv, BytesAccounted
  <2>4. (\A op \in Ops : stored'[op] > 0 => IsReserved(op)') /\ (\A a \in owned' : IsReserved(<<a, "run">>)')
    BY <1>2 DEF BytesInv, BytesAccounted
  <2> QED
      BY <1>1, <2>1, <2>2, <2>3, <2>4 DEF BytesInv, BytesAccounted
<1>5. ASSUME NEW s \in Programs \cup Projects PROVE HeldIn(reserved, s)' = HeldIn(reserved, s)
  <2>1. HoldingIn(reserved', s) = HoldingIn(reserved, s)
    BY DEF HoldingIn, InScope
  <2>2. HeldIn(reserved, s) = BytesOf(owned, stored, HoldingIn(reserved, s))
    BY <1>1, HeldInIs
  <2>3. HeldIn(reserved, s)' = BytesOf(owned', stored', HoldingIn(reserved', s))
    BY <1>1, HeldInNext
  <2> QED
      BY <2>1, <2>2, <2>3
<1>6. BytesKept'
    BY <1>5 DEF BytesInv, BytesKept
<1> QED
    BY <1>4, <1>6 DEF BytesInv

\* The first reservation of an Operation, for bytes that _reserve_work() had room for.
LEMMA FirstHeld ==
    ASSUME BytesInv, BudgetTypeOK', NEW op \in Ops, NEW bytes \in Nat, ~IsReserved(op),
           \A s \in ScopesOf[op[1]] : HeldIn(reserved, s) + bytes <= Policy[s].bytes,
           Original(op, bytes) \in reserved', reserved \subseteq reserved',
           \A r \in reserved' : r \in reserved \cup {Original(op, bytes)}
                                \/ (r.category \in CountOnly /\ r.op = op),
           stored' \in [Ops -> Nat], \A o \in Ops : o # op => stored'[o] = stored[o], stored'[op] <= bytes,
           \A r \in reserved : r.op[1] \in owned' <=> r.op[1] \in owned,
           owned \subseteq owned', \A a \in owned' : a \in owned \/ op = <<a, "run">>,
           \A a \in Attempts : attempt[a] # "none" => attempt'[a] # "none", attempt'[op[1]] # "none",
           checking' # None => (checking # None /\ checking'.op = checking.op) \/ checking'.op = op
    PROVE  BytesInv'
<1> DEFINE new == Original(op, bytes)
<1>1. /\ IsFiniteSet(reserved) /\ reserved \subseteq Reservations /\ stored \in [Ops -> Nat]
      /\ IsFiniteSet(reserved') /\ reserved' \subseteq Reservations
    BY DEF BytesInv, BudgetTypeOK, BytesAccounted, Reservations
<1>2. new.op = op /\ new.bytes = bytes /\ new.category = CategoryOf(op) /\ new.n = 0 /\ new \in Reservations
    BY DEF Original, Reservation, CategoryOf, Reservations, Categories
<1>3. CategoryOf(op) \notin CountOnly
    BY DEF CategoryOf, CountOnly
<1> HIDE DEF new
<1>4. ASSUME NEW r \in reserved, r.category \notin CountOnly PROVE r.op # op
    BY <1>4 DEF BytesInv, BytesAccounted, IsReserved
<1>5. ASSUME NEW o, IsReserved(o) PROVE IsReserved(o)'
    BY <1>5 DEF IsReserved
<1>6. IsReserved(op)'
    BY <1>2 DEF IsReserved, new
<1>7. \A r \in reserved' : r \in reserved \/ r = new \/ (r.category \in CountOnly /\ r.op = op)
    BY DEF new
<1>8. BytesAccounted'
  <2>1. \A r \in reserved' : attempt'[r.op[1]] # "none"
    <3>1. \A r \in reserved' : r.op[1] \in Attempts
      BY <1>1 DEF Reservations, Ops
    <3> QED
        BY <1>2, <1>7, <3>1 DEF BytesInv, BytesAccounted
  <2>2. \A r \in reserved' : r.category \notin CountOnly => r = new \/ (r \in reserved /\ r.op # op)
    BY <1>4, <1>7
  <2>3. checking' # None => IsReserved(checking.op)'
    BY <1>5, <1>6 DEF BytesInv, BytesAccounted
  <2>4. \A o \in Ops : stored'[o] > 0 => IsReserved(o)'
    BY <1>5, <1>6 DEF BytesInv, BytesAccounted
  <2>5. \A a \in owned' : IsReserved(<<a, "run">>)'
    BY <1>5, <1>6 DEF BytesInv, BytesAccounted
  <2>6. \A r \in reserved' : r.category \notin CountOnly => r.category = CategoryOf(r.op) /\ r.n = 0
    BY <1>2, <2>2 DEF BytesInv, BytesAccounted
  <2>7. \A r, q \in reserved' : r.op = q.op /\ r.category \notin CountOnly /\ q.category \notin CountOnly => r = q
    BY <1>2, <2>2 DEF BytesInv, BytesAccounted
  <2> QED
      BY <2>1, <2>3, <2>4, <2>5, <2>6, <2>7 DEF BytesAccounted
<1>9. ASSUME NEW s \in Programs \cup Projects PROVE HeldIn(reserved, s)' <= Policy[s].bytes
  <2> DEFINE T == HoldingIn(reserved, s)
  <2>1. HeldIn(reserved, s) = BytesOf(owned, stored, T) /\ IsFiniteSet(T) /\ T \subseteq reserved
    BY <1>1, HeldInIs
  <2>2. HeldIn(reserved, s)' = BytesOf(owned', stored', HoldingIn(reserved', s))
    BY <1>1, HeldInNext
  <2>3. HeldIn(reserved, s) <= Policy[s].bytes
    BY DEF BytesInv, BytesKept
  <2>4. \A r \in T : HeldAs(owned', stored', r) = HeldAs(owned, stored, r)
    <3>1. \A r \in T : r \in reserved /\ r.op # op /\ r.op \in Ops
      BY <1>1, <1>4, <2>1 DEF HoldingIn, Reservations
    <3> QED
        BY <3>1 DEF HeldAs
  <2>5. CASE s \in ScopesOf[op[1]]
    <3>1. HoldingIn(reserved', s) = T \cup {new}
      <4>1. op[1] \in AttemptsIn[s]
        BY <2>5 DEF AttemptsIn, ScopesOf, Ops
      <4> QED
          BY <1>2, <1>3, <1>7, <4>1 DEF HoldingIn, InScope, new
    <3>2. new \notin T
      BY <1>2, <1>3, <1>4, <2>1
    <3>3. HeldAs(owned', stored', new) <= bytes /\ HeldAs(owned', stored', new) \in Nat
      BY <1>2 DEF HeldAs
    <3>4. T \in SUBSET Reservations
      BY <1>1, <2>1
    <3> HIDE DEF T
    <3>5. HeldIn(reserved, s)' = HeldAs(owned', stored', new) + HeldIn(reserved, s)
      BY <1>1, <1>2, <2>1, <2>2, <2>4, <3>1, <3>2, <3>4, BytesAdded
    <3>6. HeldIn(reserved, s) + bytes <= Policy[s].bytes
      BY <2>5
    <3>7. HeldIn(reserved, s) \in Nat /\ Policy[s].bytes \in Nat
      <4>1. \A r \in T : HeldAs(owned, stored, r) \in Nat
        BY <1>1, <3>4, HeldNat
      <4> DEFINE F == [r \in T |-> HeldAs(owned, stored, r)]
      <4>2. \A r \in T : F[r] \in Nat
        BY <4>1
      <4> HIDE DEF F
      <4>3. Sum(F, T) \in Nat
        BY <2>1, <4>2, SumIs
      <4> QED
          BY <2>1, <4>3, BudgetAssumption DEF BytesOf, F
    <3> QED
        BY <3>3, <3>5, <3>6, <3>7
  <2>6. CASE s \notin ScopesOf[op[1]]
    <3>1. op[1] \notin AttemptsIn[s]
      BY <2>6 DEF AttemptsIn, ScopesOf, Ops
    <3>2. HoldingIn(reserved', s) = T
      BY <1>2, <1>7, <3>1 DEF HoldingIn, InScope
    <3>3. [r \in T |-> HeldAs(owned', stored', r)] = [r \in T |-> HeldAs(owned, stored, r)]
      BY <2>4
    <3>4. BytesOf(owned', stored', T) = BytesOf(owned, stored, T)
      BY <3>3 DEF BytesOf
    <3> QED
        BY <2>1, <2>2, <2>3, <3>2, <3>4
  <2> QED
      BY <2>5, <2>6
<1>10. BytesKept'
    BY <1>9 DEF BytesKept
<1> QED
    BY <1>8, <1>10 DEF BytesInv

\* More bytes of an Operation that is reserved (_check_owned_artifact_budget()).
LEMMA StoredMore ==
    ASSUME BytesInv, BudgetTypeOK', NEW op \in Ops, NEW size \in Nat, op[1] \in owned, IsReserved(op),
           ArtifactFits(op, size), stored' = [stored EXCEPT ![op] = @ + size],
           UNCHANGED <<reserved, owned, attempt>>, checking' # None => checking # None /\ checking'.op = checking.op
    PROVE  BytesInv'
<1> DEFINE x == CHOOSE r \in reserved : r.op = op /\ r.category = CategoryOf(op)
<1>1. /\ IsFiniteSet(reserved) /\ reserved \subseteq Reservations /\ stored \in [Ops -> Nat]
      /\ IsFiniteSet(reserved') /\ reserved' \subseteq Reservations /\ stored' \in [Ops -> Nat]
    BY DEF BytesInv, BudgetTypeOK, BytesAccounted, Reservations
<1>2. x \in reserved /\ x.op = op /\ x.category = CategoryOf(op)
    BY DEF IsReserved
<1>3. x.category \notin CountOnly
    BY <1>2 DEF CategoryOf, CountOnly
<1>4. LET extra == stored[op] + size - HeldAs(owned, stored, x)
      IN  extra > 0 => \A s \in ScopesOf[op[1]] : HeldIn(reserved, s) + extra <= Policy[s].bytes
    BY DEF ArtifactFits, Held, HeldAs
<1> HIDE DEF x
<1>5. BytesAccounted'
  <2>1. \A o \in Ops : stored'[o] > 0 => IsReserved(o)
    BY <1>1 DEF BytesInv, BytesAccounted
  <2> QED
      BY <1>1, <2>1 DEF BytesInv, BytesAccounted, IsReserved
<1>6. ASSUME NEW s \in Programs \cup Projects PROVE HeldIn(reserved, s)' <= Policy[s].bytes
  <2> DEFINE T == HoldingIn(reserved, s)
  <2>1. HeldIn(reserved, s) = BytesOf(owned, stored, T) /\ IsFiniteSet(T) /\ T \subseteq reserved
    BY <1>1, HeldInIs
  <2>2. HeldIn(reserved, s)' = BytesOf(owned', stored', T)
    BY <1>1, HeldInNext
  <2>3. HeldIn(reserved, s) <= Policy[s].bytes
    BY DEF BytesInv, BytesKept
  <2>4. \A r \in T \ {x} : HeldAs(owned', stored', r) = HeldAs(owned, stored, r)
    <3>1. \A r \in T \ {x} : r.op # op /\ r.op \in Ops
      BY <1>1, <1>2, <1>3, <2>1 DEF BytesInv, BytesAccounted, HoldingIn, Reservations
    <3> QED
        BY <1>1, <3>1 DEF HeldAs
  <2>5. CASE s \in ScopesOf[op[1]]
    <3>1. x \in T
      BY <1>2, <1>3, <2>5 DEF HoldingIn, InScope, AttemptsIn, ScopesOf, Ops
    <3>2. T \in SUBSET Reservations
      BY <1>1, <2>1
    <3> HIDE DEF T
    <3>3. BytesOf(owned', stored', T) + HeldAs(owned, stored, x) = HeldAs(owned', stored', x) + BytesOf(owned, stored, T)
      <4>1. PICK own, sto : own = owned' /\ sto = stored'
        OBVIOUS
      <4>2. stored \in [Ops -> Nat] /\ sto \in [Ops -> Nat] /\ IsFiniteSet(T)
        BY <1>1, <2>1, <4>1
      <4>3. \A r \in T \ {x} : HeldAs(own, sto, r) = HeldAs(owned, stored, r)
        BY <2>4, <4>1
      <4>4. BytesOf(own, sto, T) + HeldAs(owned, stored, x) = HeldAs(own, sto, x) + BytesOf(owned, stored, T)
        BY <3>1, <3>2, <4>2, <4>3, BytesChanged
      <4> QED
          BY <4>1, <4>4
    <3>4. x.bytes \in Nat /\ stored[op] \in Nat /\ stored'[op] = stored[op] + size
      BY <1>1, <1>2 DEF Reservations
    <3>5. HeldIn(reserved, s) \in Nat /\ Policy[s].bytes \in Nat
      <4>1. \A r \in T : HeldAs(owned, stored, r) \in Nat
        BY <1>1, <3>2, HeldNat
      <4> DEFINE F == [r \in T |-> HeldAs(owned, stored, r)]
      <4>2. \A r \in T : F[r] \in Nat
        BY <4>1
      <4> HIDE DEF F
      <4>3. Sum(F, T) \in Nat
        BY <2>1, <4>2, SumIs
      <4> QED
          BY <2>1, <4>3, BudgetAssumption DEF BytesOf, F
    <3>6. HeldAs(owned, stored, x) = IF stored[op] > x.bytes THEN stored[op] ELSE x.bytes
      BY <1>2 DEF HeldAs
    <3>7. HeldAs(owned', stored', x) = IF stored[op] + size > x.bytes THEN stored[op] + size ELSE x.bytes
      BY <1>2, <3>4 DEF HeldAs
    <3>8. stored[op] + size - HeldAs(owned, stored, x) > 0
            => HeldIn(reserved, s) + (stored[op] + size - HeldAs(owned, stored, x)) <= Policy[s].bytes
      BY <1>4, <2>5
    <3>9. BytesOf(owned', stored', T) \in Nat
      <4>1. \A r \in T : HeldAs(owned', stored', r) \in Nat
        BY <1>1, <3>2, HeldNat
      <4> DEFINE F == [r \in T |-> HeldAs(owned', stored', r)]
      <4>2. \A r \in T : F[r] \in Nat
        BY <4>1
      <4> HIDE DEF F
      <4>3. Sum(F, T) \in Nat
        BY <2>1, <4>2, SumIs
      <4> QED
          BY <4>3 DEF BytesOf, F
    <3>10. ASSUME NEW before \in Nat, NEW after \in Nat, NEW old \in Nat, NEW bytes \in Nat,
                  NEW limit \in Nat, NEW held \in Nat, NEW more \in Nat,
                  after + held = more + before, before <= limit, old - held > 0 => before + (old - held) <= limit,
                  held >= bytes, more = IF old > bytes THEN old ELSE bytes
           PROVE  after <= limit
      BY <3>10
    <3>11. HeldAs(owned, stored, x) \in Nat /\ HeldAs(owned, stored, x) >= x.bytes /\ stored[op] + size \in Nat
      BY <3>4, <3>6
    <3>12. HeldAs(owned', stored', x) \in Nat
      BY <3>4, <3>7
    <3> QED
        BY <2>1, <2>2, <2>3, <3>3, <3>4, <3>5, <3>7, <3>8, <3>9, <3>10, <3>11, <3>12
  <2>6. CASE s \notin ScopesOf[op[1]]
    <3>1. x \notin T
      BY <1>2, <2>6 DEF HoldingIn, InScope, AttemptsIn, ScopesOf, Ops
    <3>2. [r \in T |-> HeldAs(owned', stored', r)] = [r \in T |-> HeldAs(owned, stored, r)]
      BY <2>4, <3>1
    <3> QED
        BY <2>1, <2>2, <2>3, <3>2 DEF BytesOf
  <2> QED
      BY <2>5, <2>6
<1>7. BytesKept'
    BY <1>6 DEF BytesKept
<1> QED
    BY <1>5, <1>7 DEF BytesInv

\* An Attempt is prepared: its run has no reservation before (claim_work()).
LEMMA PrepareHeld ==
    ASSUME BytesInv, BudgetTypeOK', NEW a \in Attempts, NEW snapshot \in Snapshots \cup {0}, Prepare(a, snapshot)
    PROVE  BytesInv'
<1> DEFINE run == <<a, "run">>
           remediation == IF RemediationOf[a] = None THEN {} ELSE {Reservation(run, "remediation", 0, 0)}
<1>1. /\ reserved' = reserved \cup remediation \cup {Original(run, snapshot)}
      /\ attempt' = [attempt EXCEPT ![a] = "live"] /\ stored' = [stored EXCEPT ![run] = snapshot]
      /\ owned \subseteq owned' /\ owned' \subseteq owned \cup {a}
      /\ UNCHANGED checking
      /\ attempt[a] = "none"
      /\ CanReserve(reserved \cup remediation, Original(run, snapshot))
    BY DEF Prepare
<1>2. \A r \in remediation : r.category \in CountOnly /\ r.op = run
    BY DEF Reservation, CountOnly
<1>3. run \in Ops /\ snapshot \in Nat /\ run[1] = a
    BY BudgetAssumption DEF Ops
<1>4. \A r \in reserved : r.op[1] # a
    BY <1>1 DEF BytesInv, BytesAccounted
<1>5. ~IsReserved(run)
    BY <1>3, <1>4 DEF IsReserved
<1> DEFINE records == reserved \cup remediation
<1>6. /\ IsFiniteSet(records) /\ records \subseteq Reservations
      /\ IsFiniteSet(reserved) /\ reserved \subseteq Reservations /\ stored \in [Ops -> Nat]
  <2>1. reserved \subseteq reserved' /\ records \subseteq reserved'
    BY <1>1
  <2> HIDE DEF records
  <2>2. IsFiniteSet(reserved') /\ reserved' \subseteq Reservations /\ stored \in [Ops -> Nat]
    BY DEF BytesInv, BudgetTypeOK, BytesAccounted, Reservations
  <2> QED
      BY <2>1, <2>2, FS_Subset
<1>7. ASSUME NEW s \in ScopesOf[a] PROVE HeldIn(reserved, s) + snapshot <= Policy[s].bytes
  <2>1. HoldingIn(records, s) = HoldingIn(reserved, s)
    BY <1>2 DEF HoldingIn, InScope
  <2> HIDE DEF remediation
  <2>2. HeldIn(records, s) = HeldIn(reserved, s)
    <3> HIDE DEF records
    <3>1. HeldIn(records, s) = BytesOf(owned, stored, HoldingIn(records, s))
      BY <1>6, HeldInRecords
    <3>2. HeldIn(reserved, s) = BytesOf(owned, stored, HoldingIn(reserved, s))
      BY <1>6, HeldInRecords
    <3> QED
        BY <2>1, <3>1, <3>2
  <2>3. HeldIn(records, s) + snapshot <= Policy[s].bytes
    BY <1>1, <1>3 DEF CanReserve, Original, Reservation
  <2> QED
      BY <2>2, <2>3
<1> HIDE DEF records
<1>8. ASSUME NEW r \in reserved'
      PROVE  r \in reserved \cup {Original(run, snapshot)} \/ (r.category \in CountOnly /\ r.op = run)
  <2>1. r \in reserved \/ r \in remediation \/ r = Original(run, snapshot)
    <3> HIDE DEF run, remediation
    <3> QED
        BY <1>1
  <2> HIDE DEF remediation
  <2> QED
      BY <1>2, <2>1
<1>9. /\ stored' \in [Ops -> Nat] /\ (\A o \in Ops : o # run => stored'[o] = stored[o]) /\ stored'[run] <= snapshot
    BY <1>1, <1>3, <1>6
<1>10. /\ \A b \in Attempts : attempt[b] # "none" => attempt'[b] # "none"
       /\ attempt'[a] # "none"
    BY <1>1 DEF BytesInv, BudgetTypeOK
<1>11. /\ \A r \in reserved : r.op[1] \in owned' <=> r.op[1] \in owned
       /\ \A b \in owned' : b \in owned \/ run = <<b, "run">>
    BY <1>1, <1>4
<1>12. Original(run, snapshot) \in reserved' /\ reserved \subseteq reserved' /\ owned \subseteq owned' /\ UNCHANGED checking
    BY <1>1
<1> HIDE DEF run, remediation
<1>13. \A s \in ScopesOf[run[1]] : HeldIn(reserved, s) + snapshot <= Policy[s].bytes
    BY <1>3, <1>7
<1>14. attempt'[run[1]] # "none"
    BY <1>3, <1>10
<1> QED
    BY <1>3, <1>5, <1>8, <1>9, <1>10, <1>11, <1>12, <1>13, <1>14, FirstHeld

\* A check begins with a reservation of its own, which holds no bytes yet.
LEMMA BeginCheckHeld ==
    ASSUME BytesInv, BudgetTypeOK', NEW a \in Attempts, BeginCheck(a)
    PROVE  BytesInv'
<1> DEFINE op == <<a, "check">>
<1>1. /\ UNCHANGED <<attempt, owned, stored>> /\ attempt[a] = "finished"
      /\ checking' = [op |-> op, step |-> "intended"]
      /\ IF IsReserved(op) THEN UNCHANGED reserved
         ELSE CanReserve(reserved, Original(op, 0)) /\ reserved' = reserved \cup {Original(op, 0)}
    BY DEF BeginCheck, domainVars
<1>2. op \in Ops /\ op[1] = a /\ checking'.op = op
    BY <1>1 DEF Ops
<1>3. stored \in [Ops -> Nat] /\ (\A o \in Ops : stored[o] > 0 => IsReserved(o)) /\ \A b \in owned : b \in owned
    BY DEF BytesInv, BytesAccounted
<1> HIDE DEF op
<1>4. CASE IsReserved(op)
  <2>1. IsReserved(checking.op)'
    BY <1>1, <1>2, <1>4 DEF IsReserved
  <2>2. UNCHANGED <<owned, stored>> /\ reserved' = reserved /\ \A b \in Attempts : attempt'[b] = attempt[b]
    BY <1>1, <1>4
  <2> QED
      BY <2>1, <2>2, NothingHeld
<1>5. CASE ~IsReserved(op)
  <2>0. PICK bytes \in Nat : bytes = 0
    OBVIOUS
  <2>1. CanReserve(reserved, Original(op, bytes)) /\ reserved' = reserved \cup {Original(op, bytes)}
    BY <1>1, <1>5, <2>0
  <2>2. \A s \in ScopesOf[op[1]] : HeldIn(reserved, s) + bytes <= Policy[s].bytes
    BY <2>1 DEF CanReserve, Original, Reservation
  <2>3. stored'[op] <= bytes /\ stored' \in [Ops -> Nat] /\ \A o \in Ops : o # op => stored'[o] = stored[o]
    BY <1>1, <1>2, <1>3, <1>5, <2>0
  <2>4. /\ Original(op, bytes) \in reserved' /\ reserved \subseteq reserved'
        /\ \A r \in reserved' : r \in reserved \cup {Original(op, bytes)}
    BY <2>1
  <2>5. /\ \A r \in reserved : r.op[1] \in owned' <=> r.op[1] \in owned
        /\ owned \subseteq owned' /\ \A b \in owned' : b \in owned
        /\ \A b \in Attempts : attempt[b] # "none" => attempt'[b] # "none"
        /\ attempt'[op[1]] # "none"
    BY <1>1, <1>2
  <2>6. \A r \in reserved' : r \in reserved \cup {Original(op, bytes)} \/ (r.category \in CountOnly /\ r.op = op)
    BY <2>4
  <2>7. \A b \in owned' : b \in owned \/ op = <<b, "run">>
    BY <2>5
  <2>8. checking' # None => (checking # None /\ checking'.op = checking.op) \/ checking'.op = op
    BY <1>2
  <2> QED
      BY <1>2, <1>5, <2>2, <2>3, <2>4, <2>5, <2>6, <2>7, <2>8, FirstHeld
<1> QED
    BY <1>4, <1>5

\* Deliveries and retries are counted, and hold nothing.
LEMMA RetryHeld ==
    ASSUME BytesInv, BudgetTypeOK', (\E op \in Ops : ClaimDelivery(op)) \/ RetryCheck,
           checking' # None => checking # None /\ checking'.op = checking.op
    PROVE  BytesInv'
<1>1. /\ UNCHANGED <<attempt, owned, stored>> /\ reserved \subseteq reserved'
      /\ \A r \in reserved' \ reserved : r.category \in CountOnly /\ IsReserved(r.op)
  <2>1. CASE \E op \in Ops : ClaimDelivery(op)
    <3>1. PICK op \in Ops : ClaimDelivery(op)
      BY <2>1
    <3>2. \A r \in RetryOf(op) : r.category \in CountOnly /\ r.op = op
      BY DEF RetryOf, Reservation, CountOnly
    <3>3. IsReserved(op) /\ reserved' = reserved \cup RetryOf(op) /\ UNCHANGED <<attempt, owned, stored>>
      BY <3>1 DEF ClaimDelivery, Dispatchable, domainVars
    <3> QED
        BY <3>2, <3>3
  <2>2. CASE RetryCheck
    <3>1. \A r \in WorkRetryOf(checking.op) : r.category \in CountOnly /\ r.op = checking.op
      BY DEF WorkRetryOf, Reservation, CountOnly
    <3>2. /\ checking # None /\ reserved' = reserved \cup WorkRetryOf(checking.op)
          /\ UNCHANGED <<attempt, owned, stored>>
      BY <2>2 DEF RetryCheck, CheckAt, domainVars
    <3>3. IsReserved(checking.op)
      BY <3>2 DEF BytesInv, BytesAccounted
    <3> QED
        BY <3>1, <3>2, <3>3
  <2> QED
      BY <2>1, <2>2
<1>2. \A r \in reserved' \ reserved : attempt[r.op[1]] # "none"
    BY <1>1 DEF BytesInv, BytesAccounted, IsReserved
<1>3. \A a \in Attempts : attempt[a] # "none" => attempt'[a] # "none"
    BY <1>1
<1> QED
    BY <1>1, <1>2, <1>3, NothingHeld

\* An artifact of a run or of a check (finalize_artifact()).
LEMMA StoreHeld ==
    ASSUME BytesInv, BudgetTypeOK', NEW size \in Sizes, StoreResult(size) \/ \E a \in Attempts : StoreOutput(a, size)
    PROVE  BytesInv'
<1>1. size \in Nat
    BY BudgetAssumption
<1>2. CASE StoreResult(size)
  <2>1. /\ checking # None /\ checking' = [checking EXCEPT !.step = "stored"]
        /\ ArtifactFits(checking.op, size) /\ UNCHANGED <<reserved, owned, attempt>>
        /\ stored' = IF checking.op[1] \in owned THEN [stored EXCEPT ![checking.op] = @ + size] ELSE stored
    BY <1>2 DEF StoreResult, CheckAt, NextStep, domainVars
  <2>2. checking.op \in Ops /\ checking'.op = checking.op /\ IsReserved(checking.op)
    BY <2>1 DEF BytesInv, BytesAccounted, BudgetTypeOK, Ops
  <2>3. CASE checking.op[1] \in owned
    <3>1. PICK op : op = checking.op
      OBVIOUS
    <3>2. /\ op \in Ops /\ op[1] \in owned /\ IsReserved(op) /\ ArtifactFits(op, size)
          /\ stored' = [stored EXCEPT ![op] = @ + size]
      BY <2>1, <2>2, <2>3, <3>1
    <3> QED
        BY <1>1, <2>1, <2>2, <3>2, StoredMore
  <2>4. CASE checking.op[1] \notin owned
    BY <2>1, <2>2, <2>4, NothingHeld
  <2> QED
      BY <2>3, <2>4
<1>3. CASE \E a \in Attempts : StoreOutput(a, size)
  <2>1. PICK a \in Attempts : StoreOutput(a, size)
    BY <1>3
  <2>2. PICK op : op = <<a, "run">>
    OBVIOUS
  <2>3. /\ a \in owned /\ ArtifactFits(op, size) /\ stored' = [stored EXCEPT ![op] = @ + size]
        /\ UNCHANGED <<reserved, owned, attempt, checking>>
    BY <2>1, <2>2 DEF StoreOutput, domainVars
  <2>4. op \in Ops /\ op[1] \in owned /\ IsReserved(op)
    BY <2>2, <2>3 DEF BytesInv, BytesAccounted, Ops
  <2> QED
      BY <1>1, <2>3, <2>4, StoredMore
<1> QED
    BY <1>2, <1>3

\* Steps that neither reserve nor store anything.
LEMMA QuietHeld ==
    ASSUME BytesInv, BudgetTypeOK', UNCHANGED <<owned, stored, reserved>>,
           \A a \in Attempts : attempt[a] # "none" => attempt'[a] # "none",
           checking' # None => checking # None /\ checking'.op = checking.op
    PROVE  BytesInv'
BY NothingHeld

LEMMA BytesStep ==
    ASSUME BytesInv, BudgetTypeOK', [Next]_vars
    PROVE  BytesInv'
<1>1. ASSUME NEW a \in Attempts, FinishAttempt(a) \/ EndAttempt(a) PROVE BytesInv'
  <2>1. /\ attempt' = [attempt EXCEPT ![a] = "finished"] \/ attempt' = [attempt EXCEPT ![a] = "ended"]
        /\ UNCHANGED <<owned, stored, reserved, checking>>
    BY <1>1 DEF FinishAttempt, EndAttempt, SetAttempt, recordVars
  <2>2. \A b \in Attempts : attempt[b] # "none" => attempt'[b] # "none"
    BY <2>1 DEF BytesInv, BudgetTypeOK
  <2> QED
      BY <2>1, <2>2, QuietHeld
<1>2. ASSUME NEW a \in Attempts, Satisfy(a) \/ Reject(a) \/ Run(a) \/ Absent(a) \/ RunEnds(a) \/ Settle(a)
      PROVE  BytesInv'
  <2>1. UNCHANGED <<attempt, owned, stored, reserved, checking>>
    BY <1>2 DEF Satisfy, Reject, Run, Absent, RunEnds, Settle, Execute, domainVars, recordVars
  <2> QED
      BY <2>1, QuietHeld
<1>3. ASSUME NEW a \in Attempts, ClaimRun(a) PROVE BytesInv'
  <2>1. ClaimDelivery(<<a, "run">>) /\ <<a, "run">> \in Ops /\ UNCHANGED checking
    BY <1>3 DEF ClaimRun, Ops
  <2> QED
      BY <2>1, RetryHeld
<1>4. ASSUME FirstCheck \/ RetryCheck PROVE BytesInv'
  <2>1. /\ checking # None /\ checking' = [checking EXCEPT !.step = "claimed"]
        /\ ClaimDelivery(checking.op) \/ RetryCheck
    BY <1>4 DEF FirstCheck, RetryCheck, CheckAt, NextStep
  <2>2. checking.op \in Ops /\ checking'.op = checking.op
    BY <2>1 DEF BytesInv, BudgetTypeOK, Ops
  <2> QED
      BY <2>1, <2>2, RetryHeld
<1>5. ASSUME RunCheck \/ SettleCheck \/ CheckFails PROVE BytesInv'
  <2>1. UNCHANGED <<attempt, owned, stored, reserved>>
    BY <1>5 DEF RunCheck, SettleCheck, CheckFails, Execute, domainVars, recordVars
  <2>2. checking # None /\ checking' \in {None, [checking EXCEPT !.step = "running"]}
    BY <1>5 DEF RunCheck, SettleCheck, CheckFails, CheckAt, NextStep
  <2>3. checking' # None => checking'.op = checking.op
    BY <2>2 DEF BytesInv, BudgetTypeOK
  <2> QED
      BY <2>1, <2>2, <2>3, QuietHeld
<1>6. ASSUME NEW p \in Programs, Revoke(p) PROVE BytesInv'
  <2>1. UNCHANGED <<attempt, owned, stored, reserved, checking>>
    BY <1>6 DEF Revoke, recordVars
  <2> QED
      BY <2>1, QuietHeld
<1>7. ASSUME NEW op, NEW receipt, NEW quantity, NEW supersedes, RecordUsage(op, receipt, quantity, supersedes)
      PROVE  BytesInv'
  <2>1. UNCHANGED <<attempt, owned, stored, reserved, checking>>
    BY <1>7 DEF RecordUsage, domainVars, recordVars
  <2> QED
      BY <2>1, QuietHeld
<1>8. ASSUME UNCHANGED vars PROVE BytesInv'
  <2>1. UNCHANGED <<attempt, owned, stored, reserved, checking>>
    BY <1>8 DEF vars, domainVars, recordVars
  <2> QED
      BY <2>1, QuietHeld
<1>9. CASE AttemptNext
    BY <1>1, <1>2, <1>3, <1>9, PrepareHeld DEF AttemptNext
<1>10. CASE CheckNext
    BY <1>4, <1>5, <1>10, BeginCheckHeld, StoreHeld DEF CheckNext
<1>11. CASE RecordNext
    BY <1>6, <1>7, <1>11, StoreHeld DEF RecordNext
<1> QED
    BY <1>8, <1>9, <1>10, <1>11 DEF Next

LEMMA BytesInit == Init => BytesInv
<1> SUFFICES ASSUME Init PROVE BytesInv
    OBVIOUS
<1>1. BudgetTypeOK
    BY BudgetInit DEF BudgetInv
<1>2. BytesAccounted
    BY DEF Init, BytesAccounted
<1>3. ASSUME NEW s \in Programs \cup Projects PROVE HeldIn(reserved, s) <= Policy[s].bytes
  <2>1. /\ IsFiniteSet(reserved) /\ reserved \subseteq Reservations /\ stored \in [Ops -> Nat]
    BY <1>1, <1>2 DEF BudgetTypeOK, BytesAccounted, Reservations
  <2>2. HoldingIn(reserved, s) = {} /\ IsFiniteSet(HoldingIn(reserved, s))
    BY FS_EmptySet DEF Init, HoldingIn, InScope
  <2>3. HeldIn(reserved, s) = BytesOf(owned, stored, HoldingIn(reserved, s))
    BY <2>1, HeldInIs
  <2> DEFINE T == HoldingIn(reserved, s)
             F == [r \in T |-> HeldAs(owned, stored, r)]
  <2>4. \A r \in T : F[r] \in Nat
    BY <2>2
  <2>5. BytesOf(owned, stored, T) = Sum(F, T)
    BY DEF BytesOf
  <2>6. T = {} /\ IsFiniteSet(T)
    BY <2>2
  <2> HIDE DEF T, F
  <2>7. Sum(F, T) = 0
    BY <2>4, <2>6, SumIs
  <2>8. Policy[s].bytes \in Nat
    BY BudgetAssumption
  <2>9. HeldIn(reserved, s) = 0
    BY <2>3, <2>5, <2>7 DEF T
  <2> QED
      BY <2>8, <2>9
<1> QED
    BY <1>1, <1>2, <1>3 DEF BytesInv, BytesKept

\* The counts, the concurrency and the bytes of every policy are kept, whatever was retried,
\* corrected, cancelled or lost in between (_reserve_work(), _check_owned_artifact_budget()).
THEOREM CapacityIsKept == Spec => []CapacityKept
<1>1. BudgetInv /\ BytesInv /\ [Next]_vars => BytesInv'
  <2> SUFFICES ASSUME BudgetInv, BytesInv, [Next]_vars PROVE BytesInv'
    OBVIOUS
  <2>1. BudgetTypeOK'
    BY BudgetStep DEF BudgetInv
  <2> QED
      BY <2>1, BytesStep
<1>2. BudgetInv /\ BytesInv => CapacityKept
    BY CapacityParts DEF BudgetInv, BytesInv
<1> QED
    BY <1>1, <1>2, BytesInit, BudgetInvariant, PTL DEF Spec

=============================================================================
