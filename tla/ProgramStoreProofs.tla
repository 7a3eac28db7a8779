------------------------- MODULE ProgramStoreProofs -------------------------
(***************************************************************************)
(* Proofs about the Program store, for every set of Programs, keys,        *)
(* specifications, commands and intents: whatever statement the process    *)
(* dies at, the committed tables open again, no update is lost, and what   *)
(* callers were told stays true. Then about the intake over that store:    *)
(* an approval's command has its decision on record, and what the handoff  *)
(* tells holds when it is told.                                            *)
(***************************************************************************)
EXTENDS Intake, FiniteSetTheorems, SequenceTheorems, WellFoundedInduction, TLAPS

\* A decision adds one element to the facts, or restates them.
LEMMA ApplyGrows ==
    ASSUME NEW facts \in Facts, NEW decision \in Decisions \cup Creations
    PROVE  Apply(facts, decision) \in Facts /\ Len(facts) <= Len(Apply(facts, decision))
<1>1. /\ Append(facts, decision) \in Facts /\ Len(Append(facts, decision)) = Len(facts) + 1
      /\ Len(facts) \in Nat
    BY AppendProperties DEF Facts
<1> QED
    BY <1>1 DEF Apply

\* The parts of a call have their types, whatever the call does.
LEMMA CallTyped ==
    ASSUME NEW call \in Calls
    PROVE  /\ call.key \in Keys /\ call.program \in Programs /\ Input(call) \in Inputs
           /\ call.decision \in Decisions \cup Creations /\ call.intent \in Intents \cup {None}
           /\ call.decision[1] = "create" <=> call.decision \in Creations
BY StoreAssumption DEF Calls, Inputs, Input, Decisions, Creations

\* The facts an admitted command records are a sequence of decisions.
LEMMA FactsAfterTyped ==
    ASSUME disk \in Images, NEW call \in Calls, Admitted(call)
    PROVE  FactsAfter(disk, call) \in Facts
<1>1. call.decision \in Decisions \cup Creations /\ call.program \in Programs
    BY CallTyped
<1>2. CASE call.decision[1] = "create"
    BY <1>1, <1>2 DEF FactsAfter, Facts
<1>3. CASE call.decision[1] # "create"
    <2>1. disk.projection[call.program] \in [sequence : Nat, facts : Facts]
        BY <1>1, <1>3 DEF Admitted, Images
    <2> QED
        BY <1>1, <1>3, <2>1, ApplyGrows DEF FactsAfter
<1> QED
    BY <1>2, <1>3

\* The head of a history whose largest record is known.
LEMMA HeadIs ==
    ASSUME NEW image, NEW p, NEW r \in HistoryOf(image, p), r.sequence \in Nat,
           \A s \in HistoryOf(image, p) : s.sequence \in Nat /\ (s # r => s.sequence < r.sequence)
    PROVE  HeadOf(image, p) = r
<1> DEFINE rows == HistoryOf(image, p)
           Largest(h) == \A s \in rows : s.sequence <= h.sequence
<1>1. Largest(r)
    OBVIOUS
<1>2. \A h \in rows : Largest(h) => h = r
    OBVIOUS
<1>3. HeadOf(image, p) = CHOOSE h \in rows : Largest(h)
    BY DEF HeadOf
<1> HIDE DEF rows, Largest
<1>4. r \in rows
    BY DEF rows
<1> QED
    BY <1>1, <1>2, <1>3, <1>4

\* The committed head of a Program is the row numbered by the count of its rows.
LEMMA HeadOfNumbered ==
    ASSUME disk \in Images, RowsNumbered, NEW p \in Programs, HistoryOf(disk, p) # {}
    PROVE  /\ HeadOf(disk, p) \in HistoryOf(disk, p)
           /\ HeadOf(disk, p).sequence = Cardinality(HistoryOf(disk, p))
           /\ Cardinality(HistoryOf(disk, p)) \in Nat \ {0}
<1> DEFINE rows == HistoryOf(disk, p)
           n == Cardinality(rows)
<1>1. /\ IsFiniteSet(rows) /\ {r.sequence : r \in rows} = 1..n
      /\ \A r, s \in rows : r.sequence = s.sequence => r = s
    BY DEF RowsNumbered
<1>2. n \in Nat /\ n # 0
    BY <1>1, FS_CardinalityType, FS_EmptySet
<1> HIDE DEF n
<1>3. PICK h \in rows : h.sequence = n
    BY <1>1, <1>2
<1>4. \A s \in rows : s.sequence \in 1..n
    BY <1>1
<1>5. HeadOf(disk, p) = h
    BY <1>1, <1>2, <1>3, <1>4, HeadIs
<1> QED
    BY <1>2, <1>3, <1>5 DEF n

\* The part of the invariant that is about committed tables and given answers.
CommittedInv == RowsNumbered /\ KeysBound /\ StoreReopens /\ DecidedOnHead /\ AnswersDurable

\* A step that commits nothing and answers nobody keeps it.
LEMMA CommittedUntouched ==
    ASSUME CommittedInv, UNCHANGED <<disk, answers>>, up' => up
    PROVE  CommittedInv'
<1>1. RowsNumbered' /\ KeysBound'
    BY DEF CommittedInv, RowsNumbered, KeysBound
<1>2. StoreReopens'
    BY DEF CommittedInv, StoreReopens
<1>3. DecidedOnHead' /\ AnswersDurable'
    BY DEF CommittedInv, DecidedOnHead, AnswersDurable
<1> QED
    BY <1>1, <1>2, <1>3 DEF CommittedInv

\* The invariant is the types, the staged writes and the committed part.
LEMMA StoreInvParts == StoreInv <=> StoreTypeOK /\ WritesStaged /\ CommittedInv
BY DEF StoreInv, CommittedInv

\* A command that is admitted begins with the tables as they are.
LEMMA BeginStep ==
    ASSUME StoreInv, NEW call \in Calls, Begin(call)
    PROVE  StoreInv'
<1>1. StoreTypeOK /\ WritesStaged /\ CommittedInv
    BY StoreInvParts
<1>2. /\ txn' = [call |-> call, image |-> disk, step |-> "history", facts |-> FactsAfter(disk, call)]
      /\ UNCHANGED <<disk, up, cut, answers>> /\ Admitted(call) /\ up
    BY DEF Begin, Idle
<1>3. FactsAfter(disk, call) \in Facts
    BY <1>1, <1>2, FactsAfterTyped DEF StoreTypeOK
<1>4. txn' \in Transactions
    BY <1>1, <1>2, <1>3 DEF StoreTypeOK, Transactions
<1>5. StoreTypeOK'
    BY <1>1, <1>2, <1>4 DEF StoreTypeOK
<1>6. WritesStaged'
    <2>1. Admitted(call)' /\ FactsAfter(disk, call)' = FactsAfter(disk, call)
        BY <1>2 DEF Admitted, FactsAfter, AdmissionsOf
    <2> QED
        BY <1>2, <2>1 DEF WritesStaged
<1>7. CommittedInv'
    BY <1>1, <1>2, CommittedUntouched
<1> QED
    BY <1>5, <1>6, <1>7 DEF StoreInv, CommittedInv

\* A replay answers what the key is bound to.
LEMMA ReplayStep ==
    ASSUME StoreInv, NEW call \in Calls, Replay(call)
    PROVE  StoreInv'
<1> DEFINE new == Answer(call, RecordedResult(call))
<1>1. StoreTypeOK /\ WritesStaged /\ CommittedInv
    BY StoreInvParts
<1>2. answers' = answers \cup {new} /\ UNCHANGED <<disk, up, txn, cut>> /\ Duplicate(call)
    BY DEF Replay
<1>3. PICK a \in disk.admissions : a.key = call.key /\ a.input = Input(call)
    BY <1>2 DEF Duplicate, AdmissionsOf
<1>4. RecordedResult(call) = a.facts
    <2>1. AdmissionsOf(disk, call.key) = {a}
        BY <1>1, <1>3 DEF CommittedInv, KeysBound, AdmissionsOf
    <2>2. (CHOOSE b \in {a} : TRUE) = a
        OBVIOUS
    <2> QED
        BY <2>1, <2>2 DEF RecordedResult
<1>5. a.facts \in Facts /\ call.key \in Keys /\ Input(call) \in Inputs /\ call.intent \in Intents \cup {None}
    BY <1>1, <1>3, CallTyped DEF StoreTypeOK, Images
<1>6. /\ new.key = a.key /\ new.input = a.input /\ new.intent = call.intent /\ new.facts = a.facts
      /\ new \in [key : Keys, input : Inputs, intent : Intents \cup {None}, facts : Facts]
    BY <1>3, <1>4, <1>5 DEF Answer
<1> HIDE DEF new
<1>7. StoreTypeOK'
    BY <1>1, <1>2, <1>6 DEF StoreTypeOK
<1>8. WritesStaged'
    <2>1. Admitted(txn.call)' <=> Admitted(txn.call)
        BY <1>2 DEF Admitted, AdmissionsOf
    <2> QED
        BY <1>1, <1>2, <2>1 DEF WritesStaged, Overlapping
<1>9. RowsNumbered' /\ KeysBound' /\ DecidedOnHead' /\ StoreReopens'
    BY <1>1, <1>2 DEF CommittedInv, RowsNumbered, KeysBound, DecidedOnHead, StoreReopens
<1>10. AnswersDurable'
    <2>1. \E r \in disk.history : r.key = new.key /\ r.input = new.input /\ r.facts = new.facts
        BY <1>1, <1>3, <1>6 DEF CommittedInv, KeysBound
    <2>2. new.intent # None => \E o \in disk.operations : o.intent = new.intent
        BY <1>2, <1>6 DEF Duplicate
    <2> QED
        BY <1>1, <1>2, <1>3, <1>6, <2>1, <2>2 DEF CommittedInv, AnswersDurable
<1> QED
    BY <1>7, <1>8, <1>9, <1>10 DEF StoreInv

\* A rolled back transaction leaves nothing.
LEMMA RollbackStep ==
    ASSUME StoreInv, Rollback
    PROVE  StoreInv'
<1>1. StoreTypeOK /\ CommittedInv /\ txn' = None /\ UNCHANGED <<disk, up, cut, answers>>
    BY StoreInvParts DEF Rollback
<1>2. StoreTypeOK'
    BY <1>1 DEF StoreTypeOK
<1>3. WritesStaged'
    BY <1>1 DEF WritesStaged
<1>4. CommittedInv'
    BY <1>1, CommittedUntouched
<1> QED
    BY <1>2, <1>3, <1>4 DEF StoreInv, CommittedInv

\* A process that dies leaves the last commit.
LEMMA CrashStep ==
    ASSUME StoreInv, Crash
    PROVE  StoreInv'
<1>1. /\ StoreTypeOK /\ CommittedInv /\ txn' = None /\ cut' = None /\ up' = FALSE
      /\ UNCHANGED <<disk, answers>>
    BY StoreInvParts DEF Crash, CrashLeaves
<1>2. StoreTypeOK'
    BY <1>1 DEF StoreTypeOK
<1>3. WritesStaged'
    BY <1>1 DEF WritesStaged
<1>4. CommittedInv'
    BY <1>1, CommittedUntouched
<1> QED
    BY <1>2, <1>3, <1>4 DEF StoreInv, CommittedInv

\* A step that only opens, touches or closes a cut.
LEMMA CutStep ==
    ASSUME StoreInv, UNCHANGED <<disk, up, txn, answers>>,
           cut' \in [program : Programs, facts : Facts, touched : BOOLEAN,
                     operations : SUBSET [intent : Intents, origin : Keys \cup {None}]] \cup {None},
           up \/ cut' = None
    PROVE  StoreInv'
<1>1. StoreTypeOK /\ WritesStaged /\ CommittedInv
    BY StoreInvParts
<1>2. StoreTypeOK'
    BY <1>1 DEF StoreTypeOK
<1>3. WritesStaged'
    <2>1. Admitted(txn.call)' <=> Admitted(txn.call)
        BY DEF Admitted, AdmissionsOf
    <2> QED
        BY <1>1, <2>1 DEF WritesStaged, Overlapping
<1>4. CommittedInv'
    BY <1>1, CommittedUntouched
<1> QED
    BY <1>2, <1>3, <1>4 DEF StoreInv, CommittedInv

\* A cut that is opened holds what was committed.
LEMMA OpenCutStep ==
    ASSUME StoreInv, NEW p \in Programs, OpenCut(p)
    PROVE  StoreInv'
<1>1. /\ UNCHANGED <<disk, up, txn, answers>> /\ up /\ disk.projection[p] # None
      /\ cut' = [program |-> p, facts |-> disk.projection[p].facts,
                 operations |-> disk.operations, touched |-> FALSE]
    BY DEF OpenCut, Idle
<1>2. /\ disk.projection[p].facts \in Facts
      /\ disk.operations \subseteq [intent : Intents, origin : Keys \cup {None}]
    BY <1>1 DEF StoreInv, StoreTypeOK, Images
<1> QED
    BY <1>1, <1>2, CutStep

\* A cut that is closed leaves nothing.
LEMMA CloseCutStep ==
    ASSUME StoreInv, CloseCut
    PROVE  StoreInv'
BY CutStep DEF CloseCut, Idle

\* A touched cut is a cut.
LEMMA TouchedTyped ==
    ASSUME StoreTypeOK
    PROVE  /\ Touched(cut) \in [program : Programs, facts : Facts, touched : BOOLEAN,
                 operations : SUBSET [intent : Intents, origin : Keys \cup {None}]] \cup {None}
           /\ cut = None => Touched(cut) = None
BY DEF StoreTypeOK, Touched

\* An effect of its own is committed at once and shares nothing with another.
LEMMA IntentAloneStep ==
    ASSUME StoreInv, NEW intent \in Intents, IntentAlone(intent)
    PROVE  StoreInv'
<1> DEFINE row == [intent |-> intent, origin |-> None]
<1>1. StoreTypeOK /\ WritesStaged /\ CommittedInv
    BY StoreInvParts
<1>2. /\ disk' = [disk EXCEPT !.operations = @ \cup {row}] /\ cut' = Touched(cut)
      /\ UNCHANGED <<up, txn, answers>> /\ up /\ txn = None /\ Overlapping(disk, intent) = {}
    BY DEF IntentAlone, Idle
<1>3. /\ disk' \in Images /\ disk'.history = disk.history /\ disk'.projection = disk.projection
      /\ disk'.admissions = disk.admissions /\ disk'.operations = disk.operations \cup {row}
    BY <1>1, <1>2 DEF StoreTypeOK, Images
<1>4. StoreTypeOK'
    BY <1>1, <1>2, <1>3, TouchedTyped DEF StoreTypeOK
<1>5. WritesStaged'
    BY <1>2 DEF WritesStaged
<1>6. \A p \in Programs : HistoryOf(disk', p) = HistoryOf(disk, p)
    BY <1>3 DEF HistoryOf
<1>7. RowsNumbered'
    BY <1>1, <1>6 DEF CommittedInv, RowsNumbered
<1>8. KeysBound'
    BY <1>1, <1>3 DEF CommittedInv, KeysBound
<1>9. DecidedOnHead'
    BY <1>1, <1>3 DEF CommittedInv, DecidedOnHead, HistoryOf
<1>10. StoreReopens'
    <2>1. \A p \in Programs : HeadOf(disk', p) = HeadOf(disk, p)
        BY <1>6 DEF HeadOf
    <2>2. \A k : AdmissionsOf(disk', k) = AdmissionsOf(disk, k)
        BY <1>3 DEF AdmissionsOf
    <2>3. \A p \in Programs : HistoryValid(disk, p) => HistoryValid(disk', p)
        BY <1>6, <2>2 DEF HistoryValid
    <2> QED
        BY <1>1, <1>2, <1>3, <1>6, <2>1, <2>3 DEF CommittedInv, StoreReopens
<1>11. AnswersDurable'
    <2>1. \A o \in disk.operations : o.intent.op # intent.op /\ o.intent.effect # intent.effect
        BY <1>2 DEF Overlapping
    <2>2. row.intent = intent /\ row.origin = None
        OBVIOUS
    <2> HIDE DEF row
    <2> QED
        BY <1>1, <1>2, <1>3, <2>1, <2>2 DEF CommittedInv, AnswersDurable
<1> QED
    BY <1>4, <1>5, <1>7, <1>8, <1>9, <1>10, <1>11 DEF StoreInv

\* Opening rebuilds every projection from its history.
LEMMA OpenStep ==
    ASSUME StoreInv, Open
    PROVE  StoreInv'
<1> DEFINE heads == [p \in Programs |->
                       IF HistoryOf(disk, p) = {} THEN None
                       ELSE [sequence |-> HeadOf(disk, p).sequence, facts |-> HeadOf(disk, p).facts]]
<1>1. StoreTypeOK /\ WritesStaged /\ CommittedInv
    BY StoreInvParts
<1>2. /\ disk' = [disk EXCEPT !.projection = heads] /\ up' = TRUE
      /\ UNCHANGED <<txn, cut, answers>> /\ txn = None /\ cut = None
    BY <1>1 DEF Open, StoreTypeOK
<1>3. ASSUME NEW p \in Programs, HistoryOf(disk, p) # {}
      PROVE  HeadOf(disk, p).sequence \in Nat /\ HeadOf(disk, p).facts \in Facts
    <2>1. HeadOf(disk, p) \in disk.history
        BY <1>1, <1>3, HeadOfNumbered DEF StoreTypeOK, CommittedInv, HistoryOf
    <2> QED
        BY <1>1, <2>1 DEF StoreTypeOK, Images
<1>4. heads \in [Programs -> [sequence : Nat, facts : Facts] \cup {None}]
    BY <1>3
<1>5. \A p \in Programs : IF HistoryOf(disk, p) = {} THEN heads[p] = None
                          ELSE /\ heads[p] # None
                               /\ heads[p].sequence = HeadOf(disk, p).sequence
                               /\ heads[p].facts = HeadOf(disk, p).facts
    <2>1. \A p \in Programs : heads[p] = IF HistoryOf(disk, p) = {} THEN None
                  ELSE [sequence |-> HeadOf(disk, p).sequence, facts |-> HeadOf(disk, p).facts]
        OBVIOUS
    <2> HIDE DEF heads
    <2> QED
        BY <1>3, <1>4, <2>1, RowAssumption
<1> HIDE DEF heads
<1>6. /\ disk' \in Images /\ disk'.history = disk.history /\ disk'.projection = heads
      /\ disk'.admissions = disk.admissions /\ disk'.operations = disk.operations
    BY <1>1, <1>2, <1>4 DEF StoreTypeOK, Images
<1>7. StoreTypeOK'
    BY <1>1, <1>2, <1>6 DEF StoreTypeOK
<1>8. WritesStaged'
    BY <1>2 DEF WritesStaged
<1>9. \A p \in Programs : HistoryOf(disk', p) = HistoryOf(disk, p)
    BY <1>6 DEF HistoryOf
<1>10. RowsNumbered'
    BY <1>1, <1>9 DEF CommittedInv, RowsNumbered
<1>11. KeysBound'
    BY <1>1, <1>6 DEF CommittedInv, KeysBound
<1>12. DecidedOnHead'
    BY <1>1, <1>6 DEF CommittedInv, DecidedOnHead, HistoryOf
<1>13. StoreReopens'
    <2>1. \A p \in Programs : HeadOf(disk', p) = HeadOf(disk, p)
        BY <1>9 DEF HeadOf
    <2>2. \A k : AdmissionsOf(disk', k) = AdmissionsOf(disk, k)
        BY <1>6 DEF AdmissionsOf
    <2>3. \A p \in Programs : HistoryValid(disk, p) => HistoryValid(disk', p)
        BY <1>9, <2>2 DEF HistoryValid
    <2> QED
        BY <1>1, <1>5, <1>6, <1>9, <2>1, <2>3 DEF CommittedInv, StoreReopens
<1>14. AnswersDurable'
    BY <1>1, <1>2, <1>6 DEF CommittedInv, AnswersDurable
<1> QED
    BY <1>7, <1>8, <1>10, <1>11, <1>12, <1>13, <1>14 DEF StoreInv

\* The row an admitted command adds is numbered after all rows of its Program.
LEMMA NextNumber ==
    ASSUME StoreInv, txn # None
    PROVE  /\ SequenceAfter(disk, txn.call) = Cardinality(HistoryOf(disk, txn.call.program)) + 1
           /\ Cardinality(HistoryOf(disk, txn.call.program)) \in Nat
           /\ \A r \in HistoryOf(disk, txn.call.program) :
                 r.sequence \in 1..Cardinality(HistoryOf(disk, txn.call.program))
<1> DEFINE call == txn.call
           p == call.program
           rows == HistoryOf(disk, p)
<1>1. call \in Calls /\ disk \in Images /\ up /\ Admitted(call)
    BY DEF StoreInv, StoreTypeOK, Transactions, WritesStaged
<1>2. p \in Programs
    BY <1>1, CallTyped
<1>3. IsFiniteSet(rows) /\ {r.sequence : r \in rows} = 1..Cardinality(rows)
    BY <1>2 DEF StoreInv, RowsNumbered
<1>4. Cardinality(rows) \in Nat /\ (Cardinality(rows) = 0 <=> rows = {})
    BY <1>3, FS_CardinalityType, FS_EmptySet
<1>5. IF rows = {} THEN disk.projection[p] = None
      ELSE disk.projection[p] # None /\ disk.projection[p].sequence = HeadOf(disk, p).sequence
    BY <1>1, <1>2 DEF StoreInv, StoreReopens
<1>6. \A r \in rows : r.sequence \in 1..Cardinality(rows)
    BY <1>3
<1>7. SequenceAfter(disk, call) = Cardinality(rows) + 1
    <2>1. CASE call.decision[1] = "create"
        BY <1>1, <1>4, <1>5, <2>1 DEF Admitted, SequenceAfter
    <2>2. CASE call.decision[1] # "create"
        <3>1. rows # {}
            BY <1>1, <1>5, <2>2 DEF Admitted
        <3>2. HeadOf(disk, p).sequence = Cardinality(rows)
            BY <1>1, <1>2, <3>1, HeadOfNumbered DEF StoreInv
        <3> QED
            BY <1>5, <2>2, <3>1, <3>2 DEF SequenceAfter
    <2> QED
        BY <2>1, <2>2
<1> QED
    BY <1>4, <1>6, <1>7

\* The row that the running transaction adds to the history.
AddedRow ==
    [program |-> txn.call.program, sequence |-> SequenceAfter(disk, txn.call), key |-> txn.call.key,
     input |-> Input(txn.call), facts |-> txn.facts]

\* Once it is written it is the head the later statements see.
LEMMA AddedRowIsHead ==
    ASSUME StoreInv, txn # None, NEW image, image.history = disk.history \cup {AddedRow}
    PROVE  HeadOf(image, txn.call.program) = AddedRow
<1> DEFINE p == txn.call.program
           n == Cardinality(HistoryOf(disk, p))
<1>1. /\ AddedRow.sequence = n + 1 /\ AddedRow.program = p /\ n \in Nat
      /\ \A r \in HistoryOf(disk, p) : r.sequence \in 1..n
    BY NextNumber DEF AddedRow
<1> HIDE DEF n
<1>2. HistoryOf(image, p) = HistoryOf(disk, p) \cup {AddedRow}
    BY <1>1 DEF HistoryOf
<1> QED
    BY <1>1, <1>2, HeadIs

\* Every statement writes its own table, and stages what it should.
LEMMA WriteStep ==
    ASSUME StoreInv, Write
    PROVE  StoreInv'
<1> DEFINE call == txn.call
           p == call.program
           image == txn.image
           next == SequenceAfter(disk, call)
           projected == [disk.projection EXCEPT ![p] = [sequence |-> next, facts |-> txn.facts]]
           admitted == [key |-> call.key, program |-> p, input |-> Input(call), sequence |-> next,
                        facts |-> txn.facts, intent |-> call.intent]
           owned == [intent |-> call.intent, origin |-> call.key]
<1>1. StoreTypeOK /\ WritesStaged /\ CommittedInv
    BY StoreInvParts
<1>2. /\ txn \in Transactions /\ txn # None /\ txn.step # "commit"
      /\ txn' = [txn EXCEPT !.image = Written(txn), !.step = StepAfter(txn)]
      /\ UNCHANGED <<disk, up, answers>> /\ cut' = Touched(cut) /\ up
    BY <1>1 DEF Write, StoreTypeOK, WritesStaged
<1>3. /\ call \in Calls /\ image \in Images /\ txn.facts \in Facts
      /\ call.key \in Keys /\ p \in Programs /\ Input(call) \in Inputs /\ call.intent \in Intents \cup {None}
      /\ next \in Nat
    BY <1>2, CallTyped, NextNumber DEF Transactions
<1>4. /\ AddedRow \in [program : Programs, sequence : Nat, key : Keys, input : Inputs, facts : Facts]
      /\ admitted \in [key : Keys, program : Programs, input : Inputs, sequence : Nat,
                       facts : Facts, intent : Intents \cup {None}]
    BY <1>3 DEF AddedRow
<1>5. Admitted(call) /\ txn.facts = FactsAfter(disk, call)
    BY <1>1, <1>2 DEF WritesStaged
<1>6. ASSUME txn'.image \in Images, StepAfter(txn) \in {"projection", "admission", "intent", "commit"}
      PROVE  StoreTypeOK'
    <2>1. txn' \in Transactions
        BY <1>2, <1>6 DEF Transactions
    <2> QED
        BY <1>1, <1>2, <2>1, TouchedTyped DEF StoreTypeOK
<1>7. /\ txn'.image = Written(txn) /\ txn'.step = StepAfter(txn)
      /\ txn'.call = call /\ txn'.facts = txn.facts /\ SequenceAfter(disk, call)' = next
    BY <1>2 DEF Transactions, SequenceAfter
<1>8. Admitted(call)' /\ FactsAfter(disk, call)' = FactsAfter(disk, call)
    BY <1>2, <1>5 DEF Admitted, FactsAfter, AdmissionsOf
<1>9. CASE txn.step = "history"
    <2>1. /\ image.history = disk.history /\ image.projection = disk.projection
          /\ image.admissions = disk.admissions /\ image.operations = disk.operations
        BY <1>1, <1>2, <1>9 DEF WritesStaged
    <2>2. HistoryRow(txn) = AddedRow
        BY <2>1 DEF HistoryRow, AddedRow, SequenceAfter
    <2>3. Written(txn) = [image EXCEPT !.history = @ \cup {AddedRow}] /\ StepAfter(txn) = "projection"
        BY <1>9, <2>2 DEF Written, StepAfter
    <2>4. /\ Written(txn) \in Images /\ Written(txn).history = disk.history \cup {AddedRow}
          /\ Written(txn).projection = disk.projection /\ Written(txn).admissions = disk.admissions
          /\ Written(txn).operations = disk.operations
        BY <1>3, <1>4, <2>1, <2>3 DEF Images
    <2>5. WritesStaged'
        BY <1>2, <1>5, <1>7, <1>8, <2>3, <2>4 DEF WritesStaged, AddedRow, Input
    <2> QED
        BY <1>1, <1>2, <1>6, <1>7, <2>3, <2>4, <2>5, CommittedUntouched, StoreInvParts DEF StoreInv, CommittedInv
<1>10. CASE txn.step = "projection"
    <2>1. /\ image.history = disk.history \cup {AddedRow} /\ image.projection = disk.projection
          /\ image.admissions = disk.admissions /\ image.operations = disk.operations
        BY <1>1, <1>2, <1>10 DEF WritesStaged, AddedRow
    <2>2. HeadOf(image, p).sequence = next
        BY <1>2, <2>1, AddedRowIsHead DEF AddedRow
    <2>3. /\ Written(txn) = [image EXCEPT !.projection[p] = [sequence |-> next, facts |-> txn.facts]]
          /\ StepAfter(txn) = "admission"
        BY <1>10, <2>2 DEF Written, StepAfter, ProjectionRow
    <2>4. /\ Written(txn) \in Images /\ Written(txn).history = disk.history \cup {AddedRow}
          /\ Written(txn).projection = projected /\ Written(txn).admissions = disk.admissions
          /\ Written(txn).operations = disk.operations
        BY <1>3, <2>1, <2>3 DEF Images
    <2>5. WritesStaged'
        BY <1>2, <1>5, <1>7, <1>8, <2>3, <2>4 DEF WritesStaged, AddedRow, Input
    <2> QED
        BY <1>1, <1>2, <1>6, <1>7, <2>3, <2>4, <2>5, CommittedUntouched, StoreInvParts DEF StoreInv, CommittedInv
<1>11. CASE txn.step = "admission"
    <2>1. /\ image.history = disk.history \cup {AddedRow} /\ image.projection = projected
          /\ image.admissions = disk.admissions /\ image.operations = disk.operations
        BY <1>1, <1>2, <1>11 DEF WritesStaged, AddedRow
    <2>2. HeadOf(image, p).sequence = next
        BY <1>2, <2>1, AddedRowIsHead DEF AddedRow
    <2>3. /\ Written(txn) = [image EXCEPT !.admissions = @ \cup {admitted}]
          /\ StepAfter(txn) = IF call.intent = None THEN "commit" ELSE "intent"
        BY <1>11, <2>2 DEF Written, StepAfter, AdmissionRow
    <2>4. /\ Written(txn) \in Images /\ Written(txn).history = disk.history \cup {AddedRow}
          /\ Written(txn).projection = projected /\ Written(txn).admissions = disk.admissions \cup {admitted}
          /\ Written(txn).operations = disk.operations
        BY <1>3, <1>4, <2>1, <2>3 DEF Images
    <2>5. WritesStaged'
        BY <1>2, <1>5, <1>7, <1>8, <2>3, <2>4 DEF WritesStaged, AddedRow, Input
    <2> QED
        BY <1>1, <1>2, <1>6, <1>7, <2>3, <2>4, <2>5, CommittedUntouched, StoreInvParts DEF StoreInv, CommittedInv
<1>12. CASE txn.step = "intent"
    <2>1. /\ image.history = disk.history \cup {AddedRow} /\ image.projection = projected
          /\ image.admissions = disk.admissions \cup {admitted} /\ image.operations = disk.operations
          /\ call.intent # None
        BY <1>1, <1>2, <1>12 DEF WritesStaged, AddedRow
    <2>2. Overlapping(disk, call.intent) = {}
        BY <1>12, <2>1 DEF Write, Overlapping
    <2>3. /\ Written(txn) = [image EXCEPT !.operations = @ \cup {owned}]
          /\ StepAfter(txn) = "commit"
        BY <1>12 DEF Written, StepAfter
    <2>4. /\ Written(txn) \in Images /\ Written(txn).history = disk.history \cup {AddedRow}
          /\ Written(txn).projection = projected /\ Written(txn).admissions = disk.admissions \cup {admitted}
          /\ Written(txn).operations = disk.operations \cup {owned}
        BY <1>3, <2>1, <2>3 DEF Images
    <2>5. WritesStaged'
        <3>1. Overlapping(disk, call.intent)' = {}
            BY <1>2, <1>7, <2>2 DEF Overlapping
        <3> QED
            BY <1>2, <1>5, <1>7, <1>8, <2>1, <2>3, <2>4, <3>1 DEF WritesStaged, AddedRow, Input
    <2> QED
        BY <1>1, <1>2, <1>6, <1>7, <2>3, <2>4, <2>5, CommittedUntouched, StoreInvParts DEF StoreInv, CommittedInv
<1> QED
    BY <1>2, <1>9, <1>10, <1>11, <1>12 DEF Transactions

\* What a transaction that has written everything commits.
LEMMA CommittedTables ==
    ASSUME StoreInv, Commit
    PROVE  /\ disk' \in Images /\ up' /\ txn' = None
           /\ disk'.history = disk.history \cup {AddedRow}
           /\ disk'.projection = [disk.projection EXCEPT ![txn.call.program] =
                                    [sequence |-> AddedRow.sequence, facts |-> txn.facts]]
           /\ disk'.admissions = disk.admissions \cup
                 {[key |-> txn.call.key, program |-> txn.call.program, input |-> Input(txn.call),
                   sequence |-> AddedRow.sequence, facts |-> txn.facts, intent |-> txn.call.intent]}
           /\ disk'.operations = IF txn.call.intent = None THEN disk.operations
                 ELSE disk.operations \cup {[intent |-> txn.call.intent, origin |-> txn.call.key]}
           /\ txn.call.intent # None => Overlapping(disk, txn.call.intent) = {}
           /\ answers' = answers \cup {Answer(txn.call, txn.facts)}
<1>1. txn \in Transactions /\ txn # None /\ txn.step = "commit" /\ WritesStaged
    BY DEF StoreInv, StoreTypeOK, Commit
<1>2. /\ disk' = txn.image /\ UNCHANGED up /\ txn' = None
      /\ answers' = answers \cup {Answer(txn.call, txn.facts)}
    BY DEF Commit
<1>3. txn.image \in Images
    BY <1>1 DEF Transactions
<1>4. AddedRow.sequence = SequenceAfter(disk, txn.call)
    BY DEF AddedRow
<1>5. /\ up /\ txn.image.history = disk.history \cup {AddedRow}
    BY <1>1 DEF WritesStaged, AddedRow
<1>6. /\ txn.image.projection = [disk.projection EXCEPT ![txn.call.program] =
                                    [sequence |-> AddedRow.sequence, facts |-> txn.facts]]
      /\ txn.image.admissions = disk.admissions \cup
            {[key |-> txn.call.key, program |-> txn.call.program, input |-> Input(txn.call),
              sequence |-> AddedRow.sequence, facts |-> txn.facts, intent |-> txn.call.intent]}
    BY <1>1, <1>4 DEF WritesStaged
<1>7. /\ txn.image.operations = IF txn.call.intent = None THEN disk.operations
            ELSE disk.operations \cup {[intent |-> txn.call.intent, origin |-> txn.call.key]}
      /\ txn.call.intent # None => Overlapping(disk, txn.call.intent) = {}
    BY <1>1 DEF WritesStaged
<1> QED
    BY <1>2, <1>3, <1>5, <1>6, <1>7

\* What the added row says of the head before it.
LEMMA AddedRowFacts ==
    ASSUME StoreInv, txn # None
    PROVE  LET p == txn.call.program
               rows == HistoryOf(disk, p)
           IN  /\ p \in Programs /\ AddedRow.program = p /\ AddedRow.key = txn.call.key
               /\ AddedRow.input = Input(txn.call) /\ AddedRow.facts = txn.facts
               /\ AddedRow.sequence = Cardinality(rows) + 1 /\ txn.facts \in Facts
               /\ AddedRow.sequence = 1 <=> txn.call.decision[1] = "create"
               /\ AddedRow.sequence = 1 => txn.facts = <<txn.call.decision>>
               /\ rows # {} =>
                     /\ txn.call.expected = Revision(HeadOf(disk, p).facts)
                     /\ txn.facts = Apply(HeadOf(disk, p).facts, txn.call.decision)
                     /\ Revision(HeadOf(disk, p).facts) <= Revision(txn.facts)
<1> DEFINE call == txn.call
           p == call.program
           rows == HistoryOf(disk, p)
<1>1. /\ call \in Calls /\ disk \in Images /\ up /\ Admitted(call) /\ txn.facts \in Facts
      /\ txn.facts = FactsAfter(disk, call)
    BY DEF StoreInv, StoreTypeOK, Transactions, WritesStaged
<1>2. p \in Programs /\ call.decision \in Decisions \cup Creations
    BY <1>1, CallTyped
<1>3. AddedRow.sequence = Cardinality(rows) + 1 /\ Cardinality(rows) \in Nat
    BY NextNumber DEF AddedRow
<1>4. Cardinality(rows) = 0 <=> rows = {}
    BY <1>2, FS_EmptySet DEF StoreInv, RowsNumbered
<1>5. /\ rows = {} => disk.projection[p] = None
      /\ rows # {} => /\ disk.projection[p] # None
                      /\ disk.projection[p].facts = HeadOf(disk, p).facts
    BY <1>1, <1>2 DEF StoreInv, StoreReopens
<1>6. rows = {} <=> call.decision[1] = "create"
    BY <1>1, <1>5 DEF Admitted
<1>7. rows = {} => txn.facts = <<call.decision>>
    BY <1>1, <1>6 DEF FactsAfter
<1>8. ASSUME rows # {}
      PROVE  /\ call.expected = Revision(HeadOf(disk, p).facts)
             /\ txn.facts = Apply(HeadOf(disk, p).facts, call.decision)
             /\ Revision(HeadOf(disk, p).facts) <= Revision(txn.facts)
    <2>1. HeadOf(disk, p).facts \in Facts
        <3>1. HeadOf(disk, p) \in disk.history
            BY <1>1, <1>2, <1>8, HeadOfNumbered DEF StoreInv, HistoryOf
        <3> QED
            BY <1>1, <3>1 DEF Images
    <2>2. /\ call.expected = Revision(HeadOf(disk, p).facts)
          /\ txn.facts = Apply(HeadOf(disk, p).facts, call.decision)
        BY <1>1, <1>5, <1>6, <1>8 DEF Admitted, FactsAfter
    <2>3. Len(HeadOf(disk, p).facts) <= Len(txn.facts)
        BY <1>2, <2>1, <2>2, ApplyGrows
    <2>4. Len(HeadOf(disk, p).facts) \in Nat /\ Len(txn.facts) \in Nat
        BY <1>1, <2>1 DEF Facts
    <2> QED
        BY <2>2, <2>3, <2>4 DEF Revision
<1>9. /\ AddedRow.program = p /\ AddedRow.key = call.key /\ AddedRow.input = Input(call)
      /\ AddedRow.facts = txn.facts
    BY DEF AddedRow
<1>10. AddedRow.sequence = 1 <=> rows = {}
    BY <1>3, <1>4
<1> QED
    BY <1>1, <1>2, <1>3, <1>6, <1>7, <1>8, <1>9, <1>10

\* A commit makes the whole of an admitted command durable, and answers it.
LEMMA CommitStep ==
    ASSUME StoreInv, Commit
    PROVE  StoreInv'
<1> DEFINE call == txn.call
           p == call.program
           rows == HistoryOf(disk, p)
           n == Cardinality(rows)
           new == AddedRow
           admitted == [key |-> call.key, program |-> p, input |-> Input(call),
                        sequence |-> new.sequence, facts |-> txn.facts, intent |-> call.intent]
           owned == [intent |-> call.intent, origin |-> call.key]
           told == Answer(call, txn.facts)
<1>1. StoreTypeOK /\ WritesStaged /\ CommittedInv /\ txn # None
    BY StoreInvParts DEF Commit
<1>2. /\ disk' \in Images /\ up' /\ txn' = None
      /\ disk'.history = disk.history \cup {new}
      /\ disk'.projection = [disk.projection EXCEPT ![p] = [sequence |-> new.sequence, facts |-> txn.facts]]
      /\ disk'.admissions = disk.admissions \cup {admitted}
      /\ disk'.operations = IF call.intent = None THEN disk.operations ELSE disk.operations \cup {owned}
      /\ call.intent # None => Overlapping(disk, call.intent) = {}
      /\ answers' = answers \cup {told}
    BY CommittedTables
<1>3. /\ p \in Programs /\ new.program = p /\ new.key = call.key /\ new.input = Input(call)
      /\ new.facts = txn.facts /\ new.sequence = n + 1 /\ txn.facts \in Facts
      /\ new.sequence = 1 <=> call.decision[1] = "create"
      /\ new.sequence = 1 => txn.facts = <<call.decision>>
      /\ rows # {} => /\ call.expected = Revision(HeadOf(disk, p).facts)
                      /\ txn.facts = Apply(HeadOf(disk, p).facts, call.decision)
                      /\ Revision(HeadOf(disk, p).facts) <= Revision(txn.facts)
    BY <1>1, AddedRowFacts
<1>4. /\ call \in Calls /\ call.key \in Keys /\ Input(call) \in Inputs
      /\ call.intent \in Intents \cup {None} /\ Input(call).decision = call.decision
      /\ Input(call).expected = call.expected
    BY <1>1, CallTyped DEF StoreTypeOK, Transactions, Input
<1>5. n \in Nat /\ \A r \in rows : r.sequence \in 1..n
    BY <1>1, NextNumber
<1>6. /\ IsFiniteSet(rows) /\ {r.sequence : r \in rows} = 1..n
      /\ \A r, s \in rows : r.sequence = s.sequence => r = s
    BY <1>1, <1>3 DEF CommittedInv, RowsNumbered
<1>7. \A a \in disk.admissions : a.key # call.key
    BY <1>1 DEF WritesStaged, Admitted, AdmissionsOf
<1>8. /\ admitted.key = call.key /\ admitted.program = p /\ admitted.input = Input(call)
      /\ admitted.sequence = new.sequence /\ admitted.facts = txn.facts /\ admitted.intent = call.intent
      /\ owned.intent = call.intent /\ owned.origin = call.key
      /\ told.key = call.key /\ told.input = Input(call) /\ told.intent = call.intent
      /\ told.facts = txn.facts
      /\ told \in [key : Keys, input : Inputs, intent : Intents \cup {None}, facts : Facts]
    BY <1>3, <1>4 DEF Answer
<1> HIDE DEF new, admitted, owned, told
<1>9. HistoryOf(disk', p) = rows \cup {new} /\ \A q \in Programs : q # p => HistoryOf(disk', q) = HistoryOf(disk, q)
    BY <1>2, <1>3 DEF HistoryOf
<1> HIDE DEF rows, n
<1>10. StoreTypeOK'
    <2>1. cut' = cut
        BY DEF Commit
    <2> QED
        BY <1>1, <1>2, <1>8, <2>1 DEF StoreTypeOK
<1>11. WritesStaged'
    BY <1>2 DEF WritesStaged
<1>12. RowsNumbered'
    <2>1. new \notin rows
        BY <1>3, <1>5
    <2>2. IsFiniteSet(rows \cup {new}) /\ Cardinality(rows \cup {new}) = n + 1
        BY <1>6, <2>1, FS_AddElement DEF n
    <2>3. {r.sequence : r \in rows \cup {new}} = 1..(n + 1)
        BY <1>3, <1>5, <1>6
    <2>4. \A r, s \in rows \cup {new} : r.sequence = s.sequence => r = s
        BY <1>3, <1>5, <1>6
    <2> QED
        BY <1>1, <1>9, <2>2, <2>3, <2>4 DEF CommittedInv, RowsNumbered
<1>13. KeysBound'
    BY <1>1, <1>2, <1>3, <1>7, <1>8 DEF CommittedInv, KeysBound
<1>14. rows # {} => /\ HeadOf(disk, p) \in rows /\ HeadOf(disk, p).sequence = n
    BY <1>1, <1>3, HeadOfNumbered DEF CommittedInv, StoreTypeOK, rows, n
<1>15. DecidedOnHead'
    <2>1. ASSUME NEW r \in disk.history, r.sequence > 1
          PROVE  \E q \in HistoryOf(disk', r.program) :
                    /\ q.sequence = r.sequence - 1
                    /\ r.input.expected = Revision(q.facts)
                    /\ r.facts = Apply(q.facts, r.input.decision)
        <3>1. HistoryOf(disk, r.program) \subseteq HistoryOf(disk', r.program)
            BY <1>2 DEF HistoryOf
        <3> QED
            BY <1>1, <2>1, <3>1 DEF CommittedInv, DecidedOnHead
    <2>2. ASSUME new.sequence > 1
          PROVE  \E q \in HistoryOf(disk', new.program) :
                    /\ q.sequence = new.sequence - 1
                    /\ new.input.expected = Revision(q.facts)
                    /\ new.facts = Apply(q.facts, new.input.decision)
        <3>1. rows # {}
            <4>1. n # 0
                BY <1>3, <2>2
            <4> QED
                BY <4>1, FS_EmptySet DEF n
        <3>2. HeadOf(disk, p) \in HistoryOf(disk', p) /\ HeadOf(disk, p).sequence = new.sequence - 1
            BY <1>3, <1>5, <1>9, <1>14, <3>1
        <3> QED
            BY <1>3, <1>4, <3>1, <3>2
    <2> QED
        BY <1>2, <2>1, <2>2 DEF DecidedOnHead
<1>16. ASSUME NEW q \in Programs
       PROVE  HistoryValid(disk', q)
    <2>1. {r.sequence : r \in HistoryOf(disk', q)} = 1..Cardinality(HistoryOf(disk', q))
        BY <1>12, <1>16 DEF RowsNumbered
    <2>2. HistoryValid(disk, q)
        BY <1>1, <1>16 DEF CommittedInv, StoreReopens
    <2>3. ASSUME NEW r \in HistoryOf(disk, q)
          PROVE  /\ r.sequence = 1 <=> r.input.decision[1] = "create"
                 /\ r.sequence = 1 => r.facts = <<r.input.decision>>
                 /\ \E a \in AdmissionsOf(disk', r.key) :
                       /\ a.program = q /\ a.input = r.input
                       /\ a.sequence = r.sequence /\ a.facts = r.facts
        <3>1. AdmissionsOf(disk, r.key) \subseteq AdmissionsOf(disk', r.key)
            BY <1>2 DEF AdmissionsOf
        <3> QED
            BY <2>2, <2>3, <3>1 DEF HistoryValid
    <2>4. ASSUME NEW r \in HistoryOf(disk, q), NEW s \in HistoryOf(disk, q), r.sequence < s.sequence
          PROVE  Revision(r.facts) <= Revision(s.facts)
        BY <2>2, <2>4 DEF HistoryValid
    <2>5. CASE q # p
        <3>1. HistoryOf(disk', q) = HistoryOf(disk, q)
            BY <1>9, <2>5
        <3> QED
            BY <2>1, <2>3, <2>4, <3>1 DEF HistoryValid
    <2>6. CASE q = p
        <3>1. HistoryOf(disk', q) = rows \cup {new} /\ HistoryOf(disk, q) = rows
            BY <1>9, <2>6 DEF rows
        <3>2. \E a \in AdmissionsOf(disk', new.key) :
                 /\ a.program = q /\ a.input = new.input
                 /\ a.sequence = new.sequence /\ a.facts = new.facts
            BY <1>2, <1>3, <1>8, <2>6 DEF AdmissionsOf
        <3>3. ASSUME NEW r \in rows
              PROVE  r.sequence < new.sequence /\ Revision(r.facts) <= Revision(new.facts)
            <4> DEFINE h == HeadOf(disk, p)
            <4>1. h \in rows /\ h.sequence = n /\ Revision(h.facts) <= Revision(new.facts)
                BY <1>3, <1>14, <3>3
            <4>2. \A s \in rows : Revision(s.facts) \in Int
                <5>1. \A s \in rows : s.facts \in Facts
                    BY <1>1 DEF rows, HistoryOf, StoreTypeOK, Images
                <5> QED
                    BY <5>1 DEF Facts, Revision
            <4>3. Revision(new.facts) \in Int
                BY <1>3 DEF Facts, Revision
            <4> HIDE DEF h
            <4>4. r = h \/ r.sequence < h.sequence
                BY <1>5, <1>6, <3>3, <4>1
            <4>5. Revision(r.facts) <= Revision(h.facts)
                BY <2>4, <3>1, <3>3, <4>1, <4>2, <4>4
            <4> QED
                BY <1>3, <1>5, <3>3, <4>1, <4>2, <4>3, <4>5
        <3>4. \A r, s \in rows \cup {new} : r.sequence < s.sequence => Revision(r.facts) <= Revision(s.facts)
            BY <1>3, <1>5, <2>4, <3>1, <3>3
        <3>5. /\ new.sequence = 1 <=> new.input.decision[1] = "create"
              /\ new.sequence = 1 => new.facts = <<new.input.decision>>
            BY <1>3, <1>4
        <3> QED
            BY <2>1, <2>3, <3>1, <3>2, <3>4, <3>5 DEF HistoryValid
    <2> QED
        BY <2>5, <2>6
<1>17. HeadOf(disk', p) = new
    BY <1>1, <1>2, AddedRowIsHead DEF new
<1>18. StoreReopens'
    <2>1. ASSUME NEW q \in Programs, q # p
          PROVE  /\ HistoryOf(disk', q) = HistoryOf(disk, q) /\ HeadOf(disk', q) = HeadOf(disk, q)
                 /\ disk'.projection[q] = disk.projection[q]
        BY <1>1, <1>2, <1>9, <2>1 DEF HeadOf, StoreTypeOK, Images
    <2>2. up
        BY <1>1 DEF WritesStaged
    <2>3. /\ disk'.projection[p] # None /\ disk'.projection[p].sequence = HeadOf(disk', p).sequence
          /\ disk'.projection[p].facts = HeadOf(disk', p).facts /\ HistoryOf(disk', p) # {}
        <3>1. disk'.projection[p] = [sequence |-> new.sequence, facts |-> txn.facts]
            BY <1>1, <1>2, <1>3 DEF StoreTypeOK, Images
        <3>2. [sequence |-> new.sequence, facts |-> txn.facts] # None
            BY <1>3, <1>5, RowAssumption
        <3> QED
            BY <1>3, <1>9, <1>17, <3>1, <3>2
    <2> QED
        BY <1>1, <1>16, <2>1, <2>2, <2>3 DEF CommittedInv, StoreReopens
<1>19. AnswersDurable'
    <2>1. \A a \in answers' :
              /\ \E b \in disk'.admissions : b.key = a.key /\ b.input = a.input /\ b.facts = a.facts
              /\ \E r \in disk'.history : r.key = a.key /\ r.input = a.input /\ r.facts = a.facts
              /\ a.intent # None => \E o \in disk'.operations : o.intent = a.intent
        BY <1>1, <1>2, <1>3, <1>8 DEF CommittedInv, AnswersDurable
    <2>2. /\ \A a \in disk'.admissions : a.intent # None =>
                \E o \in disk'.operations : o.intent = a.intent /\ o.origin = a.key
          /\ \A o \in disk'.operations : o.origin # None =>
                \E a \in disk'.admissions : a.key = o.origin /\ a.intent = o.intent
        BY <1>1, <1>2, <1>8 DEF CommittedInv, AnswersDurable
    <2>3. \A o, q \in disk'.operations :
              o.intent.op = q.intent.op \/ o.intent.effect = q.intent.effect => o = q
        BY <1>1, <1>2, <1>8 DEF CommittedInv, AnswersDurable, Overlapping
    <2> QED
        BY <2>1, <2>2, <2>3 DEF AnswersDurable
<1> QED
    BY <1>10, <1>11, <1>12, <1>13, <1>15, <1>18, <1>19 DEF StoreInv

\* A new database satisfies the invariant.
LEMMA StoreInvInit == Init => StoreInv
<1> SUFFICES ASSUME Init
             PROVE  StoreInv
    OBVIOUS
<1>1. /\ disk.history = {} /\ disk.admissions = {} /\ disk.operations = {}
      /\ disk.projection = [p \in Programs |-> None] /\ disk \in Images
    BY DEF Init, Images
<1>2. StoreTypeOK
    BY <1>1 DEF Init, StoreTypeOK
<1>3. \A p \in Programs : HistoryOf(disk, p) = {}
    BY <1>1 DEF HistoryOf
<1>4. RowsNumbered
    BY <1>3, FS_EmptySet DEF RowsNumbered
<1>5. KeysBound /\ DecidedOnHead /\ AnswersDurable /\ WritesStaged
    BY <1>1 DEF Init, KeysBound, DecidedOnHead, AnswersDurable, WritesStaged
<1>6. StoreReopens
    BY <1>1, <1>3, <1>4, FS_EmptySet DEF StoreReopens, HistoryValid
<1> QED
    BY <1>2, <1>4, <1>5, <1>6 DEF StoreInv

\* Every step of the store keeps its invariant.
LEMMA StoreInvStep == StoreInv /\ [Next]_vars => StoreInv'
<1> SUFFICES ASSUME StoreInv, [Next]_vars
             PROVE  StoreInv'
    OBVIOUS
<1>1. CASE UNCHANGED vars
    BY <1>1, CutStep DEF vars, StoreInv, StoreTypeOK
<1> QED
    BY <1>1, BeginStep, ReplayStep, WriteStep, CommitStep, RollbackStep, IntentAloneStep,
       OpenCutStep, CloseCutStep, CrashStep, OpenStep DEF Next

\* The invariant of the Program store.
THEOREM StoreInvariant == Spec => []StoreInv
<1>1. Init => StoreInv
    BY StoreInvInit
<1>2. StoreInv /\ [Next]_vars => StoreInv'
    BY StoreInvStep
<1> QED
    BY <1>1, <1>2, PTL DEF Spec

\* The store opens after every crash and every Program loads: what
\* rebuild_projections() and load() check of the committed tables always holds.
THEOREM StoreAlwaysReopens == Spec => []StoreReopens
<1>1. StoreInv => StoreReopens
    BY DEF StoreInv
<1> QED
    BY <1>1, StoreInvariant, PTL

\* No update is lost: every command was decided on the record just before its own.
THEOREM UpdatesAreNotLost == Spec => []DecidedOnHead
<1>1. StoreInv => DecidedOnHead
    BY DEF StoreInv
<1> QED
    BY <1>1, StoreInvariant, PTL

\* What a caller was told stays true, and commands and their effects are admitted together.
THEOREM AnswersStayTrue == Spec => []AnswersDurable
<1>1. StoreInv => AnswersDurable
    BY DEF StoreInv
<1> QED
    BY <1>1, StoreInvariant, PTL

-----------------------------------------------------------------------------
(* Chains of specifications. *)

\* A set of numbers has a least one.
LEMMA Least ==
    ASSUME NEW T, T \subseteq Nat, T # {}
    PROVE  \E n \in T : \A m \in T : n <= m
<1> DEFINE R == OpToRel(<, Nat)
<1>1. IsWellFoundedOn(R, Nat)
    BY NatLessThanWellFounded, Zenon
<1>2. PICK n \in T : \A m \in T : ~(<<m, n>> \in R)
    <2> HIDE DEF R
    <2> QED
        BY <1>1, WFMin
<1>3. ASSUME NEW m \in T
      PROVE  n <= m
    <2>1. m \in Nat /\ n \in Nat
        OBVIOUS
    <2>2. m < n => <<m, n>> \in R
        BY <2>1 DEF OpToRel
    <2> HIDE DEF R
    <2> QED
        BY <1>2, <2>1, <2>2
<1> QED
    BY <1>3

\* A set that has 0 and, with a number, also the next one, has all of them.
LEMMA Induction ==
    ASSUME NEW S, 0 \in S, \A n \in Nat : n \in S => n + 1 \in S
    PROVE  Nat \subseteq S
<1> SUFFICES ASSUME ~(Nat \subseteq S)
             PROVE  FALSE
    OBVIOUS
<1> DEFINE T == Nat \ S
<1>1. T # {} /\ T \subseteq Nat
    OBVIOUS
<1>2. PICK n \in T : \A m \in T : n <= m
    <2> HIDE DEF T
    <2> QED
        BY <1>1, Least
<1>3. n \in Nat /\ n # 0 /\ n - 1 \in Nat
    BY <1>2
<1>4. n - 1 \in S
    BY <1>2, <1>3
<1>5. n - 1 + 1 = n
    BY <1>3
<1>6. n - 1 + 1 \in S
    BY <1>3, <1>4
<1> QED
    BY <1>2, <1>5, <1>6

\* One step of a chain, and the function that has the chain of every beginning of the facts.
ChainStep(it, facts, n) ==
    IF n = 0 THEN <<>>
    ELSE IF facts[n][1] = "command" THEN it[n - 1] ELSE Append(it[n - 1], facts[n])

\* The function that has the chain of every beginning of the facts.
IsChain(it, facts, m) == it = [n \in 0..m |-> ChainStep(it, facts, n)]

\* There is such a function.
LEMMA ChainExists ==
    ASSUME NEW facts, NEW m \in Nat
    PROVE  \E it : IsChain(it, facts, m)
<1> DEFINE S == {n \in Nat : \E it : IsChain(it, facts, n)}
<1>1. 0 \in S
    <2> DEFINE none == [n \in 0..0 |-> <<>>]
    <2>1. none = [n \in 0..0 |-> ChainStep(none, facts, n)]
        BY DEF ChainStep
    <2> QED
        BY <2>1 DEF IsChain
<1>2. ASSUME NEW n \in Nat, n \in S
      PROVE  n + 1 \in S
    <2>1. PICK it : IsChain(it, facts, n)
        BY <1>2
    <2>2. DOMAIN it = 0..n /\ \A i \in 0..n : it[i] = ChainStep(it, facts, i)
        BY <2>1 DEF IsChain
    <2> DEFINE more == [i \in 0..(n + 1) |-> IF i = n + 1 THEN ChainStep(it, facts, i) ELSE it[i]]
    <2>3. \A i \in 0..n : more[i] = it[i]
        OBVIOUS
    <2>4. ASSUME NEW i \in 0..(n + 1)
          PROVE  more[i] = ChainStep(more, facts, i)
        <3>1. i # 0 => i - 1 \in 0..n /\ more[i - 1] = it[i - 1]
            BY <2>3
        <3>2. more[i] = ChainStep(it, facts, i)
            BY <2>2
        <3> HIDE DEF more
        <3> QED
            BY <3>1, <3>2 DEF ChainStep
    <2>5. DOMAIN more = 0..(n + 1) /\ more = [i \in DOMAIN more |-> more[i]]
        OBVIOUS
    <2> HIDE DEF more
    <2>6. IsChain(more, facts, n + 1)
        BY <2>4, <2>5 DEF IsChain
    <2> QED
        BY <2>6
<1> HIDE DEF S
<1>3. Nat \subseteq S
    BY <1>1, <1>2, Induction
<1> QED
    BY <1>3 DEF S

\* The chain of the facts is its last value.
LEMMA ChainIs ==
    ASSUME NEW facts, Len(facts) \in Nat
    PROVE  \E it : IsChain(it, facts, Len(facts)) /\ Chain(facts) = it[Len(facts)]
<1> DEFINE it == CHOOSE f : IsChain(f, facts, Len(facts))
<1>1. IsChain(it, facts, Len(facts))
    BY ChainExists
<1>2. Chain(facts) = it[Len(facts)]
    BY DEF Chain, IsChain, ChainStep
<1> QED
    BY <1>1, <1>2

\* The chains of facts with a common beginning have a common beginning.
LEMMA ChainsAgree ==
    ASSUME NEW it, NEW that, NEW facts, NEW others, NEW k \in Nat, NEW l \in Nat, NEW m \in Nat,
           IsChain(it, facts, k), IsChain(that, others, l), m <= k, m <= l,
           \A i \in 1..m : facts[i] = others[i]
    PROVE  it[m] = that[m]
<1> DEFINE S == {n \in Nat : n <= m => it[n] = that[n]}
<1>1. /\ \A i \in 0..k : it[i] = ChainStep(it, facts, i)
      /\ \A i \in 0..l : that[i] = ChainStep(that, others, i)
    BY DEF IsChain
<1>2. 0 \in S
    BY <1>1 DEF ChainStep
<1>3. ASSUME NEW n \in Nat, n \in S
      PROVE  n + 1 \in S
    <2> SUFFICES ASSUME n + 1 <= m
                 PROVE  it[n + 1] = that[n + 1]
        OBVIOUS
    <2>1. it[n] = that[n] /\ n + 1 \in 1..m /\ n + 1 \in 0..k /\ n + 1 \in 0..l /\ (n + 1) - 1 = n /\ n + 1 # 0
        BY <1>3
    <2>2. it[n + 1] = ChainStep(it, facts, n + 1) /\ that[n + 1] = ChainStep(that, others, n + 1)
        BY <1>1, <2>1
    <2>3. facts[n + 1] = others[n + 1]
        BY <2>1
    <2> QED
        BY <2>1, <2>2, <2>3 DEF ChainStep
<1> HIDE DEF S
<1>4. Nat \subseteq S
    BY <1>2, <1>3, Induction
<1> QED
    BY <1>4 DEF S

\* No facts have no chain.
LEMMA ChainOfNone == Chain(<<>>) = <<>>
<1>1. PICK it : IsChain(it, <<>>, 0) /\ Chain(<<>>) = it[0]
    BY ChainIs
<1> QED
    BY <1>1 DEF IsChain, ChainStep

\* A decision extends the chain, unless it is a domain command.
LEMMA ChainAppends ==
    ASSUME NEW facts \in Facts, NEW decision \in Decisions \cup Creations
    PROVE  Chain(Append(facts, decision)) =
               IF decision[1] = "command" THEN Chain(facts) ELSE Append(Chain(facts), decision)
<1> DEFINE more == Append(facts, decision)
           n == Len(facts)
<1>1. /\ n \in Nat /\ Len(more) = n + 1 /\ more[n + 1] = decision
      /\ \A i \in 1..n : facts[i] = more[i]
    BY DEF Facts
<1> HIDE DEF more, n
<1>2. PICK it : IsChain(it, facts, n) /\ Chain(facts) = it[n]
    BY <1>1, ChainIs DEF n
<1>3. PICK that : IsChain(that, more, n + 1) /\ Chain(more) = that[n + 1]
    BY <1>1, ChainIs
<1>4. it[n] = that[n]
    <2>1. n + 1 \in Nat /\ n <= n /\ n <= n + 1
        BY <1>1
    <2> QED
        BY <1>1, <1>2, <1>3, <2>1, ChainsAgree
<1>5. that[n + 1] = ChainStep(that, more, n + 1)
    BY <1>1, <1>3 DEF IsChain
<1>6. (n + 1) - 1 = n /\ n + 1 # 0
    BY <1>1
<1>7. that[n + 1] = IF more[n + 1][1] = "command" THEN that[n] ELSE Append(that[n], more[n + 1])
    BY <1>5, <1>6 DEF ChainStep
<1> QED
    BY <1>1, <1>2, <1>3, <1>4, <1>7 DEF more

\* A chain is a sequence of decisions.
LEMMA ChainTyped ==
    ASSUME NEW facts \in Facts
    PROVE  Chain(facts) \in Facts
<1> DEFINE n == Len(facts)
<1>1. n \in Nat /\ \A i \in 1..n : facts[i] \in Decisions \cup Creations
    BY DEF Facts
<1> HIDE DEF n
<1>2. PICK it : IsChain(it, facts, n) /\ Chain(facts) = it[n]
    BY <1>1, ChainIs DEF n
<1>3. \A i \in 0..n : it[i] = ChainStep(it, facts, i)
    BY <1>2 DEF IsChain
<1> DEFINE S == {i \in Nat : i <= n => it[i] \in Facts}
<1>4. 0 \in S
    <2>1. it[0] = <<>>
        BY <1>1, <1>3 DEF ChainStep
    <2>2. <<>> \in Facts
        BY DEF Facts
    <2> QED
        BY <2>1, <2>2
<1>5. ASSUME NEW i \in Nat, i \in S
      PROVE  i + 1 \in S
    <2> SUFFICES ASSUME i + 1 <= n
                 PROVE  it[i + 1] \in Facts
        OBVIOUS
    <2>1. it[i] \in Facts /\ i + 1 \in 1..n /\ i + 1 \in 0..n /\ (i + 1) - 1 = i /\ i + 1 # 0
        BY <1>1, <1>5
    <2>2. it[i + 1] \in {it[i], Append(it[i], facts[i + 1])}
        BY <1>3, <2>1 DEF ChainStep
    <2>3. Append(it[i], facts[i + 1]) \in Facts
        <3>1. facts[i + 1] \in Decisions \cup Creations
            BY <1>1, <2>1
        <3> HIDE DEF S
        <3> QED
            BY <2>1, <3>1, AppendProperties DEF Facts
    <2> QED
        BY <2>1, <2>2, <2>3
<1> HIDE DEF S
<1>6. Nat \subseteq S
    BY <1>4, <1>5, Induction
<1>7. n \in S
    BY <1>1, <1>6
<1> QED
    BY <1>1, <1>2, <1>7 DEF S

\* The specification after an amendment follows from the one before it.
LEMMA ChainAfterAmendment ==
    ASSUME NEW facts \in Facts, NEW decision \in Decisions, decision[1] = "amend"
    PROVE  Chain(Apply(facts, decision)) =
               IF Chain(facts)[Len(Chain(facts))][2] = decision[2] THEN Chain(facts)
               ELSE Append(Chain(facts), decision)
<1>1. Chain(Append(facts, decision)) = Append(Chain(facts), decision)
    BY ChainAppends
<1> QED
    BY <1>1 DEF Apply, Restates

\* The chain of a Program that was just created.
LEMMA ChainOfOne ==
    ASSUME NEW decision \in Creations
    PROVE  Chain(<<decision>>) = <<decision>>
<1>1. <<>> \in Facts /\ Append(<<>>, decision) = <<decision>> /\ decision[1] # "command"
    BY DEF Facts, Creations
<1> QED
    BY <1>1, ChainAppends, ChainOfNone

-----------------------------------------------------------------------------
(* What the store says to the intake. *)

\* A decision makes the facts one longer at most.
LEMMA ApplyLength ==
    ASSUME NEW facts \in Facts, NEW decision \in Decisions \cup Creations
    PROVE  Len(facts) \in Nat /\ Len(Apply(facts, decision)) \in {Len(facts), Len(facts) + 1}
<1>1. Len(Append(facts, decision)) = Len(facts) + 1 /\ Len(facts) \in Nat
    BY AppendProperties DEF Facts
<1> QED
    BY <1>1 DEF Apply

\* A record has a decision, and no more of them than there are records up to it.
LEMMA LengthsBounded ==
    ASSUME StoreInv
    PROVE  \A r \in disk.history : Len(r.facts) \in 1..r.sequence
<1>1. disk \in Images /\ RowsNumbered /\ StoreReopens /\ DecidedOnHead
    BY DEF StoreInv, StoreTypeOK
<1>2. \A r \in disk.history : r.sequence \in Nat /\ r.program \in Programs /\ r.facts \in Facts
                              /\ r.input.decision \in Decisions \cup Creations
    BY <1>1 DEF Images, Inputs
<1>3. \A r \in disk.history : r.sequence >= 1 /\ (r.sequence = 1 => r.facts = <<r.input.decision>>)
    <2> SUFFICES ASSUME NEW r \in disk.history
                 PROVE  r.sequence >= 1 /\ (r.sequence = 1 => r.facts = <<r.input.decision>>)
        OBVIOUS
    <2>1. r \in HistoryOf(disk, r.program) /\ r.program \in Programs
        BY <1>2 DEF HistoryOf
    <2>2. /\ r.sequence \in 1..Cardinality(HistoryOf(disk, r.program))
          /\ IsFiniteSet(HistoryOf(disk, r.program))
        BY <1>1, <2>1 DEF RowsNumbered
    <2>3. HistoryValid(disk, r.program)
        BY <1>1, <2>1 DEF StoreReopens
    <2>4. r.sequence = 1 => r.facts = <<r.input.decision>>
        BY <2>1, <2>3 DEF HistoryValid
    <2> QED
        BY <2>2, <2>4
<1> DEFINE S == {n \in Nat : \A r \in disk.history : r.sequence = n => Len(r.facts) \in 1..n}
<1>4. 0 \in S
    BY <1>3
<1>5. ASSUME NEW n \in Nat, n \in S
      PROVE  n + 1 \in S
    <2> SUFFICES ASSUME NEW r \in disk.history, r.sequence = n + 1
                 PROVE  Len(r.facts) \in 1..(n + 1)
        OBVIOUS
    <2>1. CASE n = 0
        <3>1. r.facts = <<r.input.decision>>
            BY <1>3, <2>1
        <3> QED
            BY <2>1, <3>1
    <2>2. CASE n # 0
        <3>1. PICK q \in HistoryOf(disk, r.program) : q.sequence = n /\ r.facts = Apply(q.facts, r.input.decision)
            <4>1. r.sequence > 1 /\ r.sequence - 1 = n
                BY <2>2
            <4> QED
                BY <1>1, <4>1 DEF DecidedOnHead
        <3>2. q \in disk.history
            BY DEF HistoryOf
        <3>3. Len(q.facts) \in 1..n
            BY <1>5, <3>1, <3>2
        <3>4. Len(r.facts) \in {Len(q.facts), Len(q.facts) + 1}
            BY <1>2, <3>1, <3>2, ApplyLength
        <3> QED
            BY <3>3, <3>4
    <2> QED
        BY <2>1, <2>2
<1> HIDE DEF S
<1>6. Nat \subseteq S
    BY <1>4, <1>5, Induction
<1> QED
    BY <1>2, <1>6 DEF S

\* The Program's row holds facts, of a length the history bounds.
LEMMA CurrentTyped ==
    ASSUME StoreInv, Task \in Programs, Current # None
    PROVE  /\ Current.facts \in Facts
           /\ up => Len(Current.facts) \in 1..Cardinality(HistoryOf(disk, Task))
<1>1. disk \in Images /\ RowsNumbered /\ StoreReopens
    BY DEF StoreInv, StoreTypeOK
<1>2. Current.facts \in Facts
    BY <1>1 DEF Images, Current
<1>3. ASSUME up
      PROVE  Len(Current.facts) \in 1..Cardinality(HistoryOf(disk, Task))
    <2>1. HistoryOf(disk, Task) # {} /\ Current.facts = HeadOf(disk, Task).facts
        BY <1>1, <1>3 DEF StoreReopens, Current
    <2>2. /\ HeadOf(disk, Task) \in HistoryOf(disk, Task)
          /\ HeadOf(disk, Task).sequence = Cardinality(HistoryOf(disk, Task))
        BY <1>1, <2>1, HeadOfNumbered
    <2>3. HeadOf(disk, Task) \in disk.history
        BY <2>2 DEF HistoryOf
    <2> QED
        BY <2>1, <2>2, <2>3, LengthsBounded
<1> QED
    BY <1>2, <1>3

\* What a draft says is a specification.
LEMMA ContentTyped ==
    ASSUME IntakeTypeOK, NEW i \in DOMAIN recs.drafts
    PROVE  Content(recs.drafts[i]) \in Specs
<1>1. recs.drafts \in Seq(Drafts)
    BY DEF IntakeTypeOK
<1>2. recs.drafts[i] \in Drafts
    BY <1>1
<1> QED
    BY <1>2 DEF Drafts

\* The command of an approval is one the store takes.
LEMMA ApprovalTyped ==
    ASSUME StoreInv, IntakeTypeOK, PlanKept, WayTaken, ctl.pc \in {"third", "submit"}, ctl.plan # "again",
           Begin(ApprovalCall)
    PROVE  ApprovalCall \in Calls
<1>1. /\ ctl.op = "approve" /\ ctl.d \in DecisionIds /\ ctl.draft \in DOMAIN recs.drafts
      /\ ctl.plan \in {"create", "amend"}
    BY DEF IntakeTypeOK, WayTaken, PlanKept
<1>2. Content(recs.drafts[ctl.draft]) \in Specs
    BY <1>1, ContentTyped
<1>3. Task \in Programs /\ ctl.d \in Keys
    BY <1>1, IntakeAssumption
<1>4. CASE ctl.plan = "create"
    <2>1. DecisionOf("create") \in Creations
        BY <1>2 DEF DecisionOf, Creations
    <2>2. ApprovalCall = [key |-> ctl.d, program |-> Task, decision |-> DecisionOf("create"), expected |-> 0,
                          intent |-> None]
        BY <1>4 DEF ApprovalCall
    <2> QED
        BY <1>3, <2>1, <2>2 DEF Calls
<1>5. CASE ctl.plan = "amend"
    <2>1. DecisionOf("amend") \in Decisions /\ DecisionOf("amend")[1] = "amend"
        BY <1>2 DEF DecisionOf, Decisions
    <2>2. ApprovalCall = [key |-> ctl.d, program |-> Task, decision |-> DecisionOf("amend"),
                          expected |-> ctl.expected, intent |-> None]
        BY <1>5 DEF ApprovalCall
    <2>3. /\ Current # None /\ ctl.expected = Revision(Current.facts) /\ up
          /\ Cardinality(HistoryOf(disk, Task)) < MaxRecords
        BY <2>1, <2>2 DEF Begin, Admitted, Idle, Current
    <2>4. Len(Current.facts) \in 1..Cardinality(HistoryOf(disk, Task))
        BY <1>3, <2>3, CurrentTyped
    <2>5. IsFiniteSet(HistoryOf(disk, Task))
        BY <1>3 DEF StoreInv, RowsNumbered
    <2>6. Cardinality(HistoryOf(disk, Task)) \in Nat
        BY <2>5, FS_CardinalityType
    <2>7. ctl.expected \in 0..MaxRecords
        BY <2>3, <2>4, <2>6, StoreAssumption DEF Revision
    <2> QED
        BY <1>3, <2>1, <2>2, <2>7 DEF Calls
<1> QED
    BY <1>1, <1>4, <1>5

\* So are the commands of other callers.
LEMMA OtherCallsTyped == OtherCalls \subseteq Calls
BY IntakeAssumption DEF OtherCalls, Calls, Creations, Decisions

-----------------------------------------------------------------------------
(* The records of the intake. *)

\* What the records may do in one step: a draft is added, an owner judges, or an approval is
\* written.
Drafted ==
    /\ ctl.pc = "reading" /\ recs'.age \in Nat
    /\ recs'.decisions = recs.decisions /\ recs'.consumed = recs.consumed
    /\ recs'.drafts = recs.drafts \/ \E draft \in Drafts : recs'.drafts = Append(recs.drafts, draft)

\* An approval under way writes its decision, and its consumption unless there is one already.
Entered ==
    /\ ctl.op = "approve" /\ ctl.pc \notin {"idle", "reading", "first"} /\ DecisionFree
    /\ recs'.drafts = recs.drafts /\ recs'.age = recs.age
    /\ recs'.decisions = [recs.decisions EXCEPT ![ctl.d] = Decision]
    /\ \/ recs'.consumed = recs.consumed
       \/ Matching = {} /\ ctl.plan # "again" /\ recs'.consumed = Append(recs.consumed, Consumption)

\* The records the proofs reason about stay as they are.
Kept ==
    /\ recs'.drafts = recs.drafts /\ recs'.age = recs.age
    /\ recs'.decisions = recs.decisions /\ recs'.consumed = recs.consumed

\* No record is ever changed.
RecordsGrow ==
    /\ \A i \in DOMAIN recs.drafts : i \in DOMAIN recs'.drafts /\ recs'.drafts[i] = recs.drafts[i]
    /\ \A d \in DecisionIds : recs.decisions[d] # None => recs'.decisions[d] = recs.decisions[d]
    /\ \A c \in DOMAIN recs.consumed : c \in DOMAIN recs'.consumed /\ recs'.consumed[c] = recs.consumed[c]

\* What an appended sequence has at each place.
LEMMA Appended ==
    ASSUME NEW S, NEW s \in Seq(S), NEW x
    PROVE  /\ DOMAIN Append(s, x) = DOMAIN s \cup {Len(s) + 1} /\ Append(s, x)[Len(s) + 1] = x
           /\ Len(s) + 1 \notin DOMAIN s
           /\ \A i \in DOMAIN s : Append(s, x)[i] = s[i]
OBVIOUS

\* The types of the records, one by one.
LEMMA RecordsTyped ==
    ASSUME IntakeTypeOK
    PROVE  /\ recs.drafts \in Seq(Drafts) /\ recs.consumed \in Seq(Consumptions) /\ recs.age \in Nat
           /\ recs.decisions \in [DecisionIds -> DecisionRows \cup {None}]
           /\ DOMAIN recs.drafts = 1..Len(recs.drafts) /\ Len(recs.drafts) \in Nat
BY DEF IntakeTypeOK

\* What an approval is about to write has its type.
LEMMA DecisionTyped ==
    ASSUME IntakeTypeOK, ctl.op = "approve", ctl.pc \notin {"idle", "reading"}
    PROVE  /\ Decision \in DecisionRows /\ Decision # None /\ Decision.draft = ctl.draft
           /\ Decision.expires = ctl.expires
           /\ ctl.d \in DecisionIds /\ ctl.draft \in DOMAIN recs.drafts
           /\ Consumption \in Consumptions /\ Consumption.decision = ctl.d /\ Consumption.draft = ctl.draft
           /\ Consumption.chain = ctl.chain
<1>1. /\ ctl.d \in DecisionIds /\ ctl.draft \in DOMAIN recs.drafts /\ ctl.expires \in Nat
      /\ ctl.policy \in Policies /\ ctl.ev = recs.drafts[ctl.draft].ev /\ ctl.chain \in Facts
      /\ ctl.expected \in Int
    BY DEF IntakeTypeOK
<1>2. ctl.ev \in Evidences /\ ctl.draft \in Nat
    <2>1. recs.drafts[ctl.draft] \in Drafts /\ ctl.draft \in Nat
        BY <1>1, RecordsTyped
    <2> QED
        BY <1>1, <2>1 DEF Drafts
<1>3. Decision \in DecisionRows
    BY <1>1, <1>2 DEF Decision, DecisionRows
<1>4. None \notin DecisionRows
    BY IntakeAssumption DEF DecisionRows, Evidences, Policies
<1> QED
    BY <1>1, <1>2, <1>3, <1>4 DEF Decision, Consumption, Consumptions

\* An approval's specification ends with what its draft says.
LEMMA ChainSays ==
    ASSUME IntakeTypeOK, PlanKept, ctl.op = "approve", ctl.pc \notin {"idle", "reading", "first"},
           ctl.plan # "again"
    PROVE  Says(ctl.chain, ctl.draft)
<1>1. CASE ctl.plan = "create"
    <2>1. ctl.chain = <<DecisionOf("create")>>
        BY <1>1 DEF PlanKept
    <2> QED
        BY <2>1 DEF Says, DecisionOf
<1>2. CASE ctl.plan = "amend"
    <2>1. ctl.chain = IF Says(ctl.basis, ctl.draft) THEN ctl.basis ELSE Append(ctl.basis, DecisionOf("amend"))
        BY <1>2 DEF PlanKept
    <2>2. CASE Says(ctl.basis, ctl.draft)
        BY <2>1, <2>2
    <2>3. CASE ~Says(ctl.basis, ctl.draft)
        <3>1. ctl.basis \in Seq(Decisions \cup Creations)
            BY DEF IntakeTypeOK, Facts
        <3>2. ctl.chain = Append(ctl.basis, DecisionOf("amend"))
            BY <2>1, <2>3
        <3>3. Len(ctl.chain) = Len(ctl.basis) + 1 /\ ctl.chain[Len(ctl.basis) + 1] = DecisionOf("amend")
            BY <3>1, <3>2
        <3> QED
            BY <3>3 DEF Says, DecisionOf
    <2> QED
        BY <2>2, <2>3
<1> QED
    BY <1>1, <1>2 DEF PlanKept

\* Keeping a draft changes no record.
LEMMA GrowsDrafted == ASSUME IntakeTypeOK, Drafted PROVE RecordsGrow
<1>1. recs'.drafts = recs.drafts \/ \E draft \in Drafts : recs'.drafts = Append(recs.drafts, draft)
    BY DEF Drafted
<1>2. recs.drafts \in Seq(Drafts)
    BY RecordsTyped
<1>3. \A i \in DOMAIN recs.drafts : i \in DOMAIN recs'.drafts /\ recs'.drafts[i] = recs.drafts[i]
    BY <1>1, <1>2
<1> QED
    BY <1>3 DEF Drafted, RecordsGrow

\* Writing an approval changes no record that is there.
LEMMA GrowsWritten == ASSUME IntakeTypeOK, Entered PROVE RecordsGrow
<1>1. \A d \in DecisionIds : recs.decisions[d] # None => recs'.decisions[d] = recs.decisions[d]
    <2>1. recs.decisions[ctl.d] \in {None, Decision} /\ recs'.decisions = [recs.decisions EXCEPT ![ctl.d] = Decision]
        BY DEF Entered, DecisionFree
    <2>2. DOMAIN recs.decisions = DecisionIds
        BY RecordsTyped
    <2> QED
        BY <2>1, <2>2
<1>2. \A c \in DOMAIN recs.consumed : c \in DOMAIN recs'.consumed /\ recs'.consumed[c] = recs.consumed[c]
    <2>1. recs'.consumed = recs.consumed \/ recs'.consumed = Append(recs.consumed, Consumption)
        BY DEF Entered
    <2>2. recs.consumed \in Seq(Consumptions)
        BY RecordsTyped
    <2> QED
        BY <2>1, <2>2
<1>3. recs'.drafts = recs.drafts
    BY DEF Entered
<1> QED
    BY <1>1, <1>2, <1>3 DEF RecordsGrow

\* Nothing changes a record when all of them are kept.
LEMMA GrowsKept == ASSUME Kept PROVE RecordsGrow
BY DEF Kept, RecordsGrow

\* _record_draft() adds a draft at most.
LEMMA RecordDraftMoves ==
    ASSUME IntakeTypeOK, NEW observed \in 1..world.now, RecordDraft(observed)
    PROVE  Drafted
<1> DEFINE draft == [decl |-> ctl.decl, ev |-> Evidence(ctl.decl)]
           n == Len(recs.drafts)
<1>1. /\ ctl.pc = "reading" /\ Content(draft) \in Specs
      /\ recs' = [recs EXCEPT !.age = BaselineAge(observed),
                              !.drafts = IF n > 0 /\ recs.drafts[n] = draft THEN @ ELSE Append(@, draft)]
    BY DEF RecordDraft
<1>2. draft \in Drafts
    <2>1. Content(draft) = <<ctl.decl, Evidence(ctl.decl)>>
        BY DEF Content
    <2>2. Content(draft)[1] = ctl.decl /\ Content(draft)[2] = Evidence(ctl.decl)
        BY <2>1
    <2>3. ctl.decl \in {s[1] : s \in Specs} /\ Evidence(ctl.decl) \in Evidences
        BY <1>1, <2>2 DEF Evidences
    <2> QED
        BY <1>1, <2>3 DEF Drafts
<1>3. BaselineAge(observed) \in Nat
    BY DEF BaselineAge, IntakeTypeOK
<1> HIDE DEF draft
<1> QED
    BY <1>1, <1>2, <1>3 DEF Drafted, IntakeTypeOK

\* The end of an approval's transaction writes the approval's records or none.
LEMMA ApprovalCommitsMoves ==
    ASSUME IntakeTypeOK, WayTaken, RecordsKept, ApprovalCommits
    PROVE  Kept \/ Entered
<1>1. CASE ctl.policy = "plain"
    BY <1>1 DEF ApprovalCommits, Kept
<1>2. CASE ctl.policy # "plain"
    <2>1. recs' = WithConsumption(WithDecision([recs EXCEPT !.bound = ctl.expires])) /\ ctl.pc = "admitting"
          /\ ctl.op = "approve" /\ ctl.policy = "budget"
        BY <1>2 DEF ApprovalCommits, WithBudget, WayTaken, IntakeTypeOK, Policies
    <2>2. DecisionFree
        BY <2>1 DEF RecordsKept
    <2>3. DOMAIN recs = {"drafts", "reviews", "decisions", "consumed", "age", "origin", "bound"}
        BY DEF IntakeTypeOK
    <2>4. /\ recs'.drafts = recs.drafts /\ recs'.age = recs.age
          /\ recs'.decisions = [recs.decisions EXCEPT ![ctl.d] = Decision]
        BY <2>1, <2>3 DEF WithConsumption, WithDecision
    <2>5. \/ recs'.consumed = recs.consumed
          \/ Matching = {} /\ ctl.plan # "again" /\ recs'.consumed = Append(recs.consumed, Consumption)
        BY <2>1, <2>3 DEF WithConsumption, WithDecision
    <2> QED
        BY <2>1, <2>2, <2>4, <2>5 DEF Entered
<1> QED
    BY <1>1, <1>2

\* Distinct consumptions have distinct decisions.
ConsumedOnce ==
    \A c, e \in DOMAIN recs.consumed : recs.consumed[c].decision = recs.consumed[e].decision => c = e

\* The records of decisions and consumptions, after an approval is entered.
LEMMA EnteredDecided ==
    ASSUME IntakeTypeOK, PlanKept, ConsumptionsDecided, ConsumedOnce, Entered
    PROVE  ConsumptionsDecided' /\ ConsumedOnce'
<1>1. /\ ctl.op = "approve" /\ ctl.pc \notin {"idle", "reading", "first"}
      /\ recs.decisions[ctl.d] \in {None, Decision}
      /\ recs'.drafts = recs.drafts /\ recs'.decisions = [recs.decisions EXCEPT ![ctl.d] = Decision]
    BY DEF Entered, DecisionFree
<1>2. /\ recs.consumed \in Seq(Consumptions) /\ DOMAIN recs.decisions = DecisionIds
      /\ Decision # None /\ Decision.draft = ctl.draft /\ ctl.d \in DecisionIds
      /\ ctl.draft \in DOMAIN recs.drafts
      /\ Consumption.decision = ctl.d /\ Consumption.draft = ctl.draft /\ Consumption.chain = ctl.chain
    BY <1>1, RecordsTyped, DecisionTyped
<1>3. recs'.decisions[ctl.d] = Decision /\ \A d \in DecisionIds : d # ctl.d => recs'.decisions[d] = recs.decisions[d]
    BY <1>1, <1>2
<1>4. \A d \in DecisionIds : recs'.decisions[d] # None => recs'.decisions[d].draft \in DOMAIN recs'.drafts
    <2>1. \A d \in DecisionIds : recs.decisions[d] # None => recs.decisions[d].draft \in DOMAIN recs.drafts
        BY DEF ConsumptionsDecided
    <2> QED
        BY <1>1, <1>2, <1>3, <2>1
<1> DEFINE Fits(row) == /\ recs'.decisions[row.decision] # None /\ recs'.decisions[row.decision].draft = row.draft
                        /\ row.chain[Len(row.chain)][2] = Content(recs.drafts[row.draft])
<1>5. \A c \in DOMAIN recs.consumed : Fits(recs.consumed[c])
    <2> SUFFICES ASSUME NEW c \in DOMAIN recs.consumed
                 PROVE  Fits(recs.consumed[c])
        OBVIOUS
    <2> DEFINE row == recs.consumed[c]
    <2>1. /\ recs.decisions[row.decision] # None /\ recs.decisions[row.decision].draft = row.draft
          /\ row.chain[Len(row.chain)][2] = Content(recs.drafts[row.draft])
        BY DEF ConsumptionsDecided, Says
    <2>2. row.decision \in DecisionIds
        <3>1. row \in Consumptions
            BY <1>2
        <3> QED
            BY <3>1 DEF Consumptions
    <2> HIDE DEF row
    <2>3. Fits(row)
        BY <1>1, <1>3, <2>1, <2>2
    <2> QED
        BY <2>3 DEF row
<1>6. ctl.plan # "again" => Fits(Consumption)
    <2>1. ctl.plan # "again" => ctl.chain[Len(ctl.chain)][2] = Content(recs.drafts[ctl.draft])
        BY <1>1, ChainSays DEF Says
    <2> QED
        BY <1>2, <1>3, <2>1
<1>7. CASE recs'.consumed = recs.consumed
    <2>1. \A c \in DOMAIN recs'.consumed : Fits(recs'.consumed[c])
        BY <1>5, <1>7
    <2>2. ConsumptionsDecided'
        BY <1>1, <1>4, <2>1 DEF ConsumptionsDecided, Says, Content
    <2> QED
        BY <1>7, <2>2 DEF ConsumedOnce
<1>8. CASE Matching = {} /\ ctl.plan # "again" /\ recs'.consumed = Append(recs.consumed, Consumption)
    <2> DEFINE n == Len(recs.consumed) + 1
    <2>1. /\ DOMAIN recs'.consumed = DOMAIN recs.consumed \cup {n} /\ recs'.consumed[n] = Consumption
          /\ n \notin DOMAIN recs.consumed
          /\ \A c \in DOMAIN recs.consumed : recs'.consumed[c] = recs.consumed[c]
        BY <1>2, <1>8
    <2> HIDE DEF n, Fits
    <2>2. \A c \in DOMAIN recs'.consumed : Fits(recs'.consumed[c])
        BY <1>5, <1>6, <1>8, <2>1
    <2>3. ConsumptionsDecided'
        BY <1>1, <1>4, <2>2 DEF ConsumptionsDecided, Says, Content, Fits
    <2>4. \A c \in DOMAIN recs.consumed : recs.consumed[c].decision # ctl.d
        BY <1>8 DEF Matching
    <2>5. ConsumedOnce'
        BY <1>2, <2>1, <2>4 DEF ConsumedOnce
    <2> QED
        BY <2>3, <2>5
<1> QED
    BY <1>7, <1>8 DEF Entered

\* A draft or an owner's judgement leaves decisions and consumptions as they are.
LEMMA DraftedDecided ==
    ASSUME IntakeTypeOK, ConsumptionsDecided, ConsumedOnce, Kept \/ Drafted
    PROVE  ConsumptionsDecided' /\ ConsumedOnce'
<1>1. recs'.decisions = recs.decisions /\ recs'.consumed = recs.consumed
    BY DEF Kept, Drafted
<1>2. \A i \in DOMAIN recs.drafts : i \in DOMAIN recs'.drafts /\ recs'.drafts[i] = recs.drafts[i]
    BY GrowsKept, GrowsDrafted DEF RecordsGrow
<1>3. recs.consumed \in Seq(Consumptions)
    BY RecordsTyped
<1>4. \A d \in DecisionIds : recs'.decisions[d] # None => recs'.decisions[d].draft \in DOMAIN recs'.drafts
    BY <1>1, <1>2 DEF ConsumptionsDecided
<1>5. \A c \in DOMAIN recs'.consumed :
          LET row == recs'.consumed[c]
          IN  /\ recs'.decisions[row.decision] # None /\ recs'.decisions[row.decision].draft = row.draft
              /\ row.chain[Len(row.chain)][2] = Content(recs'.drafts[recs'.decisions[row.decision].draft])
    <2> SUFFICES ASSUME NEW c \in DOMAIN recs.consumed
                 PROVE  LET row == recs.consumed[c]
                        IN  /\ recs.decisions[row.decision] # None
                            /\ recs.decisions[row.decision].draft = row.draft
                            /\ row.chain[Len(row.chain)][2]
                                   = Content(recs'.drafts[recs.decisions[row.decision].draft])
        BY <1>1
    <2> DEFINE row == recs.consumed[c]
    <2>1. /\ recs.decisions[row.decision] # None /\ recs.decisions[row.decision].draft = row.draft
          /\ row.chain[Len(row.chain)][2] = Content(recs.drafts[recs.decisions[row.decision].draft])
        BY DEF ConsumptionsDecided, Says
    <2>2. row.decision \in DecisionIds
        <3>1. row \in Consumptions
            BY <1>3
        <3> QED
            BY <3>1 DEF Consumptions
    <2>3. recs.decisions[row.decision].draft \in DOMAIN recs.drafts
        BY <2>1, <2>2 DEF ConsumptionsDecided
    <2> QED
        BY <1>2, <2>1, <2>3
<1>6. ConsumptionsDecided'
    BY <1>4, <1>5 DEF ConsumptionsDecided, Says, Content
<1> QED
    BY <1>1, <1>6 DEF ConsumedOnce

-----------------------------------------------------------------------------
(* The call under way. *)

\* The caller's memory goes on with the same call.
Proceeds ==
    /\ DOMAIN ctl' = DOMAIN ctl
    /\ ctl'.op = ctl.op /\ ctl'.d = ctl.d /\ ctl'.draft = ctl.draft /\ ctl'.expires = ctl.expires
    /\ ctl'.policy = ctl.policy /\ ctl'.ev = ctl.ev /\ ctl'.plan = ctl.plan /\ ctl'.chain = ctl.chain
    /\ ctl'.basis = ctl.basis /\ ctl'.expected = ctl.expected
    /\ ctl'.pc # "idle" /\ ctl.pc \notin {"idle", "reading"}
    /\ ctl.pc # "first" \/ ctl.op = "handoff"

\* A call that goes on is about the same decision and the same consumptions.
LEMMA Carried ==
    ASSUME Proceeds, RecordsGrow
    PROVE  /\ Decision' = Decision /\ Consumption' = Consumption
           /\ \A c \in Matching : c \in Matching' /\ recs'.consumed[c] = recs.consumed[c]
BY DEF Proceeds, RecordsGrow, Decision, Consumption, Matching

\* An approval keeps the way it was planned.
LEMMA PlanProceeds ==
    ASSUME IntakeTypeOK, PlanKept, RecordsGrow, Proceeds
    PROVE  PlanKept'
<1> SUFFICES ASSUME ctl.op = "approve"
             PROVE  PlanKept'
    BY DEF PlanKept, Proceeds
<1>1. ctl.pc \notin {"idle", "reading", "first"} /\ ctl'.draft = ctl.draft
    BY DEF Proceeds
<1>2. ctl.draft \in DOMAIN recs.drafts
    BY <1>1 DEF IntakeTypeOK
<1>3. recs'.drafts[ctl'.draft] = recs.drafts[ctl.draft]
    BY <1>1, <1>2 DEF RecordsGrow
<1>4. CASE ctl.plan = "create"
    <2>1. ctl.basis = <<>> /\ ctl.chain = <<DecisionOf("create")>>
        BY <1>1, <1>4 DEF PlanKept
    <2>2. ctl'.plan = "create" /\ ctl'.basis = <<>> /\ ctl'.chain = <<DecisionOf("create")>>'
        BY <1>1, <1>3, <1>4, <2>1 DEF Proceeds, DecisionOf, Content
    <2> QED
        BY <2>2 DEF PlanKept
<1>5. CASE ctl.plan = "amend"
    <2>1. ctl.chain = IF Says(ctl.basis, ctl.draft) THEN ctl.basis ELSE Append(ctl.basis, DecisionOf("amend"))
        BY <1>1, <1>5 DEF PlanKept
    <2>2. Says(ctl.basis, ctl.draft)' = Says(ctl.basis, ctl.draft) /\ DecisionOf("amend")' = DecisionOf("amend")
        BY <1>3 DEF Proceeds, Says, DecisionOf, Content
    <2>3. /\ ctl'.plan = "amend"
          /\ ctl'.chain = IF Says(ctl.basis, ctl.draft)' THEN ctl'.basis
                          ELSE Append(ctl'.basis, DecisionOf("amend")')
        BY <1>5, <2>1, <2>2 DEF Proceeds
    <2> QED
        BY <2>3 DEF PlanKept
<1>6. CASE ctl.plan = "again"
    <2>1. ctl.chain = ctl.basis /\ \E c \in Matching : recs.consumed[c].chain = ctl.chain
        BY <1>1, <1>6 DEF PlanKept
    <2>2. /\ ctl'.plan = "again" /\ ctl'.chain = ctl'.basis
          /\ \E c \in Matching' : recs'.consumed[c].chain = ctl'.chain
        BY <1>6, <2>1, Carried DEF Proceeds
    <2> QED
        BY <2>2 DEF PlanKept
<1> QED
    BY <1>1, <1>4, <1>5, <1>6 DEF PlanKept

\* The plan of a call holds while nothing it rests on moves.
LEMMA PlanStays ==
    ASSUME PlanKept, Kept, ctl' = ctl
    PROVE  PlanKept'
<1>1. recs'.drafts = recs.drafts /\ recs'.consumed = recs.consumed
    BY DEF Kept
<1> QED
    BY <1>1 DEF PlanKept, Says, DecisionOf, Content, Matching

\* A step that carries the records of the call on.
Carries ==
    /\ Proceeds /\ Kept /\ result' = result
    /\ ctl.op = "approve" /\ ctl.policy = "plain" =>
          /\ ctl'.pc \in {"consume", "third", "admitting", "final", "cut"} =>
                ctl.pc \in {"consume", "third", "admitting", "final", "cut"}
          /\ ctl'.pc \in {"third", "admitting", "final", "cut"} =>
                ctl.pc \in {"third", "admitting", "final", "cut"}
    /\ ctl.op = "handoff" /\ ctl'.pc \in {"second", "final", "cut"} => ctl.pc \in {"second", "final", "cut"}
    /\ ctl'.pc = "admitting" /\ ctl.policy = "budget" => DecisionFree /\ ConsumptionFree

\* What a call has written stays written while the call goes on.
LEMMA RecordsCarried ==
    ASSUME RecordsKept, Carries
    PROVE  RecordsKept'
<1>1. /\ recs'.decisions = recs.decisions /\ recs'.consumed = recs.consumed
      /\ Decision' = Decision /\ Consumption' = Consumption /\ Matching' = Matching
    BY DEF Carries, Kept, Proceeds, Decision, Consumption, Matching
<1>2. ctl'.plan = ctl.plan /\ ctl'.d = ctl.d /\ ctl'.op = ctl.op /\ ctl'.policy = ctl.policy
      /\ ctl'.chain = ctl.chain /\ ctl'.draft = ctl.draft /\ ctl'.expires = ctl.expires /\ result' = result
    BY DEF Carries, Proceeds
<1>3. ctl'.pc = "admitting" /\ ctl'.policy = "budget" => (DecisionFree /\ ConsumptionFree)'
    BY <1>1, <1>2 DEF Carries, DecisionFree, ConsumptionFree
<1>4. ctl'.op = "approve" /\ ctl'.policy = "plain" =>
          /\ ctl'.pc \in {"consume", "third", "admitting", "final", "cut"} => recs'.decisions[ctl'.d] = Decision'
          /\ ctl'.pc \in {"third", "admitting", "final", "cut"} /\ ctl'.plan # "again" =>
                \E c \in Matching' : recs'.consumed[c] = Consumption'
    BY <1>1, <1>2 DEF Carries, RecordsKept
<1>5. ctl'.pc # "idle" /\ ctl'.op = "handoff" =>
          /\ recs'.decisions[ctl'.d] # None
          /\ recs'.decisions[ctl'.d].draft = ctl'.draft /\ recs'.decisions[ctl'.d].expires = ctl'.expires
          /\ ctl'.pc \in {"second", "final", "cut"} => \E c \in Matching' : recs'.consumed[c].chain = ctl'.chain
    BY <1>1, <1>2 DEF Carries, Proceeds, RecordsKept
<1>6. result' # None => recs'.decisions[result'.d] # None /\ recs'.decisions[result'.d].draft = result'.draft
    BY <1>1, <1>2 DEF RecordsKept
<1> QED
    BY <1>3, <1>4, <1>5, <1>6 DEF RecordsKept

\* A step that leaves the call alone, or ends it.
LEMMA RecordsStay ==
    ASSUME RecordsKept, Kept, ctl' = ctl, result' = result
    PROVE  RecordsKept'
<1>1. recs'.decisions = recs.decisions /\ recs'.consumed = recs.consumed
    BY DEF Kept
<1> QED
    BY <1>1 DEF RecordsKept, Decision, Consumption, Matching, DecisionFree, ConsumptionFree

\* A call that is over, or has written nothing yet, has nothing to keep.
LEMMA RecordsEnd ==
    ASSUME IntakeTypeOK, RecordsKept, RecordsGrow, ctl'.pc \in {"idle", "reading", "first", "second", "accept"},
           ctl'.pc = "idle" \/ ctl'.op # "handoff", result' = None \/ result' = result
    PROVE  RecordsKept'
<1>1. result # None => recs'.decisions[result.d] = recs.decisions[result.d]
    <2> SUFFICES ASSUME result # None
                 PROVE  recs'.decisions[result.d] = recs.decisions[result.d]
        OBVIOUS
    <2>1. result.d \in DecisionIds
        BY DEF IntakeTypeOK
    <2> QED
        BY <2>1 DEF RecordsKept, RecordsGrow
<1> QED
    BY <1>1 DEF RecordsKept

\* A call that ends with an answer.
LEMMA RecordsTold ==
    ASSUME IntakeTypeOK, recs'.decisions[ctl.d] # None, recs'.decisions[ctl.d].draft = ctl.draft,
           ctl' = Quiet, NEW at, result' = Told(at)
    PROVE  RecordsKept'
<1>1. ctl'.pc = "idle" /\ ctl'.op = None /\ result'.d = ctl.d /\ result'.draft = ctl.draft
    BY DEF Told, Quiet
<1> QED
    BY <1>1 DEF RecordsKept

\* What a call keeps in memory.
Memory == {"pc", "op", "d", "draft", "decl", "expires", "policy", "before", "ev", "plan", "chain", "basis",
           "expected", "at"}

\* A call's memory has these fields.
LEMMA MemoryIs == IntakeTypeOK => DOMAIN ctl =
    {"pc", "op", "d", "draft", "decl", "expires", "policy", "before", "ev", "plan", "chain", "basis",
     "expected", "at"}
BY DEF IntakeTypeOK, Quiet

\* approve() begins with nothing read.
LEMMA ApproveAsks ==
    ASSUME NEW d, NEW i, NEW terms, Approve(d, i, terms)
    PROVE  /\ ctl'.pc = "reading" /\ ctl'.op = "approve" /\ ctl'.d = d /\ ctl'.draft = i
           /\ ctl'.expires = terms.expires /\ ctl'.policy = terms.policy /\ ctl'.chain = <<>>
           /\ ctl'.basis = <<>> /\ ctl'.expected = -1 /\ ctl'.at = 0 /\ DOMAIN ctl' = DOMAIN Quiet
<1>1. ctl' = [Quiet EXCEPT !.pc = "reading", !.op = "approve", !.d = d, !.draft = i,
                           !.decl = recs.drafts[i].decl, !.expires = terms.expires, !.policy = terms.policy,
                           !.before = world.native]
    BY DEF Approve
<1>2. /\ DOMAIN Quiet = {"pc", "op", "d", "draft", "decl", "expires", "policy", "before", "ev", "plan", "chain", "basis",
                         "expected", "at"}
      /\ Quiet.chain = <<>> /\ Quiet.basis = <<>> /\ Quiet.expected = -1 /\ Quiet.at = 0
    BY DEF Quiet
<1> QED
    BY <1>1, <1>2

\* The handoff begins with what the approval before it answered.
LEMMA HandoffAsks ==
    ASSUME Handoff
    PROVE  /\ ctl'.pc = "reading" /\ ctl'.op = "handoff" /\ ctl'.d = result.d /\ ctl'.draft = result.draft
           /\ ctl'.chain = result.chain /\ ctl'.expires = recs.decisions[result.d].expires
           /\ ctl'.basis = <<>> /\ ctl'.expected = -1 /\ ctl'.at = 0 /\ DOMAIN ctl' = DOMAIN Quiet
           /\ ctl.pc = "idle" /\ result # None /\ up /\ UNCHANGED <<vars, recs, result, world>>
<1>1. ctl' = [Quiet EXCEPT !.pc = "reading", !.op = "handoff", !.d = result.d, !.draft = result.draft,
                           !.decl = recs.drafts[result.draft].decl, !.chain = result.chain,
                           !.expires = recs.decisions[result.d].expires, !.before = world.native]
    BY DEF Handoff
<1>2. /\ DOMAIN Quiet = {"pc", "op", "d", "draft", "decl", "expires", "policy", "before", "ev", "plan", "chain", "basis",
                         "expected", "at"}
      /\ Quiet.basis = <<>> /\ Quiet.expected = -1 /\ Quiet.at = 0
    BY DEF Quiet
<1>3. ctl.pc = "idle" /\ result # None /\ up /\ UNCHANGED <<vars, recs, result, world>>
    BY DEF Handoff, Idle
<1> QED
    BY <1>1, <1>2, <1>3

\* The evaluator's answer changes what the call knows of the evidence, and the records' age.
LEMMA ReceivedMoves ==
    ASSUME IntakeTypeOK, NEW observed \in 1..world.now, Received(observed)
    PROVE  /\ Drafted /\ ctl.pc = "reading" /\ ctl.op # "prepare" /\ ctl'.pc = "first"
           /\ recs'.drafts = recs.drafts /\ recs'.reviews = recs.reviews
           /\ ctl'.ev = recs.drafts[ctl.draft].ev /\ UNCHANGED <<vars, result, world>>
           /\ DOMAIN ctl' = DOMAIN ctl /\ ctl'.op = ctl.op /\ ctl'.d = ctl.d /\ ctl'.draft = ctl.draft
           /\ ctl'.expires = ctl.expires /\ ctl'.policy = ctl.policy /\ ctl'.chain = ctl.chain
           /\ ctl'.basis = ctl.basis /\ ctl'.expected = ctl.expected /\ ctl'.at = ctl.at
<1>1. recs' = [recs EXCEPT !.age = BaselineAge(observed)] /\ ctl.pc = "reading" /\ ctl.op # "prepare"
    BY DEF Received
<1>2. BaselineAge(observed) \in Nat
    BY DEF BaselineAge, IntakeTypeOK
<1>3. Drafted /\ recs'.drafts = recs.drafts /\ recs'.reviews = recs.reviews
    BY <1>1, <1>2 DEF Drafted, IntakeTypeOK
<1>4. ctl' = [ctl EXCEPT !.pc = "first", !.ev = Evidence(ctl.decl)] /\ Evidence(ctl.decl) = recs.drafts[ctl.draft].ev
    <2>1. DOMAIN ctl = Memory
        BY MemoryIs DEF Memory
    <2> QED
        BY <2>1 DEF Received, Memory
<1>5. UNCHANGED <<vars, result, world>>
    BY DEF Received
<1> QED
    BY <1>1, <1>3, <1>4, <1>5, MemoryIs

\* The records of a call, in the steps that write or compare them.
LEMMA HandoffRecords ==
    ASSUME IntakeTypeOK, RecordsKept, Handoff
    PROVE  RecordsKept'
<1>1. /\ ctl'.pc = "reading" /\ ctl'.op = "handoff" /\ ctl'.d = result.d /\ ctl'.draft = result.draft
      /\ ctl'.expires = recs.decisions[result.d].expires /\ result # None /\ recs' = recs /\ result' = result
    BY HandoffAsks
<1> QED
    BY <1>1 DEF RecordsKept

\* A call that has just had its evidence confirmed has written nothing.
LEMMA ReceivedRecords ==
    ASSUME IntakeTypeOK, RecordsKept, NEW observed \in 1..world.now, Received(observed)
    PROVE  RecordsKept'
<1>1. /\ recs'.decisions = recs.decisions /\ ctl'.pc = "first" /\ ctl'.op = ctl.op /\ ctl'.d = ctl.d
      /\ ctl'.draft = ctl.draft /\ ctl'.expires = ctl.expires /\ result' = result /\ ctl.pc = "reading"
    BY ReceivedMoves DEF Drafted
<1> QED
    BY <1>1 DEF RecordsKept

\* Comparing with the records leaves them as they are.
LEMMA CompareRecords ==
    ASSUME IntakeTypeOK, RecordsKept, Compare
    PROVE  RecordsKept'
<1>1. /\ recs' = recs /\ result' = result /\ ctl.pc = "first" /\ ctl.op = "handoff"
      /\ ctl' = [ctl EXCEPT !.pc = "second"] /\ \E c \in Matching : recs.consumed[c].chain = ctl.chain
    BY DEF Compare
<1>2. /\ ctl'.pc = "second" /\ ctl'.op = "handoff" /\ ctl'.d = ctl.d /\ ctl'.draft = ctl.draft
      /\ ctl'.expires = ctl.expires /\ ctl'.chain = ctl.chain
    BY <1>1, MemoryIs
<1> QED
    BY <1>1, <1>2 DEF RecordsKept, Matching

\* After record_decision() the decision is there.
LEMMA DecisionRecords ==
    ASSUME IntakeTypeOK, RecordsKept, RecordDecision
    PROVE  RecordsKept'
<1>1. /\ recs' = WithDecision(recs) /\ result' = result /\ ctl.pc = "second" /\ ctl.op = "approve" /\ DecisionFree
      /\ ctl' = [ctl EXCEPT !.pc = "consume"]
    BY DEF RecordDecision
<1>2. /\ ctl'.pc = "consume" /\ ctl'.op = "approve" /\ ctl'.d = ctl.d /\ Decision' = Decision
    BY <1>1, MemoryIs DEF Decision
<1>3. ctl.d \in DecisionIds /\ Decision # None /\ DOMAIN recs.decisions = DecisionIds
    BY <1>1, DecisionTyped, RecordsTyped
<1>4. recs'.decisions = [recs.decisions EXCEPT ![ctl.d] = Decision]
    BY <1>1 DEF WithDecision, IntakeTypeOK
<1>5. recs'.decisions[ctl.d] = Decision
    BY <1>3, <1>4
<1>6. result # None => recs'.decisions[result.d] # None /\ recs'.decisions[result.d].draft = result.draft
    BY <1>1, <1>3, <1>4 DEF RecordsKept, DecisionFree
<1> QED
    BY <1>1, <1>2, <1>5, <1>6 DEF RecordsKept

\* After record_consumption() decision and consumption are there.
LEMMA ConsumptionRecords ==
    ASSUME IntakeTypeOK, WayTaken, RecordsKept, RecordConsumption, ctl' = [ctl EXCEPT !.pc = "third"]
    PROVE  RecordsKept'
<1>1. /\ recs' = WithConsumption(recs) /\ result' = result /\ ctl.pc = "consume" /\ ConsumptionFree
    BY DEF RecordConsumption
<1>2. ctl.op = "approve" /\ ctl.policy = "plain" /\ recs.decisions[ctl.d] = Decision
    BY <1>1 DEF WayTaken, RecordsKept
<1>3. /\ ctl'.pc = "third" /\ ctl'.op = "approve" /\ ctl'.d = ctl.d /\ Decision' = Decision
      /\ Consumption' = Consumption /\ ctl'.plan = ctl.plan
    BY <1>2, MemoryIs DEF Decision, Consumption
<1>4. recs'.decisions = recs.decisions
    BY <1>1 DEF WithConsumption, IntakeTypeOK
<1>5. ctl.plan # "again" => \E c \in Matching' : recs'.consumed[c] = Consumption
    <2> SUFFICES ASSUME ctl.plan # "again"
                 PROVE  \E c \in Matching' : recs'.consumed[c] = Consumption
        OBVIOUS
    <2>1. CASE Matching # {}
        <3>1. recs' = recs /\ \A c \in Matching : recs.consumed[c] = Consumption
            BY <1>1, <2>1 DEF WithConsumption, ConsumptionFree
        <3>2. Matching' = Matching
            BY <1>3, <3>1 DEF Matching
        <3> QED
            BY <2>1, <3>1, <3>2
    <2>2. CASE Matching = {}
        <3>1. recs'.consumed = Append(recs.consumed, Consumption)
            BY <1>1, <2>2 DEF WithConsumption, IntakeTypeOK
        <3>2. recs.consumed \in Seq(Consumptions) /\ Consumption.decision = ctl.d
            BY <1>1, <1>2, RecordsTyped, DecisionTyped
        <3>3. /\ Len(recs.consumed) + 1 \in DOMAIN recs'.consumed
              /\ recs'.consumed[Len(recs.consumed) + 1] = Consumption
            BY <3>1, <3>2
        <3>4. Len(recs.consumed) + 1 \in Matching'
            BY <1>3, <3>2, <3>3 DEF Matching
        <3> QED
            BY <3>3, <3>4
    <2> QED
        BY <2>1, <2>2
<1>6. result # None => recs'.decisions[result.d] # None /\ recs'.decisions[result.d].draft = result.draft
    BY <1>4 DEF RecordsKept
<1> QED
    BY <1>1, <1>2, <1>3, <1>4, <1>5, <1>6 DEF RecordsKept

\* A call that ends in _final_program() has its decision on record.
LEMMA CloseFinalRecords ==
    ASSUME IntakeTypeOK, WayTaken, RecordsKept, CloseFinal
    PROVE  /\ ctl.d \in DecisionIds /\ recs.decisions[ctl.d] # None /\ recs.decisions[ctl.d].draft = ctl.draft
           /\ recs.decisions[ctl.d].expires = ctl.expires
<1>1. ctl.pc = "cut" /\ ctl.op \in {"approve", "handoff"} /\ ctl.d \in DecisionIds
    BY DEF CloseFinal, IntakeTypeOK
<1>2. CASE ctl.op = "approve"
    <2>1. recs.decisions[ctl.d] = Decision
        BY <1>1, <1>2 DEF RecordsKept, WayTaken
    <2> QED
        BY <1>1, <1>2, <2>1, DecisionTyped
<1>3. CASE ctl.op = "handoff"
    BY <1>1, <1>3 DEF RecordsKept
<1> QED
    BY <1>1, <1>2, <1>3

-----------------------------------------------------------------------------
(* The steps of the intake. *)

\* The steps of the intake, by what they do to the call under way: steps beside it, steps
\* that drop it, and steps that carry it on.
Beside ==
    \/ \E n \in 0..world.native, decl \in Declarations, remains \in BOOLEAN : Review(n, decl, remains)
    \/ OtherBegins \/ OtherReplays \/ OtherEnds \/ Statement \/ Starts \/ TimePasses \/ NativeChanges
    \/ UNCHANGED allVars
Drops == ApprovalFails \/ GiveUp \/ ProcessDies
Carrying == Confirmed \/ Submit \/ OpenFinal \/ Validated \/ AcceptCommand \/ AcceptBudget
Asking == \E decl \in Declarations : Prepare(decl)
Drafting == \E observed \in 1..world.now : RecordDraft(observed)
Receiving == \E observed \in 1..world.now : Received(observed)
Approving == \E d \in DecisionIds, i \in DOMAIN recs.drafts : \E terms \in Terms[d] : Approve(d, i, terms)
Planning == \E plan \in {"again", "create", "amend"} : Plan(plan)

\* The groups are all the steps there are.
LEMMA Cases ==
    ASSUME [IntakeNext]_allVars
    PROVE  \/ Beside \/ Drops \/ Carrying \/ Asking \/ Drafting \/ Receiving \/ Approving \/ Planning
           \/ Handoff \/ Compare \/ RecordDecision \/ RecordConsumption \/ CloseFinal \/ AcceptRecords
           \/ ApprovalCommits
BY Zenon DEF IntakeNext, Beside, Drops, Carrying, Asking, Drafting, Receiving, Approving, Planning

\* A step beside the call adds a review at most.
LEMMA BesideMoves ==
    ASSUME IntakeTypeOK, Beside
    PROVE  /\ ctl' = ctl /\ result' = result /\ Kept
           /\ recs' = recs \/ \E r \in [native : Nat, decl : Declarations, remains : BOOLEAN] :
                                  recs' = [recs EXCEPT !.reviews = Append(@, r)]
           /\ world' \in [native : Nat, now : Nat]
<1>1. CASE \E n \in 0..world.native, decl \in Declarations, remains \in BOOLEAN : Review(n, decl, remains)
    <2>1. PICK n \in 0..world.native, decl \in Declarations, remains \in BOOLEAN : Review(n, decl, remains)
        BY <1>1
    <2> DEFINE r == [native |-> n, decl |-> decl, remains |-> remains]
    <2>2. recs' = [recs EXCEPT !.reviews = Append(@, r)] /\ ctl' = ctl /\ result' = result /\ world' = world
        BY <2>1 DEF Review
    <2>3. r \in [native : Nat, decl : Declarations, remains : BOOLEAN]
        BY DEF IntakeTypeOK
    <2> HIDE DEF r
    <2> QED
        BY <2>2, <2>3 DEF Kept, IntakeTypeOK
<1>2. CASE OtherBegins \/ OtherReplays \/ OtherEnds \/ Statement \/ Starts \/ UNCHANGED allVars
    <2>1. UNCHANGED intakeVars
        BY <1>2, Zenon DEF OtherBegins, OtherReplays, OtherEnds, Statement, Starts, allVars
    <2> QED
        BY <2>1 DEF intakeVars, Kept, IntakeTypeOK
<1>3. CASE TimePasses \/ NativeChanges
    <2>1. recs' = recs /\ ctl' = ctl /\ result' = result
        BY <1>3 DEF TimePasses, NativeChanges
    <2>2. world \in [native : Nat, now : Nat]
        BY DEF IntakeTypeOK
    <2>3. world' \in [native : Nat, now : Nat]
        BY <1>3, <2>2 DEF TimePasses, NativeChanges
    <2> QED
        BY <2>1, <2>3 DEF Kept
<1> QED
    BY <1>1, <1>2, <1>3 DEF Beside

\* A call that fails or dies leaves the records to the next one.
LEMMA DropsMoves ==
    ASSUME Drops
    PROVE  ctl' = Quiet /\ (result' = None \/ result' = result) /\ recs' = recs /\ world' = world /\ Kept
BY DEF Drops, ApprovalFails, GiveUp, ProcessDies, Kept

\* These steps carry the call on without a record.
LEMMA CarryingMoves ==
    ASSUME IntakeTypeOK, WayTaken, Carrying
    PROVE  Carries
<1>1. DOMAIN ctl = {"pc", "op", "d", "draft", "decl", "expires", "policy", "before", "ev", "plan", "chain", "basis",
                    "expected", "at"}
    BY MemoryIs
<1>2. CASE Confirmed
    BY <1>1, <1>2 DEF Confirmed, WayTaken, Carries, Proceeds, Kept
<1>3. CASE Submit
    BY <1>1, <1>3 DEF Submit, WayTaken, Carries, Proceeds, Kept
<1>4. CASE OpenFinal
    BY <1>1, <1>4 DEF OpenFinal, WayTaken, Carries, Proceeds, Kept
<1>5. CASE Validated
    BY <1>1, <1>5 DEF Validated, WayTaken, Carries, Proceeds, Kept
<1>6. CASE AcceptCommand
    BY <1>1, <1>6 DEF AcceptCommand, WayTaken, Carries, Proceeds, Kept
<1>7. CASE AcceptBudget
    <2>1. Kept
        BY <1>7 DEF AcceptBudget, Kept, IntakeTypeOK
    <2> QED
        BY <1>1, <1>7, <2>1 DEF AcceptBudget, WayTaken, Carries, Proceeds
<1> QED
    BY <1>2, <1>3, <1>4, <1>5, <1>6, <1>7 DEF Carrying

\* The commit of an approval without a budget carries it on, with a budget it ends it.
LEMMA CommitMoves ==
    ASSUME IntakeTypeOK, WayTaken, ApprovalCommits
    PROVE  \/ Carries /\ ctl'.pc = "final" /\ ctl.policy = "plain" /\ recs' = recs
           \/ ctl' = Quiet /\ result' = Told(ctl.at) /\ ctl.policy = "budget" /\ recs' = WithBudget(recs)
<1>1. DOMAIN ctl = {"pc", "op", "d", "draft", "decl", "expires", "policy", "before", "ev", "plan", "chain", "basis",
                    "expected", "at"}
    BY MemoryIs
<1>2. ctl.pc = "admitting" /\ ctl.op = "approve" /\ ctl.policy \in {"plain", "budget"}
    BY DEF ApprovalCommits, WayTaken, IntakeTypeOK, Policies
<1>3. CASE ctl.policy = "plain"
    BY <1>1, <1>2, <1>3 DEF ApprovalCommits, WayTaken, Carries, Proceeds, Kept
<1>4. CASE ctl.policy = "budget"
    BY <1>2, <1>4 DEF ApprovalCommits
<1> QED
    BY <1>2, <1>3, <1>4

\* The steps that write records enter the approval under way.
LEMMA WritesEnter ==
    ASSUME IntakeTypeOK, WayTaken, RecordsKept, RecordDecision \/ RecordConsumption \/ AcceptRecords
    PROVE  Entered
<1>1. ctl.op = "approve" /\ ctl.pc \in {"second", "consume", "submit"}
    BY DEF RecordDecision, RecordConsumption, AcceptRecords, WayTaken
<1>2. recs.decisions \in [DecisionIds -> DecisionRows \cup {None}] /\ ctl.d \in DecisionIds
    BY <1>1, RecordsTyped, DecisionTyped
<1>3. DOMAIN recs = {"drafts", "reviews", "decisions", "consumed", "age", "origin", "bound"}
    BY DEF IntakeTypeOK
<1>4. CASE RecordDecision
    BY <1>1, <1>3, <1>4 DEF RecordDecision, WithDecision, Entered
<1>5. CASE RecordConsumption
    <2>1. recs.decisions[ctl.d] = Decision
        BY <1>5 DEF RecordConsumption, RecordsKept, WayTaken
    <2>2. recs' = WithConsumption(recs)
        BY <1>5 DEF RecordConsumption
    <2>3. recs.decisions = [recs.decisions EXCEPT ![ctl.d] = Decision]
        BY <1>2, <2>1
    <2>4. /\ recs'.drafts = recs.drafts /\ recs'.age = recs.age /\ recs'.decisions = recs.decisions
          /\ \/ recs'.consumed = recs.consumed
             \/ Matching = {} /\ ctl.plan # "again" /\ recs'.consumed = Append(recs.consumed, Consumption)
        BY <1>3, <2>2 DEF WithConsumption
    <2> QED
        BY <1>1, <2>1, <2>3, <2>4 DEF Entered, DecisionFree
<1>6. CASE AcceptRecords
    <2>1. recs' = WithBudget(recs) /\ DecisionFree
        BY <1>6 DEF AcceptRecords
    <2> QED
        BY <1>1, <1>3, <2>1 DEF WithBudget, WithConsumption, WithDecision, Entered
<1> QED
    BY <1>4, <1>5, <1>6

\* Every step keeps the records, adds a draft or enters an approval.
LEMMA RecordsMove ==
    ASSUME IntakeTypeOK, WayTaken, RecordsKept, [IntakeNext]_allVars
    PROVE  Kept \/ Drafted \/ Entered
<1>1. CASE Beside \/ Drops \/ Carrying
    BY <1>1, BesideMoves, DropsMoves, CarryingMoves DEF Carries
<1>2. CASE Asking \/ Approving \/ Planning \/ Handoff \/ Compare \/ CloseFinal
    <2>1. recs' = recs
        BY <1>2, Zenon DEF Asking, Approving, Planning, Prepare, Approve, Plan, Handoff, Compare, CloseFinal
    <2> QED
        BY <2>1 DEF Kept
<1>3. CASE Drafting \/ Receiving
    BY <1>3, RecordDraftMoves, ReceivedMoves DEF Drafting, Receiving
<1>4. CASE RecordDecision \/ RecordConsumption \/ AcceptRecords
    BY <1>4, WritesEnter
<1>5. CASE ApprovalCommits
    BY <1>5, ApprovalCommitsMoves
<1> QED
    BY <1>1, <1>2, <1>3, <1>4, <1>5, Cases

\* No step changes a record.
LEMMA RecordsGrowNext ==
    ASSUME IntakeTypeOK, WayTaken, RecordsKept, [IntakeNext]_allVars
    PROVE  RecordsGrow
BY RecordsMove, GrowsKept, GrowsDrafted, GrowsWritten

\* Every step keeps the consumptions with their decisions, one for each.
LEMMA ConsumptionsDecidedNext ==
    ASSUME IntakeTypeOK, WayTaken, RecordsKept, PlanKept, ConsumptionsDecided, ConsumedOnce,
           [IntakeNext]_allVars
    PROVE  ConsumptionsDecided' /\ ConsumedOnce'
BY RecordsMove, EnteredDecided, DraftedDecided

\* The caller asks, or has received what it asked for.
LEMMA AskingMoves ==
    ASSUME Asking \/ Approving
    PROVE  ctl'.pc = "reading" /\ ctl'.op \in {"prepare", "approve"} /\ recs' = recs /\ result' = None
<1>1. CASE Asking
    <2>1. DOMAIN Quiet = {"pc", "op", "d", "draft", "decl", "expires", "policy", "before", "ev", "plan", "chain", "basis",
                          "expected", "at"}
        BY DEF Quiet
    <2> QED
        BY <1>1, <2>1 DEF Asking, Prepare
<1>2. CASE Approving
    <2>1. PICK d \in DecisionIds, i \in DOMAIN recs.drafts : \E terms \in Terms[d] : Approve(d, i, terms)
        BY <1>2 DEF Approving
    <2>2. PICK terms \in Terms[d] : Approve(d, i, terms)
        BY <2>1
    <2>3. ctl'.pc = "reading" /\ ctl'.op = "approve"
        BY <2>2, ApproveAsks
    <2>4. recs' = recs /\ result' = None
        BY <2>2 DEF Approve
    <2> QED
        BY <2>3, <2>4
<1> QED
    BY <1>1, <1>2

\* These steps end the call.
LEMMA EndMoves ==
    ASSUME Drafting \/ CloseFinal \/ AcceptRecords
    PROVE  ctl' = Quiet /\ (result' = result \/ \E at : result' = Told(at))
BY DEF Drafting, RecordDraft, CloseFinal, AcceptRecords

\* What planning leaves in memory.
LEMMA PlanMoves ==
    ASSUME IntakeTypeOK, NEW plan \in {"again", "create", "amend"}, Plan(plan)
    PROVE  /\ DOMAIN ctl' = DOMAIN ctl /\ ctl'.op = "approve" /\ ctl.op = "approve" /\ ctl.pc = "first"
           /\ ctl'.d = ctl.d /\ ctl'.draft = ctl.draft /\ ctl'.expires = ctl.expires
           /\ ctl'.policy = ctl.policy /\ ctl'.ev = ctl.ev /\ ctl'.at = ctl.at /\ ctl'.plan = plan
           /\ ctl'.pc = (IF ctl.policy = "plain" THEN "second" ELSE "accept")
           /\ ctl'.chain = ChainAfter(plan)
           /\ ctl'.basis = (IF Current = None THEN <<>> ELSE Chain(Current.facts))
           /\ ctl'.expected = (IF plan = "amend" THEN Revision(Current.facts) ELSE -1)
           /\ PlanFits(plan) /\ UNCHANGED <<vars, recs, result, world>> /\ up /\ txn = None
<1>1. DOMAIN ctl = {"pc", "op", "d", "draft", "decl", "expires", "policy", "before", "ev", "plan", "chain", "basis",
                    "expected", "at"}
    BY MemoryIs
<1>2. /\ ctl' = [ctl EXCEPT !.pc = IF ctl.policy = "plain" THEN "second" ELSE "accept",
                            !.plan = plan, !.chain = ChainAfter(plan),
                            !.basis = IF Current = None THEN <<>> ELSE Chain(Current.facts),
                            !.expected = IF plan = "amend" THEN Revision(Current.facts) ELSE -1]
      /\ PlanFits(plan) /\ UNCHANGED <<vars, recs, result, world>> /\ up /\ txn = None
      /\ ctl.op = "approve" /\ ctl.pc = "first"
    BY DEF Plan, Idle
<1> QED
    BY <1>1, <1>2

\* The way of an approval, in every step.
LEMMA WayTakenNext ==
    ASSUME IntakeTypeOK, WayTaken, [IntakeNext]_allVars
    PROVE  WayTaken'
<1>1. DOMAIN ctl = {"pc", "op", "d", "draft", "decl", "expires", "policy", "before", "ev", "plan", "chain", "basis",
                    "expected", "at"}
    BY MemoryIs
<1>2. CASE Beside
    BY <1>2, BesideMoves DEF WayTaken
<1>3. CASE Drops \/ Drafting \/ CloseFinal \/ AcceptRecords
    <2>1. ctl' = Quiet
        BY <1>3, DropsMoves, EndMoves
    <2> QED
        BY <2>1 DEF Quiet, WayTaken
<1>4. CASE Asking \/ Approving \/ Handoff \/ Receiving
    <2>1. ctl'.pc \in {"reading", "first"}
        BY <1>4, AskingMoves, HandoffAsks, ReceivedMoves DEF Receiving
    <2> QED
        BY <2>1 DEF WayTaken
<1>5. CASE Planning
    <2>1. PICK plan \in {"again", "create", "amend"} : Plan(plan)
        BY <1>5 DEF Planning
    <2>2. /\ ctl'.op = "approve" /\ ctl'.policy = ctl.policy /\ ctl.policy \in {"plain", "budget"}
          /\ ctl'.pc = IF ctl.policy = "plain" THEN "second" ELSE "accept"
        BY <2>1, PlanMoves DEF IntakeTypeOK, Policies
    <2> QED
        BY <2>2 DEF WayTaken
<1>6. CASE Compare \/ Confirmed \/ Submit \/ OpenFinal
    BY <1>1, <1>6 DEF WayTaken, Compare, Confirmed, Submit, OpenFinal
<1>7. CASE Validated \/ AcceptCommand \/ AcceptBudget
    BY <1>1, <1>7, ZenonT(30) DEF WayTaken, Validated, AcceptCommand, AcceptBudget
<1>8. CASE RecordDecision \/ RecordConsumption
    BY <1>1, <1>8 DEF WayTaken, RecordDecision, RecordConsumption, Quiet
<1>9. CASE ApprovalCommits
    BY <1>1, <1>9 DEF WayTaken, ApprovalCommits, Quiet
<1> QED
    BY <1>2, <1>3, <1>4, <1>5, <1>6, <1>7, <1>8, <1>9, Cases DEF Carrying

\* An approval is planned on the Program as it is.
LEMMA PlanPlans ==
    ASSUME StoreInv, IntakeTypeOK, NEW plan \in {"again", "create", "amend"}, Plan(plan)
    PROVE  PlanKept'
<1>1. /\ ctl.op = "approve" /\ ctl.pc = "first" /\ ctl'.draft = ctl.draft /\ ctl'.d = ctl.d /\ recs' = recs
      /\ ctl'.plan = plan /\ ctl'.chain = ChainAfter(plan) /\ PlanFits(plan)
      /\ ctl'.basis = IF Current = None THEN <<>> ELSE Chain(Current.facts)
    BY PlanMoves
<1>2. ctl.draft \in DOMAIN recs.drafts
    BY <1>1 DEF IntakeTypeOK
<1>3. DecisionOf(plan)' = DecisionOf(plan) /\ Matching' = Matching
    BY <1>1 DEF DecisionOf, Content, Matching
<1>4. CASE plan = "create"
    <2>1. ctl'.basis = <<>> /\ ctl'.chain = <<DecisionOf(plan)>>
        BY <1>1, <1>4 DEF PlanFits, ChainAfter
    <2> QED
        BY <1>1, <1>3, <1>4, <2>1 DEF PlanKept
<1>5. CASE plan = "again"
    <2>1. /\ ctl'.basis = Chain(Current.facts) /\ ctl'.chain = Chain(Current.facts)
          /\ \E c \in Matching : recs.consumed[c].chain = Chain(Current.facts)
        BY <1>1, <1>5 DEF PlanFits, ChainAfter
    <2> QED
        BY <1>1, <1>3, <1>5, <2>1 DEF PlanKept
<1>6. CASE plan = "amend"
    <2>1. Current # None /\ ctl'.basis = Chain(Current.facts)
          /\ ctl'.chain = Chain(Apply(Current.facts, DecisionOf(plan)))
        BY <1>1, <1>6 DEF PlanFits, ChainAfter
    <2>2. Current.facts \in Facts
        BY <2>1, CurrentTyped, IntakeAssumption
    <2>3. /\ DecisionOf(plan) \in Decisions /\ DecisionOf(plan)[1] = "amend"
          /\ DecisionOf(plan)[2] = Content(recs.drafts[ctl.draft])
        BY <1>2, <1>6, ContentTyped DEF DecisionOf, Decisions
    <2>4. ctl'.chain = IF ctl'.basis[Len(ctl'.basis)][2] = Content(recs.drafts[ctl.draft]) THEN ctl'.basis
                       ELSE Append(ctl'.basis, DecisionOf(plan))
        BY <2>1, <2>2, <2>3, ChainAfterAmendment
    <2>5. Says(ctl.basis, ctl.draft)' <=> ctl'.basis[Len(ctl'.basis)][2] = Content(recs.drafts[ctl.draft])
        BY <1>1 DEF Says, Content
    <2> QED
        BY <1>1, <1>3, <1>6, <2>4, <2>5 DEF PlanKept
<1> QED
    BY <1>4, <1>5, <1>6

\* Every step keeps what an approval has planned.
LEMMA PlanKeptNext ==
    ASSUME StoreInv, IntakeTypeOK, WayTaken, RecordsKept, PlanKept, [IntakeNext]_allVars
    PROVE  PlanKept'
<1>1. DOMAIN ctl = {"pc", "op", "d", "draft", "decl", "expires", "policy", "before", "ev", "plan", "chain", "basis",
                    "expected", "at"}
    BY MemoryIs
<1>2. CASE Beside
    BY <1>2, BesideMoves, PlanStays
<1>3. CASE Drops \/ Drafting \/ CloseFinal \/ AcceptRecords
    <2>1. ctl' = Quiet
        BY <1>3, DropsMoves, EndMoves
    <2> QED
        BY <2>1 DEF Quiet, PlanKept
<1>4. CASE Asking \/ Approving \/ Handoff \/ Receiving
    <2>1. ctl'.pc \in {"reading", "first"}
        BY <1>4, AskingMoves, HandoffAsks, ReceivedMoves DEF Receiving
    <2> QED
        BY <2>1 DEF PlanKept
<1>5. CASE Planning
    BY <1>5, PlanPlans DEF Planning
<1>6. CASE Compare \/ Carrying
    <2>1. Proceeds
        BY <1>1, <1>6, CarryingMoves DEF Carries, Compare, Proceeds
    <2> QED
        BY <2>1, RecordsGrowNext, PlanProceeds
<1>7. CASE RecordDecision \/ RecordConsumption \/ ApprovalCommits
    <2>1. Proceeds \/ ctl' = Quiet
        <3>1. CASE RecordDecision \/ RecordConsumption
            BY <1>1, <3>1 DEF RecordDecision, RecordConsumption, Proceeds
        <3> QED
            BY <1>7, <3>1, CommitMoves DEF Carries
    <2>2. CASE Proceeds
        BY <2>2, RecordsGrowNext, PlanProceeds
    <2>3. CASE ctl' = Quiet
        BY <2>3 DEF Quiet, PlanKept
    <2> QED
        BY <2>1, <2>2, <2>3
<1> QED
    BY <1>2, <1>3, <1>4, <1>5, <1>6, <1>7, Cases

\* Every step keeps what a call has written on record.
LEMMA RecordsKeptNext ==
    ASSUME IntakeTypeOK, WayTaken, RecordsKept, [IntakeNext]_allVars
    PROVE  RecordsKept'
<1>1. CASE Beside
    BY <1>1, BesideMoves, RecordsStay
<1>2. CASE Drops \/ Drafting
    <2>1. ctl' = Quiet /\ (result' = None \/ result' = result)
        BY <1>2, DropsMoves DEF Drafting, RecordDraft
    <2>2. ctl'.pc = "idle"
        BY <2>1 DEF Quiet
    <2> QED
        BY <2>1, <2>2, RecordsGrowNext, RecordsEnd
<1>3. CASE Asking \/ Approving
    <2>1. ctl'.pc = "reading" /\ ctl'.op # "handoff" /\ result' = None
        BY <1>3, AskingMoves
    <2> QED
        BY <2>1, RecordsGrowNext, RecordsEnd
<1>4. CASE Planning
    <2>1. ctl'.pc \in {"second", "accept"} /\ ctl'.op # "handoff" /\ result' = result
        BY <1>4, PlanMoves DEF Planning
    <2> QED
        BY <2>1, RecordsGrowNext, RecordsEnd
<1>5. CASE Handoff \/ Receiving \/ Compare \/ RecordDecision
    BY <1>5, HandoffRecords, ReceivedRecords, CompareRecords, DecisionRecords DEF Receiving
<1>6. CASE Carrying
    BY <1>6, CarryingMoves, RecordsCarried
<1>7. CASE RecordConsumption
    <2>1. ctl' = [ctl EXCEPT !.pc = "third"] \/ (ctl' = Quiet /\ result' = result)
        BY <1>7 DEF RecordConsumption
    <2>2. CASE ctl' = [ctl EXCEPT !.pc = "third"]
        BY <1>7, <2>2, ConsumptionRecords
    <2>3. CASE ctl' = Quiet /\ result' = result
        <3>1. ctl'.pc = "idle"
            BY <2>3 DEF Quiet
        <3> QED
            BY <2>3, <3>1, RecordsGrowNext, RecordsEnd
    <2> QED
        BY <2>1, <2>2, <2>3
<1>8. CASE CloseFinal
    <2>1. /\ recs.decisions[ctl.d] # None /\ recs.decisions[ctl.d].draft = ctl.draft
          /\ recs' = recs /\ ctl' = Quiet /\ \E at : result' = Told(at)
        BY <1>8, CloseFinalRecords DEF CloseFinal
    <2> QED
        BY <2>1, RecordsTold
<1>9. CASE AcceptRecords \/ (ApprovalCommits /\ ctl' = Quiet)
    <2>1. Entered
        <3>1. CASE AcceptRecords
            BY <3>1, WritesEnter
        <3>2. CASE ApprovalCommits /\ ctl' = Quiet
            <4>1. recs' = WithBudget(recs) /\ ctl.policy = "budget" /\ ctl.pc = "admitting" /\ ctl.op = "approve"
                <5>1. Proceeds => ctl'.pc # "idle"
                    BY DEF Proceeds
                <5> QED
                    BY <3>2, <5>1, CommitMoves DEF Carries, Quiet, ApprovalCommits, WayTaken
            <4>2. DecisionFree
                BY <4>1 DEF RecordsKept
            <4>3. DOMAIN recs = {"drafts", "reviews", "decisions", "consumed", "age", "origin", "bound"}
                BY DEF IntakeTypeOK
            <4> QED
                BY <4>1, <4>2, <4>3 DEF WithBudget, WithConsumption, WithDecision, Entered
        <3> QED
            BY <1>9, <3>1, <3>2
    <2>2. /\ ctl.op = "approve" /\ ctl.pc \notin {"idle", "reading"}
          /\ recs'.decisions = [recs.decisions EXCEPT ![ctl.d] = Decision]
        BY <2>1 DEF Entered
    <2>3. recs'.decisions[ctl.d] # None /\ recs'.decisions[ctl.d].draft = ctl.draft
        BY <2>2, DecisionTyped, RecordsTyped
    <2>4. ctl' = Quiet /\ \E at : result' = Told(at)
        <3>1. Proceeds => ctl'.pc # "idle"
            BY DEF Proceeds
        <3> QED
            BY <1>9, <3>1, CommitMoves DEF AcceptRecords, Carries, Quiet
    <2> QED
        BY <2>3, <2>4, RecordsTold
<1>10. CASE ApprovalCommits /\ ctl' # Quiet
    BY <1>10, CommitMoves, RecordsCarried
<1> QED
    BY <1>1, <1>2, <1>3, <1>4, <1>5, <1>6, <1>7, <1>8, <1>9, <1>10, Cases

-----------------------------------------------------------------------------
(* The store under the intake. *)

\* These steps do not touch the store.
LEMMA CallerOnly ==
    ASSUME \/ Asking \/ Drafting \/ Receiving \/ Approving \/ Planning \/ Handoff \/ Compare \/ Confirmed
           \/ RecordDecision \/ RecordConsumption \/ AcceptRecords \/ TimePasses \/ NativeChanges
           \/ \E n \in 0..world.native, decl \in Declarations, remains \in BOOLEAN : Review(n, decl, remains)
           \/ UNCHANGED allVars
    PROVE  UNCHANGED vars
BY Zenon DEF Asking, Drafting, Receiving, Approving, Planning, Prepare, RecordDraft, Received, Approve, Plan,
   Handoff, Compare, Confirmed, RecordDecision, RecordConsumption, AcceptRecords, TimePasses, NativeChanges,
   Review, allVars

\* These steps are those of the caller, between its transactions.
LEMMA OnlyCaller ==
    ASSUME Asking \/ Drafting \/ Receiving \/ Approving \/ Planning \/ Handoff \/ Compare \/ Confirmed
           \/ RecordDecision \/ RecordConsumption \/ AcceptRecords
    PROVE  UNCHANGED <<disk, up, txn, cut, answers>> /\ up /\ (txn = None \/ ctl'.pc = "idle")
<1>1. UNCHANGED <<disk, up, txn, cut, answers>>
    BY CallerOnly DEF vars
<1>2. Idle
    BY Zenon DEF Asking, Drafting, Receiving, Approving, Planning, Prepare, RecordDraft, Received, Approve, Plan,
   Handoff, Compare, Confirmed, RecordDecision, RecordConsumption, AcceptRecords
<1> QED
    BY <1>1, <1>2 DEF Idle

\* The store keeps its invariant under the intake and the other callers.
LEMMA StoreUnderIntake ==
    ASSUME StoreInv, IntakeTypeOK, PlanKept, WayTaken, [IntakeNext]_allVars
    PROVE  StoreInv'
<1>1. CASE UNCHANGED vars
    BY <1>1, StoreInvStep
<1>2. CASE Submit \/ AcceptCommand
    <2>1. Begin(ApprovalCall) /\ ctl.pc \in {"third", "submit"} /\ ctl.plan # "again"
        <3>1. CASE Submit
            BY <3>1 DEF Submit
        <3>2. CASE AcceptCommand
            <4>1. ctl.pc = "submit" /\ ctl.chain # ctl.basis /\ Begin(ApprovalCall)
                BY <3>2 DEF AcceptCommand
            <4> QED
                BY <4>1 DEF PlanKept, WayTaken
        <3> QED
            BY <1>2, <3>1, <3>2
    <2> QED
        BY <2>1, ApprovalTyped, BeginStep
<1>3. CASE OpenFinal
    BY <1>3, OpenCutStep, IntakeAssumption DEF OpenFinal
<1>4. CASE CloseFinal \/ Validated
    BY <1>4, CloseCutStep DEF CloseFinal, Validated
<1>5. CASE AcceptBudget
    <2>1. /\ cut' = [program |-> Task, facts |-> IF Current = None THEN <<>> ELSE Current.facts,
                     operations |-> disk.operations, touched |-> FALSE]
          /\ UNCHANGED <<disk, up, txn, answers>> /\ up
        BY <1>5 DEF AcceptBudget, Idle
    <2>2. (IF Current = None THEN <<>> ELSE Current.facts) \in Facts
        <3>1. <<>> \in Facts
            BY DEF Facts
        <3> QED
            BY <3>1, CurrentTyped, IntakeAssumption
    <2>3. disk.operations \subseteq [intent : Intents, origin : Keys \cup {None}]
        BY DEF StoreInv, StoreTypeOK, Images
    <2> QED
        BY <2>1, <2>2, <2>3, CutStep, IntakeAssumption
<1>6. CASE GiveUp
    BY <1>6, CutStep DEF GiveUp
<1>7. CASE ApprovalCommits \/ ApprovalFails \/ OtherEnds
    BY <1>7, CommitStep, RollbackStep DEF ApprovalCommits, ApprovalFails, OtherEnds
<1>8. CASE OtherBegins \/ OtherReplays
    BY <1>8, OtherCallsTyped, BeginStep, IntentAloneStep, ReplayStep DEF OtherBegins, OtherReplays
<1>9. CASE Statement \/ ProcessDies \/ Starts
    BY <1>9, WriteStep, CrashStep, OpenStep DEF Statement, ProcessDies, Starts
<1> QED
    BY <1>1, <1>2, <1>3, <1>4, <1>5, <1>6, <1>7, <1>8, <1>9, Cases, CallerOnly DEF Beside, Drops, Carrying

\* The facts an approval records have the specification that was planned.
LEMMA ApprovalFacts ==
    ASSUME StoreInv, IntakeTypeOK, PlanKept, ctl.op = "approve", ctl.pc \notin {"idle", "reading", "first"},
           ctl.plan # "again", Begin(ApprovalCall), ctl.plan = "amend" => Chain(Current.facts) = ctl.basis
    PROVE  Chain(FactsAfter(disk, ApprovalCall)) = ctl.chain
<1>1. ctl.draft \in DOMAIN recs.drafts /\ ctl.plan \in {"create", "amend"}
    BY DEF IntakeTypeOK, PlanKept
<1>2. Content(recs.drafts[ctl.draft]) \in Specs
    BY <1>1, ContentTyped
<1>3. ApprovalCall.program = Task /\ ApprovalCall.decision = DecisionOf(ctl.plan)
    BY DEF ApprovalCall
<1>4. CASE ctl.plan = "create"
    <2>1. DecisionOf("create") \in Creations /\ DecisionOf("create")[1] = "create"
        BY <1>2 DEF DecisionOf, Creations
    <2>2. FactsAfter(disk, ApprovalCall) = <<DecisionOf("create")>>
        BY <1>3, <1>4, <2>1 DEF FactsAfter
    <2>3. ctl.chain = <<DecisionOf("create")>>
        BY <1>4 DEF PlanKept
    <2> QED
        BY <2>1, <2>2, <2>3, ChainOfOne
<1>5. CASE ctl.plan = "amend"
    <2>1. /\ DecisionOf("amend") \in Decisions /\ DecisionOf("amend")[1] = "amend"
          /\ DecisionOf("amend")[2] = Content(recs.drafts[ctl.draft])
        BY <1>2 DEF DecisionOf, Decisions
    <2>2. Current # None
        BY <1>3, <1>5, <2>1 DEF Begin, Admitted, Current
    <2>3. Current.facts \in Facts
        BY <2>2, CurrentTyped, IntakeAssumption
    <2>4. FactsAfter(disk, ApprovalCall) = Apply(Current.facts, DecisionOf("amend"))
        BY <1>3, <1>5, <2>1 DEF FactsAfter, Current
    <2>5. Chain(FactsAfter(disk, ApprovalCall)) =
              IF ctl.basis[Len(ctl.basis)][2] = Content(recs.drafts[ctl.draft]) THEN ctl.basis
              ELSE Append(ctl.basis, DecisionOf("amend"))
        BY <1>5, <2>1, <2>3, <2>4, ChainAfterAmendment
    <2>6. ctl.chain = IF Says(ctl.basis, ctl.draft) THEN ctl.basis ELSE Append(ctl.basis, DecisionOf("amend"))
        BY <1>5 DEF PlanKept
    <2> QED
        BY <2>5, <2>6 DEF Says
<1> QED
    BY <1>1, <1>4, <1>5

\* The call an approval makes of its transaction.
LEMMA ApprovalBegins ==
    ASSUME StoreInv, IntakeTypeOK, PlanKept, WayTaken, ValidKept, Submit \/ AcceptCommand
    PROVE  /\ txn' = [call |-> ApprovalCall, image |-> disk, step |-> "history",
                      facts |-> FactsAfter(disk, ApprovalCall)]
           /\ UNCHANGED <<disk, up, cut, answers, recs, result, world>> /\ up /\ txn = None
           /\ ctl' = [ctl EXCEPT !.pc = "admitting"] /\ ctl.pc \in {"third", "submit"} /\ ctl.plan # "again"
           /\ Chain(FactsAfter(disk, ApprovalCall)) = ctl.chain
           /\ ApprovalCall' = ApprovalCall /\ ctl.d \in DecisionIds /\ ApprovalCall.key = ctl.d
           /\ ctl'.pc = "admitting" /\ ctl'.chain = ctl.chain /\ ctl'.plan = ctl.plan /\ Admitted(ApprovalCall)
           /\ ctl.op = "approve"
<1>1. /\ Begin(ApprovalCall) /\ ctl.pc \in {"third", "submit"} /\ UNCHANGED <<recs, result, world>>
      /\ ctl' = [ctl EXCEPT !.pc = "admitting"]
    BY DEF Submit, AcceptCommand
<1>2. ctl.op = "approve" /\ ctl.d \in DecisionIds
    BY <1>1 DEF WayTaken, IntakeTypeOK
<1>3. ctl.plan # "again" /\ (ctl.plan = "amend" => Chain(Current.facts) = ctl.basis)
    <2>1. CASE Submit
        BY <2>1 DEF Submit
    <2>2. CASE AcceptCommand
        <3>1. ctl.pc = "submit" /\ ctl.chain # ctl.basis
            BY <2>2 DEF AcceptCommand
        <3>2. ctl.plan # "again"
            BY <1>2, <3>1 DEF PlanKept
        <3>3. /\ ctl.basis = IF Current = None THEN <<>> ELSE Chain(Current.facts)
              /\ ctl.plan # "create" => Current # None
            BY <3>1 DEF ValidKept
        <3> QED
            BY <3>2, <3>3
    <2> QED
        BY <2>1, <2>2
<1>4. Chain(FactsAfter(disk, ApprovalCall)) = ctl.chain
    BY <1>1, <1>2, <1>3, ApprovalFacts
<1>5. ctl'.pc = "admitting" /\ ctl'.chain = ctl.chain /\ ctl'.plan = ctl.plan /\ ctl'.d = ctl.d
      /\ ctl'.expected = ctl.expected /\ ctl'.draft = ctl.draft
    BY <1>1, MemoryIs
<1>6. ApprovalCall' = ApprovalCall /\ ApprovalCall.key = ctl.d
    BY <1>1, <1>5 DEF ApprovalCall, DecisionOf, Content
<1>7. txn' = [call |-> ApprovalCall, image |-> disk, step |-> "history",
              facts |-> FactsAfter(disk, ApprovalCall)]
      /\ UNCHANGED <<disk, up, cut, answers>> /\ up /\ txn = None /\ Admitted(ApprovalCall)
    BY <1>1 DEF Begin, Idle
<1> QED
    BY <1>1, <1>2, <1>3, <1>4, <1>5, <1>6, <1>7

\* The approval's call stays what it is while it is admitted.
LEMMA CallStays ==
    ASSUME ctl' = ctl, Kept
    PROVE  ApprovalCall' = ApprovalCall
BY DEF Kept, ApprovalCall, DecisionOf, Content

\* Every step keeps the other callers' transactions apart from the approval's.
LEMMA CallsApartNext ==
    ASSUME StoreInv, IntakeTypeOK, PlanKept, WayTaken, ValidKept, CallsApart, [IntakeNext]_allVars
    PROVE  CallsApart'
<1>1. CASE Asking \/ Drafting \/ Receiving \/ Approving \/ Planning \/ Handoff \/ Compare \/ Confirmed
           \/ RecordDecision \/ RecordConsumption \/ AcceptRecords
    <2>1. UNCHANGED <<disk, up, txn, cut, answers>> /\ up /\ (txn = None \/ ctl'.pc = "idle")
        BY <1>1, OnlyCaller
    <2>2. txn = None /\ ctl'.pc # "admitting"
        <3>1. Idle
            BY <1>1, Zenon DEF Asking, Drafting, Receiving, Approving, Planning, Prepare, RecordDraft, Received,
               Approve, Plan, Handoff, Compare, Confirmed, RecordDecision, RecordConsumption, AcceptRecords
        <3>2. CASE Asking \/ Receiving \/ Approving \/ Handoff
            <4>1. ctl'.pc \in {"reading", "first"}
                BY <3>2, AskingMoves, ReceivedMoves, HandoffAsks DEF Receiving
            <4> QED
                BY <3>1, <4>1 DEF Idle
        <3>3. CASE Planning
            <4>1. ctl'.pc \in {"second", "accept"}
                BY <3>3, PlanMoves DEF Planning
            <4> QED
                BY <3>1, <4>1 DEF Idle
        <3>4. CASE Drafting \/ AcceptRecords
            <4>1. ctl' = Quiet
                BY <3>4, EndMoves
            <4> QED
                BY <3>1, <4>1 DEF Idle, Quiet
        <3>5. CASE Compare \/ Confirmed \/ RecordDecision \/ RecordConsumption
            <4>1. ctl'.pc \in {"second", "final", "consume", "third", "idle"}
                BY <3>5, MemoryIs DEF Compare, Confirmed, RecordDecision, RecordConsumption, Quiet
            <4> QED
                BY <3>1, <4>1 DEF Idle
        <3> QED
            BY <1>1, <3>2, <3>3, <3>4, <3>5
    <2> QED
        BY <2>1, <2>2 DEF CallsApart
<1>2. CASE Submit \/ AcceptCommand
    <2>1. /\ txn' = [call |-> ApprovalCall, image |-> disk, step |-> "history",
                     facts |-> FactsAfter(disk, ApprovalCall)]
          /\ up' = up /\ cut' = cut /\ up /\ ctl'.pc = "admitting" /\ ctl'.chain = ctl.chain
          /\ ctl'.plan = ctl.plan /\ ctl.plan # "again" /\ ApprovalCall' = ApprovalCall
          /\ ApprovalCall.key \in DecisionIds /\ Chain(FactsAfter(disk, ApprovalCall)) = ctl.chain
        BY <1>2, ApprovalBegins
    <2> DEFINE facts == FactsAfter(disk, ApprovalCall)
    <2>2. /\ txn'.call = ApprovalCall /\ txn'.step = "history" /\ txn'.facts = facts
        BY <2>1
    <2> HIDE DEF facts
    <2>3. Chain(txn'.facts) = ctl.chain
        BY <2>1, <2>2 DEF facts
    <2> QED
        BY <2>1, <2>2, <2>3 DEF CallsApart
<1>3. CASE OpenFinal \/ AcceptBudget \/ CloseFinal \/ Validated \/ GiveUp
    <2>1. up' = up /\ txn' = txn /\ up /\ txn = None
        BY <1>3, Zenon DEF OpenFinal, AcceptBudget, CloseFinal, Validated, GiveUp, OpenCut, CloseCut, Idle
    <2>2. ctl'.pc # "admitting"
        <3>1. CASE OpenFinal \/ AcceptBudget \/ Validated
            BY <3>1, MemoryIs DEF OpenFinal, AcceptBudget, Validated
        <3>2. CASE CloseFinal \/ GiveUp
            BY <3>2 DEF CloseFinal, GiveUp, Quiet
        <3> QED
            BY <1>3, <3>1, <3>2
    <2> QED
        BY <2>1, <2>2 DEF CallsApart
<1>4. CASE ApprovalCommits \/ ApprovalFails
    <2>1. txn' = None /\ up' = up /\ cut' = cut
        BY <1>4 DEF ApprovalCommits, ApprovalFails, Commit, Rollback
    <2>2. ctl'.pc \in {"final", "idle"} /\ ctl.pc = "admitting"
        BY <1>4, MemoryIs DEF ApprovalCommits, ApprovalFails, Quiet
    <2> QED
        BY <2>1, <2>2 DEF CallsApart
<1>5. CASE ProcessDies
    BY <1>5 DEF ProcessDies, Crash, Quiet, CallsApart
<1>6. CASE Beside
    <2>1. ctl' = ctl /\ ApprovalCall' = ApprovalCall
        BY <1>6, BesideMoves, CallStays
    <2>2. CASE UNCHANGED vars
        BY <2>1, <2>2 DEF CallsApart, vars
    <2>3. CASE OtherBegins
        <3>1. ctl.pc \in {"idle", "reading", "first", "second", "third", "cut", "validate"}
            BY <2>3 DEF OtherBegins, Reentrant
        <3>2. CASE \E call \in OtherCalls : Begin(call)
            <4>1. PICK call \in OtherCalls : Begin(call)
                BY <3>2
            <4>2. call.key \notin DecisionIds
                BY DEF OtherCalls
            <4>3. txn'.call = call /\ txn'.step = "history" /\ up' = up
                BY <4>1 DEF Begin
            <4> QED
                BY <2>1, <3>1, <4>2, <4>3 DEF CallsApart
        <3>3. CASE \E intent \in Intents : IntentAlone(intent)
            <4>1. txn' = None /\ txn = None /\ up' = up
                BY <3>3 DEF IntentAlone, Idle
            <4> QED
                BY <2>1, <3>1, <4>1 DEF CallsApart
        <3> QED
            BY <2>3, <3>2, <3>3 DEF OtherBegins
    <2>4. CASE OtherReplays
        BY <2>1, <2>4 DEF OtherReplays, Replay, CallsApart
    <2>5. CASE OtherEnds
        BY <2>1, <2>5 DEF OtherEnds, Commit, Rollback, CallsApart
    <2>6. CASE Statement
        <3>1. /\ txn # None /\ up' = up /\ cut' = Touched(cut)
              /\ txn' = [txn EXCEPT !.image = Written(txn), !.step = StepAfter(txn)]
            BY <2>6 DEF Statement, Write
        <3>2. txn'.call = txn.call /\ txn'.facts = txn.facts
            BY <3>1 DEF StoreInv, StoreTypeOK, Transactions
        <3>3. cut' # None => cut'.touched
            BY <3>1 DEF Touched, StoreInv, StoreTypeOK
        <3> QED
            BY <2>1, <3>1, <3>2, <3>3 DEF CallsApart
    <2>7. CASE Starts
        BY <2>1, <2>7 DEF Starts, Open, CallsApart
    <2> QED
        BY <1>6, <2>2, <2>3, <2>4, <2>5, <2>6, <2>7, CallerOnly DEF Beside
<1> QED
    BY <1>1, <1>2, <1>3, <1>4, <1>5, <1>6, Cases DEF Drops, Carrying

-----------------------------------------------------------------------------
(* What an approval has validated. *)

\* A read of the Program that nothing has been committed behind.
QuietCut == cut # None /\ ~cut.touched

\* A step beside the call that leaves the cut quiet leaves the Programs alone.
LEMMA BesideQuiet ==
    ASSUME StoreInv, CallsApart, Beside, QuietCut'
    PROVE  QuietCut /\ disk'.projection = disk.projection
<1>1. cut' # None /\ ~cut'.touched
    BY DEF QuietCut
<1>2. cut # None => Touched(cut).touched
    BY DEF Touched, StoreInv, StoreTypeOK
<1>3. CASE UNCHANGED vars
    BY <1>1, <1>3 DEF vars, QuietCut
<1>4. CASE OtherBegins
    <2>1. CASE \E call \in OtherCalls : Begin(call)
        BY <1>1, <2>1 DEF Begin, QuietCut
    <2>2. CASE \E intent \in Intents : IntentAlone(intent)
        <3>1. cut' = Touched(cut)
            BY <2>2 DEF IntentAlone
        <3> QED
            BY <1>1, <1>2, <3>1 DEF Touched
    <2> QED
        BY <1>4, <2>1, <2>2 DEF OtherBegins
<1>5. CASE OtherReplays
    BY <1>1, <1>5 DEF OtherReplays, Replay, QuietCut
<1>6. CASE OtherEnds
    <2>1. cut' = cut /\ txn # None /\ (txn.step # "commit" => disk' = disk)
        BY <1>6 DEF OtherEnds, Commit, Rollback
    <2>2. txn.step = "history"
        BY <1>1, <2>1 DEF CallsApart
    <2> QED
        BY <1>1, <2>1, <2>2 DEF QuietCut
<1>7. CASE Statement
    <2>1. cut' = Touched(cut)
        BY <1>7 DEF Statement, Write
    <2> QED
        BY <1>1, <1>2, <2>1 DEF Touched
<1>8. CASE Starts
    <2>1. ~up /\ cut' = cut
        BY <1>8 DEF Starts, Open
    <2>2. cut = None
        BY <2>1 DEF StoreInv, StoreTypeOK
    <2> QED
        BY <1>1, <2>1, <2>2
<1> QED
    BY <1>3, <1>4, <1>5, <1>6, <1>7, <1>8, CallerOnly DEF Beside

\* Where the caller does not let others run, nothing happens beside its call.
LEMMA BesideAlone ==
    ASSUME CallsApart, Beside, ctl.pc \in {"accept", "submit"}
    PROVE  disk' = disk
<1>1. up /\ txn = None
    BY DEF CallsApart
<1>2. CASE UNCHANGED vars
    BY <1>2 DEF vars
<1>3. CASE OtherBegins \/ OtherReplays
    BY <1>3 DEF OtherBegins, OtherReplays, Reentrant
<1>4. CASE OtherEnds \/ Statement \/ Starts
    BY <1>1, <1>4 DEF OtherEnds, Commit, Rollback, Statement, Write, Starts, Open
<1> QED
    BY <1>2, <1>3, <1>4, CallerOnly DEF Beside

\* The Program is what the approval was planned on.
OnBasis ==
    /\ ctl.basis = IF Current = None THEN <<>> ELSE Chain(Current.facts)
    /\ ctl.plan # "create" => Current # None

\* There is a Program and nobody has abandoned it.
Live == Current # None => ~Cancelled(Current.facts)

\* The call is about the last draft.
LastDraft == ctl.draft = Len(recs.drafts)

\* The confirmed evidence is fresh and the approval has not run out.
InTime == ctl.at < ctl.expires /\ ctl.at - recs.age <= Freshness

\* What an approval has validated, place by place.
LEMMA ValidParts ==
    ValidKept <=>
        /\ ctl.pc = "cut" /\ QuietCut =>
              Current # None /\ Chain(Current.facts) = ctl.chain /\ ~Cancelled(Current.facts)
        /\ ctl.pc \in {"accept", "submit"} \/ (ctl.pc = "validate" /\ QuietCut) => OnBasis
        /\ ctl.pc = "submit" \/ (ctl.pc = "validate" /\ QuietCut) => Live
        /\ ctl.pc \in {"cut", "validate", "submit"} \/ (ctl.pc = "admitting" /\ ctl.policy = "budget") => LastDraft
        /\ ctl.pc = "submit" \/ (ctl.pc = "admitting" /\ ctl.policy = "budget") => InTime
BY DEF ValidKept, QuietCut, OnBasis, Live, LastDraft, InTime

\* At the other places there is nothing to keep.
LEMMA ValidElsewhere ==
    ASSUME ctl'.pc \notin {"cut", "accept", "submit", "validate"},
           ctl'.pc = "admitting" => ctl'.policy # "budget"
    PROVE  ValidKept'
BY DEF ValidKept

\* Every step keeps what the call under way has validated.
LEMMA ValidKeptNext ==
    ASSUME StoreInv, IntakeTypeOK, PlanKept, WayTaken, ValidKept, CallsApart, [IntakeNext]_allVars
    PROVE  ValidKept'
<1>1. DOMAIN ctl = {"pc", "op", "d", "draft", "decl", "expires", "policy", "before", "ev", "plan", "chain", "basis",
                    "expected", "at"}
    BY MemoryIs
<1>2. CASE Asking \/ Drafting \/ Receiving \/ Approving \/ Handoff \/ AcceptRecords \/ CloseFinal \/ Drops
    <2>1. ctl'.pc \in {"reading", "first"} \/ ctl' = Quiet
        BY <1>2, AskingMoves, ReceivedMoves, HandoffAsks, EndMoves, DropsMoves DEF Receiving
    <2>2. ctl'.pc \in {"reading", "first", "idle"}
        BY <2>1 DEF Quiet
    <2> QED
        BY <2>2, ValidElsewhere
<1>3. CASE Compare \/ Confirmed \/ RecordDecision \/ RecordConsumption \/ ApprovalCommits
    <2>1. ctl'.pc \in {"second", "final", "consume", "third", "idle"}
        BY <1>1, <1>3 DEF Compare, Confirmed, RecordDecision, RecordConsumption, ApprovalCommits, Quiet
    <2> QED
        BY <2>1, ValidElsewhere
<1>4. CASE Planning
    <2>1. PICK plan \in {"again", "create", "amend"} : Plan(plan)
        BY <1>4 DEF Planning
    <2>2. /\ ctl'.pc \in {"second", "accept"} /\ ctl'.plan = plan /\ PlanFits(plan) /\ UNCHANGED vars
          /\ ctl'.basis = IF Current = None THEN <<>> ELSE Chain(Current.facts)
        BY <2>1, PlanMoves
    <2>3. plan # "create" => Current # None
        BY <2>2 DEF PlanFits
    <2>4. OnBasis'
        BY <2>2, <2>3 DEF OnBasis, Current, vars
    <2> QED
        BY <2>2, <2>4, ValidParts DEF ValidKept, OnBasis
<1>5. CASE Submit \/ AcceptCommand
    <2>1. /\ ctl' = [ctl EXCEPT !.pc = "admitting"] /\ recs' = recs /\ ctl.pc \in {"third", "submit"}
          /\ ctl.op = "approve"
        BY <1>5, ApprovalBegins
    <2>2. /\ ctl'.pc = "admitting" /\ ctl'.policy = ctl.policy /\ ctl'.draft = ctl.draft /\ ctl'.at = ctl.at
          /\ ctl'.expires = ctl.expires
        BY <1>1, <2>1
    <2>3. CASE ctl.pc = "third"
        BY <2>1, <2>2, <2>3, ValidElsewhere DEF WayTaken
    <2>4. CASE ctl.pc = "submit"
        <3>1. LastDraft /\ InTime
            BY <2>4, ValidParts
        <3>2. LastDraft' /\ InTime'
            BY <2>1, <2>2, <3>1 DEF LastDraft, InTime
        <3> QED
            BY <2>2, <3>2 DEF ValidKept, LastDraft, InTime
    <2> QED
        BY <2>1, <2>3, <2>4
<1>6. CASE OpenFinal
    <2>1. /\ disk' = disk /\ recs' = recs /\ Current # None /\ Chain(Current.facts) = ctl.chain
          /\ ~Cancelled(Current.facts) /\ LastDraft /\ ctl' = [ctl EXCEPT !.pc = "cut"]
        BY <1>6 DEF OpenFinal, OpenCut, CheckAuthority, Current, LastDraft
    <2>2. ctl'.pc = "cut" /\ ctl'.chain = ctl.chain /\ ctl'.draft = ctl.draft
        BY <1>1, <2>1
    <2>3. Current' = Current /\ LastDraft'
        BY <2>1, <2>2 DEF Current, LastDraft
    <2> QED
        BY <2>1, <2>2, <2>3 DEF ValidKept, LastDraft
<1>7. CASE AcceptBudget
    <2>1. /\ disk' = disk /\ recs'.drafts = recs.drafts /\ ctl.pc = "accept"
          /\ \/ CheckAuthority /\ ctl' = [ctl EXCEPT !.pc = "validate"]
             \/ ctl' = [ctl EXCEPT !.pc = "refused"]
        BY <1>7 DEF AcceptBudget, IntakeTypeOK
    <2>2. OnBasis
        BY <2>1, ValidParts
    <2>3. CASE CheckAuthority /\ ctl' = [ctl EXCEPT !.pc = "validate"]
        <3>1. Live /\ LastDraft
            BY <2>3 DEF CheckAuthority, Live, LastDraft
        <3>2. ctl'.pc = "validate" /\ ctl'.basis = ctl.basis /\ ctl'.plan = ctl.plan /\ ctl'.draft = ctl.draft
            BY <1>1, <2>3
        <3>3. OnBasis' /\ Live' /\ LastDraft'
            BY <2>1, <2>2, <3>1, <3>2 DEF OnBasis, Live, LastDraft, Current
        <3> QED
            BY <3>2, <3>3 DEF ValidKept, OnBasis, Live, LastDraft
    <2>4. CASE ctl' = [ctl EXCEPT !.pc = "refused"]
        <3>1. ctl'.pc = "refused"
            BY <1>1, <2>4
        <3> QED
            BY <3>1, ValidElsewhere
    <2> QED
        BY <2>1, <2>3, <2>4
<1>8. CASE Validated
    <2>1. /\ disk' = disk /\ recs' = recs /\ ctl.pc = "validate" /\ QuietCut /\ CheckTime
          /\ ctl' = [ctl EXCEPT !.pc = "submit", !.at = world.now]
        BY <1>8 DEF Validated, CloseCut, QuietCut
    <2>2. OnBasis /\ Live /\ LastDraft
        BY <2>1, ValidParts
    <2>3. /\ ctl'.pc = "submit" /\ ctl'.basis = ctl.basis /\ ctl'.plan = ctl.plan /\ ctl'.draft = ctl.draft
          /\ ctl'.at = world.now /\ ctl'.expires = ctl.expires
        BY <1>1, <2>1
    <2>4. OnBasis' /\ Live' /\ LastDraft' /\ InTime'
        BY <2>1, <2>2, <2>3 DEF OnBasis, Live, LastDraft, InTime, Current, CheckTime
    <2> QED
        BY <2>3, <2>4 DEF ValidKept, OnBasis, Live, LastDraft, InTime
<1>9. CASE Beside
    <2>1. ctl' = ctl /\ recs'.drafts = recs.drafts /\ recs'.age = recs.age
        BY <1>9, BesideMoves DEF Kept
    <2>2. LastDraft' = LastDraft /\ InTime' = InTime
        BY <2>1 DEF LastDraft, InTime
    <2>3. ctl.pc \in {"accept", "submit"} => Current' = Current
        BY <1>9, BesideAlone DEF Current
    <2>4. QuietCut' => QuietCut /\ Current' = Current
        BY <1>9, BesideQuiet DEF Current
    <2>5. Current' = Current => OnBasis' = OnBasis /\ Live' = Live
        BY <2>1 DEF OnBasis, Live
    <2>6. ctl'.pc = "cut" /\ QuietCut' =>
              Current' # None /\ Chain(Current'.facts) = ctl'.chain /\ ~Cancelled(Current'.facts)
        BY <2>1, <2>4, ValidParts
    <2>7. /\ ctl'.pc \in {"accept", "submit"} \/ (ctl'.pc = "validate" /\ QuietCut') => OnBasis'
          /\ ctl'.pc = "submit" \/ (ctl'.pc = "validate" /\ QuietCut') => Live'
        BY <2>1, <2>3, <2>4, <2>5, ValidParts
    <2>8. /\ ctl'.pc \in {"cut", "validate", "submit"} \/ (ctl'.pc = "admitting" /\ ctl'.policy = "budget") =>
                LastDraft'
          /\ ctl'.pc = "submit" \/ (ctl'.pc = "admitting" /\ ctl'.policy = "budget") => InTime'
        BY <2>1, <2>2, ValidParts
    <2> QED
        BY <2>6, <2>7, <2>8 DEF ValidKept, QuietCut, OnBasis, Live, LastDraft, InTime
<1> QED
    BY <1>2, <1>3, <1>4, <1>5, <1>6, <1>7, <1>8, <1>9, Cases DEF Carrying

-----------------------------------------------------------------------------
(* The commands of approvals. *)

\* A command in the history that an approval gave.
RowDecided(r) ==
    LET decided == recs.decisions[r.key]
    IN  /\ decided # None
        /\ r.input.decision[2] = Content(recs.drafts[decided.draft])
        /\ \E c \in DOMAIN recs.consumed :
              /\ recs.consumed[c].decision = r.key /\ recs.consumed[c].draft = decided.draft
              /\ recs.consumed[c].chain = Chain(r.facts)

\* What ApprovalsDecided says of each command.
LEMMA ApprovalsParts ==
    ApprovalsDecided <=> (\A r \in disk.history : r.key \in DecisionIds => RowDecided(r)) /\ ConsumedOnce
BY DEF ApprovalsDecided, RowDecided, ConsumedOnce

\* It stays so.
LEMMA RowStays ==
    ASSUME ConsumptionsDecided, RecordsGrow, NEW r, r.key \in DecisionIds, RowDecided(r)
    PROVE  RowDecided(r)'
<1>1. /\ recs.decisions[r.key] # None
      /\ r.input.decision[2] = Content(recs.drafts[recs.decisions[r.key].draft])
      /\ \E c \in DOMAIN recs.consumed :
            /\ recs.consumed[c].decision = r.key /\ recs.consumed[c].draft = recs.decisions[r.key].draft
            /\ recs.consumed[c].chain = Chain(r.facts)
    BY DEF RowDecided
<1>2. recs'.decisions[r.key] = recs.decisions[r.key]
    BY <1>1 DEF RecordsGrow
<1>3. recs.decisions[r.key].draft \in DOMAIN recs.drafts
    BY <1>1 DEF ConsumptionsDecided
<1>4. recs'.drafts[recs.decisions[r.key].draft] = recs.drafts[recs.decisions[r.key].draft]
    BY <1>3 DEF RecordsGrow
<1>5. \E c \in DOMAIN recs'.consumed :
            /\ recs'.consumed[c].decision = r.key /\ recs'.consumed[c].draft = recs.decisions[r.key].draft
            /\ recs'.consumed[c].chain = Chain(r.facts)
    BY <1>1 DEF RecordsGrow
<1> QED
    BY <1>1, <1>2, <1>4, <1>5 DEF RowDecided, Content

\* What a commit adds to the history.
LEMMA CommitAdds ==
    ASSUME StoreInv, Commit
    PROVE  /\ disk'.history = disk.history \cup
                 {[program |-> txn.call.program, sequence |-> SequenceAfter(disk, txn.call),
                   key |-> txn.call.key, input |-> Input(txn.call), facts |-> txn.facts]}
           /\ disk'.projection = [disk.projection EXCEPT ![txn.call.program] =
                 [sequence |-> SequenceAfter(disk, txn.call), facts |-> txn.facts]]
<1>1. txn # None /\ txn.step = "commit" /\ disk' = txn.image
    BY DEF Commit
<1> QED
    BY <1>1 DEF StoreInv, WritesStaged

\* Only a commit adds to the history.
LEMMA HistoryStays ==
    ASSUME [IntakeNext]_allVars, ~ApprovalCommits, ~(OtherEnds /\ Commit)
    PROVE  disk'.history = disk.history
<1>1. CASE UNCHANGED vars
    BY <1>1 DEF vars
<1>2. CASE Submit \/ AcceptCommand \/ OpenFinal \/ CloseFinal \/ Validated \/ AcceptBudget \/ GiveUp
    BY <1>2, Zenon DEF Submit, AcceptCommand, OpenFinal, CloseFinal, Validated, AcceptBudget, GiveUp, Begin,
       OpenCut, CloseCut
<1>3. CASE ApprovalFails \/ OtherEnds
    BY <1>3 DEF ApprovalFails, OtherEnds, Rollback
<1>4. CASE OtherBegins
    <2>1. CASE \E call \in OtherCalls : Begin(call)
        BY <2>1 DEF Begin
    <2>2. CASE \E intent \in Intents : IntentAlone(intent)
        BY <2>2 DEF IntentAlone
    <2> QED
        BY <1>4, <2>1, <2>2 DEF OtherBegins
<1>5. CASE OtherReplays \/ Statement \/ ProcessDies
    BY <1>5 DEF OtherReplays, Replay, Statement, Write, ProcessDies, Crash, CrashLeaves
<1>6. CASE Starts
    BY <1>6 DEF Starts, Open
<1> QED
    BY <1>1, <1>2, <1>3, <1>4, <1>5, <1>6, Cases, CallerOnly DEF Beside, Drops, Carrying

\* The record of an approval's own command.
LEMMA ApprovalRow ==
    ASSUME StoreInv, IntakeTypeOK, WayTaken, CallsApart, PlanKept, RecordsKept, ApprovalCommits,
           NEW r, r.key = ctl.d, r.input.decision = DecisionOf(ctl.plan), Chain(r.facts) = ctl.chain
    PROVE  RowDecided(r)'
<1>1. /\ ctl.pc = "admitting" /\ ctl.op = "approve" /\ ctl.plan # "again"
      /\ ctl.policy \in {"plain", "budget"}
    BY DEF ApprovalCommits, WayTaken, CallsApart, IntakeTypeOK, Policies
<1>2. /\ recs.consumed \in Seq(Consumptions) /\ DOMAIN recs.decisions = DecisionIds
      /\ Decision # None /\ Decision.draft = ctl.draft /\ ctl.d \in DecisionIds
      /\ Consumption.decision = ctl.d /\ Consumption.draft = ctl.draft /\ Consumption.chain = ctl.chain
    BY <1>1, RecordsTyped, DecisionTyped
<1>3. r.input.decision[2] = Content(recs.drafts[ctl.draft])
    BY DEF DecisionOf
<1>4. /\ recs'.drafts = recs.drafts /\ recs'.decisions[ctl.d] = Decision
      /\ \E c \in DOMAIN recs'.consumed : recs'.consumed[c] = Consumption
    <2>1. CASE ctl.policy = "plain"
        <3>1. recs' = recs /\ recs.decisions[ctl.d] = Decision /\ \E c \in Matching : recs.consumed[c] = Consumption
            BY <1>1, <2>1 DEF ApprovalCommits, RecordsKept
        <3> QED
            BY <3>1 DEF Matching
    <2>2. CASE ctl.policy = "budget"
        <3>1. recs' = WithBudget(recs) /\ ConsumptionFree
            BY <1>1, <2>2 DEF ApprovalCommits, RecordsKept
        <3>2. DOMAIN recs = {"drafts", "reviews", "decisions", "consumed", "age", "origin", "bound"}
            BY DEF IntakeTypeOK
        <3>3. recs'.drafts = recs.drafts /\ recs'.decisions = [recs.decisions EXCEPT ![ctl.d] = Decision]
            BY <3>1, <3>2 DEF WithBudget, WithConsumption, WithDecision
        <3>4. CASE Matching # {}
            <4>1. recs'.consumed = recs.consumed
                BY <3>1, <3>2, <3>4 DEF WithBudget, WithConsumption, WithDecision
            <4>2. \A c \in Matching : recs.consumed[c] = Consumption
                BY <1>1, <3>1 DEF ConsumptionFree
            <4> QED
                BY <1>2, <3>3, <3>4, <4>1, <4>2 DEF Matching
        <3>5. CASE Matching = {}
            <4>1. recs'.consumed = Append(recs.consumed, Consumption)
                BY <1>1, <3>1, <3>2, <3>5 DEF WithBudget, WithConsumption, WithDecision
            <4>2. /\ Len(recs.consumed) + 1 \in DOMAIN recs'.consumed
                  /\ recs'.consumed[Len(recs.consumed) + 1] = Consumption
                BY <1>2, <4>1
            <4> QED
                BY <1>2, <3>3, <4>2
        <3> QED
            BY <3>4, <3>5
    <2> QED
        BY <1>1, <2>1, <2>2
<1> QED
    BY <1>2, <1>3, <1>4 DEF RowDecided, Content

\* Every step keeps the approvals' commands with their decisions.
LEMMA ApprovalsDecidedNext ==
    ASSUME StoreInv, IntakeTypeOK, WayTaken, CallsApart, PlanKept, RecordsKept, ConsumptionsDecided,
           ApprovalsDecided, [IntakeNext]_allVars
    PROVE  ApprovalsDecided'
<1>1. (\A r \in disk.history : r.key \in DecisionIds => RowDecided(r)) /\ ConsumedOnce
    BY ApprovalsParts
<1>2. RecordsGrow /\ ConsumedOnce'
    BY <1>1, RecordsGrowNext, ConsumptionsDecidedNext
<1>3. \A r \in disk.history : r.key \in DecisionIds => RowDecided(r)'
    BY <1>1, <1>2, RowStays
<1>4. \A r \in disk'.history : r.key \in DecisionIds => RowDecided(r)'
    <2>1. CASE ~ApprovalCommits /\ ~(OtherEnds /\ Commit)
        BY <1>3, <2>1, HistoryStays
    <2>2. CASE ApprovalCommits \/ (OtherEnds /\ Commit)
        <3>1. Commit /\ txn # None
            BY <2>2 DEF ApprovalCommits, Commit
        <3>2. PICK row : row = [program |-> txn.call.program, sequence |-> SequenceAfter(disk, txn.call),
                                key |-> txn.call.key, input |-> Input(txn.call), facts |-> txn.facts]
            OBVIOUS
        <3>3. disk'.history = disk.history \cup {row}
            BY <3>1, <3>2, CommitAdds
        <3>4. row.key = txn.call.key /\ row.input.decision = txn.call.decision /\ row.facts = txn.facts
            BY <3>2 DEF Input
        <3>5. CASE ApprovalCommits
            <4>1. ctl.pc = "admitting" /\ txn.call = ApprovalCall /\ Chain(txn.facts) = ctl.chain
                BY <3>5 DEF ApprovalCommits, CallsApart
            <4>2. row.key = ctl.d /\ row.input.decision = DecisionOf(ctl.plan) /\ Chain(row.facts) = ctl.chain
                BY <3>4, <4>1 DEF ApprovalCall
            <4>3. RowDecided(row)'
                BY <3>5, <4>2, ApprovalRow
            <4> QED
                BY <1>3, <3>3, <4>3
        <3>6. CASE OtherEnds
            <4>1. row.key \notin DecisionIds
                BY <3>1, <3>4, <3>6 DEF OtherEnds, CallsApart
            <4> QED
                BY <1>3, <3>3, <4>1
        <3> QED
            BY <2>2, <3>5, <3>6
    <2> QED
        BY <2>1, <2>2
<1>5. ApprovalsDecided' <=> (\A r \in disk'.history : r.key \in DecisionIds => RowDecided(r)') /\ ConsumedOnce'
    BY DEF ApprovalsDecided, RowDecided, ConsumedOnce
<1> QED
    BY <1>2, <1>4, <1>5

-----------------------------------------------------------------------------
(* Types of the intake. *)

\* The types, one variable at a time.
RecordTypes ==
    [drafts : Seq(Drafts), reviews : Seq([native : Nat, decl : Declarations, remains : BOOLEAN]),
     decisions : [DecisionIds -> DecisionRows \cup {None}], consumed : Seq(Consumptions),
     age : Nat, origin : [chain : Facts, expires : Nat] \cup {None}, bound : Nat \cup {None}]

\* The records have these types.
LEMMA RecsTyped == IntakeTypeOK => recs \in RecordTypes
BY DEF IntakeTypeOK, RecordTypes

\* The types do not change with the state.
LEMMA RecordTypesConstant == RecordTypes' = RecordTypes
BY DEF RecordTypes, Drafts, Content, Consumptions, DecisionRows

\* Every step keeps the types of the records.
LEMMA RecsTypedNext ==
    ASSUME StoreInv, IntakeTypeOK, WayTaken, RecordsKept, [IntakeNext]_allVars
    PROVE  recs' \in RecordTypes
<1>1. /\ recs \in RecordTypes
      /\ DOMAIN recs = {"drafts", "reviews", "decisions", "consumed", "age", "origin", "bound"}
    BY RecsTyped DEF RecordTypes
<1>2. CASE Beside
    <2>1. recs' = recs \/ \E r \in [native : Nat, decl : Declarations, remains : BOOLEAN] :
                                  recs' = [recs EXCEPT !.reviews = Append(@, r)]
        BY <1>2, BesideMoves
    <2>2. ASSUME NEW r \in [native : Nat, decl : Declarations, remains : BOOLEAN],
                 recs' = [recs EXCEPT !.reviews = Append(@, r)]
          PROVE  recs' \in RecordTypes
        <3>1. recs.reviews \in Seq([native : Nat, decl : Declarations, remains : BOOLEAN])
            BY <1>1 DEF RecordTypes
        <3>2. Append(recs.reviews, r) \in Seq([native : Nat, decl : Declarations, remains : BOOLEAN])
            BY <3>1
        <3> QED
            BY <1>1, <2>2, <3>2 DEF RecordTypes
    <2> QED
        BY <1>1, <2>1, <2>2
<1>3. CASE Drops \/ Asking \/ Approving \/ Planning \/ Handoff \/ Compare \/ CloseFinal \/ Confirmed \/ Submit
           \/ OpenFinal \/ Validated \/ AcceptCommand
    <2>1. recs' = recs
        BY <1>3, DropsMoves, AskingMoves, Zenon DEF Planning, Plan, Handoff, Compare, CloseFinal, Confirmed,
           Submit, OpenFinal, Validated, AcceptCommand
    <2> QED
        BY <1>1, <2>1
<1>4. CASE Drafting
    <2>1. PICK observed \in 1..world.now : RecordDraft(observed)
        BY <1>4 DEF Drafting
    <2>2. Drafted
        BY <2>1, RecordDraftMoves
    <2>3. PICK drafts : recs' = [recs EXCEPT !.age = BaselineAge(observed), !.drafts = drafts]
        BY <2>1 DEF RecordDraft
    <2>4. recs'.drafts = drafts /\ recs'.age = BaselineAge(observed)
        BY <1>1, <2>3
    <2>5. drafts \in Seq(Drafts) /\ BaselineAge(observed) \in Nat
        <3>1. recs.drafts \in Seq(Drafts)
            BY RecordsTyped
        <3>2. drafts = recs.drafts \/ \E draft \in Drafts : drafts = Append(recs.drafts, draft)
            BY <2>2, <2>4 DEF Drafted
        <3>3. drafts \in Seq(Drafts)
            BY <3>1, <3>2, AppendProperties
        <3>4. BaselineAge(observed) \in Nat
            BY <2>2, <2>4 DEF Drafted
        <3> QED
            BY <3>3, <3>4
    <2> QED
        BY <1>1, <2>3, <2>5 DEF RecordTypes
<1>5. CASE Receiving
    <2>1. PICK observed \in 1..world.now : Received(observed)
        BY <1>5 DEF Receiving
    <2>2. recs' = [recs EXCEPT !.age = BaselineAge(observed)]
        BY <2>1 DEF Received
    <2>3. BaselineAge(observed) \in Nat
        BY DEF BaselineAge, IntakeTypeOK
    <2> QED
        BY <1>1, <2>2, <2>3 DEF RecordTypes
<1>6. CASE AcceptBudget
    <2>1. /\ recs' = [recs EXCEPT !.origin = IF recs.bound = None
                                             THEN [chain |-> ctl.chain, expires |-> ctl.expires] ELSE @]
          /\ ctl.pc = "accept"
        BY <1>6 DEF AcceptBudget
    <2>2. ctl.chain \in Facts /\ ctl.expires \in Nat
        BY <2>1 DEF IntakeTypeOK, WayTaken
    <2> QED
        BY <1>1, <2>1, <2>2 DEF RecordTypes
<1> DEFINE Fits(r) == r \in RecordTypes /\ r.consumed = recs.consumed
<1>7. ASSUME NEW r, r \in RecordTypes, ctl.op = "approve", ctl.pc \notin {"idle", "reading"}
      PROVE  WithDecision(r) \in RecordTypes /\ WithConsumption(r) \in RecordTypes
    <2>1. Decision \in DecisionRows /\ Consumption \in Consumptions /\ ctl.d \in DecisionIds
        BY <1>7, DecisionTyped
    <2>2. /\ r.decisions \in [DecisionIds -> DecisionRows \cup {None}] /\ r.consumed \in Seq(Consumptions)
          /\ DOMAIN r = {"drafts", "reviews", "decisions", "consumed", "age", "origin", "bound"}
        BY <1>7 DEF RecordTypes
    <2>3. WithDecision(r) \in RecordTypes
        BY <1>7, <2>1, <2>2 DEF WithDecision, RecordTypes
    <2>4. WithConsumption(r) \in RecordTypes
        <3>1. Append(r.consumed, Consumption) \in Seq(Consumptions)
            BY <2>1, <2>2
        <3> QED
            BY <1>7, <2>2, <3>1 DEF WithConsumption, RecordTypes
    <2> QED
        BY <2>3, <2>4
<1>8. CASE RecordDecision \/ RecordConsumption \/ AcceptRecords \/ ApprovalCommits
    <2>1. ctl.op = "approve" /\ ctl.pc \notin {"idle", "reading"}
        BY <1>8 DEF RecordDecision, RecordConsumption, AcceptRecords, ApprovalCommits, WayTaken
    <2>2. \/ recs' = recs \/ recs' = WithDecision(recs) \/ recs' = WithConsumption(recs)
          \/ recs' = WithConsumption(WithDecision([recs EXCEPT !.bound = ctl.expires]))
        BY <1>8 DEF RecordDecision, RecordConsumption, AcceptRecords, ApprovalCommits, WithBudget
    <2>3. [recs EXCEPT !.bound = ctl.expires] \in RecordTypes
        <3>1. ctl.expires \in Nat
            BY <2>1 DEF IntakeTypeOK
        <3> QED
            BY <1>1, <3>1 DEF RecordTypes
    <2>4. WithConsumption(WithDecision([recs EXCEPT !.bound = ctl.expires])) \in RecordTypes
        BY <1>7, <2>1, <2>3
    <2> QED
        BY <1>1, <1>7, <2>1, <2>2, <2>4
<1> QED
    BY <1>2, <1>3, <1>4, <1>5, <1>6, <1>8, Cases DEF Carrying

\* What the caller's memory holds at each place.
CtlTyped ==
    /\ DOMAIN ctl = DOMAIN Quiet
    /\ ctl.pc \in Pcs /\ ctl.chain \in Facts /\ ctl.basis \in Facts /\ ctl.at \in Nat
    /\ ctl.expected \in Int
    /\ ctl.pc # "idle" => ctl.op \in {"prepare", "approve", "handoff"}
    /\ ctl.pc # "idle" /\ ctl.op # "prepare" =>
          ctl.d \in DecisionIds /\ ctl.draft \in DOMAIN recs.drafts /\ ctl.expires \in Nat
    /\ ctl.pc \notin {"idle", "reading"} => ctl.op # "prepare" /\ ctl.ev = recs.drafts[ctl.draft].ev
    /\ ctl.pc # "idle" /\ ctl.op = "approve" => ctl.policy \in Policies

\* A memory with no call has its type.
LEMMA QuietTyped == ASSUME ctl' = Quiet PROVE CtlTyped'
<1>1. <<>> \in Facts
    BY DEF Facts
<1> QED
    BY <1>1 DEF CtlTyped, Quiet, Pcs

\* A call that goes on keeps the types of its memory.
LEMMA ProceedsTyped ==
    ASSUME CtlTyped, RecordsGrow, Proceeds, ctl'.pc \in Pcs, ctl'.at \in Nat
    PROVE  CtlTyped'
<1>1. ctl'.pc # "idle" /\ ctl.pc \notin {"idle", "reading"} /\ ctl.op \in {"approve", "handoff"}
    BY DEF Proceeds, CtlTyped
<1>2. ctl.draft \in DOMAIN recs'.drafts /\ recs'.drafts[ctl.draft] = recs.drafts[ctl.draft]
    BY <1>1 DEF CtlTyped, RecordsGrow
<1>3. /\ DOMAIN ctl' = DOMAIN Quiet /\ ctl'.chain \in Facts /\ ctl'.basis \in Facts /\ ctl'.expected \in Int
      /\ ctl'.op \in {"approve", "handoff"} /\ ctl'.d \in DecisionIds /\ ctl'.draft = ctl.draft
      /\ ctl'.expires \in Nat /\ ctl'.ev = recs.drafts[ctl.draft].ev
      /\ ctl'.op = "approve" => ctl'.policy \in Policies
    BY <1>1 DEF Proceeds, CtlTyped
<1> QED
    BY <1>1, <1>2, <1>3 DEF CtlTyped, Quiet

\* Every step keeps the type of the caller's memory.
LEMMA CtlTypedNext ==
    ASSUME StoreInv, IntakeTypeOK, WayTaken, PlanKept, RecordsKept, ConsumptionsDecided,
           [IntakeNext]_allVars
    PROVE  CtlTyped'
<1>1. CtlTyped
    BY DEF IntakeTypeOK, CtlTyped
<1>2. DOMAIN ctl = {"pc", "op", "d", "draft", "decl", "expires", "policy", "before", "ev", "plan", "chain", "basis",
                    "expected", "at"}
    BY MemoryIs
<1>3. RecordsGrow
    BY RecordsGrowNext
<1>4. CASE Beside
    <2>1. ctl' = ctl
        BY <1>4, BesideMoves
    <2> QED
        BY <1>1, <1>3, <2>1 DEF CtlTyped, RecordsGrow, Quiet
<1>5. CASE Drops \/ Drafting \/ CloseFinal \/ AcceptRecords
    BY <1>5, DropsMoves, EndMoves, QuietTyped
<1>6. CASE Asking
    <2>1. PICK decl \in Declarations : Prepare(decl)
        BY <1>6 DEF Asking
    <2>2. ctl' = [Quiet EXCEPT !.pc = "reading", !.op = "prepare", !.decl = decl, !.before = world.native]
        BY <2>1 DEF Prepare
    <2>3. <<>> \in Facts
        BY DEF Facts
    <2> QED
        BY <2>2, <2>3 DEF CtlTyped, Quiet, Pcs
<1>7. CASE Approving
    <2>1. PICK d \in DecisionIds, i \in DOMAIN recs.drafts : \E terms \in Terms[d] : Approve(d, i, terms)
        BY <1>7 DEF Approving
    <2>2. PICK terms \in Terms[d] : Approve(d, i, terms)
        BY <2>1
    <2>3. terms.expires \in Nat /\ terms.policy \in Policies
        BY IntakeAssumption DEF Policies
    <2>4. /\ ctl'.pc = "reading" /\ ctl'.op = "approve" /\ ctl'.d = d /\ ctl'.draft = i
          /\ ctl'.expires \in Nat /\ ctl'.policy \in Policies /\ ctl'.chain = <<>>
          /\ ctl'.basis = <<>> /\ ctl'.expected = -1 /\ ctl'.at = 0 /\ DOMAIN ctl' = DOMAIN Quiet
        BY <2>2, <2>3, ApproveAsks
    <2>5. recs' = recs
        BY <2>2 DEF Approve
    <2>6. <<>> \in Facts
        BY DEF Facts
    <2> QED
        BY <2>4, <2>5, <2>6 DEF CtlTyped, Pcs, Quiet
<1>8. CASE Handoff
    <2>1. /\ ctl'.pc = "reading" /\ ctl'.op = "handoff" /\ ctl'.d = result.d /\ ctl'.draft = result.draft
          /\ ctl'.chain = result.chain /\ ctl'.expires = recs.decisions[result.d].expires
          /\ ctl'.basis = <<>> /\ ctl'.expected = -1 /\ ctl'.at = 0 /\ DOMAIN ctl' = DOMAIN Quiet
          /\ result # None /\ recs' = recs
        BY <1>8, HandoffAsks
    <2>2. result.d \in DecisionIds /\ result.chain \in Facts
        BY <2>1 DEF IntakeTypeOK
    <2>3. recs.decisions[result.d] # None /\ recs.decisions[result.d].draft = result.draft
        BY <2>1 DEF RecordsKept
    <2>4. result.draft \in DOMAIN recs.drafts
        BY <2>2, <2>3 DEF ConsumptionsDecided
    <2>5. recs.decisions[result.d].expires \in Nat
        BY <2>2, <2>3, RecordsTyped DEF DecisionRows
    <2>6. <<>> \in Facts
        BY DEF Facts
    <2> QED
        BY <2>1, <2>2, <2>4, <2>5, <2>6 DEF CtlTyped, Pcs, Quiet
<1>9. CASE Receiving
    <2>1. /\ ctl.pc = "reading" /\ ctl.op # "prepare" /\ ctl'.pc = "first" /\ recs'.drafts = recs.drafts
          /\ ctl'.ev = recs.drafts[ctl.draft].ev /\ DOMAIN ctl' = DOMAIN ctl /\ ctl'.op = ctl.op
          /\ ctl'.d = ctl.d /\ ctl'.draft = ctl.draft /\ ctl'.expires = ctl.expires
          /\ ctl'.policy = ctl.policy /\ ctl'.chain = ctl.chain /\ ctl'.basis = ctl.basis
          /\ ctl'.expected = ctl.expected /\ ctl'.at = ctl.at
        BY <1>9, ReceivedMoves DEF Receiving
    <2> QED
        BY <1>1, <2>1 DEF CtlTyped, Pcs
<1>10. CASE Planning
    <2>1. PICK plan \in {"again", "create", "amend"} : Plan(plan)
        BY <1>10 DEF Planning
    <2>2. /\ DOMAIN ctl' = DOMAIN ctl /\ ctl'.op = "approve" /\ ctl.op = "approve" /\ ctl.pc = "first"
          /\ ctl'.d = ctl.d /\ ctl'.draft = ctl.draft /\ ctl'.expires = ctl.expires
          /\ ctl'.policy = ctl.policy /\ ctl'.ev = ctl.ev /\ ctl'.at = ctl.at /\ recs' = recs
          /\ ctl'.pc \in {"second", "accept"} /\ ctl'.plan = plan
          /\ ctl'.basis = (IF Current = None THEN <<>> ELSE Chain(Current.facts))
          /\ ctl'.expected = (IF plan = "amend" THEN Revision(Current.facts) ELSE -1) /\ PlanFits(plan)
        BY <2>1, PlanMoves
    <2>3. ctl'.basis \in Facts
        <3>1. <<>> \in Facts
            BY DEF Facts
        <3> QED
            BY <2>2, <3>1, CurrentTyped, ChainTyped, IntakeAssumption
    <2>4. ctl'.expected \in Int
        <3>1. plan = "amend" => Current # None
            BY <2>2 DEF PlanFits
        <3>2. plan = "amend" => Len(Current.facts) \in Nat
            BY <3>1, CurrentTyped, IntakeAssumption DEF Facts
        <3> QED
            BY <2>2, <3>2 DEF Revision
    <2>5. ctl.draft \in DOMAIN recs.drafts /\ Content(recs.drafts[ctl.draft]) \in Specs
        BY <1>1, <2>2, ContentTyped DEF CtlTyped
    <2>6. ctl'.chain \in Facts
        <3>1. PlanKept'
            BY <2>1, PlanPlans
        <3>2. DecisionOf(plan)' = DecisionOf(plan) /\ DecisionOf(plan)[2] = Content(recs.drafts[ctl.draft])
            BY <2>2 DEF DecisionOf, Content
        <3>3. /\ plan = "create" => DecisionOf(plan) \in Creations
              /\ plan = "amend" => DecisionOf(plan) \in Decisions
            BY <2>5 DEF DecisionOf, Creations, Decisions
        <3>4. \/ plan = "create" /\ ctl'.chain = <<DecisionOf(plan)>>
              \/ plan = "amend" /\ ctl'.chain \in {ctl'.basis, Append(ctl'.basis, DecisionOf(plan))}
              \/ ctl'.chain = ctl'.basis
            BY <2>2, <3>1, <3>2, ZenonT(30) DEF PlanKept
        <3>5. <<DecisionOf(plan)>> \in Facts <=> DecisionOf(plan) \in Decisions \cup Creations
            BY DEF Facts
        <3>6. plan = "amend" => Append(ctl'.basis, DecisionOf(plan)) \in Facts
            BY <2>3, <3>3, AppendProperties DEF Facts
        <3> QED
            BY <2>3, <3>3, <3>4, <3>5, <3>6
    <2> QED
        BY <1>1, <2>2, <2>3, <2>4, <2>5, <2>6 DEF CtlTyped, Pcs
<1>11. CASE Compare \/ Carrying \/ RecordDecision
    <2>1. Proceeds
        BY <1>2, <1>11, CarryingMoves DEF Carries, Compare, RecordDecision, Proceeds
    <2>2. ctl'.pc \in Pcs
        BY <1>2, <1>11 DEF Carrying, Confirmed, Submit, OpenFinal, Validated, AcceptCommand, AcceptBudget, Compare,
           RecordDecision, Pcs
    <2>3. ctl'.at \in {ctl.at, world.now}
        BY <1>2, <1>11 DEF Carrying, Confirmed, Submit, OpenFinal, Validated, AcceptCommand, AcceptBudget, Compare,
           RecordDecision
    <2>4. ctl'.at \in Nat
        BY <2>3 DEF IntakeTypeOK
    <2> QED
        BY <1>1, <1>3, <2>1, <2>2, <2>4, ProceedsTyped
<1>12. CASE RecordConsumption \/ ApprovalCommits
    <2>1. \/ ctl' = Quiet \/ ctl' = [ctl EXCEPT !.pc = "third"]
          \/ ctl.pc = "admitting" /\ ctl' = [ctl EXCEPT !.pc = "final"]
        BY <1>12 DEF RecordConsumption, ApprovalCommits
    <2>2. CASE ctl' = Quiet
        BY <2>2, QuietTyped
    <2>3. CASE ctl' # Quiet
        <3>1. ctl.pc \in {"consume", "admitting"}
            BY <1>12 DEF RecordConsumption, ApprovalCommits
        <3>2. Proceeds /\ ctl'.pc \in Pcs /\ ctl'.at = ctl.at
            BY <1>2, <2>1, <2>3, <3>1 DEF Proceeds, Pcs
        <3> QED
            BY <1>1, <1>3, <3>2, ProceedsTyped DEF CtlTyped
    <2> QED
        BY <2>2, <2>3
<1> QED
    BY <1>4, <1>5, <1>6, <1>7, <1>8, <1>9, <1>10, <1>11, <1>12, Cases

-----------------------------------------------------------------------------
(* The invariant of the intake. *)

\* What approve() and the handoff answer.
Answers == [op : {"approve", "handoff"}, d : DecisionIds, draft : Nat, chain : Facts, at : Nat]

\* Every step keeps the type of the answer.
LEMMA ResultTypedNext ==
    ASSUME IntakeTypeOK, WayTaken, [IntakeNext]_allVars
    PROVE  result' # None => result' \in Answers
<1>1. result # None => result \in Answers
    BY DEF IntakeTypeOK, Answers
<1>2. CASE Beside \/ Drops \/ Drafting \/ Asking \/ Approving
    <2>1. result' = result \/ result' = None
        BY <1>2, BesideMoves, DropsMoves, AskingMoves DEF Drafting, RecordDraft
    <2> QED
        BY <1>1, <2>1
<1>3. CASE Receiving \/ Planning \/ Handoff \/ Compare \/ Carrying \/ RecordDecision \/ RecordConsumption
    <2>1. result' = result
        BY <1>3, CarryingMoves DEF Receiving, Received, Planning, Plan, Handoff, Compare, RecordDecision,
           RecordConsumption, Carries
    <2> QED
        BY <1>1, <2>1
<1>4. CASE CloseFinal \/ AcceptRecords \/ ApprovalCommits
    <2>1. /\ ctl.pc \in {"cut", "submit", "admitting"}
          /\ result' = result \/ result' = Told(world.now) \/ result' = Told(ctl.at)
        BY <1>4 DEF CloseFinal, AcceptRecords, ApprovalCommits
    <2>2. /\ ctl.op \in {"approve", "handoff"} /\ ctl.d \in DecisionIds /\ ctl.draft \in DOMAIN recs.drafts
          /\ ctl.chain \in Facts /\ world.now \in Nat /\ ctl.at \in Nat
        BY <2>1 DEF IntakeTypeOK
    <2>3. ctl.draft \in Nat
        BY <2>2, RecordsTyped
    <2>4. Told(world.now) \in Answers /\ Told(ctl.at) \in Answers
        BY <2>2, <2>3 DEF Told, Answers
    <2> QED
        BY <1>1, <2>1, <2>4
<1> QED
    BY <1>2, <1>3, <1>4, Cases

\* Every step keeps the type of the clock and the native state.
LEMMA WorldTypedNext ==
    ASSUME IntakeTypeOK, [IntakeNext]_allVars
    PROVE  world' \in [native : Nat, now : Nat]
<1>1. CASE Beside \/ Drops
    <2>1. world \in [native : Nat, now : Nat]
        BY DEF IntakeTypeOK
    <2> QED
        BY <1>1, <2>1, BesideMoves, DropsMoves
<1>2. CASE ~(Beside \/ Drops)
    <2>1. world' = world
        BY <1>2, Cases, Zenon DEF Asking, Drafting, Receiving, Approving, Planning, Prepare, RecordDraft,
           Received, Approve, Plan, Handoff, Compare, RecordDecision, RecordConsumption, CloseFinal,
           AcceptRecords, ApprovalCommits, Carrying, Confirmed, Submit, OpenFinal, Validated, AcceptCommand,
           AcceptBudget
    <2> QED
        BY <2>1 DEF IntakeTypeOK
<1> QED
    BY <1>1, <1>2

\* The types, put together.
LEMMA IntakeTyped ==
    ASSUME recs \in RecordTypes, CtlTyped, result # None => result \in Answers,
           world \in [native : Nat, now : Nat]
    PROVE  IntakeTypeOK
BY DEF RecordTypes, CtlTyped, Answers, IntakeTypeOK

\* Every step keeps the types.
LEMMA IntakeTypeOKNext ==
    ASSUME StoreInv, IntakeTypeOK, WayTaken, PlanKept, RecordsKept, ConsumptionsDecided,
           [IntakeNext]_allVars
    PROVE  IntakeTypeOK'
<1>1. recs' \in RecordTypes'
    BY RecsTypedNext, RecordTypesConstant
<1>2. CtlTyped'
    BY CtlTypedNext
<1>3. result' # None => result' \in Answers
    BY ResultTypedNext
<1>4. Answers' = Answers
    BY DEF Answers
<1>5. world' \in [native : Nat, now : Nat]
    BY WorldTypedNext
<1> QED
    BY <1>1, <1>2, <1>3, <1>4, <1>5 DEF RecordTypes, CtlTyped, Answers, IntakeTypeOK

\* Nothing was asked for yet.
LEMMA IntakeInvInit == IntakeInit => IntakeInv
<1> SUFFICES ASSUME IntakeInit
             PROVE  IntakeInv
    OBVIOUS
<1>1. /\ recs = [drafts |-> <<>>, reviews |-> <<>>, decisions |-> [d \in DecisionIds |-> None],
                 consumed |-> <<>>, age |-> 0, origin |-> None, bound |-> None]
      /\ ctl = Quiet /\ result = None /\ world = [native |-> 0, now |-> 1] /\ Init
    BY DEF IntakeInit
<1>2. StoreInv
    BY <1>1, StoreInvInit
<1>3. ctl.pc = "idle" /\ DOMAIN recs.consumed = {} /\ disk.history = {} /\ txn = None /\ cut = None
    BY <1>1 DEF Quiet, Init
<1>4. WayTaken /\ CallsApart /\ PlanKept /\ ValidKept
    BY <1>3 DEF WayTaken, CallsApart, PlanKept, ValidKept
<1>5. \A d \in DecisionIds : recs.decisions[d] = None
    BY <1>1
<1>6. RecordsKept /\ ConsumptionsDecided /\ ApprovalsDecided
    BY <1>1, <1>3, <1>5 DEF RecordsKept, ConsumptionsDecided, ApprovalsDecided
<1>7. IntakeTypeOK
    <2>1. <<>> \in Facts
        BY DEF Facts
    <2>2. recs \in RecordTypes
        BY <1>1 DEF RecordTypes
    <2>3. CtlTyped
        BY <1>1, <2>1 DEF CtlTyped, Quiet, Pcs
    <2> QED
        BY <1>1, <2>2, <2>3, IntakeTyped
<1> QED
    BY <1>2, <1>4, <1>6, <1>7 DEF IntakeInv

\* Every step keeps the invariant of the intake.
LEMMA IntakeInvNext == IntakeInv /\ [IntakeNext]_allVars => IntakeInv'
<1> SUFFICES ASSUME IntakeInv, [IntakeNext]_allVars
             PROVE  IntakeInv'
    OBVIOUS
<1>1. /\ StoreInv /\ IntakeTypeOK /\ WayTaken /\ CallsApart /\ PlanKept /\ RecordsKept
      /\ ConsumptionsDecided /\ ValidKept /\ ApprovalsDecided
    BY DEF IntakeInv
<1>2. ConsumedOnce
    BY <1>1, ApprovalsParts
<1>3. StoreInv' /\ IntakeTypeOK' /\ WayTaken'
    BY <1>1, StoreUnderIntake, IntakeTypeOKNext, WayTakenNext
<1>4. CallsApart' /\ PlanKept' /\ RecordsKept'
    BY <1>1, CallsApartNext, PlanKeptNext, RecordsKeptNext
<1>5. ConsumptionsDecided' /\ ValidKept' /\ ApprovalsDecided'
    BY <1>1, <1>2, ConsumptionsDecidedNext, ValidKeptNext, ApprovalsDecidedNext
<1> QED
    BY <1>3, <1>4, <1>5 DEF IntakeInv

\* The invariant of the intake over the store.
THEOREM IntakeInvariant == IntakeSpec => []IntakeInv
BY IntakeInvInit, IntakeInvNext, PTL DEF IntakeSpec

\* Every command an approval gave its Program has its decision and its one consumption in the
\* intake's records, about the same draft and the same specification: record_decision() and
\* record_consumption() come before the command of a plain approval, and accept_work_budget() writes
\* all of it in one transaction.
THEOREM ApprovalsAreDecided == IntakeSpec => []ApprovalsDecided
<1>1. IntakeInv => ApprovalsDecided
    BY DEF IntakeInv
<1> QED
    BY <1>1, IntakeInvariant, PTL

-----------------------------------------------------------------------------
(* What the handoff tells. *)

\* An amendment does not abandon a Program.
LEMMA ApplyCancels ==
    ASSUME NEW facts \in Facts, NEW decision \in Decisions, decision[1] = "amend", ~Cancelled(facts)
    PROVE  ~Cancelled(Apply(facts, decision))
<1>1. \A i \in DOMAIN facts : facts[i] # <<"command", "cancel">>
    BY DEF Cancelled
<1>2. decision # <<"command", "cancel">>
    OBVIOUS
<1>3. \A i \in DOMAIN Append(facts, decision) : Append(facts, decision)[i] # <<"command", "cancel">>
    <2>1. facts \in Seq(Decisions \cup Creations)
        BY DEF Facts
    <2>2. decision \in Decisions \cup Creations
        OBVIOUS
    <2>3. /\ DOMAIN Append(facts, decision) = DOMAIN facts \cup {Len(facts) + 1}
          /\ Append(facts, decision)[Len(facts) + 1] = decision
          /\ \A i \in DOMAIN facts : Append(facts, decision)[i] = facts[i]
        <3> HIDE DEF Decisions, Creations
        <3> QED
            BY <2>1, Appended
    <2> QED
        BY ONLY <1>1, <1>2, <2>3, Zenon
<1> QED
    BY <1>1, <1>3 DEF Apply, Cancelled

\* What an approval is about to tell says what its draft says.
LEMMA ApprovedSays ==
    ASSUME IntakeTypeOK, PlanKept, ConsumptionsDecided, ctl.op = "approve",
           ctl.pc \notin {"idle", "reading", "first"}, DecisionFree
    PROVE  Says(ctl.chain, ctl.draft)
<1>1. CASE ctl.plan # "again"
    BY <1>1, ChainSays
<1>2. CASE ctl.plan = "again"
    <2>1. PICK c \in Matching : recs.consumed[c].chain = ctl.chain
        BY <1>2 DEF PlanKept
    <2>2. c \in DOMAIN recs.consumed /\ recs.consumed[c].decision = ctl.d
        BY DEF Matching
    <2>3. recs.decisions[ctl.d] # None /\ Says(ctl.chain, recs.decisions[ctl.d].draft)
        BY <2>1, <2>2 DEF ConsumptionsDecided
    <2>4. recs.decisions[ctl.d] = Decision /\ Decision.draft = ctl.draft
        BY <2>3, DecisionTyped DEF DecisionFree
    <2> QED
        BY <2>3, <2>4
<1> QED
    BY <1>1, <1>2

\* What the handoff is about to tell says what its draft says.
LEMMA HandoffSays ==
    ASSUME ConsumptionsDecided, RecordsKept, ctl.pc = "cut", ctl.op = "handoff"
    PROVE  Says(ctl.chain, ctl.draft)
<1>1. recs.decisions[ctl.d].draft = ctl.draft /\ \E c \in Matching : recs.consumed[c].chain = ctl.chain
    BY DEF RecordsKept
<1>2. PICK c \in Matching : recs.consumed[c].chain = ctl.chain
    BY <1>1
<1>3. c \in DOMAIN recs.consumed /\ recs.consumed[c].decision = ctl.d
    BY DEF Matching
<1> QED
    BY <1>1, <1>2, <1>3 DEF ConsumptionsDecided

\* What a caller may be told.
MayTell ==
    LET facts == disk.projection[Task].facts
        draft == recs.drafts[result.draft]
        decided == recs.decisions[result.d]
    IN  /\ ~Cancelled(facts) /\ Chain(facts) = result.chain
        /\ Chain(facts)[Len(Chain(facts))][2] = Content(draft)
        /\ result.draft = Len(recs.drafts) /\ decided # None /\ decided.draft = result.draft
        /\ result.at < decided.expires /\ result.at - recs.age <= Freshness

\* An answer may be given when all it says still holds at its end.
LEMMA MayTellIs ==
    ASSUME NEW at, result' = Told(at), recs'.drafts = recs.drafts, recs'.age = recs.age,
           ~Cancelled(disk'.projection[Task].facts), Chain(disk'.projection[Task].facts) = ctl.chain,
           Says(ctl.chain, ctl.draft), LastDraft, recs'.decisions[ctl.d] # None,
           recs'.decisions[ctl.d].draft = ctl.draft, recs'.decisions[ctl.d].expires = ctl.expires,
           at < ctl.expires, at - recs.age <= Freshness
    PROVE  MayTell'
<1>1. result'.d = ctl.d /\ result'.draft = ctl.draft /\ result'.chain = ctl.chain /\ result'.at = at
    BY DEF Told
<1> QED
    BY <1>1 DEF MayTell, Says, Content, LastDraft

\* _final_program() answers only what still holds.
LEMMA ToldByFinal ==
    ASSUME IntakeInv, CloseFinal
    PROVE  MayTell'
<1>1. /\ IntakeTypeOK /\ WayTaken /\ PlanKept /\ RecordsKept /\ ConsumptionsDecided /\ ValidKept
    BY DEF IntakeInv
<1>2. /\ ctl.pc = "cut" /\ QuietCut /\ disk' = disk /\ recs' = recs /\ result' = Told(world.now) /\ CheckTime
    BY DEF CloseFinal, CloseCut, QuietCut
<1>3. /\ Chain(Current.facts) = ctl.chain /\ ~Cancelled(Current.facts) /\ LastDraft
    BY <1>1, <1>2, ValidParts
<1>4. recs.decisions[ctl.d] # None /\ recs.decisions[ctl.d].draft = ctl.draft
      /\ recs.decisions[ctl.d].expires = ctl.expires
    BY <1>1, CloseFinalRecords
<1>5. Says(ctl.chain, ctl.draft)
    <2>1. ctl.op \in {"approve", "handoff"}
        BY <1>1, <1>2 DEF IntakeTypeOK
    <2>2. CASE ctl.op = "approve"
        <3>1. DecisionFree
            BY <1>1, <1>2, <2>2 DEF RecordsKept, WayTaken, DecisionFree
        <3> QED
            BY <1>1, <1>2, <2>2, <3>1, ApprovedSays
    <2>3. CASE ctl.op = "handoff"
        BY <1>1, <1>2, <2>3, HandoffSays
    <2> QED
        BY <2>1, <2>2, <2>3
<1> QED
    BY <1>2, <1>3, <1>4, <1>5, MayTellIs DEF Current, CheckTime

\* An approval with a budget is entered and told in one step.
LEMMA ToldEntered ==
    ASSUME IntakeTypeOK, PlanKept, ConsumptionsDecided, Entered, LastDraft, InTime, result' = Told(ctl.at),
           ~Cancelled(disk'.projection[Task].facts), Chain(disk'.projection[Task].facts) = ctl.chain
    PROVE  MayTell'
<1>1. /\ ctl.op = "approve" /\ ctl.pc \notin {"idle", "reading", "first"} /\ DecisionFree
      /\ recs'.drafts = recs.drafts /\ recs'.age = recs.age
      /\ recs'.decisions = [recs.decisions EXCEPT ![ctl.d] = Decision]
    BY DEF Entered
<1>2. Says(ctl.chain, ctl.draft)
    BY <1>1, ApprovedSays
<1>3. /\ recs'.decisions[ctl.d] = Decision /\ Decision # None /\ Decision.draft = ctl.draft
      /\ Decision.expires = ctl.expires
    BY <1>1, DecisionTyped, RecordsTyped
<1> QED
    BY <1>1, <1>2, <1>3, MayTellIs DEF InTime

\* A repeated budget approval answers only what still holds.
LEMMA ToldByRecords ==
    ASSUME IntakeInv, AcceptRecords
    PROVE  MayTell'
<1>1. /\ IntakeTypeOK /\ WayTaken /\ PlanKept /\ RecordsKept /\ ConsumptionsDecided /\ ValidKept
    BY DEF IntakeInv
<1>2. /\ ctl.pc = "submit" /\ ctl.op = "approve" /\ ctl.chain = ctl.basis /\ disk' = disk
      /\ result' = Told(ctl.at)
    BY <1>1 DEF AcceptRecords, WayTaken, vars
<1>3. OnBasis /\ Live /\ LastDraft /\ InTime
    BY <1>1, <1>2, ValidParts
<1>4. ctl.plan # "create"
    <2>1. ctl.plan = "create" => ctl.basis = <<>> /\ ctl.chain = <<DecisionOf("create")>>
        BY <1>1, <1>2 DEF PlanKept
    <2> QED
        BY <1>2, <2>1
<1>5. ~Cancelled(Current.facts) /\ Chain(Current.facts) = ctl.chain
    BY <1>2, <1>3, <1>4 DEF OnBasis, Live
<1>6. Entered
    BY <1>1, WritesEnter
<1> QED
    BY <1>1, <1>2, <1>3, <1>5, <1>6, ToldEntered DEF Current

\* accept_work_budget() answers only what still holds.
LEMMA ToldByCommit ==
    ASSUME IntakeInv, ApprovalCommits, result' # result
    PROVE  MayTell'
<1>1. /\ StoreInv /\ IntakeTypeOK /\ WayTaken /\ CallsApart /\ PlanKept /\ RecordsKept
      /\ ConsumptionsDecided /\ ValidKept
    BY DEF IntakeInv
<1>2. /\ ctl.pc = "admitting" /\ ctl.op = "approve" /\ Commit /\ txn # None
    BY <1>1 DEF ApprovalCommits, WayTaken, Commit
<1>3. /\ ctl.policy = "budget" /\ result' = Told(ctl.at)
    BY <1>1, CommitMoves DEF Carries
<1>4. LastDraft /\ InTime
    BY <1>1, <1>2, <1>3, ValidParts
<1>5. Entered
    <2>1. recs' = WithBudget(recs) /\ DecisionFree
        BY <1>1, <1>2, <1>3 DEF ApprovalCommits, RecordsKept
    <2>2. DOMAIN recs = {"drafts", "reviews", "decisions", "consumed", "age", "origin", "bound"}
        BY <1>1 DEF IntakeTypeOK
    <2> QED
        BY <1>2, <2>1, <2>2 DEF WithBudget, WithConsumption, WithDecision, Entered
<1>6. txn.call = ApprovalCall /\ Chain(txn.facts) = ctl.chain /\ ctl.plan # "again"
    BY <1>1, <1>2 DEF CallsApart
<1>7. disk'.projection[Task].facts = txn.facts
    <2>1. disk'.projection = [disk.projection EXCEPT ![Task] =
                 [sequence |-> SequenceAfter(disk, txn.call), facts |-> txn.facts]]
        BY <1>1, <1>2, <1>6, CommitAdds DEF ApprovalCall
    <2>2. DOMAIN disk.projection = Programs
        BY <1>1 DEF StoreInv, StoreTypeOK, Images
    <2> QED
        BY <2>1, <2>2, IntakeAssumption
<1>8. ~Cancelled(txn.facts)
    <2>1. Admitted(ApprovalCall) /\ txn.facts = FactsAfter(disk, ApprovalCall)
        BY <1>1, <1>2, <1>6 DEF StoreInv, WritesStaged
    <2>2. ApprovalCall.program = Task /\ ApprovalCall.decision = DecisionOf(ctl.plan)
        BY DEF ApprovalCall
    <2>3. ctl.draft \in DOMAIN recs.drafts /\ ctl.plan \in {"create", "amend"}
        BY <1>1, <1>2, <1>6 DEF IntakeTypeOK, PlanKept
    <2>4. CASE ctl.plan = "create"
        <3>1. txn.facts = <<DecisionOf("create")>> /\ DecisionOf("create")[1] = "create"
            BY <2>1, <2>2, <2>4 DEF FactsAfter, DecisionOf
        <3> QED
            BY <3>1 DEF Cancelled
    <2>5. CASE ctl.plan = "amend"
        <3>1. DecisionOf("amend") \in Decisions /\ DecisionOf("amend")[1] = "amend"
            BY <1>1, <2>3, ContentTyped DEF DecisionOf, Decisions
        <3>2. Current # None /\ ~Cancelled(Current.facts) /\ txn.facts = Apply(Current.facts, DecisionOf("amend"))
            BY <2>1, <2>2, <2>5, <3>1 DEF FactsAfter, Admitted, Current
        <3>3. Current.facts \in Facts
            BY <1>1, <3>2, CurrentTyped, IntakeAssumption
        <3> QED
            BY <3>1, <3>2, <3>3, ApplyCancels
    <2> QED
        BY <2>3, <2>4, <2>5
<1> QED
    BY <1>1, <1>3, <1>4, <1>5, <1>6, <1>7, <1>8, ToldEntered

\* Nobody else answers.
LEMMA ToldOnlyThen ==
    ASSUME IntakeInv, [IntakeNext]_allVars, result' # None, result' # result
    PROVE  MayTell'
<1>1. IntakeTypeOK /\ WayTaken
    BY DEF IntakeInv
<1>2. CASE CloseFinal \/ AcceptRecords \/ ApprovalCommits
    BY <1>2, ToldByFinal, ToldByRecords, ToldByCommit
<1>3. CASE Beside \/ Drops \/ Drafting \/ Asking \/ Approving
    BY <1>1, <1>3, BesideMoves, DropsMoves, AskingMoves DEF Drafting, RecordDraft
<1>4. CASE Receiving \/ Planning \/ Handoff \/ Compare \/ Carrying \/ RecordDecision \/ RecordConsumption
    BY <1>1, <1>4, CarryingMoves DEF Receiving, Received, Planning, Plan, Handoff, Compare, RecordDecision,
       RecordConsumption, Carries
<1> QED
    BY <1>2, <1>3, <1>4, Cases

\* A handoff that approve() or the handoff gives out names the live specification of a Program that
\* nobody has abandoned, drawn from the last draft, with its decision on record, fresh evidence and
\* time left: whatever callers, crashes and other processes do between the validation and the answer,
\* _final_program() and accept_work_budget() answer only what holds at the commit they answer after.
THEOREM HandoffsAreCurrent == IntakeSpec => HandoffCurrent
<1>1. IntakeInv /\ [IntakeNext]_allVars =>
          [result' # None /\ result' # result =>
              LET facts == disk'.projection[Task].facts
                  draft == recs'.drafts[result'.draft]
                  decided == recs'.decisions[result'.d]
              IN  /\ ~Cancelled(facts) /\ Chain(facts) = result'.chain
                  /\ Chain(facts)[Len(Chain(facts))][2] = Content(draft)
                  /\ result'.draft = Len(recs'.drafts) /\ decided # None /\ decided.draft = result'.draft
                  /\ result'.at < decided.expires /\ result'.at - recs'.age <= Freshness]_result
    BY ToldOnlyThen DEF MayTell, Content
<1> QED
    BY <1>1, IntakeInvariant, PTL DEF IntakeSpec, HandoffCurrent

\* The approvals' own transactions are ordinary ones: the store under the intake reopens, loses no
\* update and keeps every answer, as it does under any other caller.
THEOREM StoreIsKeptUnderApprovals == IntakeSpec => [](StoreReopens /\ DecidedOnHead /\ AnswersDurable)
<1>1. IntakeInv => StoreReopens /\ DecidedOnHead /\ AnswersDurable
    BY DEF IntakeInv, StoreInv
<1> QED
    BY <1>1, IntakeInvariant, PTL

=============================================================================
