---------------------------- MODULE ProgramStore ----------------------------
(***************************************************************************)
(* The durable Program store of adapters/sqlite_store.py: an append-only   *)
(* history of fact snapshots, the projection of its head, the admission    *)
(* ledger that makes commands idempotent, and the operation intents        *)
(* admitted with them.                                                     *)
(*                                                                         *)
(* One transaction runs at a time (the gate and BEGIN IMMEDIATE), but its  *)
(* writes are separate statements: the process may die, or a statement may *)
(* raise, between any two of them.  Callers are unconstrained: any key,    *)
(* decision, expected revision (however stale) and intent, repeated at     *)
(* will, because an answer may be lost with the process that awaited it.   *)
(***************************************************************************)
EXTENDS Integers, Sequences, FiniteSets

CONSTANTS
    Programs,      \* Program identities
    Keys,          \* command keys
    Specs,         \* what a specification says, without its place in the chain
    Commands,      \* the domain commands besides the amendment
    Intents,       \* logical effects: [op, effect, request]
    MaxRecords,    \* bound on the history of one Program
    None

ASSUME StoreAssumption ==
    /\ "cancel" \in Commands
    /\ MaxRecords \in Nat
    /\ None \notin Intents
    /\ None \notin Keys

VARIABLES
    disk,      \* the committed tables
    up,        \* a process has the store open
    txn,       \* the running transaction, or None
    cut,       \* the read cut a caller has open, or None
    answers    \* what callers were ever told

vars == <<disk, up, txn, cut, answers>>

\* The aggregate is the decisions that made it, from its creation on.
Creations == {<<"create", s>> : s \in Specs}
Decisions == {<<"amend", s>> : s \in Specs} \cup {<<"command", c>> : c \in Commands}

\* ProgramSpec.digest: a specification is known by what it says and by its ancestors.
Chain(facts) ==
    LET upTo[n \in 0..Len(facts)] ==
          IF n = 0 THEN <<>>
          ELSE IF facts[n][1] = "command" THEN upTo[n - 1] ELSE Append(upTo[n - 1], facts[n])
    IN  upTo[Len(facts)]

Cancelled(facts) == \E i \in DOMAIN facts : facts[i] = <<"command", "cancel">>

\* An amendment that says what the specification says returns the aggregate unchanged.
Restates(facts, decision) ==
    decision[1] = "amend" /\ Chain(facts)[Len(Chain(facts))][2] = decision[2]

Apply(facts, decision) == IF Restates(facts, decision) THEN facts ELSE Append(facts, decision)
Revision(facts) == Len(facts) - 1

\* The canonical input of a command, which its key is bound to.  The intent is
\* not part of it.
Input(call) == [program |-> call.program, decision |-> call.decision, expected |-> call.expected]

Calls ==
    [key : Keys, program : Programs, decision : Creations, expected : {0}, intent : {None}]
    \cup [key : Keys, program : Programs, decision : Decisions, expected : 0..MaxRecords,
          intent : Intents \cup {None}]

Init ==
    /\ disk = [history |-> {}, projection |-> [p \in Programs |-> None],
               admissions |-> {}, operations |-> {}]
    /\ up = TRUE
    /\ txn = None
    /\ cut = None
    /\ answers = {}

Idle == up /\ txn = None

-----------------------------------------------------------------------------
(* Reading. *)

HistoryOf(image, p) == {r \in image.history : r.program = p}

\* The record with the largest sequence.
HeadOf(image, p) ==
    CHOOSE r \in HistoryOf(image, p) : \A s \in HistoryOf(image, p) : s.sequence <= r.sequence

AdmissionsOf(image, key) == {a \in image.admissions : a.key = key}

\* _insert_intent: the rows that share an identity with the intent.
Overlapping(image, intent) ==
    {o \in image.operations : o.intent.op = intent.op \/ o.intent.effect = intent.effect}

\* Mutant: the intent of a repeated command is not looked up.
DuplicateAnyIntent(call) ==
    \E a \in AdmissionsOf(disk, call.key) : a.input = Input(call)

\* A repeated command: its key is bound to this input, and its intent, if it has
\* one, is there.
Duplicate(call) ==
    /\ \E a \in AdmissionsOf(disk, call.key) : a.input = Input(call)
    /\ call.intent # None => \E o \in disk.operations : o.intent = call.intent

\* Mutant: the expected revision is not compared.
AdmittedOnAnyRevision(call) ==
    /\ AdmissionsOf(disk, call.key) = {}
    /\ IF call.decision[1] = "create" THEN disk.projection[call.program] = None
       ELSE /\ disk.projection[call.program] # None
            /\ ~Cancelled(disk.projection[call.program].facts)

\* A new command: a new key, and a Program at the expected revision (or none,
\* to create it) that was not abandoned.  What the domain refuses besides is not a step.
Admitted(call) ==
    /\ AdmissionsOf(disk, call.key) = {}
    /\ IF call.decision[1] = "create" THEN disk.projection[call.program] = None
       ELSE /\ disk.projection[call.program] # None
            /\ call.expected = Revision(disk.projection[call.program].facts)
            /\ ~Cancelled(disk.projection[call.program].facts)

-----------------------------------------------------------------------------
(* Admission. *)

\* _duplicate_result: what the first admission returned.
RecordedResult(call) == (CHOOSE a \in AdmissionsOf(disk, call.key) : TRUE).facts

Answer(call, facts) ==
    [key |-> call.key, input |-> Input(call), intent |-> call.intent, facts |-> facts]

\* The same key and input again: the recorded result, and nothing is written.
Replay(call) ==
    /\ Idle
    /\ Duplicate(call)
    /\ answers' = answers \cup {Answer(call, RecordedResult(call))}
    /\ UNCHANGED <<disk, up, txn, cut>>

\* The facts the command will record.
FactsAfter(image, call) ==
    IF call.decision[1] = "create" THEN <<call.decision>>
    ELSE Apply(image.projection[call.program].facts, call.decision)

\* The transaction that records them.
Begin(call) ==
    /\ Idle
    /\ Admitted(call)
    /\ Cardinality(HistoryOf(disk, call.program)) < MaxRecords
    /\ txn' = [call |-> call, image |-> disk, step |-> "history", facts |-> FactsAfter(disk, call)]
    /\ UNCHANGED <<disk, up, cut, answers>>

SequenceAfter(image, call) ==
    IF call.decision[1] = "create" THEN 1 ELSE image.projection[call.program].sequence + 1

HistoryRow(t) ==
    [program |-> t.call.program, sequence |-> SequenceAfter(t.image, t.call), key |-> t.call.key,
     input |-> Input(t.call), facts |-> t.facts]

ProjectionRow(t) ==
    [sequence |-> HeadOf(t.image, t.call.program).sequence, facts |-> t.facts]

\* The column for the intent is the model's: it remembers what the call asked.
AdmissionRow(t) ==
    [key |-> t.call.key, program |-> t.call.program, input |-> Input(t.call),
     sequence |-> HeadOf(t.image, t.call.program).sequence, facts |-> t.facts,
     intent |-> t.call.intent]

\* What each statement of the transaction writes.
Written(t) ==
    CASE t.step = "history"    -> [t.image EXCEPT !.history = @ \cup {HistoryRow(t)}]
      [] t.step = "projection" -> [t.image EXCEPT !.projection[t.call.program] = ProjectionRow(t)]
      [] t.step = "admission"  -> [t.image EXCEPT !.admissions = @ \cup {AdmissionRow(t)}]
      [] t.step = "intent"     -> [t.image EXCEPT !.operations =
                                     @ \cup {[intent |-> t.call.intent, origin |-> t.call.key]}]

StepAfter(t) ==
    CASE t.step = "history" -> "projection" [] t.step = "projection" -> "admission"
      [] t.step = "admission" -> IF t.call.intent = None THEN "commit" ELSE "intent"
      [] t.step = "intent" -> "commit"

\* Mutant: a cut does not mind writes.
TouchedNever(c) == c

\* total_changes counts every row written, committed or not.
Touched(c) == IF c = None THEN None ELSE [c EXCEPT !.touched = TRUE]

Write ==
    /\ txn # None /\ txn.step # "commit"
    /\ txn.step = "intent" => Overlapping(txn.image, txn.call.intent) = {}
    /\ txn' = [txn EXCEPT !.image = Written(txn), !.step = StepAfter(txn)]
    /\ cut' = Touched(cut)
    /\ UNCHANGED <<disk, up, answers>>

Commit ==
    /\ txn # None /\ txn.step = "commit"
    /\ disk' = txn.image
    /\ answers' = answers \cup {Answer(txn.call, txn.facts)}
    /\ txn' = None
    /\ UNCHANGED <<up, cut>>

\* A statement raises (an overlapping intent, a refused reservation, a full
\* disk): the caller gets the error.
Rollback ==
    /\ txn # None
    /\ txn' = None
    /\ UNCHANGED <<disk, up, cut, answers>>

\* intent(): an effect of its own, without a command; repeating it is harmless.
IntentAlone(intent) ==
    /\ Idle
    /\ Overlapping(disk, intent) = {}
    /\ disk' = [disk EXCEPT !.operations = @ \cup {[intent |-> intent, origin |-> None]}]
    /\ cut' = Touched(cut)
    /\ UNCHANGED <<up, txn, answers>>

-----------------------------------------------------------------------------
(* The read cut, and the process. *)

\* program_read_cut: load, then run the caller's reads and its clock, which may
\* themselves use the store; the cut is returned only if nothing was written.
OpenCut(p) ==
    /\ Idle /\ cut = None
    /\ disk.projection[p] # None
    /\ cut' = [program |-> p, facts |-> disk.projection[p].facts,
               operations |-> disk.operations, touched |-> FALSE]
    /\ UNCHANGED <<disk, up, txn, answers>>

CloseCut ==
    /\ Idle /\ cut # None
    /\ cut' = None
    /\ UNCHANGED <<disk, up, txn, answers>>

\* Mutant: the statements are committed one by one.
CrashLeavesWritten(image, t) == IF t = None THEN image ELSE t.image

\* What is on disk when the process dies: the last commit.
CrashLeaves(image, t) == image

Crash ==
    /\ up
    /\ up' = FALSE
    /\ disk' = CrashLeaves(disk, txn)
    /\ txn' = None
    /\ cut' = None
    /\ UNCHANGED answers

\* What rebuild_projections() requires of the history of one Program.
HistoryValid(image, p) ==
    LET rows == HistoryOf(image, p)
    IN  /\ {r.sequence : r \in rows} = 1..Cardinality(rows)
        /\ \A r \in rows :
            /\ r.sequence = 1 <=> r.input.decision[1] = "create"
            /\ r.sequence = 1 => r.facts = <<r.input.decision>>
            /\ \A s \in rows : r.sequence < s.sequence => Revision(r.facts) <= Revision(s.facts)
            /\ \E a \in AdmissionsOf(image, r.key) :
                  /\ a.program = p /\ a.input = r.input
                  /\ a.sequence = r.sequence /\ a.facts = r.facts

\* A new process opens the database, checks the history and rebuilds the heads.
Open ==
    /\ ~up
    /\ \A p \in Programs : HistoryValid(disk, p)
    /\ up' = TRUE
    /\ disk' = [disk EXCEPT !.projection = [p \in Programs |->
                   IF HistoryOf(disk, p) = {} THEN None
                   ELSE [sequence |-> HeadOf(disk, p).sequence, facts |-> HeadOf(disk, p).facts]]]
    /\ UNCHANGED <<txn, cut, answers>>

Next ==
    \/ \E call \in Calls : Begin(call) \/ Replay(call)
    \/ Write \/ Commit \/ Rollback
    \/ \E intent \in Intents : IntentAlone(intent)
    \/ \E p \in Programs : OpenCut(p)
    \/ CloseCut \/ Crash \/ Open

Spec == Init /\ [][Next]_vars

-----------------------------------------------------------------------------
Inputs == [program : Programs, decision : Decisions \cup Creations, expected : 0..MaxRecords]
Facts == Seq(Decisions \cup Creations)

ASSUME RowAssumption == None \notin [sequence : Nat, facts : Facts]   \* NULL is no row

Images ==
    [history : SUBSET [program : Programs, sequence : Nat, key : Keys, input : Inputs,
                       facts : Facts],
     projection : [Programs -> [sequence : Nat, facts : Facts] \cup {None}],
     admissions : SUBSET [key : Keys, program : Programs, input : Inputs, sequence : Nat,
                          facts : Facts, intent : Intents \cup {None}],
     operations : SUBSET [intent : Intents, origin : Keys \cup {None}]]

Transactions ==
    [call : Calls, image : Images, facts : Facts,
     step : {"history", "projection", "admission", "intent", "commit"}]

\* The committed and the uncommitted tables have their schema's types, and only
\* an open store has a transaction or a cut.
StoreTypeOK ==
    /\ disk \in Images
    /\ up \in BOOLEAN
    /\ txn \in Transactions \cup {None}
    /\ cut \in [program : Programs, facts : Facts, touched : BOOLEAN,
                operations : SUBSET [intent : Intents, origin : Keys \cup {None}]] \cup {None}
    /\ answers \subseteq [key : Keys, input : Inputs, intent : Intents \cup {None},
                          facts : Facts]
    /\ ~up => txn = None /\ cut = None

\* The store opens after every crash, and every Program can be loaded: the
\* checks rebuild_projections() and load() make of the committed tables hold.
StoreReopens ==
    \A p \in Programs :
        /\ HistoryValid(disk, p)
        /\ up => IF HistoryOf(disk, p) = {} THEN disk.projection[p] = None
                 ELSE /\ disk.projection[p] # None
                      /\ disk.projection[p].sequence = HeadOf(disk, p).sequence
                      /\ disk.projection[p].facts = HeadOf(disk, p).facts

\* No update is lost: every command was decided on the record just before it,
\* at the revision its caller had seen.
DecidedOnHead ==
    \A r \in disk.history : r.sequence > 1 =>
        \E q \in HistoryOf(disk, r.program) :
            /\ q.sequence = r.sequence - 1
            /\ r.input.expected = Revision(q.facts)
            /\ r.facts = Apply(q.facts, r.input.decision)

\* What a caller was told once is durable, is what every repetition is told, and
\* is a state the Program was in.  A command and the effect it asks for are admitted
\* together: neither exists without the other, whatever the process died of, and no
\* effect has two owners.
AnswersDurable ==
    /\ \A a \in answers :
          /\ \E b \in disk.admissions : b.key = a.key /\ b.input = a.input /\ b.facts = a.facts
          /\ \E r \in disk.history : r.key = a.key /\ r.input = a.input /\ r.facts = a.facts
          /\ a.intent # None => \E o \in disk.operations : o.intent = a.intent
    /\ \A a \in disk.admissions : a.intent # None =>
          \E o \in disk.operations : o.intent = a.intent /\ o.origin = a.key
    /\ \A o \in disk.operations : o.origin # None =>
          \E a \in disk.admissions : a.key = o.origin /\ a.intent = o.intent
    /\ \A o, q \in disk.operations :
          o.intent.op = q.intent.op \/ o.intent.effect = q.intent.effect => o = q

\* The inductive strengthening, in parts.  The rows of a Program are numbered from
\* one on, without gaps and without repetitions.
RowsNumbered ==
    \A p \in Programs :
        LET rows == HistoryOf(disk, p)
        IN  /\ IsFiniteSet(rows)
            /\ {r.sequence : r \in rows} = 1..Cardinality(rows)
            /\ \A r, s \in rows : r.sequence = s.sequence => r = s

\* A key is bound to one input and one result, which is in the history.
KeysBound ==
    /\ \A a, b \in disk.admissions : a.key = b.key => a = b
    /\ \A a \in disk.admissions :
          \E r \in disk.history : r.key = a.key /\ r.input = a.input /\ r.facts = a.facts

\* The uncommitted tables are the committed ones and what the statements so far
\* wrote for an admitted command.
WritesStaged ==
    txn # None =>
        LET call == txn.call
            p == call.program
            next == SequenceAfter(disk, call)
            Past(steps, before, after) == IF txn.step \in steps THEN before ELSE after
        IN  /\ up /\ Admitted(call)
            /\ txn.facts = FactsAfter(disk, call)
            /\ txn.image.history = Past({"history"}, disk.history, disk.history \cup
                  {[program |-> p, sequence |-> next, key |-> call.key, input |-> Input(call),
                    facts |-> txn.facts]})
            /\ txn.image.projection = Past({"history", "projection"}, disk.projection,
                  [disk.projection EXCEPT ![p] = [sequence |-> next, facts |-> txn.facts]])
            /\ txn.image.admissions = Past({"history", "projection", "admission"}, disk.admissions,
                  disk.admissions \cup
                  {[key |-> call.key, program |-> p, input |-> Input(call), sequence |-> next,
                    facts |-> txn.facts, intent |-> call.intent]})
            /\ txn.step = "commit" /\ call.intent # None =>
                  /\ Overlapping(disk, call.intent) = {}
                  /\ txn.image.operations = disk.operations \cup {[intent |-> call.intent, origin |-> call.key]}
            /\ txn.step # "commit" \/ call.intent = None => txn.image.operations = disk.operations
            /\ txn.step = "intent" => call.intent # None

StoreInv ==
    /\ StoreTypeOK /\ RowsNumbered /\ KeysBound /\ WritesStaged
    /\ StoreReopens /\ DecidedOnHead /\ AnswersDurable
=============================================================================
