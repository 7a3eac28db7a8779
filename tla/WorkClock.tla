----------------------------- MODULE WorkClock -----------------------------
(***************************************************************************)
(* The clocks of the work budget (adapters/sqlite_store.py, lines          *)
(* 2716-3031; core/deadlines.py; adapters/boot_clock.py).  A task's        *)
(* deadline is projected once on the suspend-inclusive boot clock.  Every  *)
(* later decision samples wall and boot clock again: a durable "pending"   *)
(* mark comes before the sample, the sample is committed as a floor after  *)
(* it, and only then may the decision use it.  The process may die and the *)
(* disk may fail between any two of these steps, the wall clock may be     *)
(* set, and the machine may restart.                                       *)
(***************************************************************************)
EXTENDS Integers, FiniteSets

CONSTANTS
    Programs,
    Deadline,     \* Deadline[p]: the approved expiry, in seconds of wall time
    Ns,           \* nanoseconds in a second
    MaxReal,      \* bound on the time that passes, in nanoseconds
    MaxBoot,      \* bound on the restarts of the machine
    WallSettings, \* the values the wall clock may be set to, in nanoseconds
    None

Readings == [wall : Nat, boot : Nat, id : Nat]
Projections == [deadline : Nat, wall : Nat, boot : Nat, id : Nat]
Rows == [wall : Nat, boot : Nat, id : Nat, pending : BOOLEAN]

ASSUME ClockAssumption ==
    /\ Ns \in Nat \ {0}
    /\ MaxReal \in Nat
    /\ MaxBoot \in Nat
    /\ Deadline \in [Programs -> Nat]
    /\ WallSettings \subseteq Nat
    /\ None \notin Nat /\ None \notin Readings /\ None \notin Projections /\ None \notin Rows
    /\ None \notin [time : Nat, real : Nat]

VARIABLES
    real,         \* nanoseconds since the beginning: what the boot clock counts
    bootAt,       \* the value of real when the machine started
    bootId,       \* identity of the machine's current run
    wall,         \* the wall clock, in nanoseconds
    projections,  \* disk: the projection of the deadline, clock-origin or binding
    bound,        \* disk: the Programs whose binding is committed
    floors,       \* disk: work_clock_state
    uncommitted,  \* memory: _clock_uncommitted
    call,         \* memory: the decision under way and the step it is at
    seen,         \* history: the latest wall time ever sampled for a Program
    granted,      \* history: the last decision that found authority
    since         \* history: when the clocks behind a projection were read

hardwareVars == <<real, bootAt, bootId, wall>>
diskVars == <<projections, bound, floors>>
vars == <<hardwareVars, diskVars, uncommitted, call, seen, granted, since>>

-----------------------------------------------------------------------------
(* core/deadlines.py *)

\* read_boot_clock(): the wall clock in whole seconds, the boot clock in nanoseconds.
Reading == [wall |-> wall \div Ns, boot |-> real - bootAt, id |-> bootId]

\* DeadlineProjection.bind()
Bind(deadline, reading) ==
    [deadline |-> deadline, wall |-> reading.wall, boot |-> reading.boot, id |-> reading.id]

Verifiable(projection, reading) ==
    /\ reading # None
    /\ reading.id = projection.id
    /\ reading.boot >= projection.boot
    /\ reading.wall >= projection.wall

Later(a, b) == IF a > b THEN a ELSE b

\* Mutant: only the wall clock decides.
DecisionTimeWall(projection, reading) == reading.wall

DecisionTime(projection, reading) ==
    Later(reading.wall, projection.wall + ((reading.boot - projection.boot) \div Ns))

-----------------------------------------------------------------------------
Init ==
    /\ real = 0 /\ bootAt = 0 /\ bootId = 0
    /\ wall \in WallSettings
    /\ projections = [p \in Programs |-> None]
    /\ bound = {}
    /\ floors = [p \in Programs |-> None]
    /\ uncommitted = [p \in {} |-> None]
    /\ call = None
    /\ seen = [p \in Programs |-> 0]
    /\ granted = [p \in Programs |-> None]
    /\ since = [p \in Programs |-> None]

Projected == {p \in Programs : projections[p] # None}

\* A call starts by flushing what an earlier call of this process could not.
Started(kind, p) ==
    [kind |-> kind, program |-> p, step |-> IF DOMAIN uncommitted = {} THEN "mark" ELSE "flush",
     eligible |-> {}, reading |-> None, at |-> 0, changed |-> FALSE,
     result |-> [q \in Projected |-> None]]

\* A decision about p begins with _prepare_work_clocks(): "envelope" and "bind"
\* make the projection, "accept" commits the binding, "decide" asks for authority.
\* bind_work_budget() does not prepare while no Program is bound.
Prepare(kind, p) ==
    /\ call = None
    /\ kind = "decide" <=> p \in bound
    /\ kind = "bind" => projections[p] = None
    /\ call' = IF kind = "bind" /\ bound = {}
               THEN [Started(kind, p) EXCEPT !.step = "ready", !.result = [q \in {} |-> None]]
               ELSE Started(kind, p)
    /\ UNCHANGED <<hardwareVars, diskVars, uncommitted, seen, granted, since>>

\* The floor a captured sample leaves; a sample of another run of the machine,
\* or one that could not be taken, leaves the old one.
Floor(row, reading) ==
    IF reading # None /\ reading.id = row.id
    THEN [row EXCEPT !.wall = Later(@, reading.wall), !.boot = Later(@, reading.boot), !.pending = FALSE]
    ELSE [row EXCEPT !.pending = FALSE]

\* _flush_clock_observations() commits what was captured, now or by an earlier
\* call of this process whose commit failed.  Without a sample the decision is refused.
Flush ==
    /\ call # None /\ call.step \in {"flush", "sampled"}
    /\ floors' = [p \in Programs |-> IF p \in DOMAIN uncommitted
                                     THEN Floor(floors[p], uncommitted[p]) ELSE floors[p]]
    /\ uncommitted' = [p \in {} |-> None]
    /\ call' = IF call.step = "flush" THEN [call EXCEPT !.step = "mark"]
               ELSE IF call.changed \/ call.reading = None THEN None
               ELSE [call EXCEPT !.step = "ready", !.reading = None, !.eligible = {},
                                 !.result = [p \in DOMAIN @ |-> IF p \in call.eligible THEN call.reading ELSE None]]
    /\ UNCHANGED <<hardwareVars, projections, bound, seen, granted, since>>

\* A commit fails: no Program gets a sample, so that the decision is refused, and
\* a captured one is kept.
FlushFails ==
    /\ call # None /\ call.step \in {"flush", "sampled", "mark"}
    /\ DOMAIN call.result # {}
    /\ call' = None
    /\ UNCHANGED <<hardwareVars, diskVars, uncommitted, seen, granted, since>>

\* A Program whose sample was lost is never sampled again.
Eligible(p) == floors[p] = None \/ ~floors[p].pending

\* The pending marks, and a row for every new projection, in one transaction.
Mark ==
    /\ call # None /\ call.step = "mark"
    /\ LET eligible == {p \in Projected : Eligible(p)}
       IN  /\ floors' = [p \in Programs |->
                  IF p \notin eligible THEN floors[p]
                  ELSE IF floors[p] = None
                       THEN [wall |-> projections[p].wall, boot |-> projections[p].boot,
                             id |-> projections[p].id, pending |-> TRUE]
                       ELSE [floors[p] EXCEPT !.pending = TRUE]]
           /\ call' = [call EXCEPT !.eligible = eligible, !.step = IF eligible = {} THEN "ready" ELSE "read"]
    /\ UNCHANGED <<hardwareVars, projections, bound, uncommitted, seen, granted, since>>

\* The sample, which may be unavailable.  The clock is a callback: it may have
\* written to the store, and then the sample is kept but nothing is decided on it.
Sample(reading, changed) ==
    /\ call # None /\ call.step = "read"
    /\ uncommitted' = [p \in call.eligible |-> reading]
    /\ call' = [call EXCEPT !.step = "sampled", !.reading = reading, !.changed = changed, !.at = real]
    /\ seen' = [p \in Programs |-> IF p \in call.eligible /\ reading # None
                                   THEN Later(seen[p], reading.wall) ELSE seen[p]]
    /\ UNCHANGED <<hardwareVars, diskVars, granted, since>>

\* Mutant: a clock that was set back is believed.
RolledBackNever(p, reading) == FALSE

\* A reading below a committed floor means that a clock was set back.
RolledBack(p, reading) == reading.wall < floors[p].wall \/ reading.boot < floors[p].boot

\* _check_work_projection() and work_decision_time(), then the comparison with the deadline.
Permitted(p) ==
    /\ p \in DOMAIN call.result
    /\ floors[p] # None /\ ~floors[p].pending
    /\ Verifiable(projections[p], call.result[p])
    /\ ~RolledBack(p, call.result[p])
    /\ DecisionTime(projections[p], call.result[p]) < projections[p].deadline

\* _new_work_projection(): from the sample just committed for the others, or from
\* a reading of its own while the store holds no projection.
NewProjection(p) ==
    IF DOMAIN call.result = {} THEN Bind(Deadline[p], Reading)
    ELSE Bind(Deadline[p], call.result[CHOOSE q \in DOMAIN call.result : TRUE])

Projectable ==
    \A q \in DOMAIN call.result :
        /\ call.result[q] # None
        /\ floors[q].id = call.result[q].id => ~RolledBack(q, call.result[q])

\* The moment the clocks behind a new projection were read.
ReadAt == IF DOMAIN call.result = {} THEN real ELSE call.at

Project(p) ==
    /\ projections[p] = None
    /\ Projectable
    /\ NewProjection(p).wall < Deadline[p]
    /\ projections' = [projections EXCEPT ![p] = NewProjection(p)]
    /\ since' = [since EXCEPT ![p] = ReadAt]

\* accept_work_budget(): the projection is committed by itself, before the
\* caller's validation, so that no retry can make another.
MakeProjection ==
    /\ call # None /\ call.step = "ready" /\ call.kind = "envelope"
    /\ Project(call.program)
    /\ call' = [Started("accept", call.program) EXCEPT
                  !.result = [q \in Projected \cup {call.program} |-> None]]
    /\ UNCHANGED <<hardwareVars, bound, floors, uncommitted, seen, granted>>

\* The projection of an earlier, failed call is used as it is.
KeepProjection ==
    /\ call # None /\ call.step = "ready" /\ call.kind = "envelope"
    /\ projections[call.program] # None
    /\ Permitted(call.program)
    /\ call' = Started("accept", call.program)
    /\ UNCHANGED <<hardwareVars, diskVars, uncommitted, seen, granted, since>>

\* The binding commits after the last sample.
Accept ==
    /\ call # None /\ call.step = "ready" /\ call.kind = "accept"
    /\ Permitted(call.program)
    /\ bound' = bound \cup {call.program}
    /\ call' = None
    /\ UNCHANGED <<hardwareVars, projections, floors, uncommitted, seen, granted, since>>

\* bind_work_budget() commits projection and binding together.
BindNew ==
    /\ call # None /\ call.step = "ready" /\ call.kind = "bind"
    /\ Project(call.program)
    /\ bound' = bound \cup {call.program}
    /\ call' = None
    /\ UNCHANGED <<hardwareVars, floors, uncommitted, seen, granted>>

\* bind_work_budget() for a projection that a failed acceptance left behind.
BindKept(p) ==
    /\ call = None
    /\ projections[p] # None /\ p \notin bound
    /\ bound' = bound \cup {p}
    /\ UNCHANGED <<hardwareVars, projections, floors, uncommitted, call, seen, granted, since>>

\* check_work_authority(): the decision is taken on the committed sample.
Decide ==
    /\ call # None /\ call.step = "ready" /\ call.kind = "decide"
    /\ Permitted(call.program)
    /\ LET p == call.program
       IN  granted' = [granted EXCEPT ![p] =
               [time |-> DecisionTime(projections[p], call.result[p]), real |-> call.at]]
    /\ call' = None
    /\ UNCHANGED <<hardwareVars, diskVars, uncommitted, seen, since>>

\* A refusal, or a caller's validation that raises.
Refuse ==
    /\ call # None /\ call.step = "ready"
    /\ call' = None
    /\ UNCHANGED <<hardwareVars, diskVars, uncommitted, seen, granted, since>>

-----------------------------------------------------------------------------
(* The machine. *)

Pass ==
    /\ real < MaxReal
    /\ real' = real + 1 /\ wall' = wall + 1
    /\ UNCHANGED <<bootAt, bootId, diskVars, uncommitted, call, seen, granted, since>>

SetWall(w) ==
    /\ wall # w
    /\ wall' = w
    /\ UNCHANGED <<real, bootAt, bootId, diskVars, uncommitted, call, seen, granted, since>>

Crash ==
    /\ call # None \/ DOMAIN uncommitted # {}
    /\ call' = None /\ uncommitted' = [p \in {} |-> None]
    /\ UNCHANGED <<hardwareVars, diskVars, seen, granted, since>>

Reboot ==
    /\ bootId < MaxBoot
    /\ bootId' = bootId + 1 /\ bootAt' = real
    /\ call' = None /\ uncommitted' = [p \in {} |-> None]
    /\ UNCHANGED <<real, wall, diskVars, seen, granted, since>>

Next ==
    \/ \E kind \in {"envelope", "bind", "decide"}, p \in Programs : Prepare(kind, p)
    \/ Flush \/ FlushFails \/ Mark
    \/ \E reading \in {Reading, None}, changed \in BOOLEAN : Sample(reading, changed)
    \/ MakeProjection \/ KeepProjection \/ Accept \/ BindNew \/ Decide \/ Refuse
    \/ \E p \in Programs : BindKept(p)
    \/ Pass \/ Crash \/ Reboot
    \/ \E w \in WallSettings : SetWall(w)

Spec == Init /\ [][Next]_vars

-----------------------------------------------------------------------------
(* Properties. *)

\* No decision finds authority once the time between the reading that made
\* the projection and the deadline has really passed, however the wall clock was
\* set and whichever process or run of the machine asks.
AuthorityEndsInTime ==
    \A p \in Programs : granted[p] # None =>
        granted[p].real - since[p] < (projections[p].deadline - projections[p].wall) * Ns

\* No decision is taken on a wall time earlier than one that was ever sampled for the
\* Program, not even one whose commit failed or whose process died, and the times
\* decisions are taken at never go back, across crashes and restarts.
DecisionTimesAdvance ==
    [][\A p \in Programs : granted'[p] # granted[p] =>
          /\ call.result[p].wall >= seen[p]
          /\ granted[p] # None => granted'[p].time >= granted[p].time]_granted

-----------------------------------------------------------------------------
(* The inductive strengthening, in parts. *)

\* Samples of the Programs D, and calls that decide about them.
Samples(D) == [D -> Readings \cup {None}]

Calls(D) ==
    [kind : {"envelope", "bind", "accept", "decide"}, program : Programs,
     step : {"flush", "mark", "read", "sampled", "ready"}, eligible : SUBSET Programs,
     reading : Readings \cup {None}, at : Nat, changed : BOOLEAN, result : Samples(D)]

\* Every piece of the state that the other parts speak of has its type.
ClockTypeOK ==
    /\ real \in Nat /\ bootAt \in Nat /\ bootId \in Nat /\ wall \in Nat /\ bootAt <= real
    /\ projections \in [Programs -> Projections \cup {None}]
    /\ floors \in [Programs -> Rows \cup {None}]
    /\ \E D \in SUBSET Programs : uncommitted \in Samples(D)
    /\ call # None => \E D \in SUBSET Programs : call \in Calls(D)
    /\ seen \in [Programs -> Nat]
    /\ granted \in [Programs -> [time : Nat, real : Nat] \cup {None}]
    /\ since \in [Programs -> Nat \cup {None}]

\* A reading that the call under way took, in this run of the machine.
TakenNow(reading) == reading.id = bootId /\ reading.boot = call.at - bootAt

\* What is in memory was read in this run of the machine.
SamplesAreCurrent ==
    /\ \A p \in DOMAIN uncommitted : uncommitted[p] # None => uncommitted[p].id = bootId
    /\ call # None =>
        /\ call.reading # None => call.step = "sampled" /\ TakenNow(call.reading)
        /\ \A p \in DOMAIN call.result : call.result[p] # None => call.step = "ready" /\ TakenNow(call.result[p])

\* A projection says when it was read, as long as the machine runs on.
ProjectionsRooted ==
    \A p \in Programs : projections[p] # None =>
        /\ since[p] # None /\ projections[p].id <= bootId
        /\ projections[p].id = bootId => projections[p].boot = since[p] - bootAt

\* The sample of p is about to be taken, under a committed mark.
AboutToRead(p) == call # None /\ call.step = "read" /\ p \in call.eligible

\* A committed floor covers all that was ever sampled or granted, unless its mark says
\* that a sample may have been lost.
FloorsCover ==
    \A p \in Programs :
        /\ floors[p] = None => seen[p] = 0 /\ granted[p] = None
        /\ floors[p] # None =>
            /\ projections[p] # None /\ floors[p].id = projections[p].id
            /\ granted[p] # None => granted[p].time <= DecisionTime(projections[p], floors[p])
            /\ (~floors[p].pending \/ AboutToRead(p)) /\ projections[p].id = bootId =>
                  seen[p] <= floors[p].wall

\* A sample in memory is covered by a mark on disk, and a call uses it only once its
\* floor is committed.
SamplesAreMarked ==
    /\ \A p \in DOMAIN uncommitted :
        /\ floors[p] # None /\ floors[p].pending
        /\ projections[p].id = bootId =>
              seen[p] <= IF uncommitted[p] = None THEN floors[p].wall
                         ELSE Later(floors[p].wall, uncommitted[p].wall)
    /\ call # None =>
        /\ call.step \in {"mark", "read"} => DOMAIN uncommitted = {}
        /\ call.step = "read" => \A p \in call.eligible : floors[p] # None /\ floors[p].pending
        /\ call.step = "sampled" => uncommitted = [p \in call.eligible |-> call.reading]
        /\ \A p \in DOMAIN call.result : call.result[p] # None =>
              /\ floors[p] # None
              /\ floors[p].id = call.result[p].id =>
                    call.result[p].wall <= floors[p].wall /\ call.result[p].boot <= floors[p].boot

ClockInv ==
    /\ ClockTypeOK /\ SamplesAreCurrent /\ ProjectionsRooted /\ FloorsCover /\ SamplesAreMarked
    /\ AuthorityEndsInTime
=============================================================================
