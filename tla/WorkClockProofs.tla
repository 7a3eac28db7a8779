-------------------------- MODULE WorkClockProofs --------------------------
(***************************************************************************)
(* Proofs about the clocks of the work budget, for every set of Programs,  *)
(* deadlines and settings of the wall clock, and any number of restarts.   *)
(***************************************************************************)
EXTENDS WorkClock, TLAPS

\* A quotient is a number, and the numbers around it.
LEMMA Quotient ==
    ASSUME NEW x \in Int, NEW n \in Nat \ {0}
    PROVE  /\ x \div n \in Int
           /\ n * (x \div n) <= x /\ x < n * (x \div n) + n
OBVIOUS

\* A reading of the wall clock in whole seconds is not negative.
LEMMA QuotientNat ==
    ASSUME NEW x \in Nat, NEW n \in Nat \ {0}
    PROVE  x \div n \in Nat
OBVIOUS

\* Products keep the order.
LEMMA TimesMonotone ==
    ASSUME NEW n \in Nat \ {0}, NEW a \in Int, NEW b \in Int, a <= b
    PROVE  n * a <= n * b
OBVIOUS

\* Whole seconds do not go back when nanoseconds do not.
LEMMA QuotientMonotone ==
    ASSUME NEW x \in Int, NEW y \in Int, NEW n \in Nat \ {0}, x <= y
    PROVE  x \div n <= y \div n
<1> DEFINE a == x \div n
           b == y \div n
<1>1. a \in Int /\ b \in Int /\ n * a <= x /\ y < n * b + n
    BY Quotient
<1> HIDE DEF a, b
<1>2. n * a < n * b + n
    BY <1>1
<1>3. ASSUME b + 1 <= a PROVE FALSE
    <2>1. n * (b + 1) <= n * a
        BY <1>1, <1>3, TimesMonotone
    <2>2. n * (b + 1) = n * b + n
        BY <1>1
    <2> QED
        BY <1>1, <1>2, <2>1, <2>2
<1>4. a <= b
    BY <1>1, <1>3
<1> QED
    BY <1>4 DEF a, b

\* Fewer whole seconds than k are fewer nanoseconds than k seconds have.
LEMMA QuotientBelow ==
    ASSUME NEW x \in Int, NEW k \in Int, NEW n \in Nat \ {0}, x \div n < k
    PROVE  x < k * n
<1> DEFINE a == x \div n
<1>1. a \in Int /\ x < n * a + n
    BY Quotient
<1>2. a + 1 <= k
    BY <1>1
<1> HIDE DEF a
<1>3. n * (a + 1) <= n * k
    BY <1>1, <1>2, TimesMonotone
<1>4. n * (a + 1) = n * a + n /\ n * k = k * n
    BY <1>1
<1> QED
    BY <1>1, <1>3, <1>4

-----------------------------------------------------------------------------
(* Calls that begin or end. *)

\* What the invariant speaks of, apart from the call under way.
Steady == <<hardwareVars, projections, floors, uncommitted, seen, granted, since>>

\* A call that has neither sampled nor decided anything yet.
Blank(c) ==
    /\ \E D \in SUBSET Programs : c \in Calls(D)
    /\ c.reading = None /\ \A p \in DOMAIN c.result : c.result[p] = None
    /\ c.step \in {"flush", "mark", "ready"}
    /\ c.step = "mark" => DOMAIN uncommitted = {}

\* Such a call, or none, leaves everything as it is.
LEMMA BlankStep ==
    ASSUME ClockInv, UNCHANGED Steady, call' # None => Blank(call')
    PROVE  ClockInv'
<1>1. ClockTypeOK'
    <2>1. call' # None => \E D \in SUBSET Programs : call' \in Calls(D)
        BY DEF Blank
    <2> QED
        BY <2>1 DEF ClockInv, ClockTypeOK, Steady, hardwareVars, Calls, Samples
<1>2. SamplesAreCurrent'
    BY DEF ClockInv, SamplesAreCurrent, Steady, hardwareVars, Blank
<1>3. ProjectionsRooted'
    BY DEF ClockInv, ProjectionsRooted, Steady, hardwareVars
<1>4. FloorsCover'
    BY DEF ClockInv, FloorsCover, Steady, hardwareVars, Blank, AboutToRead, DecisionTime, Later
<1>5. SamplesAreMarked'
    BY DEF ClockInv, SamplesAreMarked, Steady, hardwareVars, Blank, Later
<1>6. AuthorityEndsInTime'
    BY DEF ClockInv, AuthorityEndsInTime, Steady
<1> QED
    BY <1>1, <1>2, <1>3, <1>4, <1>5, <1>6 DEF ClockInv

\* A call starts with a flush or with its marks, and knows nothing.
LEMMA StartedBlank ==
    ASSUME ClockInv, NEW kind \in {"envelope", "bind", "accept", "decide"}, NEW p \in Programs
    PROVE  Blank(Started(kind, p)) /\ Started(kind, p).result = [q \in Projected |-> None]
<1> DEFINE start == Started(kind, p)
<1>1. start.result = [q \in Projected |-> None] /\ start.reading = None
    BY DEF Started
<1>2. start.step = IF DOMAIN uncommitted = {} THEN "mark" ELSE "flush"
    BY DEF Started
<1>3. Projected \in SUBSET Programs
    BY DEF Projected
<1>4. start \in Calls(Projected)
    <2>1. [q \in Projected |-> None] \in Samples(Projected)
        BY DEF Samples
    <2> QED
        BY <2>1 DEF Started, Calls
<1> QED
    BY <1>1, <1>2, <1>3, <1>4 DEF Blank

\* A decision begins.
LEMMA PrepareStep ==
    ASSUME ClockInv, NEW kind \in {"envelope", "bind", "decide"}, NEW p \in Programs, Prepare(kind, p)
    PROVE  ClockInv'
<1>1. UNCHANGED Steady
    BY DEF Prepare, Steady, diskVars
<1>2. Blank(Started(kind, p))
    BY StartedBlank
<1>3. CASE call' = Started(kind, p)
    BY <1>1, <1>2, <1>3, BlankStep
<1>4. CASE call' = [Started(kind, p) EXCEPT !.step = "ready", !.result = [q \in {} |-> None]]
    <2> DEFINE start == Started(kind, p)
               none == [q \in {} |-> None]
    <2>1. PICK D \in SUBSET Programs : start \in Calls(D)
        BY <1>2 DEF Blank
    <2>2. none \in Samples({}) /\ DOMAIN none = {}
        BY DEF Samples
    <2>3. start.reading = None
        BY <1>2 DEF Blank
    <2> HIDE DEF start, none
    <2>4. call' = [start EXCEPT !.step = "ready", !.result = none]
        BY <1>4 DEF start, none
    <2>5. call' \in Calls({}) /\ call'.step = "ready" /\ call'.result = none /\ call'.reading = None
        BY <2>1, <2>2, <2>3, <2>4 DEF Calls
    <2>6. {} \in SUBSET Programs
        OBVIOUS
    <2>7. Blank(call')
        BY <2>2, <2>5, <2>6 DEF Blank
    <2> QED
        BY <1>1, <2>7, BlankStep
<1> QED
    BY <1>3, <1>4 DEF Prepare

\* A decision ends, whatever came of it, or a binding is committed that was made before.
LEMMA EndStep ==
    ASSUME ClockInv, FlushFails \/ Refuse \/ Accept \/ \E p \in Programs : BindKept(p)
    PROVE  ClockInv'
<1>1. UNCHANGED Steady /\ call' = None
    BY DEF FlushFails, Refuse, Accept, BindKept, Steady, diskVars, hardwareVars
<1> QED
    BY <1>1, BlankStep

\* An acceptance goes on with the projection that is there.
LEMMA KeepProjectionStep ==
    ASSUME ClockInv, KeepProjection
    PROVE  ClockInv'
<1>1. call.program \in Programs
    BY DEF ClockInv, ClockTypeOK, KeepProjection, Calls
<1>2. UNCHANGED Steady /\ call' = Started("accept", call.program)
    BY DEF KeepProjection, Steady, diskVars
<1> QED
    BY <1>1, <1>2, StartedBlank, BlankStep

-----------------------------------------------------------------------------
(* The machine. *)

\* Time passes, and the wall clock is set.
LEMMA TimeStep ==
    ASSUME ClockInv, Pass \/ \E w \in WallSettings : SetWall(w)
    PROVE  ClockInv'
<1>1. /\ UNCHANGED <<bootAt, bootId, projections, floors, uncommitted, call, seen, granted, since>>
      /\ real' \in Nat /\ real' >= real /\ wall' \in Nat
    BY ClockAssumption DEF ClockInv, ClockTypeOK, Pass, SetWall, diskVars
<1>2. ClockTypeOK'
    BY <1>1 DEF ClockInv, ClockTypeOK, Calls, Samples
<1>3. SamplesAreCurrent'
    BY <1>1 DEF ClockInv, SamplesAreCurrent, TakenNow
<1>4. ProjectionsRooted'
    BY <1>1 DEF ClockInv, ProjectionsRooted
<1>5. FloorsCover'
    BY <1>1 DEF ClockInv, FloorsCover, AboutToRead, DecisionTime, Later
<1>6. SamplesAreMarked'
    BY <1>1 DEF ClockInv, SamplesAreMarked, Later
<1>7. AuthorityEndsInTime'
    BY <1>1 DEF ClockInv, AuthorityEndsInTime
<1> QED
    BY <1>2, <1>3, <1>4, <1>5, <1>6, <1>7 DEF ClockInv

\* Neither a sample nor a call survives the process; the marks do.
LEMMA CrashStep ==
    ASSUME ClockInv, Crash
    PROVE  ClockInv'
<1>1. /\ UNCHANGED <<real, bootAt, bootId, wall, projections, floors, seen, granted, since>>
      /\ call' = None /\ uncommitted' = [p \in {} |-> None]
    BY DEF Crash, diskVars, hardwareVars
<1>2. uncommitted' \in Samples({}) /\ DOMAIN uncommitted' = {}
    BY <1>1 DEF Samples
<1>3. ClockTypeOK'
    <2>1. \E D \in SUBSET Programs : uncommitted' \in Samples(D)
        BY <1>2
    <2> QED
        BY <1>1, <2>1 DEF ClockInv, ClockTypeOK, Samples
<1>4. SamplesAreCurrent'
    BY <1>1, <1>2 DEF SamplesAreCurrent
<1>5. ProjectionsRooted'
    BY <1>1 DEF ClockInv, ProjectionsRooted
<1>6. FloorsCover'
    BY <1>1 DEF ClockInv, FloorsCover, AboutToRead, DecisionTime, Later
<1>7. SamplesAreMarked'
    BY <1>1, <1>2 DEF SamplesAreMarked
<1>8. AuthorityEndsInTime'
    BY <1>1 DEF ClockInv, AuthorityEndsInTime
<1> QED
    BY <1>3, <1>4, <1>5, <1>6, <1>7, <1>8 DEF ClockInv

\* After a restart of the machine no earlier projection can be verified again.
LEMMA RebootStep ==
    ASSUME ClockInv, Reboot
    PROVE  ClockInv'
<1>1. /\ UNCHANGED <<real, wall, projections, floors, seen, granted, since>>
      /\ call' = None /\ uncommitted' = [p \in {} |-> None]
      /\ bootId' = bootId + 1 /\ bootAt' = real /\ bootId \in Nat /\ real \in Nat
    BY DEF ClockInv, ClockTypeOK, Reboot, diskVars
<1>2. uncommitted' \in Samples({}) /\ DOMAIN uncommitted' = {}
    BY <1>1 DEF Samples
<1>3. ClockTypeOK'
    <2>1. \E D \in SUBSET Programs : uncommitted' \in Samples(D)
        BY <1>2
    <2>2. real' \in Nat /\ bootAt' \in Nat /\ bootId' \in Nat /\ bootAt' <= real'
        BY <1>1
    <2> QED
        BY <1>1, <2>1, <2>2 DEF ClockInv, ClockTypeOK, Samples
<1>4. \A p \in Programs : projections[p] # None =>
          projections[p].id \in Nat /\ projections[p].id < bootId'
    BY <1>1 DEF ClockInv, ClockTypeOK, ProjectionsRooted, Projections
<1>5. SamplesAreCurrent'
    BY <1>1, <1>2 DEF SamplesAreCurrent
<1>6. ProjectionsRooted'
    BY <1>1, <1>4 DEF ClockInv, ProjectionsRooted
<1>7. FloorsCover'
    BY <1>1, <1>4 DEF ClockInv, FloorsCover, AboutToRead, DecisionTime, Later
<1>8. SamplesAreMarked'
    BY <1>1, <1>2 DEF SamplesAreMarked
<1>9. AuthorityEndsInTime'
    BY <1>1 DEF ClockInv, AuthorityEndsInTime
<1> QED
    BY <1>3, <1>5, <1>6, <1>7, <1>8, <1>9 DEF ClockInv

-----------------------------------------------------------------------------
(* Marks, samples and floors. *)

\* The mark is on disk before the clock is read.
LEMMA MarkStep ==
    ASSUME ClockInv, Mark
    PROVE  ClockInv'
<1> DEFINE eligible == {p \in Projected : Eligible(p)}
<1>1. /\ UNCHANGED <<real, bootAt, bootId, wall, projections, uncommitted, seen, granted, since>>
      /\ call # None /\ call.step = "mark"
    BY DEF Mark, hardwareVars
<1>2. /\ floors' = [p \in Programs |->
                  IF p \notin eligible THEN floors[p]
                  ELSE IF floors[p] = None
                       THEN [wall |-> projections[p].wall, boot |-> projections[p].boot,
                             id |-> projections[p].id, pending |-> TRUE]
                       ELSE [floors[p] EXCEPT !.pending = TRUE]]
      /\ call' = [call EXCEPT !.eligible = eligible, !.step = IF eligible = {} THEN "ready" ELSE "read"]
    BY DEF Mark
<1>3. \A p \in eligible : /\ p \in Programs /\ projections[p] # None /\ projections[p] \in Projections
                          /\ floors[p] = None \/ ~floors[p].pending
    BY DEF Projected, Eligible, ClockInv, ClockTypeOK
<1>4. eligible \in SUBSET Programs
    BY DEF Projected
<1>5. PICK D \in SUBSET Programs : call \in Calls(D)
    BY <1>1 DEF ClockInv, ClockTypeOK
<1> HIDE DEF eligible
<1>6. /\ call' \in Calls(D) /\ call'.result = call.result /\ call'.reading = call.reading
      /\ call'.eligible = eligible /\ call'.step \in {"ready", "read"} /\ call'.at = call.at
    BY <1>2, <1>4, <1>5 DEF Calls
<1>7. call.reading = None /\ (\A p \in DOMAIN call.result : call.result[p] = None) /\ DOMAIN uncommitted = {}
    BY <1>1 DEF ClockInv, SamplesAreCurrent, SamplesAreMarked
<1>8. ASSUME NEW p \in Programs
      PROVE  /\ p \notin eligible => floors'[p] = floors[p]
             /\ p \in eligible =>
                  /\ floors'[p] \in Rows /\ floors'[p] # None /\ floors'[p].pending
                  /\ floors[p] = None => /\ floors'[p].id = projections[p].id
                                         /\ floors'[p].wall = projections[p].wall
                  /\ floors[p] # None => /\ floors'[p].id = floors[p].id
                                         /\ floors'[p].wall = floors[p].wall
                                         /\ floors'[p].boot = floors[p].boot
    <2>1. CASE p \notin eligible
        BY <1>2, <2>1
    <2>2. CASE p \in eligible /\ floors[p] = None
        <3>1. floors'[p] = [wall |-> projections[p].wall, boot |-> projections[p].boot,
                            id |-> projections[p].id, pending |-> TRUE]
            BY <1>2, <2>2
        <3>2. projections[p] \in Projections
            BY <1>3, <2>2
        <3>3. floors'[p] \in Rows /\ floors'[p].pending = TRUE
            BY <3>1, <3>2 DEF Rows, Projections
        <3>4. floors'[p].id = projections[p].id /\ floors'[p].wall = projections[p].wall
            BY <3>1
        <3>5. floors'[p] # None
            BY <3>3, ClockAssumption
        <3> QED
            BY <2>2, <3>3, <3>4, <3>5
    <2>3. CASE p \in eligible /\ floors[p] # None
        <3>1. floors'[p] = [floors[p] EXCEPT !.pending = TRUE]
            BY <1>2, <2>3
        <3>2. floors[p] \in Rows
            BY <2>3 DEF ClockInv, ClockTypeOK
        <3>3. floors'[p] \in Rows /\ floors'[p].pending = TRUE
            BY <3>1, <3>2 DEF Rows
        <3> QED
            BY <2>3, <3>1, <3>2, <3>3, ClockAssumption DEF Rows
    <2> QED
        BY <2>1, <2>2, <2>3
<1>9. ClockTypeOK'
    <2>1. floors' \in [Programs -> Rows \cup {None}]
        <3>1. \A p \in Programs : floors'[p] \in Rows \cup {None}
            BY <1>8 DEF ClockInv, ClockTypeOK
        <3>2. DOMAIN floors' = Programs /\ floors' = [p \in Programs |-> floors'[p]]
            BY <1>2
        <3> QED
            BY <3>1, <3>2
    <2>2. \E E \in SUBSET Programs : call' \in Calls(E)
        BY <1>6
    <2> QED
        BY <1>1, <2>1, <2>2 DEF ClockInv, ClockTypeOK, Calls, Samples
<1>10. SamplesAreCurrent'
    BY <1>1, <1>6, <1>7 DEF SamplesAreCurrent
<1>11. ProjectionsRooted'
    BY <1>1 DEF ClockInv, ProjectionsRooted
<1>12. FloorsCover'
    <2> SUFFICES ASSUME NEW p \in Programs
                 PROVE  /\ floors'[p] = None => seen[p] = 0 /\ granted[p] = None
                        /\ floors'[p] # None =>
                            /\ projections[p] # None /\ floors'[p].id = projections[p].id
                            /\ granted[p] # None => granted[p].time <= DecisionTime(projections[p], floors'[p])
                            /\ (~floors'[p].pending \/ AboutToRead(p)') /\ projections[p].id = bootId =>
                                  seen[p] <= floors'[p].wall
        BY <1>1 DEF FloorsCover, DecisionTime, Later
    <2>1. CASE p \notin eligible
        <3>1. floors'[p] = floors[p] /\ ~AboutToRead(p)'
            BY <1>6, <1>8, <2>1 DEF AboutToRead
        <3> QED
            BY <3>1 DEF ClockInv, FloorsCover
    <2>2. CASE p \in eligible /\ floors[p] = None
        <3>1. seen[p] = 0 /\ granted[p] = None
            BY <2>2 DEF ClockInv, FloorsCover
        <3>2. projections[p].wall \in Nat
            BY <1>3, <2>2 DEF Projections
        <3> QED
            BY <1>3, <1>8, <2>2, <3>1, <3>2
    <2>3. CASE p \in eligible /\ floors[p] # None
        <3>1. /\ floors[p].id = projections[p].id /\ projections[p] # None
              /\ granted[p] # None => granted[p].time <= DecisionTime(projections[p], floors[p])
              /\ projections[p].id = bootId => seen[p] <= floors[p].wall
            BY <1>3, <2>3 DEF ClockInv, FloorsCover
        <3>2. DecisionTime(projections[p], floors'[p]) = DecisionTime(projections[p], floors[p])
            BY <1>8, <2>3 DEF DecisionTime
        <3> QED
            BY <1>8, <2>3, <3>1, <3>2
    <2> QED
        BY <2>1, <2>2, <2>3
<1>13. SamplesAreMarked'
    <2>1. \A p \in call'.eligible : floors'[p] # None /\ floors'[p].pending
        BY <1>4, <1>6, <1>8
    <2> QED
        BY <1>1, <1>6, <1>7, <2>1 DEF SamplesAreMarked
<1>14. AuthorityEndsInTime'
    BY <1>1 DEF ClockInv, AuthorityEndsInTime
<1> QED
    BY <1>9, <1>10, <1>11, <1>12, <1>13, <1>14 DEF ClockInv

\* A reading of the clocks has its type, and is of this run of the machine.
LEMMA ReadingTyped ==
    ASSUME ClockInv
    PROVE  /\ Reading \in Readings /\ Reading # None
           /\ Reading.id = bootId /\ Reading.boot = real - bootAt
<1>1. wall \div Ns \in Nat
    BY QuotientNat, ClockAssumption DEF ClockInv, ClockTypeOK
<1>2. real - bootAt \in Nat /\ bootId \in Nat
    BY DEF ClockInv, ClockTypeOK
<1>3. Reading \in Readings
    BY <1>1, <1>2 DEF Reading, Readings
<1> QED
    BY <1>3, ClockAssumption DEF Reading

\* A sample raises what was seen only under a mark, and stays in memory with it.
LEMMA SampleStep ==
    ASSUME ClockInv, NEW reading \in {Reading, None}, NEW changed \in BOOLEAN, Sample(reading, changed)
    PROVE  ClockInv'
<1>1. /\ UNCHANGED <<real, bootAt, bootId, wall, projections, floors, granted, since>>
      /\ call # None /\ call.step = "read"
      /\ uncommitted' = [p \in call.eligible |-> reading]
    BY DEF Sample, hardwareVars, diskVars
<1>2. /\ call' = [call EXCEPT !.step = "sampled", !.reading = reading, !.changed = changed, !.at = real]
      /\ seen' = [p \in Programs |-> IF p \in call.eligible /\ reading # None
                                     THEN Later(seen[p], reading.wall) ELSE seen[p]]
    BY DEF Sample
<1>3. reading \in Readings \cup {None} /\ (reading # None => reading.id = bootId /\ reading.boot = real - bootAt)
    BY ReadingTyped
<1>4. PICK D \in SUBSET Programs : call \in Calls(D)
    BY <1>1 DEF ClockInv, ClockTypeOK
<1>5. real \in Nat /\ bootAt \in Nat /\ seen \in [Programs -> Nat] /\ floors \in [Programs -> Rows \cup {None}]
    BY DEF ClockInv, ClockTypeOK
<1>6. /\ call' \in Calls(D) /\ call'.result = call.result /\ call'.reading = reading
      /\ call'.eligible = call.eligible /\ call'.step = "sampled" /\ call'.at = real
    BY <1>2, <1>3, <1>4, <1>5 DEF Calls
<1>7. /\ call.eligible \subseteq Programs
      /\ uncommitted' \in Samples(call.eligible) /\ DOMAIN uncommitted' = call.eligible
    BY <1>1, <1>3, <1>4 DEF Calls, Samples
<1>8. \A p \in DOMAIN call.result : call.result[p] = None
    BY <1>1 DEF ClockInv, SamplesAreCurrent
<1>9. \A p \in call.eligible : floors[p] # None /\ floors[p].pending
    BY <1>1 DEF ClockInv, SamplesAreMarked
<1>10. ASSUME NEW p \in Programs
       PROVE  /\ seen'[p] \in Nat
              /\ p \notin call.eligible \/ reading = None => seen'[p] = seen[p]
              /\ p \in call.eligible /\ reading # None => seen'[p] = Later(seen[p], reading.wall)
    BY <1>2, <1>3, <1>5 DEF Later, Readings
<1>11. ClockTypeOK'
    <2>1. seen' \in [Programs -> Nat]
        BY <1>2, <1>10
    <2>2. \E E \in SUBSET Programs : call' \in Calls(E)
        BY <1>6
    <2>3. \E E \in SUBSET Programs : uncommitted' \in Samples(E)
        BY <1>7
    <2> QED
        BY <1>1, <2>1, <2>2, <2>3 DEF ClockInv, ClockTypeOK, Calls, Samples
<1>12. SamplesAreCurrent'
    <2>1. reading # None => TakenNow(reading)'
        BY <1>1, <1>3, <1>6 DEF TakenNow
    <2>2. \A p \in DOMAIN uncommitted' : uncommitted'[p] = reading
        BY <1>1
    <2> QED
        BY <1>1, <1>3, <1>6, <1>8, <2>1, <2>2 DEF SamplesAreCurrent, TakenNow
<1>13. ProjectionsRooted'
    BY <1>1 DEF ClockInv, ProjectionsRooted
<1>14. FloorsCover'
    <2>1. \A p \in Programs : floors[p] = None \/ ~floors[p].pending => seen'[p] = seen[p]
        BY <1>9, <1>10
    <2>2. \A p \in Programs : ~AboutToRead(p)'
        BY <1>6 DEF AboutToRead
    <2> QED
        BY <1>1, <2>1, <2>2 DEF ClockInv, FloorsCover, DecisionTime, Later
<1>15. SamplesAreMarked'
    <2>1. ASSUME NEW p \in call.eligible, projections[p].id = bootId
          PROVE  seen'[p] <= IF reading = None THEN floors[p].wall ELSE Later(floors[p].wall, reading.wall)
        <3>1. seen[p] <= floors[p].wall
            BY <1>1, <1>7, <1>9, <2>1 DEF ClockInv, FloorsCover, AboutToRead
        <3>2. seen[p] \in Nat /\ floors[p].wall \in Nat /\ p \in Programs
            BY <1>5, <1>7, <1>9 DEF Rows
        <3>3. CASE reading = None
            BY <1>10, <3>1, <3>2, <3>3
        <3>4. CASE reading # None
            <4>1. reading.wall \in Nat
                BY <1>3, <3>4 DEF Readings
            <4>2. seen'[p] = Later(seen[p], reading.wall)
                BY <1>10, <3>2, <3>4
            <4> QED
                BY <3>1, <3>2, <3>4, <4>1, <4>2 DEF Later
        <3> QED
            BY <3>3, <3>4
    <2>2. uncommitted' = [p \in call'.eligible |-> call'.reading]
        BY <1>1, <1>6
    <2>3. \A p \in DOMAIN uncommitted' : p \in call.eligible /\ uncommitted'[p] = reading
        BY <1>1
    <2> QED
        BY <1>1, <1>6, <1>8, <1>9, <2>1, <2>2, <2>3 DEF SamplesAreMarked, Later
<1>16. AuthorityEndsInTime'
    BY <1>1 DEF ClockInv, AuthorityEndsInTime
<1> QED
    BY <1>11, <1>12, <1>13, <1>14, <1>15, <1>16 DEF ClockInv

\* A floor only rises, and covers the sample of the same run of the machine.
LEMMA FloorRises ==
    ASSUME NEW row \in Rows, NEW reading \in Readings \cup {None}
    PROVE  LET new == Floor(row, reading)
           IN  /\ new \in Rows /\ new.pending = FALSE /\ new.id = row.id
               /\ row.wall <= new.wall /\ row.boot <= new.boot
               /\ reading # None /\ reading.id = row.id =>
                    /\ new.wall = Later(row.wall, reading.wall)
                    /\ reading.wall <= new.wall /\ reading.boot <= new.boot
<1> DEFINE new == Floor(row, reading)
<1>1. CASE reading # None /\ reading.id = row.id
    <2>1. new = [row EXCEPT !.wall = Later(@, reading.wall), !.boot = Later(@, reading.boot), !.pending = FALSE]
        BY <1>1 DEF Floor
    <2>2. reading \in Readings
        BY <1>1
    <2>3. new \in Rows /\ new.pending = FALSE /\ new.id = row.id
        BY <2>1, <2>2 DEF Rows, Readings, Later
    <2>4. new.wall = Later(row.wall, reading.wall) /\ new.boot = Later(row.boot, reading.boot)
        BY <2>1 DEF Rows
    <2>5. row.wall \in Nat /\ row.boot \in Nat /\ reading.wall \in Nat /\ reading.boot \in Nat
        BY <2>2 DEF Rows, Readings
    <2>6. /\ row.wall <= new.wall /\ row.boot <= new.boot
          /\ reading.wall <= new.wall /\ reading.boot <= new.boot
        BY <2>4, <2>5 DEF Later
    <2> QED
        BY <2>3, <2>4, <2>6
<1>2. CASE ~(reading # None /\ reading.id = row.id)
    <2>1. new = [row EXCEPT !.pending = FALSE]
        BY <1>2 DEF Floor
    <2>2. new \in Rows /\ new.pending = FALSE /\ new.id = row.id /\ new.wall = row.wall /\ new.boot = row.boot
        BY <2>1 DEF Rows
    <2>3. row.wall \in Nat /\ row.boot \in Nat
        BY DEF Rows
    <2> QED
        BY <1>2, <2>2, <2>3
<1> QED
    BY <1>1, <1>2

\* A decision on later clocks is not earlier.
LEMMA DecisionTimeMonotone ==
    ASSUME NEW projection \in Projections,
           NEW a, NEW b, a.wall \in Nat, a.boot \in Nat, b.wall \in Nat, b.boot \in Nat,
           a.wall <= b.wall, a.boot <= b.boot
    PROVE  /\ DecisionTime(projection, a) \in Int /\ DecisionTime(projection, b) \in Int
           /\ DecisionTime(projection, a) <= DecisionTime(projection, b)
<1> DEFINE x == a.boot - projection.boot
           y == b.boot - projection.boot
           s == x \div Ns
           t == y \div Ns
<1>1. projection.boot \in Nat /\ projection.wall \in Nat
    BY DEF Projections
<1>2. x \in Int /\ y \in Int /\ x <= y
    BY <1>1
<1>3. s \in Int /\ t \in Int /\ s <= t
    BY <1>2, ClockAssumption, Quotient, QuotientMonotone
<1>4. /\ DecisionTime(projection, a) = Later(a.wall, projection.wall + s)
      /\ DecisionTime(projection, b) = Later(b.wall, projection.wall + t)
    BY DEF DecisionTime
<1> HIDE DEF s, t
<1> QED
    BY <1>1, <1>3, <1>4 DEF Later

\* What a flush leaves of the call under way.
FlushedCall ==
    /\ SamplesAreMarked /\ SamplesAreCurrent
    /\ call # None => call.step # "read" /\ \E D \in SUBSET Programs : call \in Calls(D)

\* A committed floor covers the samples in memory, and only then may a call use them.
LEMMA FlushStep ==
    ASSUME ClockInv, Flush
    PROVE  ClockInv'
<1>1. /\ UNCHANGED <<real, bootAt, bootId, wall, projections, seen, granted, since>>
      /\ call # None /\ call.step \in {"flush", "sampled"}
      /\ uncommitted' = [p \in {} |-> None]
    BY DEF Flush, hardwareVars
<1>2. floors' = [p \in Programs |-> IF p \in DOMAIN uncommitted
                                    THEN Floor(floors[p], uncommitted[p]) ELSE floors[p]]
    BY DEF Flush
<1>3. PICK D \in SUBSET Programs : call \in Calls(D)
    BY <1>1 DEF ClockInv, ClockTypeOK
<1>4. PICK U \in SUBSET Programs : uncommitted \in Samples(U)
    BY DEF ClockInv, ClockTypeOK
<1>5. DOMAIN uncommitted = U /\ \A p \in U : uncommitted[p] \in Readings \cup {None}
    BY <1>4 DEF Samples
<1>6. \A p \in U : floors[p] \in Rows /\ floors[p].pending /\ floors[p] # None
    BY <1>5 DEF ClockInv, ClockTypeOK, SamplesAreMarked
<1>7. ASSUME NEW p \in Programs
      PROVE  /\ p \notin U => floors'[p] = floors[p]
             /\ p \in U => floors'[p] = Floor(floors[p], uncommitted[p])
    BY <1>2, <1>5
<1>8. ASSUME NEW p \in U
      PROVE  /\ floors'[p] \in Rows /\ floors'[p] # None /\ floors'[p].pending = FALSE
             /\ floors'[p].id = floors[p].id
             /\ floors[p].wall <= floors'[p].wall /\ floors[p].boot <= floors'[p].boot
             /\ uncommitted[p] # None /\ uncommitted[p].id = floors[p].id =>
                  /\ floors'[p].wall = Later(floors[p].wall, uncommitted[p].wall)
                  /\ uncommitted[p].wall <= floors'[p].wall /\ uncommitted[p].boot <= floors'[p].boot
    <2>1. floors[p] \in Rows /\ uncommitted[p] \in Readings \cup {None}
        BY <1>5, <1>6
    <2>2. floors'[p] = Floor(floors[p], uncommitted[p])
        BY <1>7
    <2>3. floors'[p] \in Rows
        BY <2>1, <2>2, FloorRises
    <2>4. floors'[p] # None
        BY <2>3, ClockAssumption
    <2> DEFINE row == floors[p]
               reading == uncommitted[p]
               new == Floor(row, reading)
    <2>5. row \in Rows /\ reading \in Readings \cup {None}
        BY <2>1
    <2> HIDE DEF row, reading
    <2>6. /\ new.pending = FALSE /\ new.id = row.id
          /\ row.wall <= new.wall /\ row.boot <= new.boot
          /\ reading # None /\ reading.id = row.id =>
               /\ new.wall = Later(row.wall, reading.wall)
               /\ reading.wall <= new.wall /\ reading.boot <= new.boot
        BY <2>5, FloorRises
    <2> USE DEF row, reading
    <2> QED
        BY <2>2, <2>3, <2>4, <2>6
<1>9. uncommitted' \in Samples({}) /\ DOMAIN uncommitted' = {}
    BY <1>1 DEF Samples
<1>10. ASSUME call.step = "sampled", call' # None
       PROVE  FlushedCall'
    <2> DEFINE result == [p \in DOMAIN call.result |-> IF p \in call.eligible THEN call.reading ELSE None]
    <2>1. /\ call' = [call EXCEPT !.step = "ready", !.reading = None, !.eligible = {}, !.result = result]
          /\ call.reading # None
        BY <1>10 DEF Flush
    <2>2. call.reading \in Readings /\ DOMAIN call.result = D
        BY <1>3, <2>1 DEF Calls, Samples
    <2>3. result \in Samples(D) /\ DOMAIN result = D
        BY <2>2 DEF Samples
    <2>4. \A p \in D : result[p] # None => p \in call.eligible /\ result[p] = call.reading
        BY <2>2
    <2> HIDE DEF result
    <2>5. /\ call' \in Calls(D) /\ call'.result = result /\ call'.reading = None
          /\ call'.step = "ready" /\ call'.at = call.at
        BY <1>3, <2>1, <2>3 DEF Calls
    <2>6. call.reading.id = bootId' /\ call.reading.boot = call'.at - bootAt'
        BY <1>1, <1>10, <2>1, <2>5 DEF ClockInv, SamplesAreCurrent, TakenNow
    <2>7. uncommitted = [p \in call.eligible |-> call.reading]
        BY <1>1, <1>10 DEF ClockInv, SamplesAreMarked
    <2>8. ASSUME NEW p \in DOMAIN call'.result, call'.result[p] # None
          PROVE  /\ floors'[p] # None
                 /\ call'.result[p].id = bootId' /\ call'.result[p].boot = call'.at - bootAt'
                 /\ floors'[p].id = call'.result[p].id =>
                       call'.result[p].wall <= floors'[p].wall /\ call'.result[p].boot <= floors'[p].boot
        <3>1. p \in call.eligible /\ call'.result[p] = call.reading
            BY <2>3, <2>4, <2>5, <2>8
        <3>2. p \in U /\ uncommitted[p] = call.reading
            BY <1>5, <2>7, <3>1
        <3> QED
            BY <1>8, <2>1, <2>6, <3>1, <3>2
    <2>9. SamplesAreMarked'
        BY <1>9, <2>5, <2>8 DEF SamplesAreMarked
    <2>10. SamplesAreCurrent'
        BY <1>9, <2>5, <2>8 DEF SamplesAreCurrent, TakenNow
    <2> QED
        BY <1>3, <2>5, <2>9, <2>10 DEF FlushedCall
<1>11. ASSUME call.step = "flush", call' # None
       PROVE  FlushedCall'
    <2>1. call' = [call EXCEPT !.step = "mark"]
        BY <1>11 DEF Flush
    <2>2. call' \in Calls(D) /\ call'.result = call.result /\ call'.reading = call.reading /\ call'.step = "mark"
        BY <1>3, <2>1 DEF Calls
    <2>3. call.reading = None /\ \A p \in DOMAIN call.result : call.result[p] = None
        BY <1>1, <1>11 DEF ClockInv, SamplesAreCurrent
    <2>4. SamplesAreMarked' /\ SamplesAreCurrent'
        BY <1>9, <2>2, <2>3 DEF SamplesAreMarked, SamplesAreCurrent
    <2> QED
        BY <1>3, <2>2, <2>4 DEF FlushedCall
<1>12. FlushedCall'
    <2>1. CASE call' = None
        BY <1>9, <2>1 DEF FlushedCall, SamplesAreMarked, SamplesAreCurrent
    <2> QED
        BY <1>1, <1>10, <1>11, <2>1
<1>13. ClockTypeOK'
    <2>1. floors' \in [Programs -> Rows \cup {None}]
        <3>1. \A p \in Programs : floors'[p] \in Rows \cup {None}
            BY <1>7, <1>8 DEF ClockInv, ClockTypeOK
        <3>2. DOMAIN floors' = Programs /\ floors' = [p \in Programs |-> floors'[p]]
            BY <1>2
        <3> QED
            BY <3>1, <3>2
    <2>2. \E E \in SUBSET Programs : uncommitted' \in Samples(E)
        BY <1>9
    <2>3. call' # None => \E E \in SUBSET Programs : call' \in Calls(E)
        BY <1>12 DEF FlushedCall, Calls, Samples
    <2> QED
        BY <1>1, <2>1, <2>2, <2>3 DEF ClockInv, ClockTypeOK, Calls, Samples
<1>14. ProjectionsRooted'
    BY <1>1 DEF ClockInv, ProjectionsRooted
<1>15. FloorsCover'
    <2>1. \A p \in Programs : ~AboutToRead(p)'
        BY <1>12 DEF AboutToRead, FlushedCall
    <2> SUFFICES ASSUME NEW p \in Programs
                 PROVE  /\ floors'[p] = None => seen[p] = 0 /\ granted[p] = None
                        /\ floors'[p] # None =>
                            /\ projections[p] # None /\ floors'[p].id = projections[p].id
                            /\ granted[p] # None => granted[p].time <= DecisionTime(projections[p], floors'[p])
                            /\ ~floors'[p].pending /\ projections[p].id = bootId => seen[p] <= floors'[p].wall
        BY <1>1, <2>1 DEF FloorsCover, DecisionTime, Later
    <2>2. CASE p \notin U
        BY <1>7, <2>2 DEF ClockInv, FloorsCover
    <2>3. CASE p \in U
        <3>1. /\ projections[p] # None /\ floors[p].id = projections[p].id
              /\ granted[p] # None => granted[p].time <= DecisionTime(projections[p], floors[p])
            BY <1>6, <2>3 DEF ClockInv, FloorsCover
        <3>2. /\ projections[p] \in Projections /\ seen[p] \in Nat /\ floors[p] \in Rows
              /\ granted[p] # None => granted[p].time \in Nat
            BY <1>6, <2>3, <3>1 DEF ClockInv, ClockTypeOK
        <3>3. granted[p] # None => granted[p].time <= DecisionTime(projections[p], floors'[p])
            <4>1. /\ floors[p].wall \in Nat /\ floors[p].boot \in Nat
                  /\ floors'[p].wall \in Nat /\ floors'[p].boot \in Nat
                BY <1>8, <2>3, <3>2 DEF Rows
            <4>2. /\ DecisionTime(projections[p], floors[p]) \in Int
                  /\ DecisionTime(projections[p], floors'[p]) \in Int
                  /\ DecisionTime(projections[p], floors[p]) <= DecisionTime(projections[p], floors'[p])
                BY <1>8, <2>3, <3>2, <4>1, DecisionTimeMonotone
            <4> QED
                BY <3>1, <3>2, <4>2
        <3>4. projections[p].id = bootId => seen[p] <= floors'[p].wall
            <4> SUFFICES ASSUME projections[p].id = bootId
                         PROVE  seen[p] <= floors'[p].wall
                OBVIOUS
            <4>1. seen[p] <= IF uncommitted[p] = None THEN floors[p].wall
                             ELSE Later(floors[p].wall, uncommitted[p].wall)
                BY <1>5, <2>3 DEF ClockInv, SamplesAreMarked
            <4>2. floors[p].wall \in Nat /\ floors'[p].wall \in Nat
                BY <1>8, <2>3, <3>2 DEF Rows
            <4>3. CASE uncommitted[p] = None
                <5>1. floors[p].wall <= floors'[p].wall
                    BY <1>8, <2>3
                <5>2. seen[p] <= floors[p].wall
                    BY <4>1, <4>3
                <5> QED
                    BY <3>2, <4>2, <5>1, <5>2
            <4>4. CASE uncommitted[p] # None
                <5>1. uncommitted[p].id = floors[p].id
                    BY <1>5, <2>3, <3>1, <4>4 DEF ClockInv, SamplesAreCurrent
                <5> QED
                    BY <1>8, <2>3, <4>1, <4>4, <5>1
            <4> QED
                BY <4>3, <4>4
        <3> QED
            BY <1>8, <2>3, <3>1, <3>3, <3>4
    <2> QED
        BY <2>2, <2>3
<1>16. AuthorityEndsInTime'
    BY <1>1 DEF ClockInv, AuthorityEndsInTime
<1> QED
    BY <1>12, <1>13, <1>14, <1>15, <1>16 DEF ClockInv, FlushedCall

-----------------------------------------------------------------------------
(* Projections and decisions. *)

\* A new projection is rooted in the reading that made it.
LEMMA NewProjectionRooted ==
    ASSUME ClockInv, call # None, NEW p \in Programs, Project(p)
    PROVE  /\ NewProjection(p) \in Projections /\ ReadAt \in Nat
           /\ NewProjection(p).id = bootId /\ NewProjection(p).boot = ReadAt - bootAt
<1>1. PICK D \in SUBSET Programs : call \in Calls(D)
    BY DEF ClockInv, ClockTypeOK
<1>2. DOMAIN call.result = D /\ call.at \in Nat /\ \A q \in D : call.result[q] \in Readings \cup {None}
    BY <1>1 DEF Calls, Samples
<1>3. real \in Nat /\ bootId \in Nat /\ Deadline[p] \in Nat
    BY ClockAssumption DEF ClockInv, ClockTypeOK
<1>4. ASSUME NEW r \in Readings, NewProjection(p) = Bind(Deadline[p], r),
             r.id = bootId, r.boot = ReadAt - bootAt
      PROVE  /\ NewProjection(p) \in Projections
             /\ NewProjection(p).id = bootId /\ NewProjection(p).boot = ReadAt - bootAt
    BY <1>3, <1>4 DEF Bind, Projections, Readings
<1>5. CASE DOMAIN call.result = {}
    <2>1. NewProjection(p) = Bind(Deadline[p], Reading) /\ ReadAt = real
        BY <1>5 DEF NewProjection, ReadAt
    <2>2. Reading \in Readings /\ Reading.id = bootId /\ Reading.boot = real - bootAt
        BY ReadingTyped
    <2> QED
        BY <1>3, <1>4, <2>1, <2>2
<1>6. CASE DOMAIN call.result # {}
    <2> DEFINE q == CHOOSE x \in DOMAIN call.result : TRUE
               r == call.result[q]
    <2>1. q \in DOMAIN call.result
        BY <1>6
    <2>2. NewProjection(p) = Bind(Deadline[p], r) /\ ReadAt = call.at
        BY <1>6 DEF NewProjection, ReadAt
    <2> HIDE DEF q
    <2>3. r # None /\ r \in Readings
        BY <1>2, <2>1 DEF Project, Projectable
    <2>4. r.id = bootId /\ r.boot = call.at - bootAt
        BY <2>1, <2>3 DEF ClockInv, SamplesAreCurrent, TakenNow
    <2> HIDE DEF r
    <2> QED
        BY <1>2, <1>4, <2>2, <2>3, <2>4
<1> QED
    BY <1>5, <1>6

\* A projection is made once, before anything is sampled or granted under it.
LEMMA ProjectStep ==
    ASSUME ClockInv, call # None, NEW p \in Programs, Project(p),
           UNCHANGED <<hardwareVars, floors, uncommitted, seen, granted>>, call' # None => Blank(call')
    PROVE  ClockInv'
<1>1. UNCHANGED <<real, bootAt, bootId, wall, floors, uncommitted, seen, granted>>
    BY DEF hardwareVars
<1>2. /\ NewProjection(p) \in Projections /\ ReadAt \in Nat
      /\ NewProjection(p).id = bootId /\ NewProjection(p).boot = ReadAt - bootAt
    BY NewProjectionRooted
<1>3. projections' = [projections EXCEPT ![p] = NewProjection(p)] /\ since' = [since EXCEPT ![p] = ReadAt]
    BY DEF Project
<1>4. /\ projections \in [Programs -> Projections \cup {None}]
      /\ since \in [Programs -> Nat \cup {None}]
      /\ bootId \in Nat
    BY DEF ClockInv, ClockTypeOK
<1>5. projections[p] = None
    BY DEF Project
<1>6. floors[p] = None /\ seen[p] = 0 /\ granted[p] = None
    BY <1>5 DEF ClockInv, FloorsCover
<1>7. /\ \A q \in Programs \ {p} : projections'[q] = projections[q] /\ since'[q] = since[q]
      /\ projections'[p] = NewProjection(p) /\ since'[p] = ReadAt
    BY <1>3, <1>4
<1>8. ClockTypeOK'
    <2>1. /\ projections' \in [Programs -> Projections \cup {None}]
          /\ since' \in [Programs -> Nat \cup {None}]
        BY <1>2, <1>3, <1>4
    <2>2. call' # None => \E D \in SUBSET Programs : call' \in Calls(D)
        BY DEF Blank
    <2> QED
        BY <1>1, <2>1, <2>2 DEF ClockInv, ClockTypeOK, Calls, Samples
<1>9. SamplesAreCurrent'
    BY <1>1 DEF ClockInv, SamplesAreCurrent, Blank
<1>10. ProjectionsRooted'
    <2>1. since'[p] # None
        BY <1>2, <1>7, ClockAssumption
    <2>2. projections'[p].id = bootId /\ projections'[p].boot = since'[p] - bootAt /\ bootId <= bootId
        BY <1>2, <1>4, <1>7
    <2> QED
        BY <1>1, <1>7, <2>1, <2>2 DEF ClockInv, ProjectionsRooted
<1>11. FloorsCover'
    <2>1. \A q \in Programs : ~AboutToRead(q)'
        BY DEF AboutToRead, Blank
    <2> QED
        BY <1>1, <1>6, <1>7, <2>1 DEF ClockInv, FloorsCover, DecisionTime, Later
<1>12. SamplesAreMarked'
    <2>1. \A q \in DOMAIN uncommitted : q \in Programs /\ q # p
        BY <1>6 DEF ClockInv, ClockTypeOK, SamplesAreMarked, Samples
    <2> QED
        BY <1>1, <1>7, <2>1 DEF ClockInv, SamplesAreMarked, Blank, Later
<1>13. AuthorityEndsInTime'
    BY <1>1, <1>6, <1>7 DEF ClockInv, AuthorityEndsInTime
<1> QED
    BY <1>8, <1>9, <1>10, <1>11, <1>12, <1>13 DEF ClockInv

\* An acceptance makes its projection, and samples again before it is bound.
LEMMA MakeProjectionStep ==
    ASSUME ClockInv, MakeProjection
    PROVE  ClockInv'
<1> DEFINE p == call.program
           start == Started("accept", p)
           results == [q \in Projected \cup {p} |-> None]
<1>1. /\ call # None /\ Project(p)
      /\ call' = [start EXCEPT !.result = results]
      /\ UNCHANGED <<hardwareVars, floors, uncommitted, seen, granted>>
    BY DEF MakeProjection
<1>2. p \in Programs
    BY <1>1 DEF ClockInv, ClockTypeOK, Calls
<1>3. Blank(start)
    BY <1>2, StartedBlank
<1>4. PICK D \in SUBSET Programs : start \in Calls(D)
    BY <1>3 DEF Blank
<1>5. /\ Projected \cup {p} \in SUBSET Programs /\ results \in Samples(Projected \cup {p})
      /\ \A q \in DOMAIN results : results[q] = None
    BY <1>2 DEF Projected, Samples
<1> HIDE DEF start, results
<1>6. /\ call' \in Calls(Projected \cup {p}) /\ call'.result = results
      /\ call'.step = start.step /\ call'.reading = start.reading
    BY <1>1, <1>4, <1>5 DEF Calls
<1>7. Blank(call')
    BY <1>3, <1>5, <1>6 DEF Blank
<1> HIDE DEF p
<1> QED
    BY <1>1, <1>2, <1>7, ProjectStep

\* A binding that is made at once commits its projection with it.
LEMMA BindNewStep ==
    ASSUME ClockInv, BindNew
    PROVE  ClockInv'
<1>1. call # None /\ call.program \in Programs
    BY DEF BindNew, ClockInv, ClockTypeOK, Calls
<1>2. /\ Project(call.program) /\ call' = None
      /\ UNCHANGED <<hardwareVars, floors, uncommitted, seen, granted>>
    BY DEF BindNew
<1> QED
    BY <1>1, <1>2, ProjectStep

\* What a decision that found authority knows.
LEMMA PermittedDecision ==
    ASSUME ClockInv, Decide
    PROVE  LET p == call.program
               r == call.result[p]
           IN  /\ p \in Programs /\ projections[p] \in Projections /\ r \in Readings
               /\ floors[p] # None /\ floors[p] \in Rows
               /\ floors[p].pending = FALSE /\ projections[p].id = bootId
               /\ r.wall = floors[p].wall /\ r.boot = floors[p].boot
               /\ since[p] \in Nat /\ r.boot - projections[p].boot = call.at - since[p]
               /\ DecisionTime(projections[p], r) < projections[p].deadline
<1> DEFINE p == call.program
           r == call.result[p]
<1>1. call # None /\ call.step = "ready" /\ Permitted(p)
    BY DEF Decide
<1>2. PICK D \in SUBSET Programs : call \in Calls(D)
    BY <1>1 DEF ClockInv, ClockTypeOK
<1>3. /\ p \in Programs /\ DOMAIN call.result = D /\ call.at \in Nat
      /\ \A q \in D : call.result[q] \in Readings \cup {None}
    BY <1>2 DEF Calls, Samples
<1>4. /\ p \in D /\ floors[p] # None /\ ~floors[p].pending
      /\ r # None /\ r.id = projections[p].id
      /\ ~(r.wall < floors[p].wall \/ r.boot < floors[p].boot)
      /\ DecisionTime(projections[p], r) < projections[p].deadline
    BY <1>1, <1>3 DEF Permitted, Verifiable, RolledBack
<1> HIDE DEF p, r
<1>5. r \in Readings
    BY <1>3, <1>4 DEF r
<1>6. floors[p] \in Rows /\ projections[p] # None /\ floors[p].id = projections[p].id
    BY <1>3, <1>4 DEF ClockInv, ClockTypeOK, FloorsCover
<1>7. r.id = bootId /\ r.boot = call.at - bootAt
    BY <1>1, <1>3, <1>4 DEF ClockInv, SamplesAreCurrent, TakenNow, r
<1>8. r.wall <= floors[p].wall /\ r.boot <= floors[p].boot
    BY <1>1, <1>3, <1>4, <1>6 DEF ClockInv, SamplesAreMarked, r
<1>9. /\ projections[p] \in Projections /\ since[p] \in Nat /\ bootAt \in Nat
      /\ projections[p].boot = since[p] - bootAt
    BY <1>3, <1>4, <1>6, <1>7 DEF ClockInv, ClockTypeOK, ProjectionsRooted
<1>10. /\ r.wall \in Nat /\ r.boot \in Nat /\ floors[p].wall \in Nat /\ floors[p].boot \in Nat
       /\ floors[p].pending \in BOOLEAN
    BY <1>5, <1>6 DEF Readings, Rows
<1>11. r.wall = floors[p].wall /\ r.boot = floors[p].boot
    BY <1>4, <1>8, <1>10
<1>12. r.boot - projections[p].boot = call.at - since[p]
    BY <1>3, <1>7, <1>9
<1>13. floors[p].pending = FALSE
    BY <1>4, <1>10
<1> QED
    BY <1>3, <1>4, <1>5, <1>6, <1>7, <1>9, <1>11, <1>12, <1>13 DEF p, r

\* A decision finds authority before the time is over, at a time its floor covers.
LEMMA DecideStep ==
    ASSUME ClockInv, Decide
    PROVE  ClockInv'
<1> DEFINE p == call.program
           r == call.result[p]
           time == DecisionTime(projections[p], r)
           x == r.boot - projections[p].boot
<1>1. /\ UNCHANGED <<real, bootAt, bootId, wall, projections, floors, uncommitted, seen, since>>
      /\ call' = None /\ granted' = [granted EXCEPT ![p] = [time |-> time, real |-> call.at]]
    BY DEF Decide, hardwareVars, diskVars
<1>2. /\ p \in Programs /\ projections[p] \in Projections /\ r \in Readings
      /\ floors[p] # None /\ floors[p] \in Rows
      /\ r.wall = floors[p].wall /\ r.boot = floors[p].boot
      /\ since[p] \in Nat /\ x = call.at - since[p]
      /\ time < projections[p].deadline
    BY PermittedDecision
<1>3. call.at \in Nat
    BY DEF Decide, ClockInv, ClockTypeOK, Calls
<1>4. /\ r.wall \in Nat /\ r.boot \in Nat
      /\ projections[p].wall \in Nat /\ projections[p].boot \in Nat /\ projections[p].deadline \in Nat
    BY <1>2 DEF Readings, Projections
<1>5. time = Later(r.wall, projections[p].wall + (x \div Ns))
    BY DEF DecisionTime
<1> HIDE DEF p, r, x, time
<1>6. x \in Int /\ x \div Ns \in Int
    BY <1>4, Quotient, ClockAssumption DEF x
<1>7. time \in Nat /\ projections[p].wall + (x \div Ns) <= time
    BY <1>4, <1>5, <1>6 DEF Later
<1>8. x \div Ns < projections[p].deadline - projections[p].wall
    BY <1>2, <1>4, <1>6, <1>7
<1>9. x < (projections[p].deadline - projections[p].wall) * Ns
    <2>1. projections[p].deadline - projections[p].wall \in Int
        BY <1>4
    <2> QED
        BY <1>6, <1>8, <2>1, QuotientBelow, ClockAssumption
<1>10. time = DecisionTime(projections[p], floors[p]) /\ time <= time
    <2>1. time = DecisionTime(projections[p], r)
        BY DEF time
    <2> QED
        BY <1>2, <1>7, <2>1 DEF DecisionTime
<1>11. granted \in [Programs -> [time : Nat, real : Nat] \cup {None}]
    BY DEF ClockInv, ClockTypeOK
<1>12. /\ \A q \in Programs \ {p} : granted'[q] = granted[q]
       /\ granted'[p] = [time |-> time, real |-> call.at]
       /\ granted'[p].time = time /\ granted'[p].real = call.at
    BY <1>1, <1>2, <1>11
<1>13. ClockTypeOK'
    <2>1. granted' \in [Programs -> [time : Nat, real : Nat] \cup {None}]
        BY <1>1, <1>3, <1>7, <1>11
    <2> QED
        BY <1>1, <2>1 DEF ClockInv, ClockTypeOK, Samples
<1>14. SamplesAreCurrent'
    BY <1>1 DEF ClockInv, SamplesAreCurrent
<1>15. ProjectionsRooted'
    BY <1>1 DEF ClockInv, ProjectionsRooted
<1>16. FloorsCover'
    <2>1. \A q \in Programs : ~AboutToRead(q)'
        BY <1>1 DEF AboutToRead
    <2> SUFFICES ASSUME NEW q \in Programs
                 PROVE  /\ floors[q] = None => seen[q] = 0 /\ granted'[q] = None
                        /\ floors[q] # None =>
                            /\ projections[q] # None /\ floors[q].id = projections[q].id
                            /\ granted'[q] # None => granted'[q].time <= DecisionTime(projections[q], floors[q])
                            /\ ~floors[q].pending /\ projections[q].id = bootId => seen[q] <= floors[q].wall
        BY <1>1, <2>1 DEF FloorsCover, DecisionTime, Later
    <2>2. CASE q = p
        <3>1. granted'[q].time <= DecisionTime(projections[q], floors[q])
            BY <1>10, <1>12, <2>2
        <3> QED
            BY <1>2, <2>2, <3>1 DEF ClockInv, FloorsCover
    <2>3. CASE q # p
        BY <1>12, <2>3 DEF ClockInv, FloorsCover
    <2> QED
        BY <2>2, <2>3
<1>17. SamplesAreMarked'
    BY <1>1 DEF ClockInv, SamplesAreMarked, Later
<1>18. AuthorityEndsInTime'
    <2>1. granted'[p].real - since[p] < (projections[p].deadline - projections[p].wall) * Ns
        BY <1>2, <1>9, <1>12
    <2>2. \A q \in Programs \ {p} : granted'[q] # None =>
            granted'[q].real - since[q] < (projections[q].deadline - projections[q].wall) * Ns
        BY <1>12 DEF ClockInv, AuthorityEndsInTime
    <2> QED
        BY <1>1, <1>2, <2>1, <2>2 DEF AuthorityEndsInTime
<1> QED
    BY <1>13, <1>14, <1>15, <1>16, <1>17, <1>18 DEF ClockInv

-----------------------------------------------------------------------------
(* The theorems. *)

\* Nothing is projected, sampled or granted at first.
LEMMA ClockInit == Init => ClockInv
<1> SUFFICES ASSUME Init PROVE ClockInv
    OBVIOUS
<1>1. uncommitted \in Samples({}) /\ DOMAIN uncommitted = {}
    BY DEF Init, Samples
<1>2. call = None /\ \A p \in Programs : /\ projections[p] = None /\ floors[p] = None
                                         /\ granted[p] = None /\ seen[p] = 0
    BY DEF Init
<1>3. ClockTypeOK
    <2>1. \E D \in SUBSET Programs : uncommitted \in Samples(D)
        BY <1>1
    <2> QED
        BY <2>1, ClockAssumption DEF Init, ClockTypeOK
<1>4. SamplesAreCurrent /\ SamplesAreMarked
    BY <1>1, <1>2 DEF SamplesAreCurrent, SamplesAreMarked
<1>5. ProjectionsRooted /\ FloorsCover /\ AuthorityEndsInTime
    BY <1>2 DEF ProjectionsRooted, FloorsCover, AuthorityEndsInTime
<1> QED
    BY <1>3, <1>4, <1>5 DEF ClockInv

\* Every step of a decision, of the process and of the machine keeps the invariant.
LEMMA ClockStep == ClockInv /\ [Next]_vars => ClockInv'
<1> SUFFICES ASSUME ClockInv, [Next]_vars PROVE ClockInv'
    OBVIOUS
<1>1. ASSUME NEW kind \in {"envelope", "bind", "decide"}, NEW p \in Programs, Prepare(kind, p)
      PROVE  ClockInv'
    BY <1>1, PrepareStep
<1>2. CASE Flush
    BY <1>2, FlushStep
<1>3. CASE Mark
    BY <1>3, MarkStep
<1>4. ASSUME NEW reading \in {Reading, None}, NEW changed \in BOOLEAN, Sample(reading, changed)
      PROVE  ClockInv'
    BY <1>4, SampleStep
<1>5. CASE FlushFails \/ Refuse \/ Accept \/ \E p \in Programs : BindKept(p)
    BY <1>5, EndStep
<1>6. CASE MakeProjection
    BY <1>6, MakeProjectionStep
<1>7. CASE KeepProjection
    BY <1>7, KeepProjectionStep
<1>8. CASE BindNew
    BY <1>8, BindNewStep
<1>9. CASE Decide
    BY <1>9, DecideStep
<1>10. CASE Pass \/ \E w \in WallSettings : SetWall(w)
    BY <1>10, TimeStep
<1>11. CASE Crash
    BY <1>11, CrashStep
<1>12. CASE Reboot
    BY <1>12, RebootStep
<1>13. CASE UNCHANGED vars
    <2>1. /\ UNCHANGED <<real, bootAt, bootId, wall, projections, floors, uncommitted, call>>
          /\ UNCHANGED <<seen, granted, since>>
        BY <1>13 DEF vars, hardwareVars, diskVars
    <2>2. ClockTypeOK'
        BY <2>1 DEF ClockInv, ClockTypeOK, Calls, Samples
    <2>3. SamplesAreCurrent'
        BY <2>1 DEF ClockInv, SamplesAreCurrent, TakenNow
    <2>4. ProjectionsRooted' /\ AuthorityEndsInTime'
        BY <2>1 DEF ClockInv, ProjectionsRooted, AuthorityEndsInTime
    <2>5. FloorsCover'
        BY <2>1 DEF ClockInv, FloorsCover, AboutToRead, DecisionTime, Later
    <2>6. SamplesAreMarked'
        BY <2>1 DEF ClockInv, SamplesAreMarked, Later
    <2> QED
        BY <2>2, <2>3, <2>4, <2>5, <2>6 DEF ClockInv
<1> QED
    BY <1>1, <1>2, <1>3, <1>4, <1>5, <1>6, <1>7, <1>8, <1>9, <1>10, <1>11, <1>12, <1>13 DEF Next

\* The inductive invariant of the clocks of the work budget.
THEOREM ClockInvariant == Spec => []ClockInv
BY ClockInit, ClockStep, PTL DEF Spec

\* check_work_authority(): no decision finds authority once the approved time has really
\* passed, however the wall clock is set and however often process and machine restart.
THEOREM AuthorityEnds == Spec => []AuthorityEndsInTime
<1>1. ClockInv => AuthorityEndsInTime
    BY DEF ClockInv
<1> QED
    BY <1>1, ClockInvariant, PTL

\* Only a decision grants, on a sample not below anything that was ever sampled for the
\* Program, and at a time not before that of its last decision.
LEMMA DecisionsAdvance ==
    ASSUME ClockInv, [Next]_vars, NEW p \in Programs, granted'[p] # granted[p]
    PROVE  /\ call.result[p].wall >= seen[p]
           /\ granted[p] # None => granted'[p].time >= granted[p].time
<1>1. Decide
    BY DEF Next, vars, diskVars, hardwareVars, Prepare, Flush, FlushFails, Mark, Sample, MakeProjection,
           KeepProjection, Accept, BindNew, Refuse, BindKept, Pass, Crash, Reboot, SetWall
<1>2. granted \in [Programs -> [time : Nat, real : Nat] \cup {None}] /\ seen \in [Programs -> Nat]
    BY DEF ClockInv, ClockTypeOK
<1>3. /\ granted' = [granted EXCEPT ![call.program] =
              [time |-> DecisionTime(projections[call.program], call.result[call.program]), real |-> call.at]]
    BY <1>1 DEF Decide
<1>4. p = call.program
    BY <1>2, <1>3
<1>5. granted'[p].time = DecisionTime(projections[p], call.result[p])
    BY <1>2, <1>3, <1>4
<1>6. /\ call.result[p] \in Readings /\ floors[p] # None /\ floors[p].pending = FALSE
      /\ projections[p].id = bootId
      /\ call.result[p].wall = floors[p].wall /\ call.result[p].boot = floors[p].boot
    BY <1>1, <1>4, PermittedDecision
<1>7. seen[p] <= floors[p].wall
    BY <1>6 DEF ClockInv, FloorsCover
<1>8. granted'[p].time = DecisionTime(projections[p], floors[p])
    BY <1>5, <1>6 DEF DecisionTime
<1>9. granted[p] # None => granted[p].time <= granted'[p].time
    BY <1>6, <1>8 DEF ClockInv, FloorsCover
<1>10. seen[p] \in Nat /\ call.result[p].wall \in Nat
    BY <1>2, <1>6 DEF Readings
<1> QED
    BY <1>6, <1>7, <1>9, <1>10

\* work_decision_time(): decisions never go back in time, and never use a wall time
\* earlier than one that was sampled, also when its commit failed or its process died.
THEOREM DecisionTimesNeverGoBack == Spec => DecisionTimesAdvance
<1>1. ClockInv /\ [Next]_vars =>
        [\A p \in Programs : granted'[p] # granted[p] =>
            /\ call.result[p].wall >= seen[p]
            /\ granted[p] # None => granted'[p].time >= granted[p].time]_granted
    BY DecisionsAdvance
<1> QED
    BY <1>1, ClockInvariant, PTL DEF Spec, DecisionTimesAdvance
=============================================================================
