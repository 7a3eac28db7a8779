---------------------- MODULE DomainAndArtifactProofs ----------------------
(***************************************************************************)
(* Proofs about two components that share no state: the Program aggregate, *)
(* for every set of units, specifications and actors and every bound, and  *)
(* artifacts, backups, restores and the upgrade, for every set of digests, *)
(* slots and names and every number of crashes and damages.                *)
(***************************************************************************)
EXTENDS ProgramDomain, ArtifactStore, FiniteSetTheorems, SequenceTheorems, WellFoundedInduction, TLAPS

-----------------------------------------------------------------------------
(* The projection: there is one for every history, and it is the function  *)
(* that _project() computes in dependency order.                           *)

\* Histories, which have a specification.
Histories == Seq(Specs) \ {<<>>}

\* The specification at the end of a history is well formed.
LEMMA SpecFormed ==
    ASSUME NEW hist \in Histories
    PROVE  /\ Last(hist) \in Specs /\ Len(hist) \in DOMAIN hist
           /\ Spec_(hist) \in SpecType /\ WellFormed(Spec_(hist))
<1>1. Len(hist) \in DOMAIN hist /\ hist[Len(hist)] \in Specs
    BY DEF Histories
<1> QED
    BY <1>1, ProgramAssumption DEF Last, Spec_

\* A projection of part of the units, which has with a unit what it depends on.
Projects(f, A, hist, atts, sats, cancels) ==
    /\ A \subseteq Spec_(hist).units /\ \A u \in A : Spec_(hist).deps[u] \subseteq A
    /\ f = [u \in A |-> ProjectUnit(hist, atts, sats, cancels, u, [d \in Spec_(hist).deps[u] |-> f[d]])]

\* Two projections agree where both are defined.
LEMMA ProjectionsAgree ==
    ASSUME NEW hist, NEW atts, NEW sats, NEW cancels, NEW f, NEW g, NEW A, NEW B, NEW u, hist \in Histories,
           u \in A \cap B, Projects(f, A, hist, atts, sats, cancels), Projects(g, B, hist, atts, sats, cancels)
    PROVE  f[u] = g[u]
<1> DEFINE s == Spec_(hist)
           P(v, projected) == ProjectUnit(hist, atts, sats, cancels, v, projected)
           D == {v \in A \cap B : f[v] # g[v]}
<1> SUFFICES ASSUME D # {}
             PROVE  FALSE
    OBVIOUS
<1>1. /\ A \subseteq s.units /\ (\A v \in A : s.deps[v] \subseteq A) /\ (\A v \in B : s.deps[v] \subseteq B)
      /\ \A v \in A : f[v] = P(v, [d \in s.deps[v] |-> f[d]])
      /\ \A v \in B : g[v] = P(v, [d \in s.deps[v] |-> g[d]])
    <2> HIDE DEF s, P
    <2> QED
        BY DEF Projects, s, P
<1>2. \A S \in SUBSET s.units : S # {} => \E v \in S : s.deps[v] \cap S = {}
    BY SpecFormed DEF WellFormed
<1> HIDE DEF s, P
<1>3. PICK v \in D : s.deps[v] \cap D = {}
    BY <1>1, <1>2
<1>4. \A d \in s.deps[v] : f[d] = g[d]
    BY <1>1, <1>3
<1>5. [d \in s.deps[v] |-> f[d]] = [d \in s.deps[v] |-> g[d]]
    BY <1>4
<1>6. f[v] = g[v]
    BY <1>1, <1>5
<1> QED
    BY <1>6

\* Every specification has a projection.
LEMMA ProjectionExists ==
    ASSUME NEW hist \in Histories, NEW atts, NEW sats, NEW cancels
    PROVE  \E f : Projects(f, Spec_(hist).units, hist, atts, sats, cancels)
<1> DEFINE s == Spec_(hist)
           P(v, projected) == ProjectUnit(hist, atts, sats, cancels, v, projected)
           Good(A, f) == Projects(f, A, hist, atts, sats, cancels)
           U == {u \in s.units : \E A, f : Good(A, f) /\ u \in A}
           F == [u \in U |-> CHOOSE v : \E A, f : Good(A, f) /\ u \in A /\ v = f[u]]
<1>1. \A A, f : Good(A, f) <=> /\ A \subseteq s.units /\ \A u \in A : s.deps[u] \subseteq A
                               /\ f = [u \in A |-> P(u, [d \in s.deps[u] |-> f[d]])]
    BY Zenon DEF Projects
<1>2. /\ \A S \in SUBSET s.units : S # {} => \E v \in S : s.deps[v] \cap S = {}
      /\ \A u \in s.units : s.deps[u] \subseteq s.units
    BY SpecFormed DEF WellFormed
<1>3. ASSUME NEW A, NEW f, NEW B, NEW g, Good(A, f), Good(B, g)
      PROVE  \A u \in A \cap B : f[u] = g[u]
    <2> SUFFICES ASSUME NEW u \in A \cap B
                 PROVE  f[u] = g[u]
        OBVIOUS
    <2>1. Projects(f, A, hist, atts, sats, cancels) /\ Projects(g, B, hist, atts, sats, cancels)
        BY <1>3
    <2> QED
        BY <2>1, ProjectionsAgree
<1> HIDE DEF s, P, Good
<1>4. ASSUME NEW A, NEW f, Good(A, f)
      PROVE  A \subseteq U /\ \A u \in A : F[u] = f[u]
    <2>1. A \subseteq U
        BY <1>1, <1>4
    <2>2. ASSUME NEW u \in A
          PROVE  F[u] = f[u]
        <3>1. F[u] = CHOOSE v : \E B, g : Good(B, g) /\ u \in B /\ v = g[u]
            BY <2>1
        <3>2. \E B, g : Good(B, g) /\ u \in B /\ F[u] = g[u]
            BY <1>4, <3>1
        <3> QED
            BY <1>3, <1>4, <3>2
    <2> QED
        BY <2>1, <2>2
<1>5. ASSUME NEW u \in U
      PROVE  s.deps[u] \subseteq U /\ F[u] = P(u, [d \in s.deps[u] |-> F[d]])
    <2>1. PICK A, f : Good(A, f) /\ u \in A
        OBVIOUS
    <2>2. A \subseteq U /\ s.deps[u] \subseteq A /\ f[u] = P(u, [d \in s.deps[u] |-> f[d]])
        BY <1>1, <1>4, <2>1
    <2> HIDE DEF F, U
    <2>3. F[u] = f[u] /\ \A d \in s.deps[u] : F[d] = f[d]
        BY <1>4, <2>1, <2>2
    <2>4. [d \in s.deps[u] |-> F[d]] = [d \in s.deps[u] |-> f[d]]
        BY <2>3
    <2> QED
        BY <2>2, <2>3, <2>4
<1>6. DOMAIN F = U /\ F = [u \in U |-> F[u]] /\ U \subseteq s.units
    <2> HIDE DEF s
    <2>1. U \subseteq s.units
        BY Zenon
    <2> HIDE DEF U
    <2>2. DOMAIN F = U /\ F = [u \in U |-> F[u]]
        OBVIOUS
    <2> QED
        BY <2>1, <2>2
<1>7. F = [u \in U |-> P(u, [d \in s.deps[u] |-> F[d]])]
    <2> HIDE DEF F, U
    <2> QED
        BY <1>5, <1>6
<1>8. Good(U, F)
    <2> HIDE DEF F, U
    <2>1. \A u \in U : s.deps[u] \subseteq U
        BY <1>5
    <2> QED
        BY <1>1, <1>6, <1>7, <2>1
<1>9. U = s.units
    <2> SUFFICES ASSUME s.units \ U # {}
                 PROVE  FALSE
        BY <1>6
    <2>1. PICK u \in s.units \ U : s.deps[u] \cap (s.units \ U) = {}
        BY <1>2
    <2>2. s.deps[u] \subseteq U
        BY <1>2, <2>1
    <2> DEFINE A == U \cup {u}
               g == [v \in A |-> IF v = u THEN P(u, [d \in s.deps[u] |-> F[d]]) ELSE F[v]]
    <2>3. \A v \in A : s.deps[v] \subseteq U /\ v \in s.units
        BY <1>5, <1>6, <2>2
    <2>4. \A v \in U : g[v] = F[v]
        BY <2>1
    <2>5. ASSUME NEW v \in A
          PROVE  g[v] = P(v, [d \in s.deps[v] |-> g[d]])
        <3>1. \A d \in s.deps[v] : g[d] = F[d]
            BY <2>3, <2>4
        <3>2. g[v] = P(v, [d \in s.deps[v] |-> F[d]])
            <4>1. CASE v = u
                BY <4>1
            <4>2. CASE v \in U
                <5>1. v # u
                    BY <2>1, <4>2
                <5>2. F[v] = P(v, [d \in s.deps[v] |-> F[d]])
                    BY <1>5, <4>2
                <5> QED
                    BY <2>4, <4>2, <5>2
            <4> QED
                BY <4>1, <4>2
        <3> HIDE DEF g, F, U
        <3>3. [d \in s.deps[v] |-> g[d]] = [d \in s.deps[v] |-> F[d]]
            BY <3>1
        <3> QED
            BY <3>2, <3>3
    <2>6. g = [v \in A |-> g[v]]
        OBVIOUS
    <2> HIDE DEF g, F
    <2>7. g = [v \in A |-> P(v, [d \in s.deps[v] |-> g[d]])]
        BY <2>5, <2>6
    <2>8. (\A v \in A : s.deps[v] \subseteq A) /\ A \subseteq s.units
        BY <2>3
    <2>9. Good(A, g)
        <3> HIDE DEF A
        <3> QED
            BY <1>1, <2>7, <2>8
    <2>10. u \in U
        BY <2>9
    <2> QED
        BY <2>1, <2>10
<1> QED
    BY <1>8, <1>9 DEF Good, s

\* The projection is the function its definition asks for.
LEMMA ProjectIs ==
    ASSUME NEW hist \in Histories, NEW atts, NEW sats, NEW cancels
    PROVE  /\ DOMAIN Project(hist, atts, sats, cancels) = Spec_(hist).units
           /\ \A u \in Spec_(hist).units :
                 Project(hist, atts, sats, cancels)[u] =
                     ProjectUnit(hist, atts, sats, cancels, u,
                                 [d \in Spec_(hist).deps[u] |-> Project(hist, atts, sats, cancels)[d]])
<1> DEFINE s == Spec_(hist)
           P(v, projected) == ProjectUnit(hist, atts, sats, cancels, v, projected)
           Is(f) == f = [u \in s.units |-> P(u, [d \in s.deps[u] |-> f[d]])]
<1>1. Project(hist, atts, sats, cancels) = CHOOSE f : Is(f)
    BY DEF Project
<1>2. \E f : Is(f)
    <2>1. PICK f : Projects(f, Spec_(hist).units, hist, atts, sats, cancels)
        BY ProjectionExists
    <2>2. Is(f)
        BY <2>1, Zenon DEF Projects
    <2> QED
        BY <2>2, Zenon
<1> DEFINE projected == Project(hist, atts, sats, cancels)
<1>3. Is(projected)
    <2> HIDE DEF Is
    <2> QED
        BY <1>1, <1>2
<1> HIDE DEF projected, s, P
<1>4. DOMAIN projected = s.units /\ \A u \in s.units : projected[u] = P(u, [d \in s.deps[u] |-> projected[d]])
    BY <1>3
<1> QED
    BY <1>4, Zenon DEF projected, s, P

\* A unit is projected from the projection of all units: it only looks at its dependencies.
LEMMA ProjectUnitIs ==
    ASSUME NEW hist, NEW atts, NEW sats, NEW cancels, NEW u, hist \in Histories, u \in Spec_(hist).units
    PROVE  Project(hist, atts, sats, cancels)[u] =
               ProjectUnit(hist, atts, sats, cancels, u, Project(hist, atts, sats, cancels))
<1> DEFINE s == Spec_(hist)
           P == Project(hist, atts, sats, cancels)
           D == [d \in s.deps[u] |-> P[d]]
<1>1. P[u] = ProjectUnit(hist, atts, sats, cancels, u, D)
    <2>1. \A v \in s.units : P[v] = ProjectUnit(hist, atts, sats, cancels, v, [d \in s.deps[v] |-> P[d]])
        BY ProjectIs
    <2> QED
        BY <2>1
<1>2. s.consumes[u] \subseteq s.deps[u]
    BY SpecFormed DEF WellFormed
<1>3. \A d \in s.deps[u] : D[d] = P[d]
    OBVIOUS
<1> HIDE DEF D, P, s
<1>4. ResolvedInputs(s, u, D, sats) = ResolvedInputs(s, u, P, sats)
    <2>1. [p \in s.consumes[u] |-> [reference |-> sats[D[p].satisfaction].reference,
                                    satisfaction |-> D[p].satisfaction]] =
          [p \in s.consumes[u] |-> [reference |-> sats[P[p].satisfaction].reference,
                                    satisfaction |-> P[p].satisfaction]]
        BY <1>2, <1>3
    <2>2. (\E d \in s.deps[u] : D[d].status # "satisfied") <=> (\E d \in s.deps[u] : P[d].status # "satisfied")
        BY <1>3
    <2> QED
        BY <2>1, <2>2 DEF ResolvedInputs
<1>5. (\E d \in s.deps[u] : D[d].status = "cancelled") <=> (\E d \in s.deps[u] : P[d].status = "cancelled")
    BY <1>3
<1>6. ProjectUnit(hist, atts, sats, cancels, u, D) = ProjectUnit(hist, atts, sats, cancels, u, P)
    BY <1>4, <1>5, Zenon DEF ProjectUnit, s
<1> QED
    BY <1>1, <1>6 DEF P

\* A unit that the owner cancelled, at an intent it still has.
OwnCancelled(hist, cancels, u) ==
    \E c \in cancels : c.unit = u /\ FingerprintAt(hist, c.rev, u) = FingerprintAt(hist, Len(hist), u)

\* What a unit's state says, by its status.
LEMMA StateIs ==
    ASSUME NEW hist, NEW atts, NEW sats, NEW cancels, NEW u, NEW P,
           hist \in Histories, u \in Spec_(hist).units, P = Project(hist, atts, sats, cancels)
    PROVE  /\ P[u].status = "cancelled" <=>
                 (\E d \in Spec_(hist).deps[u] : P[d].status = "cancelled") \/ OwnCancelled(hist, cancels, u)
           /\ P[u].attempt # Nil => LiveOf(atts, u) # {} /\ P[u].attempt = Smallest(LiveOf(atts, u))
           /\ P[u].status = "ready" => ResolvedInputs(Spec_(hist), u, P, sats) # Nil
           /\ P[u].status = "satisfied" =>
                 LET matching == MatchingSatisfactions(hist, atts, sats, u,
                                                       ResolvedInputs(Spec_(hist), u, P, sats))
                 IN  matching # {} /\ P[u].satisfaction = Largest(matching)
<1> DEFINE inputs == ResolvedInputs(Spec_(hist), u, P, sats)
           matching == MatchingSatisfactions(hist, atts, sats, u, inputs)
           live == LiveOf(atts, u)
           cancelled == (\E d \in Spec_(hist).deps[u] : P[d].status = "cancelled") \/ OwnCancelled(hist, cancels, u)
<1>1. P[u] = IF cancelled THEN UnitState("cancelled", Nil, Nil)
             ELSE IF matching # {} THEN UnitState("satisfied", Nil, Largest(matching))
             ELSE IF live # {} /\ inputs # Nil /\ SameSubject(atts[Smallest(live)].inputs, inputs)
             THEN UnitState("active", Smallest(live), Nil)
             ELSE UnitState(IF inputs # Nil THEN "ready" ELSE "pending", Nil, Nil)
    <2>1. P[u] = ProjectUnit(hist, atts, sats, cancels, u, P)
        BY ProjectUnitIs
    <2> QED
        BY <2>1, Zenon DEF ProjectUnit, OwnCancelled
<1> HIDE DEF inputs, matching, live, cancelled
<1>2. /\ P[u].status = "cancelled" <=> cancelled
      /\ P[u].attempt # Nil => live # {} /\ P[u].attempt = Smallest(live)
      /\ P[u].status = "ready" => inputs # Nil
      /\ P[u].status = "satisfied" => matching # {} /\ P[u].satisfaction = Largest(matching)
    BY <1>1 DEF UnitState
<1> QED
    BY <1>2 DEF inputs, matching, live, cancelled

\* Nobody is cancelled who was not, unless the owner cancels somebody he depends on.
LEMMA CancelledStays ==
    ASSUME NEW hist, NEW atts, NEW sats, NEW cancels, NEW those, NEW them, NEW these, NEW V,
           hist \in Histories, V \subseteq Spec_(hist).units, \A u \in V : Spec_(hist).deps[u] \subseteq V,
           \A u \in V : OwnCancelled(hist, these, u) => OwnCancelled(hist, cancels, u)
    PROVE  \A u \in V : Project(hist, those, them, these)[u].status = "cancelled" =>
                            Project(hist, atts, sats, cancels)[u].status = "cancelled"
<1> DEFINE s == Spec_(hist)
           P == Project(hist, atts, sats, cancels)
           Q == Project(hist, those, them, these)
           D == {u \in V : Q[u].status = "cancelled" /\ P[u].status # "cancelled"}
<1> SUFFICES ASSUME D # {}
             PROVE  FALSE
    OBVIOUS
<1>1. \A S \in SUBSET s.units : S # {} => \E u \in S : s.deps[u] \cap S = {}
    BY SpecFormed DEF WellFormed
<1>2. PICK u \in D : s.deps[u] \cap D = {}
    BY <1>1
<1>3. u \in V /\ u \in s.units /\ Q[u].status = "cancelled" /\ P[u].status # "cancelled" /\ s.deps[u] \subseteq V
    BY <1>2
<1>4. (\E d \in s.deps[u] : Q[d].status = "cancelled") \/ OwnCancelled(hist, these, u)
    BY <1>3, StateIs
<1>5. (\E d \in s.deps[u] : P[d].status = "cancelled") \/ OwnCancelled(hist, cancels, u)
    BY <1>2, <1>3, <1>4
<1>6. P[u].status = "cancelled"
    BY <1>3, <1>5, StateIs
<1> QED
    BY <1>3, <1>6

\* What a unit depends on depends on nothing else.
LEMMA ClosureIs ==
    ASSUME NEW s, NEW u, NEW d, u \in s.units, d \in s.deps[u], s.deps[u] \subseteq s.units
    PROVE  u \in Closure(s, u) /\ Closure(s, d) \subseteq Closure(s, u)
<1>1. u \in Closure(s, u)
    BY DEF Closure
<1>2. ASSUME NEW v \in Closure(s, d)
      PROVE  v \in Closure(s, u)
    <2>1. v \in s.units
        BY DEF Closure
    <2>2. ASSUME NEW S \in SUBSET s.units, u \in S, \A w \in S : s.deps[w] \subseteq S
          PROVE  v \in S
        <3>1. d \in S
            BY <2>2
        <3> QED
            BY <2>2, <3>1 DEF Closure
    <2> QED
        BY <2>1, <2>2 DEF Closure
<1> QED
    BY <1>1, <1>2

-----------------------------------------------------------------------------
(* Withdrawing Attempts, and the rounds of it when the specification is    *)
(* amended: they end with every live Attempt supported.                    *)

\* A set of numbers has a least one.
LEMMA Least ==
    ASSUME NEW T, T \subseteq Nat, T # {}
    PROVE  \E n \in T : \A m \in T : n <= m
<1> DEFINE R == OpToRel(<, Nat)
<1>1. IsWellFoundedOn(R, Nat)
    BY NatLessThanWellFounded, Zenon
<1>2. PICK n \in T : \A m \in T : ~(<<m, n>> \in R)
    <2> HIDE DEF R
    <2> QED
        BY <1>1, WFMin
<1>3. ASSUME NEW m \in T
      PROVE  n <= m
    <2>1. m \in Nat /\ n \in Nat
        OBVIOUS
    <2>2. m < n => <<m, n>> \in R
        BY <2>1 DEF OpToRel
    <2> HIDE DEF R
    <2> QED
        BY <1>2, <2>1, <2>2
<1> QED
    BY <1>3

\* A set that has 0 and, with a number, also the next one, has all of them.
LEMMA Induction ==
    ASSUME NEW S, 0 \in S, \A n \in Nat : n \in S => n + 1 \in S
    PROVE  Nat \subseteq S
<1> SUFFICES ASSUME ~(Nat \subseteq S)
             PROVE  FALSE
    OBVIOUS
<1> DEFINE T == Nat \ S
<1>1. T # {} /\ T \subseteq Nat
    OBVIOUS
<1>2. PICK n \in T : \A m \in T : n <= m
    <2> HIDE DEF T
    <2> QED
        BY <1>1, Least
<1>3. n \in Nat /\ n # 0 /\ n - 1 \in Nat
    BY <1>2
<1>4. n - 1 \in S
    BY <1>2, <1>3
<1>5. n - 1 + 1 = n
    BY <1>3
<1>6. n - 1 + 1 \in S
    BY <1>3, <1>4
<1> QED
    BY <1>2, <1>5, <1>6

\* A set of positions has a last one.
LEMMA LargestIs ==
    ASSUME NEW n, NEW S, n \in Nat, S \subseteq 1..n, S # {}
    PROVE  Largest(S) \in S /\ \A j \in S : j <= Largest(S)
<1> DEFINE T == {n - i : i \in S}
<1>1. T \subseteq Nat /\ T # {}
    <2>1. \A i \in S : i \in 1..n /\ n - i \in Nat
        OBVIOUS
    <2> QED
        BY <2>1
<1>2. PICK t \in T : \A m \in T : t <= m
    <2> HIDE DEF T
    <2> QED
        BY <1>1, Least
<1>3. PICK i \in S : t = n - i
    OBVIOUS
<1>4. ASSUME NEW j \in S
      PROVE  j <= i
    <2>1. n - i <= n - j
        BY <1>2, <1>3
    <2> QED
        BY <2>1
<1>5. \E k \in S : \A j \in S : j <= k
    BY <1>4
<1> QED
    BY <1>5, Zenon DEF Largest

\* The attempts as they are, but for some live ones that are cancelled.
Thinned(atts) ==
    /\ atts = [i \in DOMAIN attempts |-> atts[i]]
    /\ \A i \in DOMAIN attempts :
          atts[i] = attempts[i] \/ (IsLive(attempts[i]) /\ atts[i] = [attempts[i] EXCEPT !.status = "cancelled"])
\* The positions of the live Attempts.
LiveIn(atts) == {i \in DOMAIN atts : IsLive(atts[i])}

\* The fields of an attempt that is cancelled.
LEMMA CancelledAttempt ==
    ASSUME NEW a, a \in AttemptRecs
    PROVE  LET b == [a EXCEPT !.status = "cancelled"]
           IN  /\ b \in AttemptRecs /\ b.status = "cancelled" /\ ~IsLive(b)
               /\ b.unit = a.unit /\ b.rev = a.rev /\ b.actor = a.actor /\ b.inputs = a.inputs
               /\ b.remediates = a.remediates
BY DEF AttemptRecs, IsLive, Live

\* Withdrawing Attempts cancels the live ones among them.
LEMMA WithdrawnThins ==
    ASSUME NEW atts, NEW ids, attempts \in Seq(AttemptRecs), Thinned(atts)
    PROVE  /\ Thinned(Withdrawn(atts, ids)) /\ LiveIn(Withdrawn(atts, ids)) = LiveIn(atts) \ ids
           /\ LiveIn(atts) \cap ids = {} => Withdrawn(atts, ids) = atts
<1> DEFINE new == Withdrawn(atts, ids)
           Changed(i) == [attempts[i] EXCEPT !.status = "cancelled"]
<1>1. DOMAIN atts = DOMAIN attempts
    BY DEF Thinned
<1>2. DOMAIN new = DOMAIN attempts /\ new = [i \in DOMAIN attempts |-> new[i]]
    BY <1>1 DEF Withdrawn
<1>3. \A i \in DOMAIN attempts :
         new[i] = IF i \in ids /\ IsLive(atts[i]) THEN [atts[i] EXCEPT !.status = "cancelled"] ELSE atts[i]
    BY <1>1 DEF Withdrawn
<1>4. \A i \in DOMAIN attempts : attempts[i] \in AttemptRecs
    OBVIOUS
<1>5. \A i \in DOMAIN attempts : ~IsLive(Changed(i))
    BY <1>4, CancelledAttempt
<1>6. \A i \in DOMAIN attempts : atts[i] = attempts[i] \/ (IsLive(attempts[i]) /\ atts[i] = Changed(i))
    BY DEF Thinned
<1>7. \A i \in DOMAIN attempts : i \in ids /\ IsLive(atts[i]) => new[i] = Changed(i) /\ IsLive(attempts[i])
    <2> SUFFICES ASSUME NEW i \in DOMAIN attempts, i \in ids, IsLive(atts[i])
                 PROVE  new[i] = Changed(i) /\ IsLive(attempts[i])
        OBVIOUS
    <2>1. atts[i] = attempts[i]
        BY <1>5, <1>6
    <2>2. new[i] = [atts[i] EXCEPT !.status = "cancelled"]
        BY <1>3
    <2> QED
        BY <2>1, <2>2
<1>8. \A i \in DOMAIN attempts : ~(i \in ids /\ IsLive(atts[i])) => new[i] = atts[i]
    BY <1>3
<1> HIDE DEF new, Changed
<1>9. \A i \in DOMAIN attempts : new[i] = attempts[i] \/ (IsLive(attempts[i]) /\ new[i] = Changed(i))
    BY <1>6, <1>7, <1>8
<1>10. Thinned(new)
    BY <1>2, <1>9 DEF Thinned, Changed
<1>11. LiveIn(new) = LiveIn(atts) \ ids
    BY <1>1, <1>2, <1>5, <1>7, <1>8 DEF LiveIn
<1>12. ASSUME LiveIn(atts) \cap ids = {}
       PROVE  new = atts
    <2>1. \A i \in DOMAIN attempts : new[i] = atts[i]
        BY <1>1, <1>8, <1>12 DEF LiveIn
    <2>2. atts = [i \in DOMAIN attempts |-> atts[i]]
        BY DEF Thinned
    <2> QED
        BY <1>2, <2>1, <2>2
<1> QED
    BY <1>10, <1>11, <1>12 DEF new

\* What thinned attempts keep of the attempts.
LEMMA ThinnedTyped ==
    ASSUME NEW atts, attempts \in Seq(AttemptRecs), Thinned(atts)
    PROVE  /\ atts \in Seq(AttemptRecs) /\ DOMAIN atts = DOMAIN attempts /\ Len(atts) = Len(attempts)
           /\ \A i \in DOMAIN attempts :
                 /\ atts[i].unit = attempts[i].unit /\ atts[i].rev = attempts[i].rev
                 /\ atts[i].actor = attempts[i].actor /\ atts[i].inputs = attempts[i].inputs
                 /\ atts[i].remediates = attempts[i].remediates
                 /\ ~IsLive(attempts[i]) => atts[i] = attempts[i]
                 /\ IsLive(atts[i]) => atts[i] = attempts[i]
                 /\ atts[i] # attempts[i] => IsLive(attempts[i]) /\ atts[i].status = "cancelled"
<1>1. \A i \in DOMAIN attempts : attempts[i] \in AttemptRecs
    OBVIOUS
<1>2. ASSUME NEW i \in DOMAIN attempts
      PROVE  /\ atts[i] \in AttemptRecs
             /\ atts[i].unit = attempts[i].unit /\ atts[i].rev = attempts[i].rev
             /\ atts[i].actor = attempts[i].actor /\ atts[i].inputs = attempts[i].inputs
             /\ atts[i].remediates = attempts[i].remediates
             /\ ~IsLive(attempts[i]) => atts[i] = attempts[i]
             /\ IsLive(atts[i]) => atts[i] = attempts[i]
             /\ atts[i] # attempts[i] => IsLive(attempts[i]) /\ atts[i].status = "cancelled"
    <2>1. atts[i] = attempts[i] \/ (IsLive(attempts[i]) /\ atts[i] = [attempts[i] EXCEPT !.status = "cancelled"])
        BY DEF Thinned
    <2>2. CASE atts[i] = attempts[i]
        BY <1>1, <2>2
    <2>3. CASE IsLive(attempts[i]) /\ atts[i] = [attempts[i] EXCEPT !.status = "cancelled"]
        BY <1>1, <2>3, CancelledAttempt
    <2> QED
        BY <2>1, <2>2, <2>3
<1>3. DOMAIN atts = 1..Len(attempts) /\ Len(attempts) \in Nat /\ DOMAIN atts = DOMAIN attempts
    BY DEF Thinned
<1>4. atts \in Seq(AttemptRecs) /\ Len(atts) = Len(attempts)
    <2>1. atts = [i \in 1..Len(attempts) |-> atts[i]]
        BY <1>3 DEF Thinned
    <2>2. atts \in [1..Len(attempts) -> AttemptRecs]
        BY <1>2, <1>3, <2>1
    <2> QED
        BY <1>3, <2>2, SeqDef
<1> QED
    BY <1>2, <1>3, <1>4

\* One round of the withdrawal, and the function of the first m rounds.
RoundsStep(it, hist, n) ==
    IF n = 0 THEN attempts ELSE Withdrawn(it[n - 1], Unsupported(hist, it[n - 1]))
IsRounds(it, hist, m) == it = [n \in 0..m |-> RoundsStep(it, hist, n)]

\* There is such a function.
LEMMA RoundsExist ==
    ASSUME NEW hist, NEW m, m \in Nat
    PROVE  \E it : IsRounds(it, hist, m)
<1> DEFINE S == {n \in Nat : \E it : IsRounds(it, hist, n)}
<1>1. 0 \in S
    <2> DEFINE none == [n \in 0..0 |-> attempts]
    <2>1. none = [n \in 0..0 |-> RoundsStep(none, hist, n)]
        BY DEF RoundsStep
    <2> QED
        BY <2>1 DEF IsRounds
<1>2. ASSUME NEW n \in Nat, n \in S
      PROVE  n + 1 \in S
    <2>1. PICK it : IsRounds(it, hist, n)
        BY <1>2
    <2>2. DOMAIN it = 0..n /\ \A i \in 0..n : it[i] = RoundsStep(it, hist, i)
        BY <2>1 DEF IsRounds
    <2> DEFINE more == [i \in 0..(n + 1) |-> IF i = n + 1 THEN RoundsStep(it, hist, i) ELSE it[i]]
    <2>3. \A i \in 0..n : more[i] = it[i]
        OBVIOUS
    <2>4. ASSUME NEW i \in 0..(n + 1)
          PROVE  more[i] = RoundsStep(more, hist, i)
        <3>1. i # 0 => i - 1 \in 0..n /\ more[i - 1] = it[i - 1]
            BY <2>3
        <3>2. more[i] = RoundsStep(it, hist, i)
            BY <2>2
        <3> HIDE DEF more
        <3> QED
            BY <3>1, <3>2 DEF RoundsStep
    <2>5. DOMAIN more = 0..(n + 1) /\ more = [i \in DOMAIN more |-> more[i]]
        OBVIOUS
    <2> HIDE DEF more
    <2>6. IsRounds(more, hist, n + 1)
        BY <2>4, <2>5 DEF IsRounds
    <2> QED
        BY <2>6
<1> HIDE DEF S
<1>3. Nat \subseteq S
    BY <1>1, <1>2, Induction
<1> QED
    BY <1>3 DEF S

\* The rounds that _assemble()'s caller makes: every one withdraws somebody or is the last.
LEMMA RoundsSettle ==
    ASSUME NEW hist, NEW m, NEW it, m \in Nat, attempts \in Seq(AttemptRecs), IsRounds(it, hist, m)
    PROVE  /\ Thinned(it[m])
           /\ Unsupported(hist, it[m]) = {} \/ Cardinality(LiveIn(it[m])) + m <= Len(attempts)
<1> DEFINE S == {n \in Nat : n <= m =>
                     /\ Thinned(it[n])
                     /\ Unsupported(hist, it[n]) = {} \/ Cardinality(LiveIn(it[n])) + n <= Len(attempts)}
<1>1. \A n \in 0..m : it[n] = RoundsStep(it, hist, n)
    BY DEF IsRounds
<1>2. 0 \in S
    <2>1. it[0] = attempts
        BY <1>1 DEF RoundsStep
    <2>2. Thinned(attempts)
        BY DEF Thinned
    <2>3. LiveIn(attempts) \subseteq 1..Len(attempts) /\ Len(attempts) \in Nat
        BY DEF LiveIn
    <2>4. IsFiniteSet(1..Len(attempts)) /\ Cardinality(1..Len(attempts)) = Len(attempts)
        <3> DEFINE n == Len(attempts)
        <3>1. n \in Int /\ 1 \in Int /\ n >= 0
            BY <2>3
        <3> HIDE DEF n
        <3>2. IsFiniteSet(1..n) /\ Cardinality(1..n) = IF 1 > n THEN 0 ELSE n - 1 + 1
            BY <3>1, FS_Interval
        <3>3. Cardinality(1..n) = n
            BY <3>1, <3>2
        <3> QED
            BY <3>2, <3>3 DEF n
    <2>5. Cardinality(LiveIn(attempts)) \in Nat /\ Cardinality(LiveIn(attempts)) <= Len(attempts)
        <3>1. /\ IsFiniteSet(LiveIn(attempts))
              /\ Cardinality(LiveIn(attempts)) <= Cardinality(1..Len(attempts))
            BY <2>3, <2>4, FS_Subset
        <3>2. Cardinality(LiveIn(attempts)) \in Nat
            BY <3>1, FS_CardinalityType
        <3> QED
            BY <2>4, <3>1, <3>2
    <2> QED
        BY <2>1, <2>2, <2>3, <2>5
<1>3. ASSUME NEW n \in Nat, n \in S
      PROVE  n + 1 \in S
    <2> SUFFICES ASSUME n + 1 <= m
                 PROVE  /\ Thinned(it[n + 1])
                        /\ \/ Unsupported(hist, it[n + 1]) = {}
                           \/ Cardinality(LiveIn(it[n + 1])) + (n + 1) <= Len(attempts)
        OBVIOUS
    <2>1. /\ Thinned(it[n])
          /\ Unsupported(hist, it[n]) = {} \/ Cardinality(LiveIn(it[n])) + n <= Len(attempts)
        BY <1>3
    <2> DEFINE lost == Unsupported(hist, it[n])
               live == LiveIn(it[n])
    <2>2. it[n + 1] = Withdrawn(it[n], lost)
        <3>1. n + 1 \in 0..m /\ n + 1 # 0 /\ (n + 1) - 1 = n
            OBVIOUS
        <3>2. it[n + 1] = RoundsStep(it, hist, n + 1)
            BY <1>1, <3>1
        <3> QED
            BY <3>1, <3>2 DEF RoundsStep
    <2>3. lost \subseteq live
        BY DEF Unsupported, LiveIn
    <2> HIDE DEF lost, live, S
    <2>4. Thinned(it[n + 1]) /\ LiveIn(it[n + 1]) = live \ lost /\ (lost = {} => it[n + 1] = it[n])
        BY <2>1, <2>2, WithdrawnThins DEF live
    <2>5. CASE lost = {}
        <3>1. it[n + 1] = it[n]
            BY <2>4, <2>5
        <3> QED
            BY <2>4, <2>5, <3>1 DEF lost
    <2>6. CASE lost # {}
        <3>1. live \subseteq 1..Len(attempts) /\ Len(attempts) \in Nat
            BY <2>1 DEF LiveIn, live, Thinned
        <3>2. IsFiniteSet(live)
            <4>1. IsFiniteSet(1..Len(attempts))
                BY <3>1, FS_Interval
            <4> QED
                BY <3>1, <4>1, FS_Subset
        <3>3. Cardinality(live) + n <= Len(attempts)
            BY <2>1, <2>6 DEF live, lost
        <3>4. PICK i : i \in lost
            BY <2>6
        <3>5. Cardinality(live \ lost) <= Cardinality(live) - 1 /\ Cardinality(live \ lost) \in Nat
            <4>1. IsFiniteSet(live \ {i}) /\ Cardinality(live \ {i}) = Cardinality(live) - 1
                BY <2>3, <3>2, <3>4, FS_RemoveElement
            <4>2. live \ lost \subseteq live \ {i}
                BY <3>4
            <4>3. IsFiniteSet(live \ lost) /\ Cardinality(live \ lost) <= Cardinality(live \ {i})
                BY <4>1, <4>2, FS_Subset
            <4>4. Cardinality(live \ lost) \in Nat /\ Cardinality(live) \in Nat
                BY <3>2, <4>3, FS_CardinalityType
            <4> QED
                BY <4>1, <4>3, <4>4
        <3>6. Cardinality(LiveIn(it[n + 1])) + (n + 1) <= Len(attempts)
            <4>1. Cardinality(live) \in Nat
                BY <3>2, FS_CardinalityType
            <4> QED
                BY <2>4, <3>1, <3>3, <3>5, <4>1
        <3> QED
            BY <2>4, <3>6
    <2> QED
        BY <2>5, <2>6
<1> HIDE DEF S
<1>4. Nat \subseteq S
    BY <1>2, <1>3, Induction
<1>5. m \in S
    BY <1>4
<1> QED
    BY <1>5 DEF S

\* After the withdrawal every live Attempt has what it needs.
LEMMA SettledIs ==
    ASSUME NEW hist, attempts \in Seq(AttemptRecs)
    PROVE  Thinned(Settled(hist)) /\ Unsupported(hist, Settled(hist)) = {}
<1> DEFINE n == Len(attempts)
           it == CHOOSE f : IsRounds(f, hist, n)
<1>1. n \in Nat
    OBVIOUS
<1>2. IsRounds(it, hist, n)
    BY <1>1, RoundsExist
<1>3. Settled(hist) = it[n]
    BY DEF Settled, IsRounds, RoundsStep
<1> HIDE DEF n, it
<1>4. Thinned(it[n]) /\ (Unsupported(hist, it[n]) = {} \/ Cardinality(LiveIn(it[n])) + n <= n)
    BY <1>1, <1>2, RoundsSettle DEF n
<1>5. Unsupported(hist, it[n]) = {}
    <2>1. LiveIn(it[n]) \subseteq 1..n
        BY <1>4 DEF LiveIn, Thinned, n
    <2>2. IsFiniteSet(LiveIn(it[n]))
        BY <1>1, <2>1, FS_Interval, FS_Subset
    <2>3. Cardinality(LiveIn(it[n])) \in Nat
        BY <2>2, FS_CardinalityType
    <2>4. Cardinality(LiveIn(it[n])) + n <= n => LiveIn(it[n]) = {}
        <3>1. Cardinality(LiveIn(it[n])) = 0 => LiveIn(it[n]) = {}
            BY <2>2, FS_EmptySet
        <3> QED
            BY <1>1, <2>3, <3>1
    <2>5. Unsupported(hist, it[n]) \subseteq LiveIn(it[n])
        BY DEF Unsupported, LiveIn
    <2> QED
        BY <1>4, <2>4, <2>5
<1> QED
    BY <1>3, <1>4, <1>5

-----------------------------------------------------------------------------
(* What every command leaves behind. *)

\* The statuses of a program.
Statuses == {"draft", "active", "paused", "completed", "cancelled"}

\* What a satisfied unit rests on.
Rests(hist, atts, sats, P, u) ==
    LET f == sats[P[u].satisfaction]
        a == atts[f.source]
    IN  /\ P[u].satisfaction \in DOMAIN sats
        /\ f.unit = u /\ a.unit = u /\ a.status = "finished"
        /\ FingerprintAt(hist, a.rev, u) = FingerprintAt(hist, Len(hist), u)
        /\ \A d \in Spec_(hist).deps[u] : P[d].status = "satisfied"
        /\ DOMAIN a.inputs = Spec_(hist).consumes[u]
        /\ \A p \in Spec_(hist).consumes[u] :
              a.inputs[p].reference = sats[P[p].satisfaction].reference

\* A unit that is projected as satisfied rests on a satisfaction.
LEMMA SatisfiedIs ==
    ASSUME NEW hist, NEW atts, NEW sats, NEW cancels, NEW u, NEW P, hist \in Histories,
           u \in Spec_(hist).units, P = Project(hist, atts, sats, cancels), sats \in Seq(SatisfactionRecs),
           Rooted(atts, sats), P[u].status = "satisfied"
    PROVE  Rests(hist, atts, sats, P, u)
<1> DEFINE s == Spec_(hist)
           inputs == ResolvedInputs(s, u, P, sats)
           matching == MatchingSatisfactions(hist, atts, sats, u, inputs)
           i == P[u].satisfaction
           a == atts[sats[i].source]
<1>1. matching # {} /\ i = Largest(matching)
    BY StateIs
<1>2. matching \subseteq 1..Len(sats) /\ Len(sats) \in Nat
    BY DEF MatchingSatisfactions
<1>3. i \in matching
    <2> HIDE DEF matching, i
    <2> QED
        BY <1>1, <1>2, LargestIs
<1> HIDE DEF inputs, i
<1>4. /\ i \in DOMAIN sats /\ sats[i].unit = u
      /\ FingerprintAt(hist, sats[i].rev, u) = FingerprintAt(hist, Len(hist), u)
      /\ inputs # Nil /\ SameSubject(a.inputs, inputs)
    BY <1>3 DEF MatchingSatisfactions
<1>5. a.unit = u /\ a.status = "finished" /\ a.rev = sats[i].rev
    BY <1>4 DEF Rooted
<1> HIDE DEF a, s
<1>6. /\ \A d \in s.deps[u] : P[d].status = "satisfied"
      /\ inputs = [p \in s.consumes[u] |-> [reference |-> sats[P[p].satisfaction].reference,
                                            satisfaction |-> P[p].satisfaction]]
    BY <1>4 DEF inputs, ResolvedInputs
<1>7. [p \in DOMAIN a.inputs |-> a.inputs[p].reference] = [p \in DOMAIN inputs |-> inputs[p].reference]
    BY <1>4 DEF SameSubject, Subject
<1>8. DOMAIN a.inputs = s.consumes[u]
    <2>1. DOMAIN inputs = s.consumes[u]
        BY <1>6
    <2> QED
        BY <1>7, <2>1
<1>9. ASSUME NEW p \in s.consumes[u]
      PROVE  a.inputs[p].reference = sats[P[p].satisfaction].reference
    <2>1. inputs[p].reference = sats[P[p].satisfaction].reference
        BY <1>6
    <2>2. a.inputs[p].reference = inputs[p].reference
        BY <1>6, <1>7, <1>8
    <2> QED
        BY <2>1, <2>2
<1>10. LET f == sats[P[u].satisfaction]
           b == atts[f.source]
       IN  /\ P[u].satisfaction \in DOMAIN sats
           /\ f.unit = u /\ b.unit = u /\ b.status = "finished"
           /\ FingerprintAt(hist, b.rev, u) = FingerprintAt(hist, Len(hist), u)
           /\ \A d \in Spec_(hist).deps[u] : P[d].status = "satisfied"
           /\ DOMAIN b.inputs = Spec_(hist).consumes[u]
           /\ \A p \in Spec_(hist).consumes[u] :
                 b.inputs[p].reference = sats[P[p].satisfaction].reference
    BY <1>4, <1>5, <1>6, <1>8, <1>9, Zenon DEF i, a, s
<1> QED
    BY <1>10, Zenon DEF Rests

\* What every command leaves behind.
LEMMA Assembled ==
    ASSUME NEW hist, NEW newStatus, NEW atts, NEW sats, NEW cancels,
           SatisfiedOnCurrentInputs, conclusions \in Seq([status : {"completed", "cancelled"}, rev : Nat]),
           history \in Histories, hist \in Histories, newStatus \in Statuses,
           sats \in Seq(SatisfactionRecs), Rooted(atts, sats), Assemble(hist, newStatus, atts, sats, cancels)
    PROVE  /\ StatesProjected' /\ SatisfiedOnCurrentInputs'
           /\ conclusions' \in Seq([status : {"completed", "cancelled"}, rev : Nat])
           /\ status' \in Statuses /\ (status' = "draft" <=> newStatus = "draft")
           /\ status' = "cancelled" <=> newStatus = "cancelled"
           /\ conclusions' = conclusions \/ \E c : conclusions' = Append(conclusions, c)
<1> DEFINE projected == StatesOf(hist, newStatus, atts, sats, cancels)
<1>1. /\ history' = hist /\ attempts' = atts /\ satisfactions' = sats /\ cancellations' = cancels
      /\ states' = projected /\ status' = ProgramStatus(newStatus, projected)
      /\ conclusions' = ConclusionsAfter(ProgramStatus(newStatus, projected), hist)
    BY DEF Assemble
<1>2. DOMAIN projected = Spec_(hist).units
    BY ProjectIs DEF StatesOf
<1> HIDE DEF projected
<1>3. /\ status' \in Statuses /\ (status' = "draft" <=> newStatus = "draft")
      /\ status' = "cancelled" <=> newStatus = "cancelled"
      /\ status' \notin {"draft", "cancelled"} =>
            (status' = "completed" <=> \A u \in Spec_(hist).units : projected[u].status = "satisfied")
    BY <1>1, <1>2 DEF ProgramStatus, Statuses
<1>4. states' = StatesOf(history', status', attempts', satisfactions', cancellations')
    BY <1>1, <1>3 DEF StatesOf, projected
<1>5. /\ conclusions' \in Seq([status : {"completed", "cancelled"}, rev : Nat])
      /\ status' \in {"completed", "cancelled"} =>
            conclusions' # <<>> /\ Last(conclusions') = [status |-> status', rev |-> Len(hist)]
      /\ conclusions' = conclusions \/ \E c : conclusions' = Append(conclusions, c)
    <2> DEFINE c == [status |-> status', rev |-> Len(hist)]
               ends == status' \in {"completed", "cancelled"} /\ (status' # status \/ Len(hist) # Len(history))
    <2>1. conclusions' = IF ends THEN Append(conclusions, c) ELSE conclusions
        BY <1>1 DEF ConclusionsAfter
    <2>2. Len(hist) \in Nat
        BY DEF Histories
    <2>3. CASE ends
        <3>1. c \in [status : {"completed", "cancelled"}, rev : Nat] /\ conclusions' = Append(conclusions, c)
            BY <2>1, <2>2, <2>3
        <3> HIDE DEF c
        <3>2. /\ conclusions' \in Seq([status : {"completed", "cancelled"}, rev : Nat])
              /\ Len(conclusions') = Len(conclusions) + 1 /\ conclusions'[Len(conclusions')] = c
              /\ Len(conclusions) \in Nat
            BY <3>1, AppendProperties
        <3>3. conclusions' # <<>>
            BY <3>2
        <3> QED
            BY <3>1, <3>2, <3>3 DEF Last, c
    <2>4. CASE ~ends
        <3>1. conclusions' = conclusions
            BY <2>1, <2>4
        <3>2. ASSUME status' \in {"completed", "cancelled"}
              PROVE  conclusions # <<>> /\ Last(conclusions) = c
            <4>1. status' = status /\ Len(hist) = Len(history)
                BY <2>4, <3>2
            <4> QED
                BY <3>2, <4>1 DEF SatisfiedOnCurrentInputs
        <3>3. Last(conclusions') = Last(conclusions)
            BY <3>1
        <3> QED
            BY <3>1, <3>2, <3>3
    <2> QED
        BY <2>3, <2>4
<1>6. ASSUME NEW u, u \in Spec_(hist).units, projected[u].status = "satisfied"
      PROVE  Rests(hist, atts, sats, projected, u)
    <2>1. newStatus # "draft"
        BY <1>6 DEF projected, StatesOf, UnitState
    <2>2. projected = Project(hist, atts, sats, cancels)
        BY <2>1 DEF projected, StatesOf
    <2>3. projected[u].status = "satisfied" /\ u \in Spec_(hist).units
        BY <1>6
    <2> HIDE DEF projected
    <2> QED
        BY <2>2, <2>3, SatisfiedIs
<1>7. SatisfiedOnCurrentInputs'
    <2>1. spec' = Spec_(hist)
        BY <1>1 DEF spec
    <2>2. /\ history' = hist /\ attempts' = atts /\ satisfactions' = sats /\ states' = projected
        BY <1>1
    <2>3. (\A u \in spec'.units : states'[u].status = "satisfied" =>
              LET f == satisfactions'[states'[u].satisfaction]
                  a == attempts'[f.source]
              IN  /\ f.unit = u /\ a.unit = u /\ a.status = "finished"
                  /\ FingerprintAt(history', a.rev, u) = FingerprintAt(history', Len(history'), u)
                  /\ \A d \in spec'.deps[u] : states'[d].status = "satisfied"
                  /\ DOMAIN a.inputs = spec'.consumes[u]
                  /\ \A p \in spec'.consumes[u] :
                        a.inputs[p].reference = satisfactions'[states'[p].satisfaction].reference)
        <3>1. ASSUME NEW u \in spec'.units, states'[u].status = "satisfied"
              PROVE  Rests(history', attempts', satisfactions', states', u)
            <4>1. u \in Spec_(hist).units /\ projected[u].status = "satisfied"
                BY <2>1, <2>2, <3>1
            <4>2. Rests(hist, atts, sats, projected, u)
                BY <1>6, <4>1
            <4> QED
                BY <2>2, <4>2
        <3>2. spec' = Spec_(history')
            BY <2>1, <2>2
        <3> QED
            BY <3>1, <3>2, Zenon DEF Rests
    <2>4. status' \notin {"draft", "cancelled"} =>
             (status' = "completed" <=> \A u \in spec'.units : states'[u].status = "satisfied")
        BY <1>3, <2>1, <2>2
    <2>5. status' \in {"completed", "cancelled"} =>
             conclusions' # <<>> /\ Last(conclusions') = [status |-> status', rev |-> Len(history')]
        BY <1>5, <2>2
    <2> QED
        BY <2>3, <2>4, <2>5 DEF SatisfiedOnCurrentInputs
<1> QED
    BY <1>3, <1>4, <1>5, <1>7 DEF StatesProjected

-----------------------------------------------------------------------------
(* What lives on when a command changes the facts. *)

\* What a live Attempt has.
LiveFits(hist, atts, projected, newStatus, i) ==
    LET u == atts[i].unit
    IN  /\ u \in Spec_(hist).units /\ LiveOf(atts, u) = {i}
        /\ projected[u].status # "cancelled" /\ projected[u].attempt \in {Nil, i}
        /\ newStatus \notin {"draft", "cancelled"}
        /\ FingerprintAt(hist, atts[i].rev, u) = FingerprintAt(hist, Len(hist), u)
        /\ atts[i].actor \in Spec_(hist).delegates \cup {Spec_(hist).owner}
LEMMA LiveFit ==
    /\ LiveAttemptsSupported <=>
          \A i \in DOMAIN attempts : IsLive(attempts[i]) => LiveFits(history, attempts, states, status, i)
    /\ LiveAttemptsSupported' <=>
          \A i \in DOMAIN attempts' : IsLive(attempts'[i]) => LiveFits(history', attempts', states', status', i)
BY DEF LiveAttemptsSupported, LiveFits, spec

\* A unit with one live Attempt names it, if any.
LEMMA AttemptNamed ==
    ASSUME NEW hist, NEW atts, NEW sats, NEW cancels, NEW u, NEW i, hist \in Histories,
           u \in Spec_(hist).units, LiveOf(atts, u) = {i}, i \in Nat
    PROVE  Project(hist, atts, sats, cancels)[u].attempt \in {Nil, i}
<1>1. Smallest({i}) = i
    BY DEF Smallest
<1> DEFINE P == Project(hist, atts, sats, cancels)
<1>2. P[u].attempt # Nil => P[u].attempt = Smallest(LiveOf(atts, u))
    BY StateIs
<1> HIDE DEF P
<1> QED
    BY <1>1, <1>2 DEF P

\* Attempts that are only ever added to or, while they are live, moved on.
Grown(atts, more) ==
    /\ DOMAIN atts \subseteq DOMAIN more
    /\ \A i \in DOMAIN atts :
          /\ more[i].unit = atts[i].unit /\ more[i].rev = atts[i].rev /\ more[i].actor = atts[i].actor
          /\ more[i].inputs = atts[i].inputs /\ more[i].remediates = atts[i].remediates
          /\ ~IsLive(atts[i]) => more[i] = atts[i]

\* Live Attempts stay supported by a specification that does not change.
LEMMA LiveStays ==
    ASSUME NEW V, DomainTypeOK, StatesProjected, LiveAttemptsSupported, StatesProjected', history' = history,
           Grown(attempts, attempts'), DOMAIN attempts' = DOMAIN attempts, V \subseteq spec.units,
           \A u \in V : spec.deps[u] \subseteq V,
           \A u \in V : OwnCancelled(history, cancellations', u) => OwnCancelled(history, cancellations, u),
           \A i \in DOMAIN attempts : IsLive(attempts'[i]) => attempts[i].unit \in V,
           (\E i \in DOMAIN attempts : IsLive(attempts'[i])) => status' \notin {"draft", "cancelled"}
    PROVE  LiveAttemptsSupported'
<1> SUFFICES ASSUME NEW i \in DOMAIN attempts, IsLive(attempts'[i])
             PROVE  LiveFits(history', attempts', states', status', i)
    BY LiveFit
<1> DEFINE u == attempts[i].unit
           made == attempts'
<1>1. IsLive(attempts[i]) /\ made[i].unit = u /\ made[i].rev = attempts[i].rev /\ made[i].actor = attempts[i].actor
    BY DEF Grown
<1>2. LiveFits(history, attempts, states, status, i)
    BY <1>1, LiveFit
<1>3. history \in Histories /\ i \in Nat
    BY DEF DomainTypeOK, Histories
<1>4. status' \notin {"draft", "cancelled"} /\ status # "draft"
    BY <1>2 DEF LiveFits
<1>5. /\ states = Project(history, attempts, satisfactions, cancellations)
      /\ states' = Project(history, made, satisfactions', cancellations')
    BY <1>4 DEF StatesProjected, StatesOf
<1>6. LiveOf(made, u) = {i}
    <2>1. LiveOf(attempts, u) = {i}
        BY <1>2 DEF LiveFits
    <2>2. LiveOf(made, u) \subseteq LiveOf(attempts, u)
        BY DEF LiveOf, Grown
    <2>3. i \in LiveOf(made, u)
        BY <1>1 DEF LiveOf
    <2> QED
        BY <2>1, <2>2, <2>3
<1>7. u \in V /\ u \in spec.units
    OBVIOUS
<1> HIDE DEF u, made
<1>8. states'[u].status # "cancelled"
    <2>1. Project(history, made, satisfactions', cancellations')[u].status = "cancelled" =>
             Project(history, attempts, satisfactions, cancellations)[u].status = "cancelled"
        BY <1>3, <1>7, CancelledStays DEF spec
    <2>2. states[u].status # "cancelled"
        BY <1>2 DEF LiveFits, u
    <2> QED
        BY <1>5, <2>1, <2>2
<1>9. states'[u].attempt \in {Nil, i}
    BY <1>3, <1>5, <1>6, <1>7, AttemptNamed DEF spec
<1>10. /\ FingerprintAt(history, attempts[i].rev, u) = FingerprintAt(history, Len(history), u)
       /\ attempts[i].actor \in Spec_(history).delegates \cup {Spec_(history).owner}
    BY <1>2 DEF LiveFits, u
<1>11. LiveFits(history, made, states', status', i)
    BY <1>1, <1>4, <1>6, <1>7, <1>8, <1>9, <1>10 DEF LiveFits, spec
<1> QED
    BY <1>11 DEF made

\* Satisfactions stay rooted in finished Attempts.
LEMMA RootedStays ==
    ASSUME NEW atts, NEW more, NEW sats, Rooted(atts, sats), Grown(atts, more)
    PROVE  Rooted(more, sats)
BY DEF Rooted, Grown, IsLive, Live

\* Remediations stay a chain.
LEMMA RemediationStays ==
    ASSUME RemediationChain, Grown(attempts, attempts'), DOMAIN attempts' = DOMAIN attempts,
           \A i \in DOMAIN attempts : attempts[i].remediates # Nil => attempts[i].remediates \in DOMAIN attempts
    PROVE  RemediationChain'
<1> SUFFICES ASSUME NEW i \in DOMAIN attempts, attempts'[i].remediates # Nil
             PROVE  LET j == attempts'[i].remediates
                    IN  /\ j < i /\ attempts'[j].status = "finished"
                        /\ attempts'[j].unit = attempts'[i].unit /\ attempts'[j].rev = attempts'[i].rev
                        /\ \A k \in DOMAIN attempts : attempts'[k].remediates = j => k = i
    BY DEF RemediationChain
<1> DEFINE j == attempts[i].remediates
<1>1. attempts'[i].remediates = j /\ attempts'[i].unit = attempts[i].unit /\ attempts'[i].rev = attempts[i].rev
    BY DEF Grown
<1>2. /\ j < i /\ attempts[j].status = "finished"
      /\ attempts[j].unit = attempts[i].unit /\ attempts[j].rev = attempts[i].rev
      /\ \A k \in DOMAIN attempts : attempts[k].remediates = j => k = i
    BY <1>1 DEF RemediationChain
<1>3. j \in DOMAIN attempts
    BY <1>1
<1>4. attempts'[j] = attempts[j]
    BY <1>2, <1>3 DEF Grown, IsLive, Live
<1>5. \A k \in DOMAIN attempts : attempts'[k].remediates = attempts[k].remediates
    BY DEF Grown
<1> HIDE DEF j
<1> QED
    BY <1>1, <1>2, <1>4, <1>5

\* Every cancelled Attempt gets its record.
LEMMA WithdrawalsStay ==
    ASSUME NEW ids, NEW reason, WithdrawalsKept, attempts \in Seq(AttemptRecs), Thinned(attempts'),
           {i \in DOMAIN attempts : attempts'[i] # attempts[i]} = {j \in ids : IsLive(attempts[j])},
           withdrawals' = withdrawals \cup WithdrawalsOf(attempts, ids, reason)
    PROVE  WithdrawalsKept'
<1> DEFINE lost == {j \in ids : IsLive(attempts[j])}
           new == {[attempt |-> i, reason |-> reason] : i \in lost}
           was == {i \in DOMAIN attempts : attempts[i].status = "cancelled"}
           is == {i \in DOMAIN attempts' : attempts'[i].status = "cancelled"}
<1>1. withdrawals' = withdrawals \cup new
    BY DEF WithdrawalsOf
<1>2. /\ \A i \in lost : i \in DOMAIN attempts /\ attempts'[i].status = "cancelled" /\ i \notin was
      /\ \A i \in DOMAIN attempts : i \notin lost => attempts'[i] = attempts[i]
      /\ DOMAIN attempts' = DOMAIN attempts
    <2>1. \A i \in lost : i \in DOMAIN attempts /\ attempts'[i] # attempts[i]
        BY Zenon
    <2>2. \A i \in DOMAIN attempts : i \notin lost => attempts'[i] = attempts[i]
        BY Zenon
    <2>3. \A i \in lost : IsLive(attempts[i]) /\ attempts'[i].status = "cancelled"
        BY <2>1, ThinnedTyped
    <2>4. \A i \in lost : i \notin was
        BY DEF IsLive, Live
    <2>5. DOMAIN attempts' = DOMAIN attempts
        BY DEF Thinned
    <2> QED
        BY <2>1, <2>2, <2>3, <2>4, <2>5
<1> HIDE DEF lost
<1>3. is = was \cup lost
    BY <1>2
<1>4. was = {w.attempt : w \in withdrawals} /\ \A v, w \in withdrawals : v.attempt = w.attempt => v = w
    BY DEF WithdrawalsKept
<1>5. \A w \in new : w.attempt \in lost /\ w = [attempt |-> w.attempt, reason |-> reason]
    OBVIOUS
<1>6. \A i \in lost : [attempt |-> i, reason |-> reason] \in new
    OBVIOUS
<1> HIDE DEF new, is, was
<1>7. is = {w.attempt : w \in withdrawals'}
    <2>1. \A i \in lost : \E w \in withdrawals' : i = w.attempt
        <3> SUFFICES ASSUME NEW i \in lost
                     PROVE  \E w \in withdrawals' : i = w.attempt
            OBVIOUS
        <3>1. [attempt |-> i, reason |-> reason] \in withdrawals'
            BY <1>1, <1>6
        <3>2. [attempt |-> i, reason |-> reason].attempt = i
            OBVIOUS
        <3> QED
            BY <3>1, <3>2, Zenon
    <2>2. \A w \in withdrawals' : w.attempt \in was \cup lost
        BY <1>1, <1>4, <1>5
    <2>3. \A i \in was : \E w \in withdrawals' : i = w.attempt
        BY <1>1, <1>4
    <2> QED
        BY <1>3, <2>1, <2>2, <2>3
<1>8. \A v, w \in withdrawals' : v.attempt = w.attempt => v = w
    <2>1. \A v \in withdrawals : v.attempt \in was
        BY <1>4
    <2>2. \A w \in new : w.attempt \notin was
        BY <1>2, <1>5
    <2>3. \A v, w \in new : v.attempt = w.attempt => v = w
        BY <1>5, Zenon
    <2> QED
        BY <1>1, <1>4, <2>1, <2>2, <2>3, Zenon
<1> QED
    BY <1>7, <1>8 DEF WithdrawalsKept, is

-----------------------------------------------------------------------------
(* The commands, one by one. *)

\* A command that leaves the specification alone and prepares nothing keeps the invariant.
LEMMA StepKeeps ==
    ASSUME NEW newStatus, NEW atts, NEW sats, NEW cancels, NEW V, DomainInv,
           Assemble(history, newStatus, atts, sats, cancels), newStatus \in Statuses \ {"draft"},
           atts \in Seq(AttemptRecs), Grown(attempts, atts), DOMAIN atts = DOMAIN attempts,
           sats \in Seq(SatisfactionRecs), Len(sats) <= MaxSatisfactions, Rooted(attempts, sats),
           \A c \in cancels : c.rev \in DOMAIN history, V \subseteq spec.units,
           \A u \in V : spec.deps[u] \subseteq V,
           \A u \in V : OwnCancelled(history, cancels, u) => OwnCancelled(history, cancellations, u),
           \A i \in DOMAIN attempts : IsLive(atts[i]) => attempts[i].unit \in V,
           newStatus = "cancelled" => \A i \in DOMAIN attempts : ~IsLive(atts[i]),
           WithdrawalsKept'
    PROVE  DomainInv'
<1>1. /\ history' = history /\ attempts' = atts /\ satisfactions' = sats /\ cancellations' = cancels
    BY DEF Assemble
<1>2. history \in Histories /\ newStatus \in Statuses
    BY DEF DomainInv, DomainTypeOK, Histories
<1>3. Rooted(atts, sats)
    BY RootedStays
<1>4. /\ StatesProjected' /\ SatisfiedOnCurrentInputs'
      /\ conclusions' \in Seq([status : {"completed", "cancelled"}, rev : Nat])
      /\ status' \in Statuses /\ (status' = "draft" <=> newStatus = "draft")
      /\ status' = "cancelled" <=> newStatus = "cancelled"
    BY <1>2, <1>3, Assembled DEF DomainInv, DomainTypeOK
<1>5. LiveAttemptsSupported'
    <2>1. (\E i \in DOMAIN attempts : IsLive(attempts'[i])) => status' \notin {"draft", "cancelled"}
        BY <1>1, <1>4
    <2>2. Grown(attempts, attempts') /\ DOMAIN attempts' = DOMAIN attempts
        BY <1>1
    <2>3. \A i \in DOMAIN attempts : IsLive(attempts'[i]) => attempts[i].unit \in V
        BY <1>1
    <2>4. \A u \in V : OwnCancelled(history, cancellations', u) => OwnCancelled(history, cancellations, u)
        BY <1>1
    <2>5. DomainTypeOK /\ StatesProjected /\ LiveAttemptsSupported
        BY DEF DomainInv
    <2> QED
        BY <1>1, <1>4, <2>1, <2>2, <2>3, <2>4, <2>5, LiveStays
<1>6. RemediationChain'
    <2>1. \A i \in DOMAIN attempts : attempts[i].remediates # Nil => attempts[i].remediates \in DOMAIN attempts
        BY DEF DomainInv, DomainTypeOK
    <2>2. Grown(attempts, attempts') /\ DOMAIN attempts' = DOMAIN attempts /\ RemediationChain
        BY <1>1 DEF DomainInv
    <2> QED
        BY <2>1, <2>2, RemediationStays
<1>7. DomainTypeOK'
    <2>1. \A i \in DOMAIN atts :
             atts[i].rev \in DOMAIN history /\ atts[i].remediates \in DOMAIN atts \cup {Nil}
        BY DEF DomainInv, DomainTypeOK, Grown
    <2>2. history \in Seq(Specs) /\ history # <<>>
        BY DEF DomainInv, DomainTypeOK
    <2>3. status' # "draft"
        BY <1>4
    <2> QED
        BY <1>1, <1>4, <2>1, <2>2, <2>3 DEF DomainTypeOK, Statuses
<1> QED
    BY <1>1, <1>3, <1>4, <1>5, <1>6, <1>7 DEF DomainInv

\* The units an Attempt that goes on works on depend on units of the specification.
LEMMA UnitsClosed ==
    ASSUME DomainInv
    PROVE  /\ \A u \in spec.units : spec.deps[u] \subseteq spec.units
           /\ \A i \in DOMAIN attempts : IsLive(attempts[i]) => attempts[i].unit \in spec.units
           /\ \A c \in cancellations : c.rev \in DOMAIN history
           /\ attempts \in Seq(AttemptRecs) /\ satisfactions \in Seq(SatisfactionRecs)
           /\ Len(satisfactions) <= MaxSatisfactions /\ Rooted(attempts, satisfactions)
           /\ history \in Histories /\ history \in Seq(Specs) /\ history # <<>>
<1>1. history \in Histories
    BY DEF DomainInv, DomainTypeOK, Histories
<1> QED
    BY <1>1, SpecFormed DEF DomainInv, DomainTypeOK, LiveAttemptsSupported, spec, WellFormed

\* Activating, pausing and resuming leave the facts alone.
LEMMA StatusStep ==
    ASSUME NEW newStatus, DomainInv, newStatus \in {"active", "paused"},
           Assemble(history, newStatus, attempts, satisfactions, cancellations), UNCHANGED withdrawals
    PROVE  DomainInv'
<1>1. Grown(attempts, attempts)
    BY DEF Grown
<1>2. attempts' = attempts
    BY DEF Assemble
<1>3. WithdrawalsKept'
    BY <1>2 DEF DomainInv, WithdrawalsKept
<1>4. newStatus \in Statuses \ {"draft"} /\ newStatus # "cancelled"
    BY DEF Statuses
<1> DEFINE V == spec.units
<1>5. /\ \A u \in V : spec.deps[u] \subseteq V
      /\ \A i \in DOMAIN attempts : IsLive(attempts[i]) => attempts[i].unit \in V
    BY UnitsClosed
<1> HIDE DEF V
<1>6. V \subseteq spec.units
    BY DEF V
<1> QED
    BY <1>1, <1>3, <1>4, <1>5, <1>6, UnitsClosed, StepKeeps

\* An Attempt that starts, finishes or fails.
LEMMA ReplaceStep ==
    ASSUME NEW i, NEW st, DomainInv, i \in DOMAIN attempts, IsLive(attempts[i]),
           st \in {"executing", "finished", "failed"}, Replace(i, st), status # "cancelled"
    PROVE  DomainInv'
<1> DEFINE new == [attempts EXCEPT ![i].status = st]
<1>1. attempts \in Seq(AttemptRecs) /\ \A j \in DOMAIN attempts : attempts[j] \in AttemptRecs
    BY UnitsClosed
<1>2. DOMAIN new = DOMAIN attempts /\ new[i] = [attempts[i] EXCEPT !.status = st]
    OBVIOUS
<1>3. \A j \in DOMAIN attempts : j # i => new[j] = attempts[j]
    OBVIOUS
<1>4. LET a == attempts[i]
          b == [a EXCEPT !.status = st]
      IN  /\ b \in AttemptRecs /\ b.status = st /\ b.unit = a.unit /\ b.rev = a.rev /\ b.actor = a.actor
          /\ b.inputs = a.inputs /\ b.remediates = a.remediates
    BY <1>1 DEF AttemptRecs, Live
<1>5. new \in Seq(AttemptRecs)
    <2>1. DOMAIN attempts = 1..Len(attempts) /\ Len(attempts) \in Nat
        BY <1>1
    <2>2. new = [j \in 1..Len(attempts) |-> new[j]]
        BY <2>1
    <2>3. \A j \in DOMAIN attempts : new[j] \in AttemptRecs
        BY <1>1, <1>2, <1>3, <1>4
    <2> HIDE DEF new
    <2>4. new \in [1..Len(attempts) -> AttemptRecs]
        BY <2>1, <2>2, <2>3
    <2> QED
        BY <2>1, <2>4, SeqDef
<1> HIDE DEF new
<1>6. Grown(attempts, new)
    BY <1>2, <1>3, <1>4 DEF Grown
<1>7. {j \in DOMAIN new : new[j].status = "cancelled"} = {j \in DOMAIN attempts : attempts[j].status = "cancelled"}
    <2>1. attempts[i].status # "cancelled" /\ new[i].status # "cancelled"
        BY <1>2, <1>4 DEF IsLive, Live
    <2> QED
        BY <1>2, <1>3, <2>1
<1>8. Assemble(history, status, new, satisfactions, cancellations) /\ UNCHANGED withdrawals
    BY DEF Replace, new
<1>9. WithdrawalsKept'
    <2>1. attempts' = new
        BY <1>8 DEF Assemble
    <2>2. {j \in DOMAIN attempts' : attempts'[j].status = "cancelled"} =
             {j \in DOMAIN attempts : attempts[j].status = "cancelled"}
        BY <1>7, <2>1
    <2> QED
        BY <1>8, <2>2 DEF DomainInv, WithdrawalsKept
<1>10. status \in Statuses \ {"draft"}
    <2>1. status # "draft"
        BY DEF DomainInv, LiveAttemptsSupported
    <2> QED
        BY <2>1 DEF DomainInv, DomainTypeOK, Statuses
<1> DEFINE V == spec.units
<1>11. /\ \A u \in V : spec.deps[u] \subseteq V
       /\ \A j \in DOMAIN attempts : IsLive(new[j]) => attempts[j].unit \in V
    <2>1. \A j \in DOMAIN attempts : IsLive(new[j]) => IsLive(attempts[j])
        BY <1>6 DEF Grown
    <2> QED
        BY <2>1, UnitsClosed
<1> HIDE DEF V
<1>12. V \subseteq spec.units
    BY DEF V
<1> QED
    BY <1>2, <1>5, <1>6, <1>8, <1>9, <1>10, <1>11, <1>12, UnitsClosed, StepKeeps

\* Attempts that are cancelled.
LEMMA WithdrawnIs ==
    ASSUME NEW ids, attempts \in Seq(AttemptRecs), ids \subseteq DOMAIN attempts
    PROVE  LET new == Withdrawn(attempts, ids)
           IN  /\ Thinned(new) /\ new \in Seq(AttemptRecs) /\ DOMAIN new = DOMAIN attempts
               /\ Grown(attempts, new)
               /\ \A i \in DOMAIN attempts : IsLive(new[i]) => IsLive(attempts[i]) /\ i \notin ids
               /\ {i \in DOMAIN attempts : new[i] # attempts[i]} = {j \in ids : IsLive(attempts[j])}
<1> DEFINE new == Withdrawn(attempts, ids)
<1>1. Thinned(attempts)
    BY DEF Thinned
<1>2. Thinned(new) /\ LiveIn(new) = LiveIn(attempts) \ ids
    BY <1>1, WithdrawnThins
<1>3. new \in Seq(AttemptRecs) /\ DOMAIN new = DOMAIN attempts /\ Grown(attempts, new)
    BY <1>2, ThinnedTyped DEF Grown
<1>4. \A i \in DOMAIN attempts : IsLive(new[i]) => IsLive(attempts[i]) /\ i \notin ids
    BY <1>2, <1>3 DEF LiveIn
<1>5. \A i \in DOMAIN attempts : ~(i \in ids /\ IsLive(attempts[i])) => new[i] = attempts[i]
    BY DEF Withdrawn
<1>6. \A i \in ids : IsLive(attempts[i]) => new[i] # attempts[i]
    BY <1>4
<1> HIDE DEF new
<1> QED
    BY <1>2, <1>3, <1>4, <1>5, <1>6 DEF new

\* Units that a cancellation leaves alone, with everything they depend on: those of the
\* live Attempts that stay.
Spared(V, ids, cancels) ==
    /\ V \subseteq spec.units /\ \A u \in V : spec.deps[u] \subseteq V
    /\ \A u \in V : OwnCancelled(history, cancels, u) => OwnCancelled(history, cancellations, u)
    /\ \A i \in DOMAIN attempts : IsLive(attempts[i]) /\ i \notin ids => attempts[i].unit \in V

\* A command that cancels Attempts.
LEMMA WithdrawStep ==
    ASSUME NEW newStatus, NEW ids, NEW cancels, NEW V, NEW reason, DomainInv, ids \subseteq DOMAIN attempts,
           newStatus \in Statuses \ {"draft"},
           Assemble(history, newStatus, Withdrawn(attempts, ids), satisfactions, cancels),
           withdrawals' = withdrawals \cup WithdrawalsOf(attempts, ids, reason),
           \A c \in cancels : c.rev \in DOMAIN history, Spared(V, ids, cancels),
           newStatus = "cancelled" => ids = DOMAIN attempts
    PROVE  DomainInv'
<1>0. /\ V \subseteq spec.units /\ \A u \in V : spec.deps[u] \subseteq V
      /\ \A u \in V : OwnCancelled(history, cancels, u) => OwnCancelled(history, cancellations, u)
      /\ \A i \in DOMAIN attempts : IsLive(attempts[i]) /\ i \notin ids => attempts[i].unit \in V
    BY DEF Spared
<1> DEFINE new == Withdrawn(attempts, ids)
<1>1. /\ Thinned(new) /\ new \in Seq(AttemptRecs) /\ DOMAIN new = DOMAIN attempts
      /\ Grown(attempts, new)
      /\ \A i \in DOMAIN attempts : IsLive(new[i]) => IsLive(attempts[i]) /\ i \notin ids
      /\ {i \in DOMAIN attempts : new[i] # attempts[i]} = {j \in ids : IsLive(attempts[j])}
    BY UnitsClosed, WithdrawnIs
<1>2. Assemble(history, newStatus, new, satisfactions, cancels) /\ attempts' = new
    BY DEF Assemble
<1> HIDE DEF new
<1>3. WithdrawalsKept'
    BY <1>1, <1>2, UnitsClosed, WithdrawalsStay DEF DomainInv
<1>4. \A i \in DOMAIN attempts : IsLive(new[i]) => attempts[i].unit \in V
    BY <1>0, <1>1
<1>5. newStatus = "cancelled" => \A i \in DOMAIN attempts : ~IsLive(new[i])
    BY <1>1
<1> QED
    BY <1>0, <1>1, <1>2, <1>3, <1>4, <1>5, UnitsClosed, StepKeeps

\* A fact that a finished Attempt's output is accepted.
LEMMA SatisfyStep ==
    ASSUME NEW actor, NEW source, NEW ref, DomainInv, source \in DOMAIN attempts, ref \in References,
           SatisfyWorkUnit(actor, source, ref)
    PROVE  DomainInv'
<1> DEFINE fact == [unit |-> attempts[source].unit, rev |-> attempts[source].rev,
                    source |-> source, reference |-> ref]
           sats == Append(satisfactions, fact)
<1>1. /\ Assemble(history, status, attempts, sats, cancellations) /\ UNCHANGED withdrawals
      /\ status \in Running /\ attempts[source].status = "finished" /\ Len(satisfactions) < MaxSatisfactions
    BY DEF SatisfyWorkUnit
<1>2. /\ satisfactions \in Seq(SatisfactionRecs) /\ attempts \in Seq(AttemptRecs)
      /\ Rooted(attempts, satisfactions)
    BY UnitsClosed
<1>3. attempts[source] \in AttemptRecs /\ source \in Nat
    BY <1>2
<1>4. fact \in SatisfactionRecs
    BY <1>3 DEF SatisfactionRecs, AttemptRecs
<1>5. /\ fact.unit = attempts[source].unit /\ fact.rev = attempts[source].rev /\ fact.source = source
    OBVIOUS
<1> HIDE DEF fact
<1>6. /\ sats \in Seq(SatisfactionRecs) /\ Len(sats) = Len(satisfactions) + 1
      /\ DOMAIN sats = 1..(Len(satisfactions) + 1) /\ Len(satisfactions) \in Nat
      /\ \A j \in 1..Len(satisfactions) : sats[j] = satisfactions[j]
      /\ sats[Len(satisfactions) + 1] = fact /\ DOMAIN satisfactions = 1..Len(satisfactions)
    BY <1>2, <1>4
<1> HIDE DEF sats
<1>7. Rooted(attempts, sats)
    <2> SUFFICES ASSUME NEW j \in DOMAIN sats
                 PROVE  /\ sats[j].source \in DOMAIN attempts
                        /\ attempts[sats[j].source].status = "finished"
                        /\ attempts[sats[j].source].unit = sats[j].unit
                        /\ attempts[sats[j].source].rev = sats[j].rev
        BY DEF Rooted
    <2>1. CASE j = Len(satisfactions) + 1
        BY <1>1, <1>5, <1>6, <2>1
    <2>2. CASE j # Len(satisfactions) + 1
        <3>1. j \in DOMAIN satisfactions /\ sats[j] = satisfactions[j]
            BY <1>6, <2>2
        <3> QED
            BY <1>2, <3>1 DEF Rooted
    <2> QED
        BY <2>1, <2>2
<1>8. Len(sats) <= MaxSatisfactions
    BY <1>1, <1>6, ProgramAssumption
<1>9. Grown(attempts, attempts)
    BY DEF Grown
<1>10. attempts' = attempts /\ WithdrawalsKept'
    BY <1>1 DEF Assemble, DomainInv, WithdrawalsKept
<1>11. status \in Statuses \ {"draft"} /\ status # "cancelled"
    BY <1>1 DEF Running, Statuses
<1> DEFINE V == spec.units
<1>12. /\ \A u \in V : spec.deps[u] \subseteq V
       /\ \A i \in DOMAIN attempts : IsLive(attempts[i]) => attempts[i].unit \in V
    BY UnitsClosed
<1> HIDE DEF V
<1>13. V \subseteq spec.units
    BY DEF V
<1> QED
    BY <1>1, <1>2, <1>6, <1>7, <1>8, <1>9, <1>10, <1>11, <1>12, <1>13, UnitsClosed, StepKeeps

\* The owner ends the program.
LEMMA CancelProgramStep ==
    ASSUME NEW actor, DomainInv, CancelProgram(actor)
    PROVE  DomainInv'
<1> DEFINE ids == DOMAIN attempts
           V == spec.units
           newStatus == "cancelled"
<1>1. /\ Assemble(history, newStatus, Withdrawn(attempts, ids), satisfactions, cancellations)
      /\ withdrawals' = withdrawals \cup WithdrawalsOf(attempts, ids, "program")
    BY DEF CancelProgram
<1>2. /\ \A u \in V : spec.deps[u] \subseteq V
      /\ \A i \in DOMAIN attempts : IsLive(attempts[i]) /\ i \notin ids => attempts[i].unit \in V
      /\ \A c \in cancellations : c.rev \in DOMAIN history
      /\ newStatus \in Statuses \ {"draft"} /\ ids \subseteq DOMAIN attempts /\ V \subseteq spec.units
      /\ newStatus = "cancelled" => ids = DOMAIN attempts
    BY UnitsClosed DEF Statuses
<1>3. Spared(V, ids, cancellations)
    BY <1>2 DEF Spared
<1> HIDE DEF ids, V, newStatus
<1> QED
    BY <1>1, <1>2, <1>3, WithdrawStep

\* Somebody withdraws one Attempt.
LEMMA CancelAttemptStep ==
    ASSUME NEW actor, NEW i, DomainInv, i \in DOMAIN attempts, CancelAttempt(actor, i)
    PROVE  DomainInv'
<1> DEFINE ids == {i}
           V == spec.units
<1>1. /\ Assemble(history, status, Withdrawn(attempts, ids), satisfactions, cancellations)
      /\ withdrawals' = withdrawals \cup WithdrawalsOf(attempts, ids, "attempt")
      /\ status \in Running
    BY DEF CancelAttempt
<1>2. /\ \A u \in V : spec.deps[u] \subseteq V
      /\ \A j \in DOMAIN attempts : IsLive(attempts[j]) /\ j \notin ids => attempts[j].unit \in V
      /\ \A c \in cancellations : c.rev \in DOMAIN history
      /\ ids \subseteq DOMAIN attempts /\ V \subseteq spec.units
    BY UnitsClosed
<1>3. status \in Statuses \ {"draft"} /\ (status = "cancelled" => ids = DOMAIN attempts)
    BY <1>1 DEF Statuses, Running
<1>4. Spared(V, ids, cancellations)
    BY <1>2 DEF Spared
<1> HIDE DEF ids, V
<1> QED
    BY <1>1, <1>2, <1>3, <1>4, WithdrawStep

\* The owner cancels a unit, and with it everything that depends on it.
LEMMA CancelUnitStep ==
    ASSUME NEW actor, NEW u, DomainInv, CancelWorkUnit(actor, u)
    PROVE  DomainInv'
<1> DEFINE ids == {i \in DOMAIN attempts : attempts[i].unit \in Affected(u)}
           V == spec.units \ Affected(u)
           cancel == [unit |-> u, rev |-> Len(history)]
           cancels == cancellations \cup {cancel}
<1>1. /\ Assemble(history, status, Withdrawn(attempts, ids), satisfactions, cancels)
      /\ withdrawals' = withdrawals \cup WithdrawalsOf(attempts, ids, "unit")
      /\ status \in {"active", "paused"} /\ u \in spec.units
    BY DEF CancelWorkUnit
<1>2. history \in Histories /\ Len(history) \in DOMAIN history
    BY UnitsClosed, SpecFormed
<1>3. \A v \in spec.units : spec.deps[v] \subseteq spec.units
    BY UnitsClosed
<1>4. u \in Affected(u)
    <2>1. u \in Closure(spec, u)
        BY <1>1 DEF Closure
    <2> QED
        BY <1>1, <2>1 DEF Affected
<1>5. \A v \in V : spec.deps[v] \subseteq V
    <2> SUFFICES ASSUME NEW v \in V, NEW d \in spec.deps[v]
                 PROVE  d \in V
        OBVIOUS
    <2>1. v \in spec.units /\ d \in spec.units /\ spec.deps[v] \subseteq spec.units
        BY <1>3
    <2>2. Closure(spec, d) \subseteq Closure(spec, v)
        BY <2>1, ClosureIs
    <2>3. u \notin Closure(spec, v)
        BY <2>1 DEF Affected
    <2> QED
        BY <2>1, <2>2, <2>3 DEF Affected
<1>6. \A v \in V : OwnCancelled(history, cancels, v) => OwnCancelled(history, cancellations, v)
    <2>1. cancel.unit = u
        OBVIOUS
    <2> HIDE DEF cancel
    <2>2. \A v \in V : v # u
        BY <1>4
    <2> QED
        BY <2>1, <2>2 DEF OwnCancelled
<1>7. \A c \in cancels : c.rev \in DOMAIN history
    <2>1. cancel.rev = Len(history)
        OBVIOUS
    <2> HIDE DEF cancel
    <2> QED
        BY <1>2, <2>1, UnitsClosed
<1>8. \A i \in DOMAIN attempts : IsLive(attempts[i]) /\ i \notin ids => attempts[i].unit \in V
    BY UnitsClosed
<1>9. /\ status \in Statuses \ {"draft"} /\ (status = "cancelled" => ids = DOMAIN attempts)
      /\ ids \subseteq DOMAIN attempts /\ V \subseteq spec.units
    BY <1>1 DEF Statuses
<1>10. Spared(V, ids, cancels)
    BY <1>5, <1>6, <1>8 DEF Spared
<1> HIDE DEF ids, V, cancel, cancels
<1> QED
    BY <1>1, <1>7, <1>9, <1>10, WithdrawStep

\* The inputs of a unit that is ready are outputs that satisfactions name.
LEMMA InputsTyped ==
    ASSUME NEW u, DomainInv, u \in spec.units, status = "active", states[u].status = "ready"
    PROVE  ResolvedInputs(spec, u, states, satisfactions) \in Inputs
<1> DEFINE I == ResolvedInputs(spec, u, states, satisfactions)
           P == Project(history, attempts, satisfactions, cancellations)
<1>1. /\ satisfactions \in Seq(SatisfactionRecs) /\ Len(satisfactions) <= MaxSatisfactions
      /\ Rooted(attempts, satisfactions) /\ history \in Histories
    BY UnitsClosed
<1>2. states = P
    BY DEF DomainInv, StatesProjected, StatesOf
<1>3. spec \in SpecType /\ WellFormed(spec)
    BY <1>1, SpecFormed DEF spec
<1>4. I # Nil
    BY <1>1, <1>2, StateIs DEF spec
<1>5. /\ \A d \in spec.deps[u] : states[d].status = "satisfied"
      /\ I = [p \in spec.consumes[u] |->
                 [reference |-> satisfactions[states[p].satisfaction].reference,
                  satisfaction |-> states[p].satisfaction]]
    BY <1>4 DEF ResolvedInputs
<1>6. spec.consumes[u] \subseteq spec.deps[u] /\ spec.deps[u] \subseteq spec.units /\ spec.units \subseteq WorkUnits
    BY <1>3 DEF WellFormed, SpecType
<1> HIDE DEF I, P
<1>7. \A p \in spec.consumes[u] : states[p].satisfaction \in DOMAIN satisfactions
    <2>1. ASSUME NEW p \in spec.consumes[u]
          PROVE  Rests(history, attempts, satisfactions, states, p)
        <3>1. p \in Spec_(history).units /\ states[p].status = "satisfied"
            BY <1>5, <1>6, <2>1 DEF spec
        <3> QED
            BY <1>1, <1>2, <3>1, SatisfiedIs DEF P
    <2> QED
        BY <2>1 DEF Rests
<1>8. \A j \in DOMAIN satisfactions :
         satisfactions[j].reference \in References /\ j \in 1..MaxSatisfactions
    <2>1. DOMAIN satisfactions = 1..Len(satisfactions) /\ Len(satisfactions) \in Nat
        BY <1>1
    <2>2. \A j \in DOMAIN satisfactions : satisfactions[j] \in SatisfactionRecs
        BY <1>1
    <2> QED
        BY <1>1, <2>1, <2>2, ProgramAssumption DEF SatisfactionRecs
<1> DEFINE R == [reference : References, satisfaction : 1..MaxSatisfactions]
<1>9. I \in [spec.consumes[u] -> R]
    BY <1>5, <1>7, <1>8
<1>10. spec.consumes[u] \in SUBSET WorkUnits
    BY <1>6
<1> HIDE DEF R
<1>11. I \in UNION {[p -> R] : p \in SUBSET WorkUnits}
    BY <1>9, <1>10
<1> QED
    BY <1>11 DEF Inputs, I, R

\* A worker begins an Attempt.
LEMMA PrepareStep ==
    ASSUME NEW actor, NEW u, NEW source, DomainInv, actor \in Actors, u \in WorkUnits,
           source \in DOMAIN attempts \cup {Nil}, PrepareAttempt(actor, u, source)
    PROVE  DomainInv'
<1> DEFINE new == [unit |-> u, rev |-> Len(history), status |-> "prepared", actor |-> actor,
                   inputs |-> ResolvedInputs(spec, u, states, satisfactions), remediates |-> source]
           more == Append(attempts, new)
           n == Len(attempts) + 1
<1>1. /\ Assemble(history, status, more, satisfactions, cancellations) /\ UNCHANGED withdrawals
      /\ status = "active" /\ states[u].status = "ready" /\ u \in spec.units /\ LiveOf(attempts, u) = {}
      /\ (source # Nil => RemediationAdmitted(u, source)) /\ Authorized("prepare", actor)
    BY DEF PrepareAttempt
<1>2. /\ attempts \in Seq(AttemptRecs) /\ Rooted(attempts, satisfactions) /\ history \in Histories
      /\ satisfactions \in Seq(SatisfactionRecs)
      /\ \A v \in spec.units : spec.deps[v] \subseteq spec.units
    BY UnitsClosed
<1>3. Len(history) \in DOMAIN history /\ Len(history) \in Nat /\ Len(attempts) \in Nat
    <2>1. Len(history) \in DOMAIN history
        BY <1>2, SpecFormed
    <2> QED
        BY <1>2, <2>1 DEF Histories
<1>4. DOMAIN attempts = 1..Len(attempts) /\ DOMAIN attempts \subseteq Nat
    BY <1>2
<1>5. new \in AttemptRecs
    <2>1. ResolvedInputs(spec, u, states, satisfactions) \in Inputs
        BY <1>1, InputsTyped
    <2>2. source \in Nat \cup {Nil}
        BY <1>4
    <2> QED
        BY <1>3, <2>1, <2>2 DEF AttemptRecs, Live
<1>6. /\ new.unit = u /\ new.rev = Len(history) /\ new.status = "prepared" /\ new.actor = actor
      /\ new.remediates = source
    OBVIOUS
<1>7. /\ more \in Seq(AttemptRecs) /\ DOMAIN more = 1..n /\ more[n] = new
      /\ \A i \in DOMAIN attempts : more[i] = attempts[i]
    <2> HIDE DEF new
    <2> QED
        BY <1>2, <1>4, <1>5
<1>8. n \in Nat /\ n \notin DOMAIN attempts /\ n \in DOMAIN more
      /\ \A i \in DOMAIN more : i # n => i \in DOMAIN attempts
    BY <1>3, <1>4, <1>7
<1>9. DOMAIN attempts \subseteq DOMAIN more /\ \A i \in DOMAIN attempts : i < n
    BY <1>3, <1>4, <1>7
<1>10. IsLive(more[n])
    BY <1>6, <1>7 DEF IsLive, Live
<1> HIDE DEF new, n
<1> HIDE DEF more
<1>11. Grown(attempts, more)
    BY <1>7, <1>9 DEF Grown
<1>12. Rooted(more, satisfactions)
    BY <1>2, <1>11, RootedStays
<1>13. /\ history' = history /\ attempts' = more /\ satisfactions' = satisfactions
       /\ cancellations' = cancellations
    BY <1>1 DEF Assemble
<1>14. status \in Statuses
    BY <1>1 DEF Statuses
<1>15. /\ StatesProjected' /\ SatisfiedOnCurrentInputs'
       /\ conclusions' \in Seq([status : {"completed", "cancelled"}, rev : Nat])
       /\ status' \in Statuses /\ (status' = "draft" <=> status = "draft")
       /\ status' = "cancelled" <=> status = "cancelled"
    BY <1>1, <1>2, <1>12, <1>14, Assembled DEF DomainInv, DomainTypeOK
<1>16. /\ states = Project(history, attempts, satisfactions, cancellations)
       /\ states' = Project(history, more, satisfactions, cancellations)
    BY <1>1, <1>13, <1>15 DEF DomainInv, StatesProjected, StatesOf
<1>17. \A v \in spec.units : states'[v].status = "cancelled" => states[v].status = "cancelled"
    <2> DEFINE V == spec.units
    <2>1. V \subseteq Spec_(history).units /\ \A v \in V : Spec_(history).deps[v] \subseteq V
        BY <1>2 DEF spec
    <2> HIDE DEF V
    <2>2. \A v \in V : Project(history, more, satisfactions, cancellations)[v].status = "cancelled" =>
                        Project(history, attempts, satisfactions, cancellations)[v].status = "cancelled"
        <3> DEFINE these == cancellations
        <3>1. \A v \in V : OwnCancelled(history, these, v) => OwnCancelled(history, cancellations, v)
            OBVIOUS
        <3> HIDE DEF these
        <3>2. \A v \in V : Project(history, more, satisfactions, these)[v].status = "cancelled" =>
                            Project(history, attempts, satisfactions, cancellations)[v].status = "cancelled"
            <4>1. history \in Histories
                BY <1>2
            <4>2. V \subseteq Spec_(history).units
                BY <2>1
            <4>3. \A v \in V : Spec_(history).deps[v] \subseteq V
                BY <2>1
            <4> SUFFICES ASSUME NEW v \in V, 
                                Project(history, more, satisfactions, these)[v].status = "cancelled"
                         PROVE  Project(history, attempts, satisfactions, cancellations)[v].status = "cancelled"
                OBVIOUS
            <4> QED
                BY <4>1, <4>2, <4>3, <3>1, CancelledStays
        <3> QED
            BY <3>2 DEF these
    <2> QED
        BY <1>16, <2>2 DEF V
<1>18. LiveAttemptsSupported'
    <2> SUFFICES ASSUME NEW i \in DOMAIN more, IsLive(more[i])
                 PROVE  LiveFits(history, more, states', status', i)
        <3>1. LiveAttemptsSupported' <=>
                  \A i \in DOMAIN attempts' : IsLive(attempts'[i]) => LiveFits(history', attempts', states', status', i)
            BY LiveFit
        <3> QED
            BY <1>13, <3>1
    <2>1. CASE i = n
        <3>1. LiveOf(more, u) = {i}
            <4>1. \A k \in LiveOf(attempts, u) : FALSE
                BY <1>1
            <4>2. \A k \in DOMAIN attempts : ~(attempts[k].unit = u /\ IsLive(attempts[k]))
                BY <4>1 DEF LiveOf
            <4>3. \A k \in DOMAIN more : k # n => ~(more[k].unit = u /\ IsLive(more[k]))
                BY <1>7, <1>8, <4>2
            <4> QED
                BY <1>6, <1>7, <1>8, <1>10, <2>1, <4>3 DEF LiveOf
        <3>2. states'[u].status # "cancelled"
            BY <1>1, <1>17
        <3>3. states'[u].attempt \in {Nil, i}
            BY <1>1, <1>2, <1>8, <1>16, <2>1, <3>1, AttemptNamed DEF spec
        <3>4. actor \in spec.delegates \cup {spec.owner}
            BY <1>1 DEF Authorized, OwnerActions
        <3>5. /\ more[i].unit = u /\ more[i].rev = Len(history) /\ more[i].actor = actor
            BY <1>6, <1>7, <2>1
        <3>6. status' \notin {"draft", "cancelled"}
            BY <1>1, <1>15
        <3> QED
            BY <1>1, <3>1, <3>2, <3>3, <3>4, <3>5, <3>6 DEF LiveFits, spec
    <2>2. CASE i # n
        <3>1. i \in DOMAIN attempts /\ more[i] = attempts[i] /\ IsLive(attempts[i]) /\ i \in Nat
            BY <1>4, <1>7, <1>8, <2>2
        <3>2. LiveFits(history, attempts, states, status, i)
            BY <3>1, LiveFit DEF DomainInv
        <3> DEFINE v == attempts[i].unit
        <3>3. v \in spec.units /\ LiveOf(attempts, v) = {i} /\ states[v].status # "cancelled"
              /\ FingerprintAt(history, attempts[i].rev, v) = FingerprintAt(history, Len(history), v)
              /\ attempts[i].actor \in Spec_(history).delegates \cup {Spec_(history).owner}
            BY <3>2 DEF LiveFits, spec
        <3> HIDE DEF v
        <3>4. v # u
            BY <1>1, <3>3
        <3>5. LiveOf(more, v) = {i}
            <4>1. LiveOf(more, v) \subseteq LiveOf(attempts, v)
                BY <1>6, <1>7, <1>8, <3>4 DEF LiveOf
            <4>2. i \in LiveOf(more, v)
                BY <3>1 DEF LiveOf, v
            <4> QED
                BY <3>3, <4>1, <4>2
        <3>6. states'[v].status # "cancelled"
            BY <1>17, <3>3
        <3>7. states'[v].attempt \in {Nil, i}
            BY <1>2, <1>16, <3>1, <3>3, <3>5, AttemptNamed DEF spec
        <3>8. status' \notin {"draft", "cancelled"}
            BY <1>1, <1>15
        <3>9. more[i].unit = v
            BY <3>1 DEF v
        <3> QED
            BY <3>1, <3>3, <3>5, <3>6, <3>7, <3>8, <3>9 DEF LiveFits, spec
    <2> QED
        BY <2>1, <2>2
<1>19. RemediationChain'
    <2>1. RemediationChain
        BY DEF DomainInv
    <2>2. \A k \in DOMAIN attempts : attempts[k].remediates # Nil => attempts[k].remediates \in DOMAIN attempts
        BY DEF DomainInv, DomainTypeOK
    <2>3. source # Nil => \A k \in DOMAIN attempts : attempts[k].remediates # source
        <3> SUFFICES ASSUME source # Nil, NEW k \in DOMAIN attempts, attempts[k].remediates = source
                     PROVE  FALSE
            OBVIOUS
        <3>1. attempts[source].unit = u /\ \A i \in DOMAIN attempts : attempts[i].unit = u => i <= source
            BY <1>1 DEF RemediationAdmitted
        <3>2. source < k /\ attempts[source].unit = attempts[k].unit
            BY <2>1 DEF RemediationChain
        <3>3. source \in Nat /\ k \in Nat
            BY <1>4
        <3> QED
            BY <3>1, <3>2, <3>3
    <2> SUFFICES ASSUME NEW i \in DOMAIN more, more[i].remediates # Nil
                 PROVE  LET j == more[i].remediates
                        IN  /\ j < i /\ more[j].status = "finished"
                            /\ more[j].unit = more[i].unit /\ more[j].rev = more[i].rev
                            /\ \A k \in DOMAIN more : more[k].remediates = j => k = i
        BY <1>13 DEF RemediationChain
    <2>4. CASE i = n
        <3>1. more[i].remediates = source /\ more[i].unit = u /\ more[i].rev = Len(history) /\ source # Nil
            BY <1>6, <1>7, <2>4
        <3>2. /\ source \in DOMAIN attempts /\ attempts[source].status = "finished"
              /\ attempts[source].unit = u /\ attempts[source].rev = Len(history)
            BY <1>1, <3>1 DEF RemediationAdmitted
        <3>3. more[source] = attempts[source] /\ source < i
            BY <1>7, <1>9, <2>4, <3>2
        <3>4. \A k \in DOMAIN more : more[k].remediates = source => k = i
            BY <1>7, <1>8, <2>3, <2>4, <3>1
        <3> QED
            BY <3>1, <3>2, <3>3, <3>4
    <2>5. CASE i # n
        <3>1. i \in DOMAIN attempts /\ more[i] = attempts[i]
            BY <1>7, <1>8, <2>5
        <3> DEFINE j == attempts[i].remediates
        <3>2. j \in DOMAIN attempts /\ more[i].remediates = j
            BY <2>2, <3>1
        <3>3. /\ j < i /\ attempts[j].status = "finished"
              /\ attempts[j].unit = attempts[i].unit /\ attempts[j].rev = attempts[i].rev
              /\ \A k \in DOMAIN attempts : attempts[k].remediates = j => k = i
            BY <2>1, <3>1 DEF RemediationChain
        <3>4. more[j] = attempts[j]
            BY <1>7, <3>2
        <3> HIDE DEF j
        <3>5. j # source
            BY <2>3, <3>1, <3>2, <3>3 DEF j
        <3>6. \A k \in DOMAIN more : more[k].remediates = j => k = i
            BY <1>6, <1>7, <1>8, <3>3, <3>5
        <3> QED
            BY <3>1, <3>2, <3>3, <3>4, <3>6
    <2> QED
        BY <2>4, <2>5
<1>20. WithdrawalsKept'
    <2>1. {i \in DOMAIN more : more[i].status = "cancelled"} = {i \in DOMAIN attempts : attempts[i].status = "cancelled"}
        <3>1. more[n].status # "cancelled"
            BY <1>6, <1>7
        <3> QED
            BY <1>7, <1>8, <1>9, <3>1
    <2> QED
        BY <1>1, <1>13, <2>1 DEF DomainInv, WithdrawalsKept
<1>21. DomainTypeOK'
    <2>1. \A i \in DOMAIN more :
             more[i].rev \in DOMAIN history /\ more[i].remediates \in DOMAIN more \cup {Nil}
        <3> SUFFICES ASSUME NEW i \in DOMAIN more
                     PROVE  more[i].rev \in DOMAIN history /\ more[i].remediates \in DOMAIN more \cup {Nil}
            OBVIOUS
        <3>1. CASE i = n
            BY <1>3, <1>6, <1>7, <1>9, <3>1
        <3>2. CASE i # n
            BY <1>7, <1>8, <1>9, <3>2 DEF DomainInv, DomainTypeOK
        <3> QED
            BY <3>1, <3>2
    <2>2. history \in Seq(Specs) /\ history # <<>> /\ (\A c \in cancellations : c.rev \in DOMAIN history)
          /\ Len(satisfactions) <= MaxSatisfactions
        BY DEF DomainInv, DomainTypeOK
    <2>3. status' # "draft"
        BY <1>1, <1>15
    <2> QED
        BY <1>2, <1>7, <1>13, <1>15, <2>1, <2>2, <2>3 DEF DomainTypeOK, Statuses
<1> QED
    BY <1>12, <1>13, <1>15, <1>18, <1>19, <1>20, <1>21 DEF DomainInv

\* The owner changes the specification: what it no longer supports is withdrawn.
LEMMA AmendStep ==
    ASSUME NEW actor, NEW new, DomainInv, new \in Amendments[Last(history)], AmendProgramSpec(actor, new)
    PROVE  DomainInv'
<1> DEFINE hist == Append(history, new)
           atts == Settled(hist)
           ids == {i \in DOMAIN atts : atts[i] # attempts[i]}
<1>1. /\ Assemble(hist, status, atts, satisfactions, cancellations) /\ status # "cancelled"
      /\ withdrawals' = withdrawals \cup WithdrawalsOf(attempts, ids, "amendment")
    BY DEF AmendProgramSpec
<1>2. /\ attempts \in Seq(AttemptRecs) /\ Rooted(attempts, satisfactions) /\ history \in Histories
      /\ satisfactions \in Seq(SatisfactionRecs) /\ history \in Seq(Specs)
    BY UnitsClosed
<1>3. new \in Specs
    <2>1. Last(history) \in Specs
        BY <1>2, SpecFormed
    <2> QED
        BY <2>1, ProgramAssumption
<1>4. /\ hist \in Seq(Specs) /\ DOMAIN history \subseteq DOMAIN hist /\ hist # <<>>
    <2>1. hist \in Seq(Specs)
        BY <1>2, <1>3
    <2>2. Len(hist) = Len(history) + 1 /\ Len(history) \in Nat
        BY <1>2, <1>3
    <2>3. DOMAIN hist = 1..(Len(history) + 1) /\ DOMAIN history = 1..Len(history)
        BY <1>2, <1>3
    <2>4. hist # <<>>
        BY <2>1, <2>2
    <2> HIDE DEF hist
    <2> QED
        BY <2>1, <2>2, <2>3, <2>4
<1>5. hist \in Histories
    BY <1>4 DEF Histories
<1> HIDE DEF hist
<1>6. Thinned(atts) /\ Unsupported(hist, atts) = {}
    BY <1>2, SettledIs
<1> HIDE DEF atts
<1>7. /\ atts \in Seq(AttemptRecs) /\ DOMAIN atts = DOMAIN attempts /\ Len(atts) = Len(attempts)
      /\ \A i \in DOMAIN attempts :
            /\ atts[i].unit = attempts[i].unit /\ atts[i].rev = attempts[i].rev
            /\ atts[i].actor = attempts[i].actor /\ atts[i].inputs = attempts[i].inputs
            /\ atts[i].remediates = attempts[i].remediates
            /\ ~IsLive(attempts[i]) => atts[i] = attempts[i]
            /\ IsLive(atts[i]) => atts[i] = attempts[i]
            /\ atts[i] # attempts[i] => IsLive(attempts[i]) /\ atts[i].status = "cancelled"
    BY <1>2, <1>6, ThinnedTyped
<1>8. Grown(attempts, atts)
    BY <1>7 DEF Grown
<1>9. Rooted(atts, satisfactions)
    BY <1>2, <1>8, RootedStays
<1>10. /\ history' = hist /\ attempts' = atts /\ satisfactions' = satisfactions
       /\ cancellations' = cancellations
    BY <1>1 DEF Assemble
<1>11. status \in Statuses
    BY DEF DomainInv, DomainTypeOK, Statuses
<1>12. /\ StatesProjected' /\ SatisfiedOnCurrentInputs'
       /\ conclusions' \in Seq([status : {"completed", "cancelled"}, rev : Nat])
       /\ status' \in Statuses /\ (status' = "draft" <=> status = "draft")
       /\ status' = "cancelled" <=> status = "cancelled"
    BY <1>1, <1>2, <1>5, <1>9, <1>11, Assembled DEF DomainInv, DomainTypeOK
<1>13. LiveAttemptsSupported'
    <2> SUFFICES ASSUME NEW i \in DOMAIN atts, IsLive(atts[i])
                 PROVE  LiveFits(hist, atts, states', status', i)
        <3>1. LiveAttemptsSupported' <=>
                  \A i \in DOMAIN attempts' : IsLive(attempts'[i]) => LiveFits(history', attempts', states', status', i)
            BY LiveFit
        <3> QED
            BY <1>10, <3>1
    <2> DEFINE P == Project(hist, atts, satisfactions, cancellations)
               u == atts[i].unit
    <2>1. /\ i \in DOMAIN attempts /\ atts[i] = attempts[i] /\ IsLive(attempts[i])
        BY <1>7
    <2>2. LiveFits(history, attempts, states, status, i)
        BY <2>1, LiveFit DEF DomainInv
    <2>3. status # "draft" /\ LiveOf(attempts, u) = {i}
        BY <2>1, <2>2 DEF LiveFits
    <2>4. states' = P
        BY <1>10, <1>12, <2>3 DEF StatesProjected, StatesOf
    <2>5. Supported(hist, atts, P, i)
        BY <1>6 DEF Unsupported
    <2>6. /\ u \in Spec_(hist).units
          /\ FingerprintAt(hist, atts[i].rev, u) = FingerprintAt(hist, Len(hist), u)
          /\ atts[i].actor \in Spec_(hist).delegates \cup {Spec_(hist).owner}
          /\ P[u].status # "cancelled"
        BY <2>5 DEF Supported
    <2>7. LiveOf(atts, u) = {i}
        <3>1. LiveOf(atts, u) \subseteq LiveOf(attempts, u)
            BY <1>7 DEF LiveOf
        <3>2. i \in LiveOf(atts, u)
            BY DEF LiveOf
        <3> QED
            BY <2>3, <3>1, <3>2
    <2>8. i \in Nat
        BY <1>2, <2>1
    <2> HIDE DEF u
    <2>9. P[u].attempt \in {Nil, i}
        BY <1>5, <2>6, <2>7, <2>8, AttemptNamed
    <2>10. status' \notin {"draft", "cancelled"}
        BY <1>1, <1>12, <2>3
    <2> HIDE DEF P
    <2>11. states'[u].status # "cancelled" /\ states'[u].attempt \in {Nil, i}
        BY <2>4, <2>6, <2>9
    <2> QED
        BY <2>6, <2>7, <2>10, <2>11 DEF LiveFits, u
<1>14. RemediationChain'
    <2>1. \A i \in DOMAIN attempts : attempts[i].remediates # Nil => attempts[i].remediates \in DOMAIN attempts
        BY DEF DomainInv, DomainTypeOK
    <2>2. Grown(attempts, attempts') /\ DOMAIN attempts' = DOMAIN attempts /\ RemediationChain
        BY <1>7, <1>8, <1>10 DEF DomainInv
    <2> QED
        BY <2>1, <2>2, RemediationStays
<1>15. WithdrawalsKept'
    <2>1. {i \in DOMAIN attempts : attempts'[i] # attempts[i]} = {j \in ids : IsLive(attempts[j])}
        BY <1>7, <1>10
    <2> HIDE DEF ids
    <2>2. WithdrawalsKept /\ Thinned(attempts')
        BY <1>6, <1>10 DEF DomainInv
    <2> QED
        BY <1>1, <1>2, <2>1, <2>2, WithdrawalsStay
<1>16. DomainTypeOK'
    <2>1. \A i \in DOMAIN atts :
             atts[i].rev \in DOMAIN hist /\ atts[i].remediates \in DOMAIN atts \cup {Nil}
        BY <1>4, <1>7 DEF DomainInv, DomainTypeOK
    <2>2. (\A c \in cancellations : c.rev \in DOMAIN hist) /\ Len(satisfactions) <= MaxSatisfactions
        BY <1>4 DEF DomainInv, DomainTypeOK
    <2>3. status' = "draft" => atts = <<>>
        <3>1. status' = "draft" => Len(attempts) = 0
            BY <1>12 DEF DomainInv, DomainTypeOK
        <3> QED
            BY <1>7, <3>1
    <2> QED
        BY <1>2, <1>4, <1>7, <1>10, <1>12, <2>1, <2>2, <2>3 DEF DomainTypeOK, Statuses
<1> QED
    BY <1>9, <1>10, <1>12, <1>13, <1>14, <1>15, <1>16 DEF DomainInv

\* A new program: nothing is attempted, nothing is satisfied.
LEMMA DomainInvInit == DomainInit => DomainInv
<1> SUFFICES ASSUME DomainInit
             PROVE  DomainInv
    OBVIOUS
<1>1. /\ status = "draft" /\ attempts = <<>> /\ satisfactions = <<>> /\ cancellations = {}
      /\ withdrawals = {} /\ conclusions = <<>>
    BY DEF DomainInit
<1>2. PICK first \in FirstSpecs :
          history = <<first>> /\ states = [u \in Body[first].units |-> UnitState("pending", Nil, Nil)]
    BY DEF DomainInit
<1>3. first \in Specs
    BY ProgramAssumption
<1>4. history \in Seq(Specs) /\ history # <<>> /\ Last(history) = first
    BY <1>2, <1>3 DEF Last
<1>5. DOMAIN attempts = {} /\ DOMAIN satisfactions = {}
    BY <1>1
<1>6. DomainTypeOK
    BY <1>1, <1>4, <1>5, ProgramAssumption DEF DomainTypeOK
<1>7. StatesProjected
    BY <1>1, <1>2, <1>4 DEF StatesProjected, StatesOf, Spec_
<1>8. Rooted(attempts, satisfactions) /\ LiveAttemptsSupported /\ RemediationChain
    BY <1>5 DEF Rooted, LiveAttemptsSupported, RemediationChain
<1>9. WithdrawalsKept
    BY <1>1, <1>5 DEF WithdrawalsKept
<1>10. SatisfiedOnCurrentInputs
    <2>1. \A u \in spec.units : states[u].status = "pending"
        BY <1>2, <1>4 DEF spec, Spec_, UnitState
    <2> QED
        BY <1>1, <2>1 DEF SatisfiedOnCurrentInputs
<1> QED
    BY <1>6, <1>7, <1>8, <1>9, <1>10 DEF DomainInv

\* Every command keeps the invariant.
LEMMA DomainInvNext == DomainInv /\ [DomainNext]_domainVars => DomainInv'
<1> SUFFICES ASSUME DomainInv, [DomainNext]_domainVars
             PROVE  DomainInv'
    OBVIOUS
<1>1. CASE UNCHANGED domainVars
    <2>1. /\ UNCHANGED <<status, history, attempts, satisfactions>>
          /\ UNCHANGED <<cancellations, withdrawals, conclusions, states>>
        BY <1>1 DEF domainVars
    <2>2. DomainTypeOK'
        BY <2>1 DEF DomainInv, DomainTypeOK
    <2>3. StatesProjected'
        BY <2>1 DEF DomainInv, StatesProjected
    <2>4. Rooted(attempts, satisfactions)'
        BY <2>1 DEF DomainInv
    <2>5. WithdrawalsKept'
        BY <2>1 DEF DomainInv, WithdrawalsKept
    <2>6. LiveAttemptsSupported'
        BY <2>1 DEF DomainInv, LiveAttemptsSupported, spec
    <2>7. SatisfiedOnCurrentInputs'
        BY <2>1 DEF DomainInv, SatisfiedOnCurrentInputs, spec
    <2>8. RemediationChain'
        BY <2>1 DEF DomainInv, RemediationChain
    <2> QED
        BY <2>2, <2>3, <2>4, <2>5, <2>6, <2>7, <2>8 DEF DomainInv
<1>2. ASSUME NEW actor \in Actors, Activate(actor)
      PROVE  DomainInv'
    BY <1>2, StatusStep DEF Activate
<1>3. ASSUME NEW actor \in Actors, Pause(actor)
      PROVE  DomainInv'
    BY <1>3, StatusStep DEF Pause
<1>4. ASSUME NEW actor \in Actors, Resume(actor)
      PROVE  DomainInv'
    BY <1>4, StatusStep DEF Resume
<1>5. ASSUME NEW actor \in Actors, CancelProgram(actor)
      PROVE  DomainInv'
    BY <1>5, CancelProgramStep
<1>6. ASSUME NEW actor \in Actors, NEW u \in WorkUnits, CancelWorkUnit(actor, u)
      PROVE  DomainInv'
    BY <1>6, CancelUnitStep
<1>7. ASSUME NEW actor \in Actors, NEW u \in WorkUnits, NEW source \in DOMAIN attempts \cup {Nil},
             PrepareAttempt(actor, u, source)
      PROVE  DomainInv'
    BY <1>7, PrepareStep
<1>8. ASSUME NEW actor \in Actors, NEW i \in DOMAIN attempts, StartAttempt(actor, i)
      PROVE  DomainInv'
    <2>1. IsLive(attempts[i]) /\ status # "cancelled" /\ Replace(i, "executing")
        BY <1>8 DEF StartAttempt, IsLive, Live
    <2> QED
        BY <2>1, ReplaceStep
<1>9. ASSUME NEW actor \in Actors, NEW i \in DOMAIN attempts, FinishAttempt(actor, i)
      PROVE  DomainInv'
    <2>1. IsLive(attempts[i]) /\ status # "cancelled" /\ Replace(i, "finished")
        BY <1>9 DEF FinishAttempt, IsLive, Live, Running
    <2> QED
        BY <2>1, ReplaceStep
<1>10. ASSUME NEW actor \in Actors, NEW i \in DOMAIN attempts, FailAttempt(actor, i)
       PROVE  DomainInv'
    <2>1. IsLive(attempts[i]) /\ status # "cancelled" /\ Replace(i, "failed")
        BY <1>10 DEF FailAttempt, Running
    <2> QED
        BY <2>1, ReplaceStep
<1>11. ASSUME NEW actor \in Actors, NEW i \in DOMAIN attempts, CancelAttempt(actor, i)
       PROVE  DomainInv'
    BY <1>11, CancelAttemptStep
<1>12. ASSUME NEW actor \in Actors, NEW i \in DOMAIN attempts, NEW ref \in References,
              SatisfyWorkUnit(actor, i, ref)
       PROVE  DomainInv'
    BY <1>12, SatisfyStep
<1>13. ASSUME NEW actor \in Actors, NEW new \in Amendments[Last(history)], AmendProgramSpec(actor, new)
       PROVE  DomainInv'
    BY <1>13, AmendStep
<1> QED
    BY <1>1, <1>2, <1>3, <1>4, <1>5, <1>6, <1>7, <1>8, <1>9, <1>10, <1>11, <1>12, <1>13 DEF DomainNext

\* Every command keeps the invariant: types, the projection, what satisfactions and
\* withdrawals rest on, and the three properties of the aggregate.
THEOREM DomainInvariant == DomainSpec => []DomainInv
BY DomainInvInit, DomainInvNext, PTL DEF DomainSpec

\* Nobody works on a unit that is gone, cancelled or changed, or for an owner who
\* dropped him, and no unit has two live Attempts: _validate() never raises there.
THEOREM LiveAttemptsAreSupported == DomainSpec => []LiveAttemptsSupported
<1>1. DomainInv => LiveAttemptsSupported
    BY DEF DomainInv
<1> QED
    BY <1>1, DomainInvariant, PTL

\* A unit counts as satisfied only on the inputs and the intent of now, and the
\* program as completed only with all of them.
THEOREM SatisfactionsAreCurrent == DomainSpec => []SatisfiedOnCurrentInputs
<1>1. DomainInv => SatisfiedOnCurrentInputs
    BY DEF DomainInv
<1> QED
    BY <1>1, DomainInvariant, PTL

\* Remediations of one unit form a chain.
THEOREM RemediationsAreChained == DomainSpec => []RemediationChain
<1>1. DomainInv => RemediationChain
    BY DEF DomainInv
<1> QED
    BY <1>1, DomainInvariant, PTL

-----------------------------------------------------------------------------
(* The records are only ever extended. *)

\* One record list extends another.
Prefix(seq, longer) == DOMAIN seq \subseteq DOMAIN longer /\ \A i \in DOMAIN seq : longer[i] = seq[i]

\* Appending extends.
LEMMA AppendExtends ==
    ASSUME NEW S, NEW seq, NEW e, seq \in Seq(S)
    PROVE  Prefix(seq, seq) /\ Prefix(seq, Append(seq, e))
<1> DEFINE T == S \cup {e}
<1>1. seq \in Seq(T)
    <2>1. seq \in [1..Len(seq) -> S] /\ Len(seq) \in Nat
        OBVIOUS
    <2>2. seq \in [1..Len(seq) -> T]
        BY <2>1
    <2> QED
        BY <2>1, <2>2, SeqDef
<1>2. e \in T
    OBVIOUS
<1> HIDE DEF T
<1>3. /\ DOMAIN Append(seq, e) = 1..(Len(seq) + 1) /\ DOMAIN seq = 1..Len(seq) /\ Len(seq) \in Nat
      /\ \A i \in 1..Len(seq) : Append(seq, e)[i] = seq[i]
    BY <1>1, <1>2
<1> QED
    BY <1>3 DEF Prefix

\* What every command does to the records.
Extends ==
    /\ Prefix(history, history') /\ Prefix(satisfactions, satisfactions')
    /\ Grown(attempts, attempts') /\ status # "cancelled" /\ withdrawals \subseteq withdrawals'

\* A command concludes the program at most once.
LEMMA ConclusionsExtend ==
    ASSUME NEW hist, NEW newStatus, NEW atts, NEW sats, NEW cancels, DomainInv,
           Assemble(hist, newStatus, atts, sats, cancels)
    PROVE  Prefix(conclusions, conclusions')
<1>1. conclusions \in Seq([status : {"completed", "cancelled"}, rev : Nat])
    BY DEF DomainInv, DomainTypeOK
<1>2. conclusions' = conclusions \/ \E c : conclusions' = Append(conclusions, c)
    BY DEF Assemble, ConclusionsAfter
<1> QED
    BY <1>1, <1>2, AppendExtends

\* A command that adds neither a specification nor a satisfaction.
LEMMA SameRecords ==
    ASSUME NEW newStatus, NEW atts, NEW cancels, DomainInv, status # "cancelled",
           Assemble(history, newStatus, atts, satisfactions, cancels), Grown(attempts, atts),
           withdrawals \subseteq withdrawals'
    PROVE  Extends /\ Prefix(conclusions, conclusions')
<1>1. history' = history /\ attempts' = atts /\ satisfactions' = satisfactions
    BY DEF Assemble
<1>2. Prefix(history, history') /\ Prefix(satisfactions, satisfactions')
    BY <1>1 DEF Prefix
<1> QED
    BY <1>1, <1>2, ConclusionsExtend DEF Extends

\* Every command extends the records.
LEMMA CommandsExtend ==
    ASSUME DomainInv, DomainNext
    PROVE  Extends /\ Prefix(conclusions, conclusions')
<1>0. /\ attempts \in Seq(AttemptRecs) /\ satisfactions \in Seq(SatisfactionRecs)
      /\ history \in Histories /\ history \in Seq(Specs)
    BY UnitsClosed
<1> DEFINE Goal == Extends /\ Prefix(conclusions, conclusions')
<1>g. Grown(attempts, attempts)
    BY DEF Grown
<1>r. ASSUME NEW i \in DOMAIN attempts, NEW st, IsLive(attempts[i]), Replace(i, st), status # "cancelled"
      PROVE  Goal
    <2> DEFINE new == [attempts EXCEPT ![i].status = st]
    <2>1. DOMAIN new = DOMAIN attempts /\ new[i] = [attempts[i] EXCEPT !.status = st]
          /\ \A j \in DOMAIN attempts : j # i => new[j] = attempts[j]
        OBVIOUS
    <2>2. attempts[i] \in AttemptRecs
        BY <1>0
    <2>3. LET a == attempts[i]
              b == [a EXCEPT !.status = st]
          IN  /\ b.unit = a.unit /\ b.rev = a.rev /\ b.actor = a.actor
              /\ b.inputs = a.inputs /\ b.remediates = a.remediates
        BY <2>2 DEF AttemptRecs
    <2>4. Assemble(history, status, new, satisfactions, cancellations) /\ withdrawals' = withdrawals
        BY <1>r DEF Replace
    <2> HIDE DEF new
    <2>5. Grown(attempts, new)
        BY <1>r, <2>1, <2>3 DEF Grown
    <2> QED
        BY <1>r, <2>4, <2>5, SameRecords
<1>1. ASSUME NEW actor \in Actors, Activate(actor) \/ Pause(actor) \/ Resume(actor)
      PROVE  Goal
    <2>1. PICK newStatus : Assemble(history, newStatus, attempts, satisfactions, cancellations)
        BY <1>1 DEF Activate, Pause, Resume
    <2>2. status # "cancelled" /\ withdrawals' = withdrawals
        BY <1>1 DEF Activate, Pause, Resume
    <2> QED
        BY <1>g, <2>1, <2>2, SameRecords
<1>2. ASSUME NEW actor \in Actors, CancelProgram(actor)
      PROVE  Goal
    <2>1. /\ Assemble(history, "cancelled", Withdrawn(attempts, DOMAIN attempts), satisfactions, cancellations)
          /\ status # "cancelled" /\ withdrawals \subseteq withdrawals'
        BY <1>2 DEF CancelProgram
    <2>2. Grown(attempts, Withdrawn(attempts, DOMAIN attempts))
        BY <1>0, WithdrawnIs
    <2> QED
        BY <2>1, <2>2, SameRecords
<1>3. ASSUME NEW actor \in Actors, NEW u \in WorkUnits, CancelWorkUnit(actor, u)
      PROVE  Goal
    <2> DEFINE ids == {i \in DOMAIN attempts : attempts[i].unit \in Affected(u)}
               cancels == cancellations \cup {[unit |-> u, rev |-> Len(history)]}
    <2>1. /\ Assemble(history, status, Withdrawn(attempts, ids), satisfactions, cancels)
          /\ status # "cancelled" /\ withdrawals \subseteq withdrawals'
        BY <1>3 DEF CancelWorkUnit
    <2>2. ids \subseteq DOMAIN attempts
        OBVIOUS
    <2> HIDE DEF ids, cancels
    <2>3. Grown(attempts, Withdrawn(attempts, ids))
        BY <1>0, <2>2, WithdrawnIs
    <2> QED
        BY <2>1, <2>3, SameRecords
<1>4. ASSUME NEW actor \in Actors, NEW u \in WorkUnits, NEW source \in DOMAIN attempts \cup {Nil},
             PrepareAttempt(actor, u, source)
      PROVE  Goal
    <2> DEFINE new == [unit |-> u, rev |-> Len(history), status |-> "prepared", actor |-> actor,
                       inputs |-> ResolvedInputs(spec, u, states, satisfactions), remediates |-> source]
    <2>1. /\ Assemble(history, status, Append(attempts, new), satisfactions, cancellations)
          /\ status # "cancelled" /\ withdrawals' = withdrawals
        BY <1>4 DEF PrepareAttempt
    <2> HIDE DEF new
    <2>2. Grown(attempts, Append(attempts, new))
        BY <1>0, AppendExtends DEF Grown, Prefix
    <2> QED
        BY <2>1, <2>2, SameRecords
<1>5. ASSUME NEW actor \in Actors, NEW i \in DOMAIN attempts,
             StartAttempt(actor, i) \/ FinishAttempt(actor, i) \/ FailAttempt(actor, i)
      PROVE  Goal
    <2>1. IsLive(attempts[i]) /\ status # "cancelled"
        BY <1>5 DEF StartAttempt, FinishAttempt, FailAttempt, IsLive, Live, Running
    <2>2. PICK st : Replace(i, st)
        BY <1>5 DEF StartAttempt, FinishAttempt, FailAttempt
    <2> HIDE DEF Goal
    <2> QED
        BY <1>r, <2>1, <2>2
<1>6. ASSUME NEW actor \in Actors, NEW i \in DOMAIN attempts, CancelAttempt(actor, i)
      PROVE  Goal
    <2> DEFINE ids == {i}
    <2>1. /\ Assemble(history, status, Withdrawn(attempts, ids), satisfactions, cancellations)
          /\ status # "cancelled" /\ withdrawals \subseteq withdrawals'
        BY <1>6 DEF CancelAttempt, Running
    <2>2. ids \subseteq DOMAIN attempts
        OBVIOUS
    <2> HIDE DEF ids
    <2>3. Grown(attempts, Withdrawn(attempts, ids))
        BY <1>0, <2>2, WithdrawnIs
    <2> QED
        BY <2>1, <2>3, SameRecords
<1>7. ASSUME NEW actor \in Actors, NEW i \in DOMAIN attempts, NEW ref \in References,
             SatisfyWorkUnit(actor, i, ref)
      PROVE  Goal
    <2>1. PICK fact : Assemble(history, status, attempts, Append(satisfactions, fact), cancellations)
        BY <1>7 DEF SatisfyWorkUnit
    <2>2. status # "cancelled" /\ withdrawals' = withdrawals
        BY <1>7 DEF SatisfyWorkUnit, Running
    <2>3. /\ history' = history /\ attempts' = attempts /\ satisfactions' = Append(satisfactions, fact)
        BY <2>1 DEF Assemble
    <2>4. Prefix(history, history') /\ Prefix(satisfactions, satisfactions')
        BY <1>0, <2>3, AppendExtends
    <2> QED
        BY <1>g, <2>1, <2>2, <2>3, <2>4, ConclusionsExtend DEF Extends
<1>8. ASSUME NEW actor \in Actors, NEW new \in Amendments[Last(history)], AmendProgramSpec(actor, new)
      PROVE  Goal
    <2> DEFINE hist == Append(history, new)
               atts == Settled(hist)
    <2>1. /\ Assemble(hist, status, atts, satisfactions, cancellations)
          /\ status # "cancelled" /\ withdrawals \subseteq withdrawals'
        BY <1>8 DEF AmendProgramSpec
    <2>2. Thinned(atts)
        BY <1>0, SettledIs
    <2>3. /\ history' = hist /\ attempts' = atts /\ satisfactions' = satisfactions
        BY <2>1 DEF Assemble
    <2>4. Prefix(history, hist)
        BY <1>0, AppendExtends
    <2> HIDE DEF atts, hist
    <2>5. Grown(attempts, atts)
        BY <1>0, <2>2, ThinnedTyped DEF Grown
    <2>6. Prefix(satisfactions, satisfactions')
        BY <2>3 DEF Prefix
    <2> QED
        BY <2>1, <2>3, <2>4, <2>5, <2>6, ConclusionsExtend DEF Extends
<1> QED
    BY <1>1, <1>2, <1>3, <1>4, <1>5, <1>6, <1>7, <1>8 DEF DomainNext

\* There are as many withdrawals as Attempts with one.
OneEach == Cardinality(withdrawals) = Cardinality({w.attempt : w \in withdrawals})

\* As many withdrawals as Attempts that were withdrawn.
LEMMA OneWithdrawalEach ==
    ASSUME DomainInv
    PROVE  OneEach
<1> DEFINE A == {w.attempt : w \in withdrawals}
           f == [w \in withdrawals |-> w.attempt]
<1>1. IsFiniteSet(DOMAIN attempts)
    <2>1. DOMAIN attempts = 1..Len(attempts) /\ Len(attempts) \in Nat
        BY DEF DomainInv, DomainTypeOK
    <2> DEFINE n == Len(attempts)
    <2>2. DOMAIN attempts = 1..n /\ n \in Nat
        BY <2>1
    <2> HIDE DEF n
    <2>3. IsFiniteSet(1..n)
        BY <2>2, FS_Interval
    <2> QED
        BY <2>2, <2>3
<1>2. A \subseteq DOMAIN attempts
    BY DEF DomainInv, WithdrawalsKept
<1>3. \A v, w \in withdrawals : v.attempt = w.attempt => v = w
    BY DEF DomainInv, WithdrawalsKept
<1>4. f \in Injection(withdrawals, A) /\ f \in Surjection(withdrawals, A)
    <2>1. f \in [withdrawals -> A]
        OBVIOUS
    <2>2. f \in Injection(withdrawals, A)
        BY <1>3, <2>1 DEF Injection, IsInjective
    <2>3. f \in Surjection(withdrawals, A)
        BY <2>1 DEF Surjection
    <2> QED
        BY <2>2, <2>3
<1> HIDE DEF A, f
<1>5. IsFiniteSet(A)
    BY <1>1, <1>2, FS_Subset
<1>6. Cardinality(withdrawals) = Cardinality(A)
    BY <1>4, <1>5, FS_Injection
<1> QED
    BY <1>6 DEF A, OneEach

\* No command rewrites what is recorded, and each cancelled Attempt has one withdrawal.
THEOREM HistoryIsOnlyExtended == DomainSpec => HistoryOnlyExtended
<1> DEFINE Act ==
        /\ \A r \in DOMAIN history : history'[r] = history[r]
        /\ \A i \in DOMAIN satisfactions : satisfactions'[i] = satisfactions[i]
        /\ \A i \in DOMAIN conclusions : conclusions'[i] = conclusions[i]
        /\ \A i \in DOMAIN attempts :
             /\ ~IsLive(attempts[i]) => attempts'[i] = attempts[i]
             /\ attempts'[i].inputs = attempts[i].inputs
        /\ status # "cancelled"
        /\ withdrawals \subseteq withdrawals'
        /\ {i \in DOMAIN attempts' : attempts'[i].status = "cancelled"} = {w.attempt : w \in withdrawals'}
        /\ Cardinality(withdrawals') = Cardinality({w.attempt : w \in withdrawals'})
<1>e. DomainInv => OneEach
    BY OneWithdrawalEach
<1>f. DomainInv' => OneEach'
    BY <1>e, PTL
<1>1. ASSUME DomainInv, DomainInv', DomainNext
      PROVE  Act
    <2>1. Extends /\ Prefix(conclusions, conclusions')
        BY <1>1, CommandsExtend
    <2>2. {i \in DOMAIN attempts' : attempts'[i].status = "cancelled"} = {w.attempt : w \in withdrawals'}
        BY <1>1 DEF DomainInv, WithdrawalsKept
    <2>5. Cardinality(withdrawals') = Cardinality({w.attempt : w \in withdrawals'})
        BY <1>1, <1>f DEF OneEach
    <2> QED
        BY <2>1, <2>2, <2>5 DEF Extends, Prefix, Grown
<1>2. DomainInv /\ DomainInv' /\ [DomainNext]_domainVars => [Act]_domainVars
    BY <1>1
<1> QED
    BY <1>2, DomainInvariant, PTL DEF DomainSpec, HistoryOnlyExtended

-----------------------------------------------------------------------------
(* Artifacts, backups, restores and the upgrade. *)

\* The kinds of tasks, apart.
Finalizing == [kind : {"finalize"}, step : {"directory", "file", "sync", "commit"},
               slot : Slots, digest : Digests]
BackingUp == [kind : {"backup"}, step : {"copy", "publish"}, name : BundleNames]
Opening == [kind : {"open"}, step : {"next", "copy", "publish", "validate"},
            name : BundleNames \cup {None}]
Restoring == [kind : {"restore"}, step : {"files", "database", "sync"}, name : BundleNames]

\* A task's kind tells which fields it has.
LEMMA TaskKinds ==
    ASSUME NEW t \in Tasks
    PROVE  /\ t.kind \in {"idle", "finalize", "backup", "open", "restore"}
           /\ t.kind = "idle" => t = Idle
           /\ t.kind = "finalize" => t \in Finalizing
           /\ t.kind = "backup" => t \in BackingUp
           /\ t.kind = "open" => t \in Opening
           /\ t.kind = "restore" => t \in Restoring
BY DEF Tasks, Idle, Finalizing, BackingUp, Opening, Restoring

\* Each kind of task is a task.
LEMMA TaskTyped ==
    /\ Idle \in Tasks /\ Finalizing \subseteq Tasks /\ BackingUp \subseteq Tasks
    /\ Opening \subseteq Tasks /\ Restoring \subseteq Tasks
BY DEF Tasks, Idle, Finalizing, BackingUp, Opening, Restoring

\* An empty directory of copies is one of no files.
LEMMA EmptyCopy == << >> \in Copies /\ \A c \in Copies : c = << >> => DOMAIN c = {}
<1>1. << >> \in [{} -> FileStates]
    OBVIOUS
<1>2. {} \in SUBSET Digests
    OBVIOUS
<1> QED
    BY <1>1, <1>2 DEF Copies

\* What an image refers to are digests.
LEMMA ReferencedDigests ==
    ASSUME NEW image \in Images
    PROVE  Referenced(image) \subseteq Digests
BY DEF Images, Referenced

\* The image of the store is one.
LEMMA ImageTyped ==
    ASSUME ArtifactTypeOK
    PROVE  Image \in Images
BY DEF ArtifactTypeOK, Image, Images

-----------------------------------------------------------------------------
(* Steps that change what the process does, and nothing it keeps. *)

\* What the invariant speaks of, apart from the task and the controller.
Kept == <<refs, schema, files, bundles, restored, original, harmed, blackout>>

\* Such a step keeps what is said of the files, the backups and the restored database.
LEMMA KeptStep ==
    ASSUME ArtifactInv, UNCHANGED Kept
    PROVE  ReferencesBacked' /\ BundlesComplete' /\ UpgradeKeepsOriginal'
<1>1. ReferencesBacked'
    BY DEF ArtifactInv, Kept, ReferencesBacked, Backed, Verified, Image, Referenced
<1>2. BundlesComplete'
    BY DEF ArtifactInv, Kept, BundlesComplete, Intact, Referenced
<1>3. UpgradeKeepsOriginal'
    BY DEF ArtifactInv, Kept, UpgradeKeepsOriginal
<1> QED
    BY <1>1, <1>2, <1>3

\* A task that goes on to another task needs its own conditions only.
LEMMA TaskStep ==
    ASSUME ArtifactInv, UNCHANGED Kept, task' \in Tasks, open' \in BOOLEAN,
           StagedBeforeCommit', RestoreOrdered',
           task'.kind \in {"backup", "open"} /\ task'.step = "copy" =>
              task'.name \in BundleNames /\ ~Exists(task'.name),
           open' \/ task'.kind = "finalize" \/ (task'.kind = "open" /\ task'.step = "validate")
              => schema = SchemaVersion
    PROVE  ArtifactInv'
<1>1. ArtifactTypeOK'
    BY DEF ArtifactInv, ArtifactTypeOK, Kept
<1>2. BundlesNamed'
    BY DEF ArtifactInv, BundlesNamed, Kept, Exists, Referenced
<1>3. UpgradeComesFirst'
    BY DEF ArtifactInv, UpgradeComesFirst, Kept, At, Image
<1>4. ReferencesBacked' /\ BundlesComplete' /\ UpgradeKeepsOriginal'
    BY KeptStep
<1> QED
    BY <1>1, <1>2, <1>3, <1>4 DEF ArtifactInv

\* The end of a task leaves nothing to be said of it.
LEMMA IdleStep ==
    ASSUME ArtifactInv, UNCHANGED Kept, task' = Idle,
           open' \in BOOLEAN, open' => schema = SchemaVersion
    PROVE  ArtifactInv'
<1>1. StagedBeforeCommit' /\ RestoreOrdered'
    BY DEF Idle, StagedBeforeCommit, RestoreOrdered, At
<1>2. task' \in Tasks /\ task'.kind = "idle"
    BY TaskTyped DEF Idle
<1> QED
    BY <1>1, <1>2, TaskStep

\* A reference is only begun in an upgraded database.
LEMMA FinalizeStep ==
    ASSUME ArtifactInv, NEW s \in Slots, NEW d \in Digests, Finalize(s, d)
    PROVE  ArtifactInv'
<1>1. task' = [kind |-> "finalize", step |-> "directory", slot |-> s, digest |-> d]
    BY DEF Finalize, StepAfter
<1>2. task' \in Tasks
    BY <1>1, TaskTyped DEF Finalizing
<1>3. UNCHANGED Kept /\ open' = open /\ open
    BY DEF Finalize, Kept, storeVars, historyVars
<1>4. StagedBeforeCommit' /\ RestoreOrdered'
    BY <1>1 DEF StagedBeforeCommit, RestoreOrdered, At
<1>5. schema = SchemaVersion /\ open \in BOOLEAN
    BY <1>3 DEF ArtifactInv, UpgradeComesFirst, ArtifactTypeOK
<1> QED
    BY <1>1, <1>2, <1>3, <1>4, <1>5, TaskStep

\* The steps of a task that finalizes, by its name.
LEMMA Proceeding ==
    ASSUME task \in Finalizing, Proceed
    PROVE  /\ task.step = "directory" => task' = [task EXCEPT !.step = "file"]
           /\ task.step = "file" => task' = [task EXCEPT !.step = "sync"]
           /\ task.step = "sync" => task' = [task EXCEPT !.step = "commit"]
           /\ task.step = "commit" => task' = Idle
BY DEF Proceed, Finalizing, StepAfter, Goto

\* Making the directory is followed by the look for the file.
LEMMA MakeDirectoryStep ==
    ASSUME ArtifactInv, MakeDirectory
    PROVE  ArtifactInv'
<1>1. task \in Finalizing /\ task.step = "directory" /\ Proceed
    BY TaskKinds DEF ArtifactInv, ArtifactTypeOK, MakeDirectory, At
<1>2. task' = [task EXCEPT !.step = "file"]
    BY <1>1, Proceeding
<1>3. task' \in Finalizing /\ task'.kind = "finalize" /\ task'.step = "file"
    BY <1>1, <1>2 DEF Finalizing
<1>4. UNCHANGED Kept /\ open' = open
    BY DEF MakeDirectory, Kept, historyVars
<1>5. StagedBeforeCommit' /\ RestoreOrdered'
    BY <1>3 DEF StagedBeforeCommit, RestoreOrdered, At
<1>6. schema = SchemaVersion /\ open \in BOOLEAN
    BY <1>1 DEF ArtifactInv, UpgradeComesFirst, ArtifactTypeOK, Finalizing
<1> QED
    BY <1>3, <1>4, <1>5, <1>6, TaskStep, TaskTyped

\* A file that is there and good is used.
LEMMA UseFileStep ==
    ASSUME ArtifactInv, UseFile
    PROVE  ArtifactInv'
<1>1. task \in Finalizing /\ Verified(task.digest)
    BY TaskKinds DEF ArtifactInv, ArtifactTypeOK, UseFile, At
<1>2. task' = [task EXCEPT !.step = "commit"]
    BY <1>1 DEF UseFile, Goto, StepAfter
<1>3. task' \in Finalizing /\ task'.kind = "finalize" /\ task'.digest = task.digest
    BY <1>1, <1>2 DEF Finalizing
<1>4. UNCHANGED Kept /\ open' = open
    BY DEF UseFile, Kept, storeVars, historyVars
<1>5. StagedBeforeCommit'
    BY <1>1, <1>3, <1>4 DEF StagedBeforeCommit, Verified, Kept
<1>6. RestoreOrdered'
    BY <1>3 DEF RestoreOrdered, At
<1>7. schema = SchemaVersion /\ open \in BOOLEAN
    BY <1>1 DEF ArtifactInv, UpgradeComesFirst, ArtifactTypeOK, Finalizing
<1> QED
    BY <1>3, <1>4, <1>5, <1>6, <1>7, TaskStep, TaskTyped

\* A synced file is still the one that was written.
LEMMA SyncDirectoryStep ==
    ASSUME ArtifactInv, SyncDirectory
    PROVE  ArtifactInv'
<1>1. task \in Finalizing /\ task.step = "sync" /\ Proceed
    BY TaskKinds DEF ArtifactInv, ArtifactTypeOK, SyncDirectory, At
<1>2. task' = [task EXCEPT !.step = "commit"]
    BY <1>1, Proceeding
<1>3. task' \in Finalizing /\ task'.kind = "finalize" /\ task'.digest = task.digest
    BY <1>1, <1>2 DEF Finalizing
<1>4. UNCHANGED Kept /\ open' = open
    BY DEF SyncDirectory, Kept, historyVars
<1>5. task.kind = "finalize"
    BY <1>1 DEF Finalizing
<1>6. StagedBeforeCommit'
    BY <1>1, <1>3, <1>4, <1>5 DEF ArtifactInv, StagedBeforeCommit, Verified, Kept
<1>7. RestoreOrdered'
    BY <1>3 DEF RestoreOrdered, At
<1>8. schema = SchemaVersion /\ open \in BOOLEAN
    BY <1>5 DEF ArtifactInv, UpgradeComesFirst, ArtifactTypeOK
<1> QED
    BY <1>3, <1>4, <1>6, <1>7, <1>8, TaskStep, TaskTyped

\* A backup is begun under a name that is not taken.
LEMMA BackupStep ==
    ASSUME ArtifactInv, NEW name \in Names, Backup(name)
    PROVE  ArtifactInv'
<1>1. /\ task' = [kind |-> "backup", step |-> "copy", name |-> name]
      /\ name \in BundleNames /\ ~Exists(name)
    BY DEF Backup, BundleNames
<1>2. task' \in Tasks
    BY <1>1, TaskTyped DEF BackingUp
<1>3. UNCHANGED Kept /\ open' = open
    BY DEF Backup, Kept, storeVars, historyVars
<1>4. StagedBeforeCommit' /\ RestoreOrdered'
    BY <1>1 DEF StagedBeforeCommit, RestoreOrdered, At
<1>5. open \in BOOLEAN /\ (open => schema = SchemaVersion)
    BY DEF ArtifactInv, UpgradeComesFirst, ArtifactTypeOK
<1> QED
    BY <1>1, <1>2, <1>3, <1>4, <1>5, TaskStep

\* The sync of a backup changes nothing of it.
LEMMA SyncBundleStep ==
    ASSUME ArtifactInv, SyncBundle
    PROVE  ArtifactInv'
<1>1. task \in Tasks /\ open \in BOOLEAN /\ (open => schema = SchemaVersion)
    BY DEF ArtifactInv, UpgradeComesFirst, ArtifactTypeOK
<1>2. UNCHANGED Kept /\ open' = open
    BY DEF SyncBundle, Kept, storeVars, historyVars
<1>3. CASE task.kind # "open"
    BY <1>1, <1>2, <1>3, IdleStep DEF SyncBundle, BackupDone
<1>4. CASE task.kind = "open"
    <2>1. task \in Opening /\ task' = [task EXCEPT !.step = "next"]
        BY <1>1, <1>4, TaskKinds DEF SyncBundle, BackupDone, Goto
    <2>2. task' \in Opening /\ task'.kind = "open" /\ task'.step = "next"
        BY <2>1 DEF Opening
    <2>3. StagedBeforeCommit' /\ RestoreOrdered'
        BY <2>2 DEF StagedBeforeCommit, RestoreOrdered, At
    <2> QED
        BY <1>1, <1>2, <2>2, <2>3, TaskStep, TaskTyped
<1> QED
    BY <1>3, <1>4

\* A start begins with the look at the version.
LEMMA BeginOpenStep ==
    ASSUME ArtifactInv, BeginOpen
    PROVE  ArtifactInv'
<1>1. task' = [kind |-> "open", step |-> "next", name |-> None]
    BY DEF BeginOpen
<1>2. task' \in Tasks
    BY <1>1, TaskTyped DEF Opening
<1>3. UNCHANGED Kept /\ open' = open
    BY DEF BeginOpen, Kept, storeVars, historyVars
<1>4. StagedBeforeCommit' /\ RestoreOrdered'
    BY <1>1 DEF StagedBeforeCommit, RestoreOrdered, At
<1>5. open \in BOOLEAN /\ (open => schema = SchemaVersion)
    BY DEF ArtifactInv, UpgradeComesFirst, ArtifactTypeOK
<1> QED
    BY <1>1, <1>2, <1>3, <1>4, <1>5, TaskStep

\* The backup before an upgrade is begun under a name that is not taken.
LEMMA BackupBeforeStep ==
    ASSUME ArtifactInv, NEW t \in 4..SchemaVersion, BackupBefore(t)
    PROVE  ArtifactInv'
<1>1. task \in Opening /\ ~Exists(UpgradeName(t))
    BY TaskKinds DEF ArtifactInv, ArtifactTypeOK, BackupBefore, At
<1>2. UpgradeName(t) \in BundleNames
    BY ImageTyped DEF ArtifactInv, UpgradeName, BundleNames
<1>3. task' = [task EXCEPT !.step = "copy", !.name = UpgradeName(t)]
    BY DEF BackupBefore
<1>4. /\ task' \in Opening /\ task'.kind = "open" /\ task'.step = "copy"
      /\ task'.name = UpgradeName(t)
    BY <1>1, <1>2, <1>3 DEF Opening
<1>5. UNCHANGED Kept /\ open' = open
    BY DEF BackupBefore, Kept, storeVars, historyVars
<1>6. StagedBeforeCommit' /\ RestoreOrdered'
    BY <1>4 DEF StagedBeforeCommit, RestoreOrdered, At
<1>7. open \in BOOLEAN /\ (open => schema = SchemaVersion)
    BY DEF ArtifactInv, UpgradeComesFirst, ArtifactTypeOK
<1> QED
    BY <1>1, <1>2, <1>4, <1>5, <1>6, <1>7, TaskStep, TaskTyped

\* A start ends with an upgraded database.
LEMMA OpenedStep ==
    ASSUME ArtifactInv, Opened
    PROVE  ArtifactInv'
<1>1. schema = SchemaVersion
    BY DEF ArtifactInv, UpgradeComesFirst, Opened
<1>2. UNCHANGED Kept /\ open' = TRUE /\ task' = Idle
    BY DEF Opened, Kept, storeVars, historyVars
<1> QED
    BY <1>1, <1>2, IdleStep

\* A restore begins where nothing was restored, so that none was completed.
LEMMA RestoreStep ==
    ASSUME ArtifactInv, NEW b \in bundles, Restore(b)
    PROVE  ArtifactInv'
<1>1. b.name \in BundleNames
    BY DEF ArtifactInv, ArtifactTypeOK, Bundles
<1>2. task' = [kind |-> "restore", step |-> "files", name |-> b.name]
    BY DEF Restore
<1>3. task' \in Tasks
    BY <1>1, <1>2, TaskTyped DEF Restoring
<1>4. UNCHANGED Kept /\ open' = open
    BY DEF Restore, Kept, storeVars, historyVars
<1>5. restored' = restored /\ ~restored.durable
    BY <1>4 DEF Restore, ArtifactInv, BundlesComplete, Kept
<1>6. StagedBeforeCommit' /\ RestoreOrdered'
    BY <1>2, <1>5 DEF StagedBeforeCommit, RestoreOrdered, At
<1>7. open \in BOOLEAN /\ (open => schema = SchemaVersion)
    BY DEF ArtifactInv, UpgradeComesFirst, ArtifactTypeOK
<1> QED
    BY <1>2, <1>3, <1>4, <1>6, <1>7, TaskStep

\* A task that fails, and a process that ends, leave what they had done.
LEMMA EndStep ==
    ASSUME ArtifactInv, Fails \/ ProcessLost \/ MakeDirectoryFails
    PROVE  ArtifactInv'
<1>1. open \in BOOLEAN /\ (open => schema = SchemaVersion)
    BY DEF ArtifactInv, UpgradeComesFirst, ArtifactTypeOK
<1>2. UNCHANGED Kept /\ task' = Idle
    BY DEF Fails, ProcessLost, MakeDirectoryFails, Kept, storeVars, historyVars
<1>3. CASE open' = open
    BY <1>1, <1>2, <1>3, IdleStep
<1>4. CASE open' = FALSE
    BY <1>2, <1>4, IdleStep
<1> QED
    BY <1>3, <1>4 DEF Fails, ProcessLost, MakeDirectoryFails

-----------------------------------------------------------------------------
(* Steps that change the files or the references. *)

\* Steps that leave the backups and the restored database leave what is said of them.
LEMMA BackupsStep ==
    ASSUME ArtifactInv, UNCHANGED <<bundles, restored>>, harmed \subseteq harmed',
           task'.kind \notin {"backup", "open", "restore"}
    PROVE  BundlesNamed' /\ BundlesComplete' /\ RestoreOrdered'
<1>1. BundlesNamed'
    BY DEF ArtifactInv, BundlesNamed, Referenced
<1>2. BundlesComplete'
    BY DEF ArtifactInv, BundlesComplete, Intact, Referenced
<1>3. RestoreOrdered'
    BY DEF RestoreOrdered, At
<1> QED
    BY <1>1, <1>2, <1>3

\* A file is only written where there was none, so no reference loses its own.
LEMMA ReplaceFileStep ==
    ASSUME ArtifactInv, ReplaceFile
    PROVE  ArtifactInv'
<1>1. task \in Finalizing /\ task.step = "file" /\ Proceed
    BY TaskKinds DEF ArtifactInv, ArtifactTypeOK, ReplaceFile, At
<1>2. task' = [task EXCEPT !.step = "sync"]
    BY <1>1, Proceeding
<1>3. /\ task' \in Finalizing /\ task'.kind = "finalize" /\ task'.digest = task.digest
      /\ task.digest \in Digests /\ task.kind = "finalize"
    BY <1>1, <1>2 DEF Finalizing
<1>4. /\ UNCHANGED <<refs, schema, bundles, restored, open, original, harmed, blackout>>
      /\ files' = [files EXCEPT ![task.digest] = "good"]
    BY DEF ReplaceFile, historyVars
<1>5. files \in [Digests -> FileStates]
    BY DEF ArtifactInv, ArtifactTypeOK
<1>6. \A d \in Digests : Verified(d) => Verified(d)'
    BY <1>3, <1>4, <1>5 DEF Verified
<1>7. ArtifactTypeOK'
    BY <1>3, <1>4, TaskTyped DEF ArtifactInv, ArtifactTypeOK, FileStates
<1>8. StagedBeforeCommit'
    BY <1>3, <1>4, <1>5 DEF StagedBeforeCommit, Verified
<1>9. BundlesNamed' /\ BundlesComplete' /\ RestoreOrdered'
    BY <1>3, <1>4, BackupsStep
<1>10. Referenced(Image) \subseteq Digests
    BY ImageTyped, ReferencedDigests DEF ArtifactInv
<1>11. ReferencesBacked'
    BY <1>4, <1>6, <1>10 DEF ArtifactInv, ReferencesBacked, Backed, Referenced, Image
<1>12. UpgradeComesFirst'
    BY <1>3, <1>4 DEF ArtifactInv, UpgradeComesFirst, At, Image
<1>13. UpgradeKeepsOriginal'
    BY <1>4 DEF ArtifactInv, UpgradeKeepsOriginal
<1> QED
    BY <1>7, <1>8, <1>9, <1>11, <1>12, <1>13 DEF ArtifactInv

\* The reference that is committed names a file that is there.
LEMMA CommitReferenceStep ==
    ASSUME ArtifactInv, CommitReference
    PROVE  ArtifactInv'
<1>1. task \in Finalizing /\ task.step = "commit" /\ Proceed
    BY TaskKinds DEF ArtifactInv, ArtifactTypeOK, CommitReference, At
<1>2. task' = Idle
    BY <1>1, Proceeding
<1>3. task.kind = "finalize" /\ task.slot \in Slots /\ task.digest \in Digests
    BY <1>1 DEF Finalizing
<1>4. /\ UNCHANGED <<schema, files, bundles, restored, open, original, harmed, blackout>>
      /\ refs' = [refs EXCEPT ![task.slot] = task.digest]
    BY DEF CommitReference, historyVars
<1>5. task'.kind = "idle" /\ task' \in Tasks
    BY <1>2, TaskTyped DEF Idle
<1>6. refs \in [Slots -> Digests \cup {None}]
    BY DEF ArtifactInv, ArtifactTypeOK
<1>7. ArtifactTypeOK'
    BY <1>3, <1>4, <1>5 DEF ArtifactInv, ArtifactTypeOK
<1>8. StagedBeforeCommit'
    BY <1>5 DEF StagedBeforeCommit
<1>9. BundlesNamed' /\ BundlesComplete' /\ RestoreOrdered'
    BY <1>4, <1>5, BackupsStep
<1>10. task.digest \in harmed \/ Verified(task.digest)
    BY <1>1, <1>3 DEF ArtifactInv, StagedBeforeCommit
<1>11. Referenced(Image)' \subseteq Referenced(Image) \cup {task.digest}
    BY <1>3, <1>4, <1>6 DEF Referenced, Image
<1>12. ReferencesBacked'
    BY <1>4, <1>10, <1>11 DEF ArtifactInv, ReferencesBacked, Backed, Verified
<1>13. UpgradeComesFirst'
    BY <1>3, <1>4, <1>5 DEF ArtifactInv, UpgradeComesFirst, At
<1>14. UpgradeKeepsOriginal'
    BY <1>4 DEF ArtifactInv, UpgradeKeepsOriginal
<1> QED
    BY <1>7, <1>8, <1>9, <1>12, <1>13, <1>14 DEF ArtifactInv

-----------------------------------------------------------------------------
(* Backups and the upgrade. *)

\* A published backup has a good copy of everything that its image refers to.
LEMMA PublishBundleStep ==
    ASSUME ArtifactInv, PublishBundle
    PROVE  ArtifactInv'
<1> DEFINE copies == [d \in Referenced(Image) |-> files[d]]
           new == [name |-> task.name, image |-> Image, files |-> copies]
<1>1. task \in Tasks /\ task.kind \in {"backup", "open"} /\ task.step = "copy"
    BY DEF ArtifactInv, ArtifactTypeOK, PublishBundle
<1>2. ~Exists(task.name)
    BY <1>1 DEF ArtifactInv, BundlesNamed
<1>3. task' = [task EXCEPT !.step = "publish"]
    BY DEF PublishBundle, Goto
<1>4. bundles' = bundles \cup {new}
    BY DEF PublishBundle
<1>5. UNCHANGED <<refs, schema, files, restored, open, original, harmed, blackout>>
    BY DEF PublishBundle, storeVars, historyVars
<1>6. Image \in Images /\ Referenced(Image) \subseteq Digests
    BY ImageTyped, ReferencedDigests DEF ArtifactInv
<1>7. copies \in Copies
    <2>1. files \in [Digests -> FileStates]
        BY DEF ArtifactInv, ArtifactTypeOK
    <2>2. copies \in [Referenced(Image) -> FileStates]
        BY <1>6, <2>1
    <2> QED
        BY <1>6, <2>2 DEF Copies
<1>8. /\ task' \in Tasks /\ task'.step = "publish" /\ task'.kind \in {"backup", "open"}
      /\ task'.kind = task.kind
    BY <1>1, <1>3, TaskKinds, TaskTyped DEF BackingUp, Opening
<1>9. task.name \in BundleNames
    <2>1. CASE task.kind = "backup"
        BY <1>1, <2>1, TaskKinds DEF BackingUp
    <2>2. CASE task.kind = "open"
        BY <1>1, <2>2, TaskKinds DEF Opening, ArtifactInv, BundlesNamed
    <2> QED
        BY <1>1, <2>1, <2>2
<1>10. new \in Bundles
    BY <1>6, <1>7, <1>9 DEF Bundles
<1>11. new.name = task.name /\ new.image = Image /\ new.files = copies
    OBVIOUS
<1>12. DOMAIN new.files = Referenced(new.image) /\ Intact(new)
    BY <1>11 DEF PublishBundle, Copyable, Verified, Intact
<1> HIDE DEF new
<1>13. ArtifactTypeOK'
    BY <1>4, <1>5, <1>8, <1>10 DEF ArtifactInv, ArtifactTypeOK
<1>14. StagedBeforeCommit' /\ RestoreOrdered'
    BY <1>8 DEF StagedBeforeCommit, RestoreOrdered, At
<1>15. BundlesNamed'
    BY <1>2, <1>4, <1>8, <1>11, <1>12 DEF ArtifactInv, BundlesNamed, Exists, Referenced
<1>16. BundlesComplete'
    BY <1>4, <1>5, <1>12 DEF ArtifactInv, BundlesComplete, Intact, Referenced
<1>17. ReferencesBacked'
    BY <1>5 DEF ArtifactInv, ReferencesBacked, Backed, Verified, Referenced, Image
<1>18. UpgradeComesFirst'
    BY <1>5, <1>8 DEF ArtifactInv, UpgradeComesFirst, At, Image
<1>19. UpgradeKeepsOriginal'
    BY <1>4, <1>5 DEF ArtifactInv, UpgradeKeepsOriginal
<1> QED
    BY <1>13, <1>14, <1>15, <1>16, <1>17, <1>18, <1>19 DEF ArtifactInv

\* The upgrade happens once the backups of every boundary are there, and they hold
\* what the database was at first.
LEMMA UpgradeStep ==
    ASSUME ArtifactInv, Upgrade
    PROVE  ArtifactInv'
<1>1. task \in Opening
    BY TaskKinds DEF ArtifactInv, ArtifactTypeOK, Upgrade, At
<1>2. task' = [task EXCEPT !.step = "validate"] /\ schema' = SchemaVersion
    BY DEF Upgrade, Goto
<1>3. task' \in Opening /\ task'.kind = "open" /\ task'.step = "validate"
    BY <1>1, <1>2 DEF Opening
<1>4. UNCHANGED <<refs, files, bundles, restored, open, original, harmed, blackout>>
    BY DEF Upgrade, historyVars
<1>5. ArtifactTypeOK'
    BY <1>2, <1>3, <1>4, TaskTyped DEF ArtifactInv, ArtifactTypeOK, SchemaVersion
<1>6. StagedBeforeCommit' /\ RestoreOrdered'
    BY <1>3 DEF StagedBeforeCommit, RestoreOrdered, At
<1>7. BundlesNamed'
    BY <1>3, <1>4 DEF ArtifactInv, BundlesNamed, Referenced
<1>8. BundlesComplete'
    BY <1>4 DEF ArtifactInv, BundlesComplete, Intact, Referenced
<1>9. ReferencesBacked'
    BY <1>4 DEF ArtifactInv, ReferencesBacked, Backed, Verified, Referenced, Image
<1>10. UpgradeComesFirst'
    BY <1>2 DEF UpgradeComesFirst
<1>11. UpgradeKeepsOriginal'
    <2>1. CASE schema = SchemaVersion
        BY <1>2, <1>4, <2>1 DEF ArtifactInv, UpgradeKeepsOriginal
    <2>2. CASE schema # SchemaVersion
        <3>1. Image = original /\ schema = original.schema
            BY <2>2 DEF ArtifactInv, UpgradeComesFirst, Image
        <3>2. ASSUME NEW t \in 4..SchemaVersion, original.schema < t, original.schema > 0
              PROVE  \E b \in bundles : /\ b.name = [target |-> t, image |-> original]
                                        /\ b.image = original
            <4>1. t \in Targets(schema)
                BY <3>1, <3>2 DEF Targets
            <4>2. BackedUp(t)
                BY <4>1 DEF Upgrade
            <4> QED
                BY <3>1, <4>2 DEF BackedUp, UpgradeName
        <3> QED
            BY <1>4, <3>2 DEF UpgradeKeepsOriginal
    <2> QED
        BY <2>1, <2>2
<1> QED
    BY <1>5, <1>6, <1>7, <1>8, <1>9, <1>10, <1>11 DEF ArtifactInv

-----------------------------------------------------------------------------
(* Restores. *)

\* Steps of a restore leave the store, its backups and its references alone.
LEMMA RestoringStep ==
    ASSUME ArtifactInv, RestoreOrdered',
           UNCHANGED <<refs, schema, files, bundles, open, original, harmed, blackout>>,
           task' \in Tasks, task'.kind \in {"idle", "restore"},
           restored' \in [database : Images \cup {None}, files : Copies \cup {None}, durable : BOOLEAN],
           restored'.durable =>
              /\ restored'.database # None
              /\ \A d \in Referenced(restored'.database) : restored'.files[d] = "good"
    PROVE  ArtifactInv'
<1>1. ArtifactTypeOK'
    BY DEF ArtifactInv, ArtifactTypeOK
<1>2. StagedBeforeCommit'
    BY DEF StagedBeforeCommit
<1>3. BundlesNamed'
    BY DEF ArtifactInv, BundlesNamed, Referenced
<1>4. BundlesComplete'
    BY DEF ArtifactInv, BundlesComplete, Intact, Referenced
<1>5. ReferencesBacked'
    BY DEF ArtifactInv, ReferencesBacked, Backed, Verified, Referenced, Image
<1>6. UpgradeComesFirst'
    BY DEF ArtifactInv, UpgradeComesFirst, Image, At
<1>7. UpgradeKeepsOriginal'
    BY DEF ArtifactInv, UpgradeKeepsOriginal
<1> QED
    BY <1>1, <1>2, <1>3, <1>4, <1>5, <1>6, <1>7 DEF ArtifactInv

\* The types of what is restored, and of the task that restores.
LEMMA RestoringTyped ==
    ASSUME ArtifactInv, task.kind = "restore"
    PROVE  /\ task \in Restoring /\ ~restored.durable
           /\ restored \in [database : Images \cup {None}, files : Copies \cup {None},
                            durable : BOOLEAN]
BY TaskKinds DEF ArtifactInv, ArtifactTypeOK, RestoreOrdered

\* The files are copied from the one backup of that name, and verified.
LEMMA CopyFilesStep ==
    ASSUME ArtifactInv, CopyFiles
    PROVE  ArtifactInv'
<1>1. task.kind = "restore"
    BY DEF CopyFiles, At
<1>2. PICK b \in bundles :
        /\ b.name = task.name
        /\ CopyVerified(b.files, b.image)
        /\ restored' = [restored EXCEPT !.files = IF b.files = << >> THEN None ELSE b.files]
    BY DEF CopyFiles
<1>3. task' = [task EXCEPT !.step = "database"]
    BY DEF CopyFiles, Goto
<1>4. /\ task' \in Restoring /\ task'.kind = "restore" /\ task'.step = "database"
      /\ task'.name = task.name
    BY <1>1, <1>3, RestoringTyped DEF Restoring
<1>5. UNCHANGED <<refs, schema, files, bundles, open, original, harmed, blackout>>
    BY DEF CopyFiles, storeVars, historyVars
<1>6. b.files \in Copies /\ DOMAIN b.files = Referenced(b.image)
    BY DEF ArtifactInv, ArtifactTypeOK, Bundles, BundlesNamed
<1>7. /\ restored' \in [database : Images \cup {None}, files : Copies \cup {None}, durable : BOOLEAN]
      /\ ~restored'.durable
      /\ restored'.files = IF b.files = << >> THEN None ELSE b.files
    BY <1>1, <1>2, <1>6, RestoringTyped
<1>8. \A d \in Referenced(b.image) : restored'.files[d] = "good"
    <2>1. CASE b.files = << >>
        BY <1>6, <2>1, EmptyCopy
    <2>2. CASE b.files # << >>
        BY <1>2, <1>7, <2>2 DEF CopyVerified
    <2> QED
        BY <2>1, <2>2
<1>9. \A c \in bundles : c.name = task.name => c = b
    BY <1>2 DEF ArtifactInv, BundlesNamed
<1>10. RestoreOrdered'
    BY <1>4, <1>5, <1>7, <1>8, <1>9 DEF RestoreOrdered, At, Referenced
<1> QED
    BY <1>4, <1>5, <1>7, <1>10, RestoringStep, TaskTyped

\* A directory that lacks some files ends the restore.
LEMMA CopyFilesFailsStep ==
    ASSUME ArtifactInv, CopyFilesFails
    PROVE  ArtifactInv'
<1>1. task.kind = "restore"
    BY DEF CopyFilesFails, At
<1>2. task' = Idle /\ restored' = [restored EXCEPT !.files = << >>]
    BY DEF CopyFilesFails
<1>3. UNCHANGED <<refs, schema, files, bundles, open, original, harmed, blackout>>
    BY DEF CopyFilesFails, storeVars, historyVars
<1>4. /\ restored' \in [database : Images \cup {None}, files : Copies \cup {None}, durable : BOOLEAN]
      /\ ~restored'.durable
    BY <1>1, <1>2, RestoringTyped, EmptyCopy
<1>5. task' \in Tasks /\ task'.kind = "idle"
    BY <1>2, TaskTyped DEF Idle
<1>6. RestoreOrdered'
    BY <1>5 DEF RestoreOrdered, At
<1> QED
    BY <1>3, <1>4, <1>5, <1>6, RestoringStep

\* The image comes from the backup whose files were copied.
LEMMA CopyDatabaseStep ==
    ASSUME ArtifactInv, CopyDatabase
    PROVE  ArtifactInv'
<1>1. task.kind = "restore" /\ At("restore", "database")
    BY DEF CopyDatabase, At
<1>2. PICK b \in bundles : b.name = task.name /\ restored' = [restored EXCEPT !.database = b.image]
    BY DEF CopyDatabase
<1>3. task' = [task EXCEPT !.step = "sync"]
    BY DEF CopyDatabase, Goto
<1>4. task' \in Restoring /\ task'.kind = "restore" /\ task'.step = "sync"
    BY <1>1, <1>3, RestoringTyped DEF Restoring
<1>5. UNCHANGED <<refs, schema, files, bundles, open, original, harmed, blackout>>
    BY DEF CopyDatabase, storeVars, historyVars
<1>6. b.image \in Images
    BY DEF ArtifactInv, ArtifactTypeOK, Bundles
<1>7. b.image # None
    BY <1>6, ArtifactAssumption DEF Images
<1>8. /\ restored' \in [database : Images \cup {None}, files : Copies \cup {None}, durable : BOOLEAN]
      /\ ~restored'.durable
      /\ restored'.database = b.image /\ restored'.files = restored.files
    BY <1>1, <1>2, <1>6, RestoringTyped
<1>9. \A d \in Referenced(b.image) : restored.files[d] = "good"
    BY <1>1, <1>2 DEF ArtifactInv, RestoreOrdered
<1>10. RestoreOrdered'
    BY <1>4, <1>7, <1>8, <1>9 DEF RestoreOrdered, At, Referenced
<1> QED
    BY <1>4, <1>5, <1>8, <1>10, RestoringStep, TaskTyped

\* What a restore returns is complete.
LEMMA RestoredStep ==
    ASSUME ArtifactInv, Restored
    PROVE  ArtifactInv'
<1>1. task.kind = "restore" /\ At("restore", "sync")
    BY DEF Restored, At
<1>2. task' = Idle /\ restored' = [restored EXCEPT !.durable = TRUE]
    BY DEF Restored
<1>3. UNCHANGED <<refs, schema, files, bundles, open, original, harmed, blackout>>
    BY DEF Restored, storeVars, historyVars
<1>4. /\ restored' \in [database : Images \cup {None}, files : Copies \cup {None}, durable : BOOLEAN]
      /\ restored'.database = restored.database /\ restored'.files = restored.files
    BY <1>1, <1>2, RestoringTyped
<1>5. task' \in Tasks /\ task'.kind = "idle"
    BY <1>2, TaskTyped DEF Idle
<1>6. /\ restored.database # None
      /\ \A d \in Referenced(restored.database) : restored.files[d] = "good"
    BY <1>1 DEF ArtifactInv, RestoreOrdered
<1>7. RestoreOrdered'
    BY <1>5 DEF RestoreOrdered, At
<1> QED
    BY <1>3, <1>4, <1>5, <1>6, <1>7, RestoringStep

-----------------------------------------------------------------------------
(* Losses of power and damages. *)

\* A loss of power takes backups away, and never a restore that returned.
LEMMA PowerLostStep ==
    ASSUME ArtifactInv, PowerLost
    PROVE  ArtifactInv'
<1>1. task' = Idle /\ open' = FALSE /\ blackout' = TRUE /\ UNCHANGED <<refs, schema, original, harmed>>
    BY DEF PowerLost
<1>2. files' \in [Digests -> FileStates]
    <2>1. files \in [Digests -> FileStates]
        BY DEF ArtifactInv, ArtifactTypeOK
    <2>2. PICK survives : files' = [d \in Digests |-> IF d \in survives /\ directory' THEN files[d] ELSE "none"]
        BY DEF PowerLost
    <2> QED
        BY <2>1, <2>2 DEF FileStates
<1>3. bundles' \subseteq bundles
    BY DEF PowerLost
<1>4. PICK database \in {None, restored.database}, copied \in {None, << >>, restored.files} :
        /\ restored.durable => database = restored.database /\ copied = restored.files
        /\ restored' = [restored EXCEPT !.database = database, !.files = copied]
    BY DEF PowerLost
<1>5. restored \in [database : Images \cup {None}, files : Copies \cup {None}, durable : BOOLEAN]
    BY DEF ArtifactInv, ArtifactTypeOK
<1>6. /\ restored' \in [database : Images \cup {None}, files : Copies \cup {None}, durable : BOOLEAN]
      /\ restored'.durable = restored.durable
      /\ restored'.database = database /\ restored'.files = copied
    BY <1>4, <1>5, EmptyCopy
<1>7. task' \in Tasks /\ task'.kind = "idle"
    BY <1>1, TaskTyped DEF Idle
<1>8. ArtifactTypeOK'
    BY <1>1, <1>2, <1>3, <1>6, <1>7 DEF ArtifactInv, ArtifactTypeOK
<1>9. StagedBeforeCommit' /\ RestoreOrdered'
    BY <1>7 DEF StagedBeforeCommit, RestoreOrdered, At
<1>10. BundlesNamed'
    BY <1>3, <1>7 DEF ArtifactInv, BundlesNamed, Referenced
<1>11. BundlesComplete'
    <2>1. \A b \in bundles' : b.name \in harmed' \/ Intact(b)'
        BY <1>1, <1>3 DEF ArtifactInv, BundlesComplete, Intact, Referenced
    <2>2. restored'.durable =>
            /\ restored'.database # None
            /\ \A d \in Referenced(restored'.database) : restored'.files[d] = "good"
        BY <1>4, <1>6 DEF ArtifactInv, BundlesComplete
    <2> QED
        BY <2>1, <2>2 DEF BundlesComplete, Referenced
<1>12. ReferencesBacked' /\ UpgradeKeepsOriginal'
    BY <1>1 DEF ReferencesBacked, UpgradeKeepsOriginal
<1>13. UpgradeComesFirst'
    BY <1>1, <1>7 DEF ArtifactInv, UpgradeComesFirst, At, Image
<1> QED
    BY <1>8, <1>9, <1>10, <1>11, <1>12, <1>13 DEF ArtifactInv

\* A damaged file is one that somebody damaged; the others are what they were.
LEMMA DamageFileStep ==
    ASSUME ArtifactInv, NEW e \in Digests, DamageFile(e)
    PROVE  ArtifactInv'
<1>1. /\ files' = [files EXCEPT ![e] = "bad"] /\ harmed' = harmed \cup {e}
      /\ UNCHANGED <<refs, schema, bundles, restored, task, open, original, blackout>>
    BY DEF DamageFile
<1>2. files \in [Digests -> FileStates]
    BY DEF ArtifactInv, ArtifactTypeOK
<1>3. \A d \in Digests : d \in harmed \/ Verified(d) => d \in harmed' \/ Verified(d)'
    BY <1>1, <1>2 DEF Verified
<1>4. ArtifactTypeOK'
    BY <1>1, <1>2 DEF ArtifactInv, ArtifactTypeOK, FileStates
<1>5. task.kind = "finalize" => task.digest \in Digests
    BY TaskKinds DEF ArtifactInv, ArtifactTypeOK, Finalizing
<1>6. StagedBeforeCommit'
    BY <1>1, <1>3, <1>5 DEF ArtifactInv, StagedBeforeCommit, Verified
<1>7. BundlesNamed'
    BY <1>1 DEF ArtifactInv, BundlesNamed, Referenced, Exists
<1>8. RestoreOrdered'
    BY <1>1 DEF ArtifactInv, RestoreOrdered, Referenced, At
<1>9. BundlesComplete'
    BY <1>1 DEF ArtifactInv, BundlesComplete, Intact, Referenced
<1>10. Referenced(Image) \subseteq Digests
    BY ImageTyped, ReferencedDigests DEF ArtifactInv
<1>11. ReferencesBacked'
    BY <1>1, <1>3, <1>10 DEF ArtifactInv, ReferencesBacked, Backed, Referenced, Image
<1>12. UpgradeComesFirst'
    BY <1>1 DEF ArtifactInv, UpgradeComesFirst, At, Image
<1>13. UpgradeKeepsOriginal'
    BY <1>1 DEF ArtifactInv, UpgradeKeepsOriginal
<1> QED
    BY <1>4, <1>6, <1>7, <1>8, <1>9, <1>11, <1>12, <1>13 DEF ArtifactInv

\* A damaged backup keeps its name, its image and the names of its files.
LEMMA DamageBundleStep ==
    ASSUME ArtifactInv, NEW e \in Digests, NEW b \in bundles, DamageBundle(b, e)
    PROVE  ArtifactInv'
<1> DEFINE worse == [b EXCEPT !.files[e] = "bad"]
<1>1. /\ bundles' = (bundles \ {b}) \cup {worse} /\ harmed' = harmed \cup {b.name}
      /\ UNCHANGED <<refs, schema, files, restored, task, open, original, blackout>>
    BY DEF DamageBundle, storeVars
<1>2. b \in Bundles /\ e \in DOMAIN b.files
    BY DEF ArtifactInv, ArtifactTypeOK, DamageBundle
<1>3. PICK D \in SUBSET Digests : b.files \in [D -> FileStates]
    BY <1>2 DEF Bundles, Copies
<1>4. /\ worse.name = b.name /\ worse.image = b.image
      /\ worse.files = [b.files EXCEPT ![e] = "bad"] /\ DOMAIN worse.files = DOMAIN b.files
    BY <1>2 DEF Bundles
<1>5. worse.files \in [D -> FileStates]
    BY <1>3, <1>4 DEF FileStates
<1>6. worse \in Bundles
    <2>1. worse.files \in Copies
        BY <1>5 DEF Copies
    <2> QED
        BY <1>2, <1>4, <2>1 DEF Bundles
<1> HIDE DEF worse
<1>7. ArtifactTypeOK'
    BY <1>1, <1>6 DEF ArtifactInv, ArtifactTypeOK
<1>8. StagedBeforeCommit'
    BY <1>1 DEF ArtifactInv, StagedBeforeCommit, Verified
<1>9. BundlesNamed'
    <2>1. \A c, f \in bundles' : c.name = f.name => c = f
        BY <1>1, <1>4 DEF ArtifactInv, BundlesNamed
    <2>2. \A c \in bundles' : DOMAIN c.files = Referenced(c.image)
        BY <1>1, <1>4 DEF ArtifactInv, BundlesNamed
    <2>3. \A n : Exists(n)' => Exists(n)
        BY <1>1, <1>4 DEF Exists
    <2> QED
        BY <1>1, <2>1, <2>2, <2>3 DEF ArtifactInv, BundlesNamed, Referenced
<1>10. RestoreOrdered'
    BY <1>1, <1>4 DEF ArtifactInv, RestoreOrdered, Referenced, At
<1>11. BundlesComplete'
    BY <1>1, <1>4 DEF ArtifactInv, BundlesComplete, Intact, Referenced
<1>12. ReferencesBacked'
    BY <1>1 DEF ArtifactInv, ReferencesBacked, Backed, Verified, Referenced, Image
<1>13. UpgradeComesFirst'
    BY <1>1 DEF ArtifactInv, UpgradeComesFirst, At, Image
<1>14. UpgradeKeepsOriginal'
    BY <1>1, <1>4 DEF ArtifactInv, UpgradeKeepsOriginal
<1> QED
    BY <1>7, <1>8, <1>9, <1>10, <1>11, <1>12, <1>13, <1>14 DEF ArtifactInv

-----------------------------------------------------------------------------
(* The theorems. *)

\* A database that was there before has its files, and no backups yet.
LEMMA ArtifactInit == Init => ArtifactInv
<1> SUFFICES ASSUME Init PROVE ArtifactInv
    OBVIOUS
<1>1. Image \in Images /\ schema \in 0..SchemaVersion
    BY ArtifactAssumption DEF Init, Image, Images
<1>2. restored \in [database : Images \cup {None}, files : Copies \cup {None}, durable : BOOLEAN]
    BY DEF Init, NothingRestored
<1>3. ArtifactTypeOK
    BY <1>1, <1>2, TaskTyped DEF Init, ArtifactTypeOK, FileStates
<1>4. task.kind = "idle" /\ bundles = {} /\ ~restored.durable /\ open = FALSE
    BY DEF Init, Idle, NothingRestored
<1>5. StagedBeforeCommit /\ BundlesNamed /\ RestoreOrdered /\ BundlesComplete
    BY <1>4 DEF StagedBeforeCommit, BundlesNamed, RestoreOrdered, BundlesComplete, At
<1>6. UpgradeComesFirst
    BY <1>4 DEF UpgradeComesFirst, At, Init
<1>7. ReferencesBacked
    BY <1>1, ReferencedDigests DEF Init, ReferencesBacked, Backed, Verified
<1>8. UpgradeKeepsOriginal
    BY DEF Init, UpgradeKeepsOriginal, Image
<1> QED
    BY <1>3, <1>5, <1>6, <1>7, <1>8 DEF ArtifactInv

\* Every step of the store, of a backup, of a start, of a restore and of a failure keeps
\* the invariant.
LEMMA ArtifactStep == ArtifactInv /\ [Next]_vars => ArtifactInv'
<1> SUFFICES ASSUME ArtifactInv, [Next]_vars PROVE ArtifactInv'
    OBVIOUS
<1>1. ASSUME NEW s \in Slots, NEW d \in Digests, Finalize(s, d) PROVE ArtifactInv'
    BY <1>1, FinalizeStep
<1>2. CASE MakeDirectory \/ UseFile \/ ReplaceFile \/ SyncDirectory \/ CommitReference
    BY <1>2, MakeDirectoryStep, UseFileStep, ReplaceFileStep, SyncDirectoryStep, CommitReferenceStep
<1>3. ASSUME NEW name \in Names, Backup(name) PROVE ArtifactInv'
    BY <1>3, BackupStep
<1>4. CASE PublishBundle \/ SyncBundle \/ BeginOpen \/ Upgrade \/ Opened
    BY <1>4, PublishBundleStep, SyncBundleStep, BeginOpenStep, UpgradeStep, OpenedStep
<1>5. ASSUME NEW t \in 4..SchemaVersion, BackupBefore(t) PROVE ArtifactInv'
    BY <1>5, BackupBeforeStep
<1>6. ASSUME NEW b \in bundles, Restore(b) PROVE ArtifactInv'
    BY <1>6, RestoreStep
<1>7. CASE CopyFiles \/ CopyFilesFails \/ CopyDatabase \/ Restored
    BY <1>7, CopyFilesStep, CopyFilesFailsStep, CopyDatabaseStep, RestoredStep
<1>8. CASE Fails \/ ProcessLost \/ MakeDirectoryFails \/ PowerLost
    BY <1>8, EndStep, PowerLostStep
<1>9. ASSUME NEW d \in Digests, DamageFile(d) PROVE ArtifactInv'
    BY <1>9, DamageFileStep
<1>10. ASSUME NEW d \in Digests, NEW b \in bundles, DamageBundle(b, d) PROVE ArtifactInv'
    BY <1>10, DamageBundleStep
<1>11. CASE UNCHANGED vars
    <2>1. UNCHANGED Kept /\ task' = task /\ open' = open
        BY <1>11 DEF vars, storeVars, historyVars, Kept
    <2>2. StagedBeforeCommit'
        BY <2>1 DEF ArtifactInv, StagedBeforeCommit, Verified, Kept
    <2>3. RestoreOrdered'
        BY <2>1 DEF ArtifactInv, RestoreOrdered, Referenced, At, Kept
    <2>4. BundlesNamed' /\ UpgradeComesFirst'
        BY <2>1 DEF ArtifactInv, BundlesNamed, UpgradeComesFirst, Referenced, Exists, At, Image, Kept
    <2>5. ArtifactTypeOK'
        BY <2>1 DEF ArtifactInv, ArtifactTypeOK, Kept
    <2> QED
        BY <2>1, <2>2, <2>3, <2>4, <2>5, KeptStep DEF ArtifactInv
<1> QED
    BY <1>1, <1>2, <1>3, <1>4, <1>5, <1>6, <1>7, <1>8, <1>9, <1>10, <1>11 DEF Next

\* The inductive invariant of artifacts, backups, restores and the upgrade.
THEOREM ArtifactInvariant == Spec => []ArtifactInv
BY ArtifactInit, ArtifactStep, PTL DEF Spec

\* finalize_artifact(): without a loss of power every committed reference has its file,
\* wherever the process failed or died, unless somebody damaged that file.
THEOREM ReferencesStayBacked == Spec => []ReferencesBacked
<1>1. ArtifactInv => ReferencesBacked
    BY DEF ArtifactInv
<1> QED
    BY <1>1, ArtifactInvariant, PTL

\* backup() and restore_backup(): a backup that can be seen is complete, and so is what a
\* restore returned, also after losses of power.
THEOREM BackupsAreComplete == Spec => []BundlesComplete
<1>1. ArtifactInv => BundlesComplete
    BY DEF ArtifactInv
<1> QED
    BY <1>1, ArtifactInvariant, PTL

\* The upgrade of an old database leaves a backup of what it was for every boundary it
\* crossed, however often it was interrupted.
THEOREM OriginalIsKept == Spec => []UpgradeKeepsOriginal
<1>1. ArtifactInv => UpgradeKeepsOriginal
    BY DEF ArtifactInv
<1> QED
    BY <1>1, ArtifactInvariant, PTL

=============================================================================
