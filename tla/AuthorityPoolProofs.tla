-------------------------- MODULE AuthorityPoolProofs --------------------------
(***************************************************************************)
(* The capacity AuthorityCore hands out, for every instance of it: what    *)
(* every grant holds was asked for and is declared, and the grants that    *)
(* hold units of a path or of a resource pool fit it, in the engine and in *)
(* the log a restart would rule from.  The invariant is Pools.  It needs   *)
(* sums over sets of grants that come and go (the first section), what a   *)
(* decision to grant has looked at, and then one lemma for every action.   *)
(* What the workload has to be for the pools never to be over-committed is *)
(* said in Measured, not assumed of the constants.  The last sections are  *)
(* about what live grants stand on: UpToDate says it of any engine, and    *)
(* Undisturbed what keeps it so.                                           *)
(***************************************************************************)
EXTENDS AuthorityBookProofs, DataLemmas

-------------------------------------------------------------------------------
(* Sums of units *)

Counted(grants) == \A g \in GrantIds : grants[g].units \in Nat

One(s) == CHOOSE x \in s : TRUE

\* The sum over s, from the sums over smaller sets.
TallyStep(grants, f, s) ==
  IF s = {} THEN 0 ELSE grants[One(s)].units + f[s \ {One(s)}]

\* The table the fold over S fills in, one entry for each part of S.
Tally(grants, S) == CHOOSE f : f = [s \in SUBSET S |-> TallyStep(grants, f, s)]

Total(grants, S) == Tally(grants, S)[S]

LEMMA UnitsAreSums ==
  ASSUME NEW grants, NEW S
  PROVE  UnitsOf(grants, S) =
           IF Total(grants, S) \in 0..UnitCeiling THEN Total(grants, S) ELSE UnitCeiling
BY DEF UnitsOf, MapThenSumSet, MapThenFoldSet, Total, Tally, TallyStep, One

LEMMA Part ==
  ASSUME NEW s \in SUBSET GrantIds
  PROVE  /\ IsFiniteSet(s) /\ Cardinality(s) \in Nat
         /\ s = {} <=> Cardinality(s) = 0
         /\ Cardinality(s) <= 0 => s = {}
<1>1. IsFiniteSet(s)
  BY FS_Subset, EligibilityAssumption
<1>2. Cardinality(s) \in Nat
  BY <1>1, FS_CardinalityType
<1>3. s = {} <=> Cardinality(s) = 0
  BY <1>1, FS_EmptySet
<1> QED BY <1>1, <1>2, <1>3

LEMMA OneLess ==
  ASSUME NEW s \in SUBSET GrantIds, NEW g \in s
  PROVE  /\ IsFiniteSet(s) /\ Cardinality(s) \in Nat
         /\ s \ {g} \in SUBSET GrantIds
         /\ Cardinality(s \ {g}) \in Nat
         /\ Cardinality(s) = Cardinality(s \ {g}) + 1
<1>1. IsFiniteSet(s)
  BY FS_Subset, EligibilityAssumption
<1>2. /\ IsFiniteSet(s \ {g})
      /\ Cardinality(s \ {g}) = Cardinality(s) - 1
  BY <1>1, FS_RemoveElement
<1>3. Cardinality(s) \in Nat /\ Cardinality(s \ {g}) \in Nat
  BY <1>1, <1>2, FS_CardinalityType
<1> QED BY <1>1, <1>2, <1>3

LEMMA OneOf ==
  ASSUME NEW s, s # {}
  PROVE  One(s) \in s
BY DEF One

\* Such a table exists.
LEMMA TallyExists ==
  ASSUME NEW grants, Counted(grants), NEW S \in SUBSET GrantIds
  PROVE  \E f : f = [s \in SUBSET S |-> TallyStep(grants, f, s)]
<1> DEFINE Filled_(f, n) ==
             \A s \in SUBSET S : Cardinality(s) <= n => f[s] = TallyStep(grants, f, s)
           P == {n \in Nat : \E f \in [SUBSET S -> Nat] : Filled_(f, n)}
<1>1. ASSUME NEW f \in [SUBSET S -> Nat], NEW s \in SUBSET S
      PROVE  /\ TallyStep(grants, f, s) \in Nat
             /\ Cardinality(s) \in Nat
             /\ s # {} => /\ s \ {One(s)} \in SUBSET S
                          /\ Cardinality(s) = Cardinality(s \ {One(s)}) + 1
                          /\ Cardinality(s \ {One(s)}) \in Nat
  <2>1. CASE s = {}
    BY <2>1, Part DEF TallyStep
  <2>2. CASE s # {}
    <3>1. One(s) \in s /\ s \in SUBSET GrantIds
      BY <2>2, OneOf
    <3>2. /\ Cardinality(s) \in Nat /\ Cardinality(s \ {One(s)}) \in Nat
          /\ Cardinality(s) = Cardinality(s \ {One(s)}) + 1
      BY <3>1, OneLess
    <3>3. s \ {One(s)} \in SUBSET S
      OBVIOUS
    <3>4. f[s \ {One(s)}] \in Nat /\ grants[One(s)].units \in Nat
      BY <3>1, <3>3 DEF Counted
    <3> QED BY <2>2, <3>2, <3>3, <3>4 DEF TallyStep
  <2> QED BY <2>1, <2>2
<1>2. 0 \in P
  <2> DEFINE f == [s \in SUBSET S |-> 0]
  <2>1. f \in [SUBSET S -> Nat]
    OBVIOUS
  <2>2. ASSUME NEW s \in SUBSET S, Cardinality(s) <= 0 PROVE f[s] = TallyStep(grants, f, s)
    <3>1. s = {}
      BY <2>2, Part
    <3> QED BY <3>1 DEF TallyStep
  <2>3. Filled_(f, 0)
    BY <2>2
  <2> QED BY <2>1, <2>3
<1>3. ASSUME NEW n \in Nat, n \in P PROVE n + 1 \in P
  <2>1. PICK f \in [SUBSET S -> Nat] : Filled_(f, n)
    BY <1>3
  <2> DEFINE h == [s \in SUBSET S |-> TallyStep(grants, f, s)]
  <2>2. h \in [SUBSET S -> Nat]
    BY <1>1
  <2>3. ASSUME NEW s \in SUBSET S, Cardinality(s) <= n + 1 PROVE h[s] = TallyStep(grants, h, s)
    <3>1. CASE s = {}
      BY <3>1 DEF TallyStep
    <3>2. CASE s # {}
      <4>1. s \ {One(s)} \in SUBSET S
        OBVIOUS
      <4>3. Cardinality(s \ {One(s)}) <= n
        <5>1. One(s) \in s /\ s \in SUBSET GrantIds
          BY <3>2, OneOf
        <5> QED BY <2>3, <5>1, OneLess
      <4>2. h[s \ {One(s)}] = f[s \ {One(s)}]
        BY <2>1, <4>1, <4>3
      <4> QED BY <3>2, <4>2 DEF TallyStep
    <3> QED BY <3>1, <3>2
  <2> HIDE DEF h
  <2>4. Filled_(h, n + 1)
    BY <2>3
  <2> QED BY <2>2, <2>4
<1>4. Nat \subseteq P
  <2> HIDE DEF P
  <2> QED BY <1>2, <1>3, NatInductive
<1>5. PICK f \in [SUBSET S -> Nat] : Filled_(f, Cardinality(S))
  <2>1. IsFiniteSet(S) /\ Cardinality(S) \in Nat
    BY FS_Subset, FS_CardinalityType, EligibilityAssumption
  <2> QED BY <1>4, <2>1
<1>6. ASSUME NEW s \in SUBSET S PROVE f[s] = TallyStep(grants, f, s)
  <2>1. Cardinality(s) <= Cardinality(S)
    BY FS_Subset, EligibilityAssumption
  <2> QED BY <1>5, <2>1
<1>7. f = [s \in SUBSET S |-> TallyStep(grants, f, s)]
  BY <1>6
<1> QED BY <1>7

\* Tables of different sets agree where both have an entry, and an entry is what any of
\* its members has more than the rest.
LEMMA Tallies ==
  ASSUME NEW grants, Counted(grants), NEW S \in SUBSET GrantIds, NEW T \in SUBSET S
  PROVE  Tally(grants, S)[T] = Total(grants, T) /\ Total(grants, T) \in Nat
<1> DEFINE f == Tally(grants, S)
           h == Tally(grants, T)
           P == {n \in Nat : \A s \in SUBSET T :
                   Cardinality(s) <= n => f[s] = h[s] /\ h[s] \in Nat}
<1>1. /\ f = [s \in SUBSET S |-> TallyStep(grants, f, s)]
      /\ h = [s \in SUBSET T |-> TallyStep(grants, h, s)]
  <2>1. \E u : u = [s \in SUBSET S |-> TallyStep(grants, u, s)]
    BY TallyExists
  <2>2. \E u : u = [s \in SUBSET T |-> TallyStep(grants, u, s)]
    <3>1. T \in SUBSET GrantIds
      OBVIOUS
    <3> QED BY <3>1, TallyExists
  <2> QED BY <2>1, <2>2 DEF Tally
<1>2. ASSUME NEW s \in SUBSET T
      PROVE  f[s] = TallyStep(grants, f, s) /\ h[s] = TallyStep(grants, h, s)
  <2> HIDE DEF f, h
  <2> QED BY <1>1
<1> HIDE DEF f, h
<1>3. ASSUME NEW s \in SUBSET T
      PROVE  /\ Cardinality(s) \in Nat
             /\ s = {} <=> Cardinality(s) = 0
  BY FS_Subset, FS_CardinalityType, FS_EmptySet, EligibilityAssumption
<1>4. 0 \in P
  <2>1. ASSUME NEW s \in SUBSET T, Cardinality(s) <= 0 PROVE f[s] = h[s] /\ h[s] \in Nat
    <3>1. s = {}
      BY <1>3, <2>1
    <3>2. f[s] = TallyStep(grants, f, s) /\ h[s] = TallyStep(grants, h, s)
      BY <1>2
    <3> QED BY <3>1, <3>2 DEF TallyStep
  <2> QED BY <2>1
<1>5. ASSUME NEW n \in Nat, n \in P PROVE n + 1 \in P
  <2>1. ASSUME NEW s \in SUBSET T, Cardinality(s) <= n + 1
        PROVE  f[s] = h[s] /\ h[s] \in Nat
    <3>1. CASE s = {}
      <4>1. f[s] = TallyStep(grants, f, s) /\ h[s] = TallyStep(grants, h, s)
        BY <1>2
      <4> QED BY <3>1, <4>1 DEF TallyStep
    <3>2. CASE s # {}
      <4>1. One(s) \in s /\ One(s) \in GrantIds
        BY <3>2, OneOf
      <4>2. /\ s \ {One(s)} \in SUBSET T
            /\ Cardinality(s \ {One(s)}) <= n
        BY <2>1, <4>1, OneLess
      <4>3. f[s \ {One(s)}] = h[s \ {One(s)}] /\ h[s \ {One(s)}] \in Nat
        BY <1>5, <4>2
      <4>4. /\ f[s] = grants[One(s)].units + f[s \ {One(s)}]
            /\ h[s] = grants[One(s)].units + h[s \ {One(s)}]
        BY <1>2, <3>2 DEF TallyStep
      <4>5. grants[One(s)].units \in Nat
        BY <4>1 DEF Counted
      <4> QED BY <4>3, <4>4, <4>5
    <3> QED BY <3>1, <3>2
  <2> QED BY <2>1
<1>6. Nat \subseteq P
  <2> HIDE DEF P
  <2> QED BY <1>4, <1>5, NatInductive
<1>7. f[T] = h[T] /\ h[T] \in Nat
  <2>1. Cardinality(T) \in P
    BY <1>3, <1>6
  <2> QED BY <2>1
<1> QED BY <1>7 DEF f, h, Total

LEMMA TotalSteps ==
  ASSUME NEW grants, Counted(grants), NEW S \in SUBSET GrantIds
  PROVE  /\ Total(grants, S) \in Nat
         /\ S = {} => Total(grants, S) = 0
         /\ S # {} => Total(grants, S) = grants[One(S)].units + Total(grants, S \ {One(S)})
<1> DEFINE f == Tally(grants, S)
<1>1. \E u : u = [s \in SUBSET S |-> TallyStep(grants, u, s)]
  BY TallyExists
<1>2. f = [s \in SUBSET S |-> TallyStep(grants, f, s)]
  BY <1>1 DEF Tally
<1>3. f[S] = TallyStep(grants, f, S)
  <2> HIDE DEF f
  <2>1. S \in SUBSET S
    OBVIOUS
  <2> QED BY <1>2, <2>1
<1>4. f[S \ {One(S)}] = Total(grants, S \ {One(S)})
  BY Tallies
<1>5. Total(grants, S) \in Nat /\ f[S] = Total(grants, S)
  BY Tallies DEF Total
<1> HIDE DEF f
<1> QED BY <1>3, <1>4, <1>5 DEF TallyStep

\* The sum over a set is what any one of its members has, and the sum over the rest.
LEMMA TotalSplit ==
  ASSUME NEW grants, Counted(grants), NEW S \in SUBSET GrantIds, NEW g \in S
  PROVE  Total(grants, S) = grants[g].units + Total(grants, S \ {g})
<1> DEFINE P == {n \in Nat : \A s \in SUBSET GrantIds : Cardinality(s) <= n =>
                   \A x \in s : Total(grants, s) = grants[x].units + Total(grants, s \ {x})}
<1>1. 0 \in P
  <2>1. ASSUME NEW s \in SUBSET GrantIds, Cardinality(s) <= 0, NEW x \in s PROVE FALSE
    BY <2>1, Part
  <2> QED BY <2>1
<1>2. ASSUME NEW n \in Nat, n \in P PROVE n + 1 \in P
  <2>1. ASSUME NEW s \in SUBSET GrantIds, Cardinality(s) <= n + 1, NEW x \in s
        PROVE  Total(grants, s) = grants[x].units + Total(grants, s \ {x})
    <3> DEFINE y == One(s)
    <3>1. y \in s /\ Total(grants, s) = grants[y].units + Total(grants, s \ {y})
      BY OneOf, TotalSteps
    <3> HIDE DEF y
    <3>2. CASE x = y
      BY <3>1, <3>2
    <3>3. CASE x # y
      <4>1. x \in s \ {y} /\ y \in s \ {x}
        BY <3>1, <3>3
      <4>2. /\ s \ {x} \in SUBSET GrantIds /\ Cardinality(s \ {x}) <= n
            /\ s \ {y} \in SUBSET GrantIds /\ Cardinality(s \ {y}) <= n
        BY <2>1, <3>1, OneLess
      <4>3. Total(grants, s \ {y}) = grants[x].units + Total(grants, (s \ {y}) \ {x})
        BY <1>2, <4>1, <4>2
      <4>4. Total(grants, s \ {x}) = grants[y].units + Total(grants, (s \ {x}) \ {y})
        BY <1>2, <4>1, <4>2
      <4>5. (s \ {x}) \ {y} = (s \ {y}) \ {x}
        OBVIOUS
      <4>6. /\ grants[x].units \in Nat /\ grants[y].units \in Nat
            /\ Total(grants, (s \ {x}) \ {y}) \in Nat
        BY <3>1, TotalSteps DEF Counted
      <4> QED BY <3>1, <4>3, <4>4, <4>5, <4>6
    <3> QED BY <3>2, <3>3
  <2> QED BY <2>1
<1>3. Nat \subseteq P
  <2> HIDE DEF P
  <2> QED BY <1>1, <1>2, NatInductive
<1>4. Cardinality(S) \in P
  BY <1>3, OneLess
<1> QED BY <1>4, OneLess

\* Fewer grants with no more units each have no more units in all.
LEMMA TotalGrows ==
  ASSUME NEW old, Counted(old), NEW new, Counted(new),
         NEW T \in SUBSET GrantIds, NEW S \in SUBSET T,
         \A g \in S : new[g].units <= old[g].units
  PROVE  Total(new, S) <= Total(old, T)
<1> DEFINE P == {n \in Nat : \A s \in SUBSET T : Cardinality(s) <= n =>
                   Total(new, S \cap s) <= Total(old, s)}
<1>1. ASSUME NEW s \in SUBSET T
      PROVE  Total(new, S \cap s) \in Nat /\ Total(old, s) \in Nat
  <2>1. s \in SUBSET GrantIds /\ S \cap s \in SUBSET GrantIds
    OBVIOUS
  <2> QED BY <2>1, TotalSteps
<1>2. 0 \in P
  <2>1. ASSUME NEW s \in SUBSET T, Cardinality(s) <= 0
        PROVE  Total(new, S \cap s) <= Total(old, s)
    <3>1. s = {}
      <4>1. s \in SUBSET GrantIds
        OBVIOUS
      <4> QED BY <2>1, <4>1, Part
    <3>2. Total(new, S \cap s) = 0
      BY <3>1, TotalSteps
    <3> QED BY <1>1, <3>2
  <2> QED BY <2>1
<1>3. ASSUME NEW n \in Nat, n \in P PROVE n + 1 \in P
  <2>1. ASSUME NEW s \in SUBSET T, Cardinality(s) <= n + 1
        PROVE  Total(new, S \cap s) <= Total(old, s)
    <3>1. CASE s = {}
      <4>1. Total(new, S \cap s) = 0
        BY <3>1, TotalSteps
      <4> QED BY <1>1, <4>1
    <3>2. CASE s # {}
      <4>1. PICK x \in s : TRUE
        BY <3>2
      <4> DEFINE r == s \ {x}
      <4>2. r \in SUBSET T /\ Cardinality(r) <= n /\ s \in SUBSET GrantIds
        BY <2>1, <4>1, OneLess
      <4>3. Total(new, S \cap r) <= Total(old, r)
        <5> HIDE DEF r
        <5> QED BY <1>3, <4>2
      <4>4. Total(old, s) = old[x].units + Total(old, r)
        BY <4>1, <4>2, TotalSplit
      <4>5. /\ Total(new, S \cap r) \in Nat /\ Total(old, r) \in Nat
            /\ old[x].units \in Nat /\ new[x].units \in Nat
        BY <1>1, <4>1, <4>2 DEF Counted
      <4>6. CASE x \in S
        <5>1. (S \cap s) \ {x} = S \cap r /\ x \in S \cap s
              /\ S \cap s \in SUBSET GrantIds
          BY <4>1, <4>2, <4>6
        <5>2. Total(new, S \cap s) = new[x].units + Total(new, S \cap r)
          BY <5>1, TotalSplit
        <5>3. new[x].units <= old[x].units
          BY <4>6
        <5> HIDE DEF r
        <5> QED BY <4>3, <4>4, <4>5, <5>2, <5>3
      <4>7. CASE x \notin S
        <5>1. S \cap s = S \cap r
          BY <4>7
        <5>2. Total(new, S \cap s) = Total(new, S \cap r)
          BY <5>1
        <5> HIDE DEF r
        <5> QED BY <4>3, <4>4, <4>5, <5>2
      <4> QED BY <4>6, <4>7
    <3> QED BY <3>1, <3>2
  <2> QED BY <2>1
<1>4. Nat \subseteq P
  <2> HIDE DEF P
  <2> QED BY <1>2, <1>3, NatInductive
<1>5. Cardinality(T) \in Nat
  BY FS_Subset, FS_CardinalityType, EligibilityAssumption
<1>6. S \cap T = S
  OBVIOUS
<1> QED BY <1>4, <1>5, <1>6

\* The units of a set, whichever way they saturate.
LEMMA UnitsType ==
  ASSUME NEW grants, Counted(grants), NEW S \in SUBSET GrantIds
  PROVE  /\ UnitsOf(grants, S) \in Nat
         /\ UnitsOf(grants, S) <= UnitCeiling
         /\ UnitsOf(grants, S) <= Total(grants, S)
         /\ Total(grants, S) <= UnitCeiling => UnitsOf(grants, S) = Total(grants, S)
         /\ Total(grants, S) > UnitCeiling => UnitsOf(grants, S) = UnitCeiling
<1>1. Total(grants, S) \in Nat /\ UnitCeiling \in Nat
  BY TotalSteps, EligibilityAssumption
<1>2. UnitsOf(grants, S) =
        IF Total(grants, S) \in 0..UnitCeiling THEN Total(grants, S) ELSE UnitCeiling
  BY UnitsAreSums
<1> QED BY <1>1, <1>2

LEMMA UnitsGrow ==
  ASSUME NEW old, Counted(old), NEW new, Counted(new),
         NEW T \in SUBSET GrantIds, NEW S \in SUBSET T,
         \A g \in S : new[g].units <= old[g].units
  PROVE  UnitsOf(new, S) <= UnitsOf(old, T)
<1>1. Total(new, S) <= Total(old, T)
  BY TotalGrows
<1>2. S \in SUBSET GrantIds
  OBVIOUS
<1>3. /\ UnitsOf(new, S) <= Total(new, S) /\ UnitsOf(new, S) <= UnitCeiling
      /\ UnitsOf(new, S) \in Nat
  BY <1>2, UnitsType
<1>4. /\ Total(old, T) <= UnitCeiling => UnitsOf(old, T) = Total(old, T)
      /\ Total(old, T) > UnitCeiling => UnitsOf(old, T) = UnitCeiling
  BY UnitsType
<1>5. Total(old, T) \in Nat /\ Total(new, S) \in Nat /\ UnitCeiling \in Nat
  BY <1>2, TotalSteps, EligibilityAssumption
<1> QED BY <1>1, <1>3, <1>4, <1>5

\* A grant that takes no more than what FreeUnits leaves it fits the pool along with
\* the others.
LEMMA UnitsJoin ==
  ASSUME NEW old, Counted(old), NEW new, Counted(new),
         NEW T \in SUBSET GrantIds, NEW id \in GrantIds, id \notin T,
         \A g \in T : new[g].units = old[g].units,
         NEW pool \in Nat, UnitsOf(old, T) <= pool,
         new[id].units <= IF pool > UnitsOf(old, T) THEN pool - UnitsOf(old, T) ELSE 0
  PROVE  UnitsOf(new, T \cup {id}) <= pool
<1> DEFINE S == T \cup {id}
<1>1. S \in SUBSET GrantIds /\ id \in S /\ S \ {id} = T
  OBVIOUS
<1>2. Total(new, S) = new[id].units + Total(new, T)
  BY <1>1, TotalSplit
<1>3. Total(new, T) <= Total(old, T) /\ Total(old, T) <= Total(new, T)
  <2>1. \A g \in T : new[g].units <= old[g].units /\ old[g].units <= new[g].units
    <3>1. \A g \in T : new[g].units \in Nat /\ old[g].units \in Nat
      BY DEF Counted
    <3> QED BY <3>1
  <2>2. Total(new, T) <= Total(old, T)
    BY <2>1, TotalGrows
  <2>3. Total(old, T) <= Total(new, T)
    BY <2>1, TotalGrows
  <2> QED BY <2>2, <2>3
<1>4. /\ UnitsOf(new, S) <= UnitCeiling
      /\ UnitsOf(new, S) <= Total(new, S)
      /\ UnitsOf(new, S) \in Nat
  BY <1>1, UnitsType
<1>5. /\ UnitsOf(old, T) \in Nat
      /\ Total(old, T) <= UnitCeiling => UnitsOf(old, T) = Total(old, T)
      /\ Total(old, T) > UnitCeiling => UnitsOf(old, T) = UnitCeiling
  BY UnitsType
<1>6. /\ Total(new, S) \in Nat /\ Total(new, T) \in Nat /\ Total(old, T) \in Nat
      /\ UnitCeiling \in Nat /\ new[id].units \in Nat
  BY <1>1, TotalSteps, EligibilityAssumption DEF Counted
<1> HIDE DEF S
<1>7. ASSUME pool > UnitsOf(old, T) PROVE UnitsOf(new, S) <= pool
  <2>1. new[id].units <= pool - UnitsOf(old, T)
    BY <1>7
  <2>2. CASE Total(old, T) <= UnitCeiling
    <3>1. UnitsOf(old, T) = Total(old, T)
      BY <1>5, <2>2
    <3>2. Total(new, S) <= pool
      BY <1>2, <1>3, <1>5, <1>6, <2>1, <3>1
    <3> QED BY <1>4, <1>6, <3>2
  <2>3. CASE Total(old, T) > UnitCeiling
    BY <1>4, <1>5, <1>6, <1>7, <2>3
  <2> QED BY <1>6, <2>2, <2>3
<1>8. ASSUME ~(pool > UnitsOf(old, T)) PROVE UnitsOf(new, S) <= pool
  <2>1. new[id].units <= 0
    BY <1>8
  <2>2. new[id].units = 0
    BY <1>6, <2>1
  <2>3. Total(new, S) = Total(old, T)
    BY <1>2, <1>3, <1>6, <2>2
  <2>4. UnitsOf(new, S) <= UnitsOf(old, T)
    BY <1>4, <1>5, <1>6, <2>3
  <2> QED BY <1>4, <1>5, <2>4
<1> QED BY <1>7, <1>8 DEF S

-------------------------------------------------------------------------------
(* What a decision to grant has looked at *)

\* No check of the sequence fails.
Cleared(checks) == \A i \in 1..Len(checks) : ~checks[i][1]

LEMMA ClearedParts ==
  ASSUME NEW S, NEW s \in Seq(S), NEW t \in Seq(S), Cleared(s \o t)
  PROVE  Cleared(s) /\ Cleared(t)
<1>1. /\ Len(s) \in Nat /\ Len(t) \in Nat
      /\ Len(s \o t) = Len(s) + Len(t)
      /\ \A i \in 1..Len(s) : (s \o t)[i] = s[i]
      /\ \A i \in 1..Len(t) : (s \o t)[Len(s) + i] = t[i]
  BY ConcatFacts
<1>2. ASSUME NEW i \in 1..Len(s) PROVE ~s[i][1]
  <2>1. i \in 1..Len(s \o t) /\ (s \o t)[i] = s[i]
    BY <1>1
  <2>2. ~(s \o t)[i][1]
    BY <2>1 DEF Cleared
  <2> QED BY <2>1, <2>2, Zenon
<1>3. ASSUME NEW i \in 1..Len(t) PROVE ~t[i][1]
  <2>1. Len(s) + i \in 1..Len(s \o t) /\ (s \o t)[Len(s) + i] = t[i]
    BY <1>1
  <2>2. ~(s \o t)[Len(s) + i][1]
    BY <2>1 DEF Cleared
  <2> QED BY <2>1, <2>2, Zenon
<1> QED BY <1>2, <1>3 DEF Cleared

LEMMA ChecksCleared ==
  ASSUME NEW state, NEW request \in Request, NEW contract \in Contract,
         FirstFailure(Checks(state, request, contract)) \in Authorising
  PROVE  /\ Cleared(MemberChecks(state.spec, request, contract))
         /\ Cleared(EffectCheck(MemberEffects(state, request, contract)))
         /\ Cleared(PathChecks(state.spec, request))
         /\ Cleared(EffectCheck(BoundPathEffects(state, request, contract)))
         /\ Cleared(CapacityChecks(state, request, contract))
         /\ Cleared(RenewalChecks(state, request))
<1> DEFINE S == BOOLEAN \X Refusals
           a == MemberChecks(state.spec, request, contract)
           b == EffectCheck(MemberEffects(state, request, contract))
           c == PathChecks(state.spec, request)
           d == EffectCheck(BoundPathEffects(state, request, contract))
           e == CapacityChecks(state, request, contract)
           f == EffectCheck(Duties(state, request, contract))
           z == RenewalChecks(state, request)
<1>1. a \in Seq(S) /\ b \in Seq(S) /\ c \in Seq(S) /\ d \in Seq(S) /\ e \in Seq(S) /\ f \in Seq(S)
  BY MemberChecksType, EffectCheckType, PathChecksType, CapacityChecksType
<1>2. z \in Seq(S)
  BY RenewalChecksType
<1>3. Checks(state, request, contract) = a \o b \o c \o d \o e \o f \o z
  BY DEF Checks
<1>4. Cleared(Checks(state, request, contract))
  <2>1. Checks(state, request, contract) \in Seq(S)
    BY ChecksType
  <2>2. \A i \in DOMAIN Checks(state, request, contract) :
          ~Checks(state, request, contract)[i][1]
    BY <2>1, FirstFailureDecides
  <2>3. DOMAIN Checks(state, request, contract) = 1..Len(Checks(state, request, contract))
    BY <2>1
  <2> QED BY <2>2, <2>3, Zenon DEF Cleared
<1>5. Cleared(a \o b \o c \o d \o e \o f \o z)
  BY <1>3, <1>4, Zenon
<1> HIDE DEF a, b, c, d, e, f, z, S
<1>6. /\ a \o b \in Seq(S) /\ a \o b \o c \in Seq(S) /\ a \o b \o c \o d \in Seq(S)
      /\ a \o b \o c \o d \o e \in Seq(S) /\ a \o b \o c \o d \o e \o f \in Seq(S)
  BY <1>1
<1>7. Cleared(a \o b \o c \o d \o e \o f) /\ Cleared(z)
  BY <1>2, <1>5, <1>6, ClearedParts
<1>8. Cleared(a \o b \o c \o d \o e)
  BY <1>1, <1>6, <1>7, ClearedParts
<1>9. Cleared(a \o b \o c \o d) /\ Cleared(e)
  BY <1>1, <1>6, <1>8, ClearedParts
<1>10. Cleared(a \o b \o c) /\ Cleared(d)
  BY <1>1, <1>6, <1>9, ClearedParts
<1>11. Cleared(a \o b) /\ Cleared(c)
  BY <1>1, <1>6, <1>10, ClearedParts
<1>12. Cleared(a) /\ Cleared(b)
  BY <1>1, <1>11, ClearedParts
<1> QED BY <1>7, <1>9, <1>10, <1>11, <1>12 DEF a, b, c, d, e, z

LEMMA MembersCleared ==
  ASSUME NEW spec, NEW request, NEW contract, Cleared(MemberChecks(spec, request, contract))
  PROVE  /\ request.source \in Ids(spec.members) /\ request.target \in Ids(spec.members)
         /\ MemberAt(spec, request.source).lifecycle # "Removed"
         /\ MemberAt(spec, request.target).lifecycle # "Removed"
<1> DEFINE c == MemberChecks(spec, request, contract)
<1>1. Len(c) = 12
  BY DEF MemberChecks
<1>2. /\ c[1][1] = (request.source \notin Ids(spec.members))
      /\ c[2][1] = (request.target \notin Ids(spec.members))
      /\ c[3][1] = (MemberAt(spec, request.source).lifecycle = "Removed"
                      \/ MemberAt(spec, request.target).lifecycle = "Removed")
  BY DEF MemberChecks
<1> HIDE DEF c
<1>3. ~c[1][1] /\ ~c[2][1] /\ ~c[3][1]
  BY <1>1 DEF Cleared, c
<1> QED BY <1>2, <1>3, Zenon

LEMMA PathsCleared ==
  ASSUME NEW spec, NEW request, Cleared(PathChecks(spec, request))
  PROVE  /\ request.path # 0 => request.path \in Ids(spec.paths)
         /\ Options.binding => BoundPath(spec, request) # 0
<1> DEFINE c == PathChecks(spec, request)
<1>1. Len(c) = 4
  BY DEF PathChecks
<1>2. /\ c[1][1] = (request.path # 0 /\ request.path \notin Ids(spec.paths))
      /\ c[4][1] = (Options.binding /\ BoundPath(spec, request) = 0)
  BY DEF PathChecks
<1> HIDE DEF c
<1>3. ~c[1][1] /\ ~c[4][1]
  BY <1>1 DEF Cleared, c
<1> QED BY <1>2, <1>3

LEMMA EffectsCleared ==
  ASSUME NEW effects, Cleared(EffectCheck(effects))
  PROVE  "fails" \notin effects
<1> DEFINE c == EffectCheck(effects)
<1>1. Len(c) = 1
  BY DEF EffectCheck
<1>2. c[1][1] = ("fails" \in effects)
  BY DEF EffectCheck
<1> HIDE DEF c
<1>3. ~c[1][1]
  BY <1>1 DEF Cleared, c
<1> QED BY <1>2, <1>3, Zenon

LEMMA CapacityCleared ==
  ASSUME NEW state, NEW request, NEW contract, Cleared(CapacityChecks(state, request, contract))
  PROVE  LET bound == BoundPath(state.spec, request)
         IN  /\ Options.capacity /\ bound # 0 => ~Occupied(state, bound, request)
             /\ Crowded(state, request, contract) =>
                  CanReduceTo(FreeOnPath(state, request), request, contract)
             /\ request.resource \in
                  Ids(MemberAt(state.spec, request.source).resources) \cup {None}
             /\ Drained(state, request, contract) =>
                  CanReduceTo(FreeInPool(state, request), request, contract)
<1> DEFINE c == CapacityChecks(state, request, contract)
           bound == BoundPath(state.spec, request)
<1>1. Len(c) = 9
  BY DEF CapacityChecks
<1>2. c[3][1] = (Options.capacity /\ bound # 0 /\ Occupied(state, bound, request))
  BY DEF CapacityChecks
<1>3. c[4][1] = (Crowded(state, request, contract)
                   /\ ~CanReduceTo(FreeOnPath(state, request), request, contract))
  BY DEF CapacityChecks
<1>4. c[5][1] = (request.resource \notin
                   Ids(MemberAt(state.spec, request.source).resources) \cup {None})
  BY DEF CapacityChecks
<1>5. c[8][1] = (Drained(state, request, contract)
                   /\ ~CanReduceTo(FreeInPool(state, request), request, contract))
  BY DEF CapacityChecks
<1> HIDE DEF c, bound
<1>6. ~c[3][1] /\ ~c[4][1] /\ ~c[5][1] /\ ~c[8][1]
  BY <1>1 DEF Cleared, c
<1>7. Options.capacity /\ bound # 0 => ~Occupied(state, bound, request)
  BY <1>2, <1>6
<1>8. Crowded(state, request, contract) =>
        CanReduceTo(FreeOnPath(state, request), request, contract)
  BY <1>3, <1>6
<1>9. request.resource \in Ids(MemberAt(state.spec, request.source).resources) \cup {None}
  BY <1>4, <1>6, Zenon
<1>10. Drained(state, request, contract) =>
         CanReduceTo(FreeInPool(state, request), request, contract)
  BY <1>5, <1>6
<1> QED BY <1>7, <1>8, <1>9, <1>10 DEF bound

LEMMA RenewalCleared ==
  ASSUME NEW state, NEW request, Cleared(RenewalChecks(state, request)), request.renews # 0
  PROVE  state.grants[request.renews].attempt = request.attempt
<1> DEFINE c == RenewalChecks(state, request)
<1>1. Len(c) = 4
  BY DEF RenewalChecks
<1>2. c[3][1] = (state.grants[request.renews].attempt # request.attempt)
  BY DEF RenewalChecks
<1> HIDE DEF c
<1>3. ~c[3][1]
  BY <1>1 DEF Cleared, c
<1> QED BY <1>2, <1>3

\* The path the engine selects is declared and in use.
LEMMA SelectedPath ==
  ASSUME NEW spec \in ClusterSpecs, NEW request, SelectPath(spec, request) # 0
  PROVE  SelectPath(spec, request) \in Ids(spec.paths)
<1> DEFINE usable == {p \in Ids(spec.paths) :
                        /\ Joins(spec.paths[p], request)
                        /\ spec.paths[p].state \notin {"Down", "Unknown"}
                        /\ EndsMatch(spec.paths[p], request)}
           least == CHOOSE p \in usable : \A q \in usable : p <= q
<1>1. SelectPath(spec, request) = IF usable = {} THEN 0 ELSE least
  BY DEF SelectPath
<1>2. usable # {}
  BY <1>1
<1>3. usable \subseteq Nat
  <2>1. Ids(spec.paths) \subseteq PathIds
    BY DEF Ids, ClusterSpecs, Table
  <2> QED BY <2>1, IdsAssumption
<1>4. \E p \in usable : \A q \in usable : p <= q
  BY <1>2, <1>3, LeastExists
<1> HIDE DEF usable
<1>5. least \in usable
  BY <1>4
<1> HIDE DEF least
<1>6. usable \subseteq Ids(spec.paths)
  BY DEF usable
<1> QED BY <1>1, <1>2, <1>5, <1>6

LEMMA BoundPathFound ==
  ASSUME NEW spec \in ClusterSpecs, NEW request, BoundPath(spec, request) # 0,
         request.path # 0 => request.path \in Ids(spec.paths)
  PROVE  BoundPath(spec, request) \in Ids(spec.paths)
BY SelectedPath DEF BoundPath

\* What holds of a request that is granted.
LEMMA Decided ==
  ASSUME mem \in Engine, NEW request \in Request,
         Decision(request).outcome \in Authorising
  PROVE  LET decision == Decision(request)
             contract == mem.contracts[request.contract]
             bound    == BoundPath(mem.spec, request)
         IN  /\ request.contract \in Ids(mem.contracts) /\ contract \in Contract
             /\ decision.path = bound
             /\ decision.units = AuthorisedUnits(mem, request, contract)
             /\ request.source \in Ids(mem.spec.members)
             /\ request.target \in Ids(mem.spec.members)
             /\ MemberAt(mem.spec, request.source).lifecycle # "Removed"
             /\ MemberAt(mem.spec, request.target).lifecycle # "Removed"
             /\ "fails" \notin MemberEffects(mem, request, contract)
             /\ bound # 0 => bound \in Ids(mem.spec.paths)
             /\ Options.binding \/ request.path # 0 => bound # 0
             /\ "fails" \notin BoundPathEffects(mem, request, contract)
             /\ Options.capacity /\ bound # 0 => ~Occupied(mem, bound, request)
             /\ Crowded(mem, request, contract) =>
                  CanReduceTo(FreeOnPath(mem, request), request, contract)
             /\ request.resource \in
                  Ids(MemberAt(mem.spec, request.source).resources) \cup {None}
             /\ Drained(mem, request, contract) =>
                  CanReduceTo(FreeInPool(mem, request), request, contract)
             /\ request.renews # 0 => mem.grants[request.renews].attempt = request.attempt
<1> DEFINE contract == mem.contracts[request.contract]
           gates == << <<request.contractGen # contract.generation, "Stale">>,
                       <<~contract.enabled, "Refused">>,
                       <<Options.capabilities /\ ~contract.supported, "Unsupported">> >>
           decision == Decision(request)
           evaluated == Evaluate(mem, request, contract)
           failure == FirstFailure(Checks(mem, request, contract))
<1>1. request.contract \in Ids(mem.contracts)
  <2>1. ASSUME request.contract \notin Ids(mem.contracts) PROVE FALSE
    <3>1. decision = [outcome |-> "Unknown", units |-> 0, path |-> 0]
      BY <2>1 DEF Decision
    <3> QED BY <3>1 DEF Authorising
  <2> QED BY <2>1
<1>2. contract \in Contract
  BY <1>1, EngineFields DEF Ids, Table
<1>3. decision = evaluated
  <2> DEFINE gate == FirstFailure(gates)
  <2>1. gates \in Seq(BOOLEAN \X Refusals)
    <3> HIDE DEF contract
    <3>1. <<request.contractGen # contract.generation, "Stale">> \in BOOLEAN \X Refusals
      BY DEF Refusals, Outcomes, Authorising
    <3>2. <<~contract.enabled, "Refused">> \in BOOLEAN \X Refusals
      BY DEF Refusals, Outcomes, Authorising
    <3>3. <<Options.capabilities /\ ~contract.supported, "Unsupported">> \in BOOLEAN \X Refusals
      BY DEF Refusals, Outcomes, Authorising
    <3> QED BY <3>1, <3>2, <3>3
  <2>2. gate = "Granted" \/ gate \notin Authorising
    BY <2>1, FirstFailureDecides
  <2>3. decision = IF gate = "Granted" THEN evaluated
                   ELSE [outcome |-> gate, units |-> 0, path |-> 0]
    BY <1>1 DEF Decision
  <2> HIDE DEF gate, evaluated
  <2> QED BY <2>2, <2>3
<1>4. failure \in Authorising
  <2>1. failure # "Granted" => evaluated.outcome = failure
    BY DEF Evaluate
  <2>2. evaluated.outcome \in Authorising
    BY <1>3
  <2> HIDE DEF evaluated, failure
  <2> QED BY <2>1, <2>2 DEF Authorising
<1>5. /\ decision.path = BoundPath(mem.spec, request)
      /\ decision.units = AuthorisedUnits(mem, request, contract)
  <2>1. /\ evaluated.path = BoundPath(mem.spec, request)
        /\ evaluated.units = AuthorisedUnits(mem, request, contract)
    BY DEF Evaluate
  <2> HIDE DEF evaluated
  <2> QED BY <1>3, <2>1
<1> HIDE DEF contract, decision
<1>6. /\ Cleared(MemberChecks(mem.spec, request, contract))
      /\ Cleared(EffectCheck(MemberEffects(mem, request, contract)))
      /\ Cleared(PathChecks(mem.spec, request))
      /\ Cleared(EffectCheck(BoundPathEffects(mem, request, contract)))
      /\ Cleared(CapacityChecks(mem, request, contract))
      /\ Cleared(RenewalChecks(mem, request))
  BY <1>2, <1>4, ChecksCleared
<1>7. mem.spec \in ClusterSpecs
  BY EngineFields
<1>8. /\ request.source \in Ids(mem.spec.members)
      /\ request.target \in Ids(mem.spec.members)
      /\ MemberAt(mem.spec, request.source).lifecycle # "Removed"
      /\ MemberAt(mem.spec, request.target).lifecycle # "Removed"
      /\ "fails" \notin MemberEffects(mem, request, contract)
  BY <1>6, MembersCleared, EffectsCleared
<1>9. /\ BoundPath(mem.spec, request) # 0 => BoundPath(mem.spec, request) \in Ids(mem.spec.paths)
      /\ Options.binding \/ request.path # 0 => BoundPath(mem.spec, request) # 0
      /\ "fails" \notin BoundPathEffects(mem, request, contract)
  <2>1. /\ request.path # 0 => request.path \in Ids(mem.spec.paths)
        /\ Options.binding => BoundPath(mem.spec, request) # 0
    BY <1>6, PathsCleared
  <2>2. request.path # 0 => BoundPath(mem.spec, request) = request.path
    BY DEF BoundPath
  <2>3. "fails" \notin BoundPathEffects(mem, request, contract)
    BY <1>6, EffectsCleared
  <2>4. BoundPath(mem.spec, request) # 0 => BoundPath(mem.spec, request) \in Ids(mem.spec.paths)
    BY <1>7, <2>1, BoundPathFound
  <2> QED BY <2>1, <2>2, <2>3, <2>4
<1>10. /\ Options.capacity /\ BoundPath(mem.spec, request) # 0 =>
            ~Occupied(mem, BoundPath(mem.spec, request), request)
       /\ Crowded(mem, request, contract) =>
            CanReduceTo(FreeOnPath(mem, request), request, contract)
       /\ request.resource \in
            Ids(MemberAt(mem.spec, request.source).resources) \cup {None}
       /\ Drained(mem, request, contract) =>
            CanReduceTo(FreeInPool(mem, request), request, contract)
  BY <1>6, CapacityCleared
<1>11. request.renews # 0 => mem.grants[request.renews].attempt = request.attempt
  BY <1>6, RenewalCleared
<1> QED BY <1>1, <1>2, <1>5, <1>8, <1>9, <1>10, <1>11, Zenon DEF contract, decision

\* The units a request is granted: what is free on the path and in the pool has room for
\* them, they are no more than it asked for, and who asks for some gets some.
LEMMA UnitsGranted ==
  ASSUME mem \in Engine, NEW request \in Request,
         Decision(request).outcome \in Authorising
  PROVE  LET decision == Decision(request)
             asked    == IF request.units = 0 THEN mem.contracts[request.contract].minUnits
                         ELSE request.units
         IN  /\ decision.units \in Nat /\ asked \in Nat
             /\ decision.units <= asked
             /\ request.units > 0 => decision.units > 0
             /\ Options.capacity /\ decision.path # 0 =>
                  decision.units <= FreeOnPath(mem, request)
             /\ Options.capacity /\ request.resource # None =>
                  decision.units <= FreeInPool(mem, request)
<1> DEFINE contract == mem.contracts[request.contract]
           asked == IF request.units = 0 THEN contract.minUnits ELSE request.units
           wanted == WantedUnits(request, contract)
           onPath == UnitsOnPath(mem, request, contract)
           freePath == FreeOnPath(mem, request)
           freePool == FreeInPool(mem, request)
           units == Decision(request).units
           bound == BoundPath(mem.spec, request)
<1>1. /\ contract \in Contract
      /\ Decision(request).path = bound
      /\ units = AuthorisedUnits(mem, request, contract)
      /\ Crowded(mem, request, contract) => CanReduceTo(freePath, request, contract)
      /\ Drained(mem, request, contract) => CanReduceTo(freePool, request, contract)
  BY Decided
<1>2. /\ request.units \in Nat
      /\ contract.minUnits \in Nat /\ contract.maxUnits \in Nat
  <2> HIDE DEF contract
  <2> QED BY <1>1 DEF Request, Contract
<1>3. freePath \in Nat /\ freePool \in Nat
  <2>1. mem.spec \in ClusterSpecs
    BY EngineFields
  <2> QED BY <2>1, PathAtType, PoolOfType, FreeUnitsType DEF FreeOnPath, FreeInPool
<1>4. wanted \in Nat /\ wanted <= asked /\ (request.units > 0 => wanted > 0)
  <2> HIDE DEF contract
  <2> QED BY <1>2 DEF WantedUnits, Least
<1>5. /\ onPath = IF Crowded(mem, request, contract) THEN freePath ELSE wanted
      /\ units = IF Drained(mem, request, contract) THEN freePool ELSE onPath
  BY <1>1 DEF UnitsOnPath, AuthorisedUnits
<1>6. /\ Crowded(mem, request, contract) <=>
           Options.capacity /\ bound # 0 /\ wanted > freePath
      /\ Drained(mem, request, contract) <=>
           Options.capacity /\ request.resource # None /\ onPath > freePool
  BY DEF Crowded, Drained
<1>7. /\ Crowded(mem, request, contract) => freePath > 0
      /\ Drained(mem, request, contract) => freePool > 0
  BY <1>1 DEF CanReduceTo
<1> HIDE DEF contract, wanted, onPath, freePath, freePool, units, bound
<1>8. asked \in Nat
  BY <1>2
<1>9. onPath \in Nat /\ onPath <= wanted /\ (wanted > 0 => onPath > 0)
      /\ (Options.capacity /\ bound # 0 => onPath <= freePath)
  BY <1>3, <1>4, <1>5, <1>6, <1>7
<1>10. units \in Nat /\ units <= onPath /\ (onPath > 0 => units > 0)
      /\ (Options.capacity /\ request.resource # None => units <= freePool)
  <2>1. CASE Drained(mem, request, contract)
    <3>1. units = freePool
      BY <1>5, <2>1
    <3>2. onPath > freePool /\ freePool > 0
      BY <1>6, <1>7, <2>1
    <3> QED BY <1>3, <1>9, <3>1, <3>2
  <2>2. CASE ~Drained(mem, request, contract)
    <3>1. units = onPath
      BY <1>5, <2>2
    <3>2. Options.capacity /\ request.resource # None => ~(onPath > freePool)
      BY <1>6, <2>2
    <3> QED BY <1>3, <1>9, <3>1, <3>2
  <2> QED BY <2>1, <2>2
<1>11. wanted > 0 => units > 0
  BY <1>9, <1>10
<1> QED BY <1>1, <1>3, <1>4, <1>8, <1>9, <1>10, <1>11
    DEF contract, wanted, onPath, freePath, freePool, units, bound

-------------------------------------------------------------------------------
(* Hypotheses on the workload *)

\* The paths a request may be bound to.
Bindings(request) ==
  IF request.path # 0 THEN {request.path}
  ELSE IF Options.binding THEN PathIds ELSE {0}

\* A renewal asks for what its attempt was granted: the source, the resource and, since
\* the engine may bind it to another path, a path there is no choice of.
RenewsInPlace ==
  \A request, renewal \in Requests :
    request.renews = 0 /\ renewal.renews # 0 /\ renewal.attempt = request.attempt =>
      /\ renewal.source = request.source /\ renewal.resource = request.resource
      /\ \A p \in Bindings(request), q \in Bindings(renewal) : p = q

\* Every request is bound to a path, by itself or by the engine.
EveryRequestBinds == Options.binding \/ \A request \in Requests : request.path # 0

\* No command declares or withdraws members and paths.
FixedPools ==
  \A command \in Commands :
    command.kind \notin {"UpsertMember", "RemoveMember", "UpsertPath", "RemovePath"}

\* A resource is a pool of one member, as the tables of the clusters have it.
Declares(spec, m, resource) ==
  m \in Ids(spec.members) /\ resource \in Ids(spec.members[m].resources)

OneOwner(spec) ==
  \A resource \in ResourceIds, m, n \in MemberIds :
    Declares(spec, m, resource) /\ Declares(spec, n, resource) => m = n

PoolsAreOwned == \A image \in InitialImages : OneOwner(image.spec)

\* Who names a pool asks for units of it.
PoolsAreAskedForUnits ==
  \A request \in Requests : request.resource # None => request.units > 0

\* The engine counts units and the workload leaves it the say over every one of them.
Measured ==
  Options.capacity /\ EveryRequestBinds /\ FixedPools /\ RenewsInPlace /\ PoolsAreOwned

-------------------------------------------------------------------------------
(* The invariant *)

\* A request of the attempt asked for what the grant joins.
AskedFor(grant) ==
  \E request \in Requests :
    /\ request.renews = 0
    /\ request.attempt = grant.attempt
    /\ request.source = grant.source /\ request.resource = grant.resource
    /\ grant.path \in Bindings(request)

\* What it holds is declared: its source always, its path and pool where those stay.
Founded(grant, spec) ==
  grant.state # "Absent" =>
    /\ AskedFor(grant)
    /\ grant.source \in Ids(spec.members)
    /\ grant.requested > 0 => grant.units <= grant.requested
    /\ Measured /\ PoolsAreAskedForUnits /\ grant.resource # None => grant.units > 0
    /\ Measured =>
         /\ grant.path \in Ids(spec.paths)
         /\ grant.resource # None => Declares(spec, grant.source, grant.resource)

\* Who holds the path p fits it.
PathFits(grants, path, p) ==
  /\ UnitsOf(grants, PathHolders(grants, p)) <= path.capacity
  /\ path.exclusive =>
       \A g, h \in PathHolders(grants, p) : grants[g].attempt = grants[h].attempt

\* Who holds the pools of a cluster fits them.
Contained(grants, spec) ==
  /\ OneOwner(spec)
  /\ \A p \in Ids(spec.paths) : PathFits(grants, spec.paths[p], p)
  /\ \A resource \in ResourceIds, m \in MemberIds :
       Declares(spec, m, resource) =>
         UnitsOf(grants, ResourceHolders(grants, resource))
           <= spec.members[m].resources[resource].total

\* What the grants of an engine hold.
Holdings(grants, spec) ==
  /\ \A g \in GrantIds : Founded(grants[g], spec)
  /\ Measured => Contained(grants, spec)

\* The engine's grants hold what they may, and so do the log's where it replays.
Pools ==
  /\ Holdings(mem.grants, mem.spec)
  /\ \A g \in GrantIds : Founded(disk.grants[g], disk.spec)
  /\ Measured /\ disk.replays => Contained(disk.grants, disk.spec)

-------------------------------------------------------------------------------
(* Grants that go on *)

\* What of a grant its pools see.
SameHolding(grant, other) ==
  /\ grant.attempt = other.attempt /\ grant.source = other.source
  /\ grant.path = other.path /\ grant.resource = other.resource
  /\ grant.units = other.units /\ grant.requested = other.requested

Stays(old, new) ==
  /\ new.state # "Absent" => old.state # "Absent" /\ SameHolding(old, new)
  /\ HoldsCapacity(new.state) => HoldsCapacity(old.state)

\* The cluster has the members it had, and the pools it had where none may change.
SpecOn(old, new) ==
  /\ Ids(old.members) \subseteq Ids(new.members)
  /\ FixedPools =>
       /\ Ids(new.paths) = Ids(old.paths)
       /\ \A p \in Ids(old.paths) :
            /\ new.paths[p].capacity = old.paths[p].capacity
            /\ new.paths[p].exclusive = old.paths[p].exclusive
       /\ \A m \in MemberIds, resource \in ResourceIds :
            /\ Declares(new, m, resource) <=> Declares(old, m, resource)
            /\ Declares(new, m, resource) =>
                 new.members[m].resources[resource] = old.members[m].resources[resource]

LEMMA SpecStays == ASSUME NEW spec PROVE SpecOn(spec, spec)
BY DEF SpecOn

LEMMA FoundedStays ==
  ASSUME NEW old, NEW new, NEW spec \in ClusterSpecs, NEW next,
         Founded(old, spec), SpecOn(spec, next),
         new.state # "Absent" => old.state # "Absent" /\ SameHolding(old, new),
         new.resource \in ResourceIds \cup {None}
  PROVE  Founded(new, next)
<1>1. SUFFICES ASSUME new.state # "Absent"
               PROVE  /\ AskedFor(new)
                      /\ new.source \in Ids(next.members)
                      /\ new.requested > 0 => new.units <= new.requested
                      /\ Measured /\ PoolsAreAskedForUnits /\ new.resource # None => new.units > 0
                      /\ Measured =>
                           /\ new.path \in Ids(next.paths)
                           /\ new.resource # None => Declares(next, new.source, new.resource)
  BY DEF Founded
<1>2. old.state # "Absent" /\ SameHolding(old, new)
  BY <1>1
<1>3. AskedFor(new)
  BY <1>2 DEF Founded, AskedFor, SameHolding
<1>4. new.source \in Ids(next.members)
  BY <1>2 DEF Founded, SameHolding, SpecOn
<1>5. /\ new.requested > 0 => new.units <= new.requested
      /\ Measured /\ PoolsAreAskedForUnits /\ new.resource # None => new.units > 0
  BY <1>2 DEF Founded, SameHolding
<1>6. ASSUME Measured
      PROVE  /\ new.path \in Ids(next.paths)
             /\ new.resource # None => Declares(next, new.source, new.resource)
  <2>1. FixedPools
    BY <1>6 DEF Measured
  <2>2. new.path \in Ids(next.paths)
    BY <1>2, <1>6, <2>1 DEF Founded, SameHolding, SpecOn
  <2>3. ASSUME new.resource # None PROVE Declares(next, new.source, new.resource)
    <3>1. Declares(spec, new.source, new.resource)
      BY <1>2, <1>6, <2>3 DEF Founded, SameHolding
    <3>2. new.resource \in ResourceIds
      BY <2>3
    <3>3. new.source \in Ids(spec.members)
      BY <3>1 DEF Declares
    <3>4. new.source \in MemberIds
      BY <3>3 DEF Ids, ClusterSpecs, Table
    <3> QED BY <2>1, <3>1, <3>2, <3>4 DEF SpecOn
  <2> QED BY <2>2, <2>3
<1> QED BY <1>3, <1>4, <1>5, <1>6

-------------------------------------------------------------------------------
(* Pools that stay within what they have *)

LEMMA GrantsCounted ==
  ASSUME NEW grants \in [GrantIds -> Grant]
  PROVE  Counted(grants)
BY DEF Counted, Grant

\* Fewer holders, of the same reservations, fit the same pools.
LEMMA ContainedOn ==
  ASSUME NEW old \in [GrantIds -> Grant], NEW new \in [GrantIds -> Grant],
         NEW spec \in ClusterSpecs, NEW next, Measured, SpecOn(spec, next),
         Contained(old, spec),
         \A g \in GrantIds : HoldsCapacity(new[g].state) =>
           HoldsCapacity(old[g].state) /\ SameReservation(new[g], old[g])
  PROVE  Contained(new, next)
<1>1. Counted(old) /\ Counted(new) /\ FixedPools
  BY GrantsCounted DEF Measured
<1>2. ASSUME NEW S \in SUBSET GrantIds, NEW T \in SUBSET GrantIds, S \subseteq T,
             S \subseteq Holders(new)
      PROVE  UnitsOf(new, S) <= UnitsOf(old, T)
  <2>1. \A g \in S : new[g].units <= old[g].units
    <3>1. TAKE g \in S
    <3>2. g \in GrantIds /\ HoldsCapacity(new[g].state)
      BY <1>2 DEF Holders
    <3>3. new[g].units = old[g].units
      BY <3>2 DEF SameReservation
    <3>4. new[g].units \in Nat
      BY <3>2 DEF Grant
    <3> QED BY <3>3, <3>4
  <2> QED BY <1>1, <1>2, <2>1, UnitsGrow
<1>3. ASSUME NEW p
      PROVE  /\ PathHolders(new, p) \subseteq PathHolders(old, p)
             /\ PathHolders(new, p) \in SUBSET GrantIds
             /\ PathHolders(old, p) \in SUBSET GrantIds
             /\ PathHolders(new, p) \subseteq Holders(new)
             /\ \A g \in PathHolders(new, p) : new[g].attempt = old[g].attempt
  BY DEF PathHolders, Holders, SameReservation
<1>4. ASSUME NEW r
      PROVE  /\ ResourceHolders(new, r) \subseteq ResourceHolders(old, r)
             /\ ResourceHolders(new, r) \in SUBSET GrantIds
             /\ ResourceHolders(old, r) \in SUBSET GrantIds
             /\ ResourceHolders(new, r) \subseteq Holders(new)
  BY DEF ResourceHolders, Holders, SameReservation
<1>5. OneOwner(next)
  BY <1>1 DEF OneOwner, SpecOn, Contained
<1>6. ASSUME NEW p \in Ids(next.paths) PROVE PathFits(new, next.paths[p], p)
  <2>1. /\ p \in Ids(spec.paths)
        /\ next.paths[p].capacity = spec.paths[p].capacity
        /\ next.paths[p].exclusive = spec.paths[p].exclusive
    BY <1>1, <1>6 DEF SpecOn
  <2>2. PathFits(old, spec.paths[p], p)
    BY <2>1 DEF Contained
  <2>3. UnitsOf(new, PathHolders(new, p)) <= UnitsOf(old, PathHolders(old, p))
    BY <1>2, <1>3
  <2>4. /\ UnitsOf(new, PathHolders(new, p)) \in Nat
        /\ UnitsOf(old, PathHolders(old, p)) \in Nat
    BY <1>1, <1>3, UnitsType
  <2>5. spec.paths[p].capacity \in Nat
    BY <2>1 DEF Ids, ClusterSpecs, Table, Path
  <2>6. UnitsOf(new, PathHolders(new, p)) <= next.paths[p].capacity
    BY <2>1, <2>2, <2>3, <2>4, <2>5 DEF PathFits
  <2>7. next.paths[p].exclusive =>
          \A g, h \in PathHolders(new, p) : new[g].attempt = new[h].attempt
    BY <1>3, <2>1, <2>2 DEF PathFits
  <2> QED BY <2>6, <2>7 DEF PathFits
<1>7. ASSUME NEW r \in ResourceIds, NEW m \in MemberIds, Declares(next, m, r)
      PROVE  UnitsOf(new, ResourceHolders(new, r)) <= next.members[m].resources[r].total
  <2>1. /\ Declares(spec, m, r)
        /\ next.members[m].resources[r] = spec.members[m].resources[r]
    BY <1>1, <1>7 DEF SpecOn
  <2>2. UnitsOf(old, ResourceHolders(old, r)) <= spec.members[m].resources[r].total
    BY <2>1 DEF Contained
  <2>3. UnitsOf(new, ResourceHolders(new, r)) <= UnitsOf(old, ResourceHolders(old, r))
    BY <1>2, <1>4
  <2>4. /\ UnitsOf(new, ResourceHolders(new, r)) \in Nat
        /\ UnitsOf(old, ResourceHolders(old, r)) \in Nat
    BY <1>1, <1>4, UnitsType
  <2>5. spec.members[m].resources[r].total \in Nat
    <3>1. m \in Ids(spec.members) /\ r \in Ids(spec.members[m].resources)
      BY <2>1 DEF Declares
    <3>2. spec.members[m] \in Member
      BY <3>1 DEF Ids, ClusterSpecs, Table
    <3>3. spec.members[m].resources[r] \in Resource
      BY <3>1, <3>2 DEF Ids, Member, Table
    <3> QED BY <3>3 DEF Resource
  <2> QED BY <2>1, <2>2, <2>3, <2>4, <2>5
<1> QED BY <1>5, <1>6, <1>7 DEF Contained

\* A log that goes along with its engine promises no more than the engine.
LEMMA Mirrored ==
  ASSUME NEW engine \in Engine, NEW image \in Image, sink = "journal", image.replays,
         Covers(image, engine), Linked(engine, image), Minted(engine),
         image.spec = engine.spec, Measured, Contained(engine.grants, engine.spec)
  PROVE  Contained(image.grants, image.spec)
<1>1. engine.grants \in [GrantIds -> Grant] /\ image.grants \in [GrantIds -> Grant]
      /\ engine.spec \in ClusterSpecs
  BY DEF Engine, Image
<1>2. ASSUME NEW g \in GrantIds, HoldsCapacity(image.grants[g].state)
      PROVE  /\ HoldsCapacity(engine.grants[g].state)
             /\ SameReservation(image.grants[g], engine.grants[g])
  <2>1. Issued(image.grants[g].state) /\ image.grants[g].state # "Prepared"
        /\ ~IsTerminal(image.grants[g].state)
    BY <1>2 DEF Issued, HoldsCapacity, IsQuarantined, IsTerminal
  <2>2. engine.grants[g].state # "Absent"
    BY <2>1 DEF Linked, Intact
  <2>3. Covered(engine.grants[g], image.grants[g])
    BY DEF Covers
  <2>4. ~IsTerminal(engine.grants[g].state)
    <3>1. IsTerminal(engine.grants[g].state) =>
            image.grants[g].state \in {engine.grants[g].state, "Prepared"}
      BY <2>3 DEF Covered
    <3> QED BY <2>1, <3>1
  <2>5. HoldsCapacity(engine.grants[g].state)
    BY <2>2, <2>4, Holding
  <2> QED BY <2>3, <2>5 DEF Covered, SameReservation
<1>3. Contained(image.grants, engine.spec)
  BY <1>1, <1>2, SpecStays, ContainedOn
<1> QED BY <1>3

-------------------------------------------------------------------------------
(* Points that honour their pools *)

Honours(point) ==
  /\ Holdings(point.mem.grants, point.mem.spec)
  /\ sink = "journal" => \A g \in GrantIds : Founded(point.disk.grants[g], point.mem.spec)

\* A point that gives out nothing.
Continues(point) ==
  /\ \A g \in GrantIds : Stays(mem.grants[g], point.mem.grants[g])
  /\ SpecOn(mem.spec, point.mem.spec)
  /\ sink = "journal" => \A g \in GrantIds :
       \/ point.disk.grants[g] = disk.grants[g]
       \/ mem.grants[g].state # "Absent" /\ SameHolding(mem.grants[g], point.disk.grants[g])

LEMMA StaysSame == ASSUME NEW grant PROVE Stays(grant, grant)
BY DEF Stays, SameHolding

LEMMA ContinuesHonours ==
  ASSUME CoreInv, Tables, Pools, NEW point \in PointType, Continues(point)
  PROVE  Honours(point)
<1>1. /\ mem.grants \in [GrantIds -> Grant] /\ mem.spec \in ClusterSpecs
      /\ disk.grants \in [GrantIds -> Grant]
  BY DEF CoreInv, Engine, Image
<1>2. /\ point.mem.grants \in [GrantIds -> Grant]
      /\ point.disk.grants \in [GrantIds -> Grant]
  BY DEF PointType, Engine, Image
<1>3. ASSUME NEW g \in GrantIds PROVE Founded(point.mem.grants[g], point.mem.spec)
  <2>1. Founded(mem.grants[g], mem.spec)
    BY DEF Pools, Holdings
  <2>2. point.mem.grants[g].resource \in ResourceIds \cup {None}
    BY <1>2 DEF Grant
  <2>3. Stays(mem.grants[g], point.mem.grants[g]) /\ SpecOn(mem.spec, point.mem.spec)
    BY DEF Continues
  <2> QED BY <1>1, <2>1, <2>2, <2>3, FoundedStays DEF Stays
<1>4. ASSUME Measured PROVE Contained(point.mem.grants, point.mem.spec)
  <2>1. \A g \in GrantIds : HoldsCapacity(point.mem.grants[g].state) =>
          /\ HoldsCapacity(mem.grants[g].state)
          /\ SameReservation(point.mem.grants[g], mem.grants[g])
    <3>1. TAKE g \in GrantIds
    <3>2. HAVE HoldsCapacity(point.mem.grants[g].state)
    <3>3. point.mem.grants[g].state # "Absent"
      BY <3>2 DEF HoldsCapacity, IsQuarantined
    <3>4. Stays(mem.grants[g], point.mem.grants[g])
      BY DEF Continues
    <3> QED BY <3>2, <3>3, <3>4 DEF Stays, SameHolding, SameReservation
  <2>2. Contained(mem.grants, mem.spec) /\ SpecOn(mem.spec, point.mem.spec)
    BY <1>4 DEF Pools, Holdings, Continues
  <2> QED BY <1>1, <1>2, <1>4, <2>1, <2>2, ContainedOn
<1>5. ASSUME sink = "journal", NEW g \in GrantIds
      PROVE  Founded(point.disk.grants[g], point.mem.spec)
  <2> DEFINE row == point.disk.grants[g]
  <2>1. row.resource \in ResourceIds \cup {None}
    BY <1>2 DEF Grant
  <2>2. SpecOn(mem.spec, point.mem.spec)
    BY DEF Continues
  <2>3. CASE row = disk.grants[g]
    <3>1. disk.spec = mem.spec
      BY <1>5 DEF Tables, Good
    <3>2. Founded(row, mem.spec)
      BY <2>3, <3>1 DEF Pools
    <3> HIDE DEF row
    <3>3. row.state # "Absent" => row.state # "Absent" /\ SameHolding(row, row)
      BY DEF SameHolding
    <3>4. Founded(row, point.mem.spec)
      BY <1>1, <2>1, <2>2, <3>2, <3>3, FoundedStays
    <3> QED BY <3>4 DEF row
  <2>4. CASE mem.grants[g].state # "Absent" /\ SameHolding(mem.grants[g], row)
    <3>1. Founded(mem.grants[g], mem.spec)
      BY DEF Pools, Holdings
    <3> HIDE DEF row
    <3>2. Founded(row, point.mem.spec)
      BY <1>1, <2>1, <2>2, <2>4, <3>1, FoundedStays
    <3> QED BY <3>2 DEF row
  <2> QED BY <1>5, <2>3, <2>4 DEF Continues
<1> QED BY <1>3, <1>4, <1>5 DEF Honours, Holdings

-------------------------------------------------------------------------------
(* Running the points of a handler *)

\* An engine that is down, or is just bound to a controller, holds nothing.
LEMMA NothingHeld ==
  ASSUME NEW spec, spec.members = EmptyTable(MemberIds), spec.paths = EmptyTable(PathIds)
  PROVE  Holdings(NoGrants, spec) /\ Contained(NoGrants, spec)
<1>1. \A g \in GrantIds : Founded(NoGrants[g], spec)
  BY DEF Founded, NoGrants, NoGrant
<1>2. Ids(spec.members) = {} /\ Ids(spec.paths) = {}
  BY DEF Ids, EmptyTable
<1>3. \A m, r : ~Declares(spec, m, r)
  BY <1>2 DEF Declares
<1>4. Contained(NoGrants, spec)
  BY <1>2, <1>3 DEF Contained, OneOwner
<1> QED BY <1>1, <1>4 DEF Holdings

LEMMA DownHolds == Holdings(NoEngine.grants, NoEngine.spec)
<1>1. NoEngine.grants = NoGrants /\ NoEngine.spec = UnboundSpec
  BY DEF NoEngine
<1>2. UnboundSpec.members = EmptyTable(MemberIds) /\ UnboundSpec.paths = EmptyTable(PathIds)
  BY DEF UnboundSpec
<1> QED BY <1>1, <1>2, NothingHeld

\* What a point makes of the log.
LEMMA PointKeeps ==
  ASSUME Inv, Books, up, NEW points \in Seq(SafePoints), Len(points) >= 1,
         NEW told, Told \subseteq told, Walks(points, told),
         \A n \in 1..Len(points) : Honours(points[n]),
         NEW n \in 1..Reached(points, sink = "journal"),
         sink = "journal"
  PROVE  LET image == points[n].disk
         IN  /\ \A g \in GrantIds : Founded(image.grants[g], image.spec)
             /\ Measured /\ image.replays => Contained(image.grants, image.spec)
<1> DEFINE image == points[n].disk
           engine == points[n].mem
<1>1. /\ n \in 1..Len(points) /\ points[n] \in SafePoints
      /\ Good(engine, image, told)
  BY Passed
<1>2. /\ engine \in Engine /\ image \in Image /\ Covers(image, engine)
  BY <1>1 DEF SafePoints, Safe, Agree, PointType
<1>3. Honours(points[n])
  BY <1>1
<1>4. /\ Linked(engine, image) /\ image.spec = engine.spec /\ Minted(engine)
  BY <1>1 DEF Good, EngineGood
<1>5. \A g \in GrantIds : Founded(image.grants[g], image.spec)
  BY <1>3, <1>4 DEF Honours
<1>6. ASSUME Measured, image.replays
      PROVE  Contained(image.grants, image.spec)
  <2>1. Contained(engine.grants, engine.spec)
    BY <1>3, <1>6 DEF Honours, Holdings
  <2> HIDE DEF image, engine
  <2> QED BY <1>2, <1>4, <1>6, <2>1, Mirrored
<1> QED BY <1>5, <1>6

LEMMA RunPools ==
  ASSUME Inv, Books, Pools, up, NEW points \in Seq(SafePoints), Len(points) >= 1,
         NEW told, Told \subseteq told, Walks(points, told),
         \A n \in 1..Len(points) : Honours(points[n]),
         Completes(points) \/ CrashesIn(points)
  PROVE  Pools'
<1> DEFINE n == Reached(points, sink = "journal")
<1>1. n \in 1..Len(points)
  BY ReachedType DEF Inv, CoreInv
<1>2. Holdings(mem'.grants, mem'.spec)
  <2>1. CASE Completes(points)
    <3>1. mem' = points[n].mem
      BY <2>1 DEF Completes
    <3>2. Honours(points[n])
      BY <1>1
    <3> HIDE DEF n
    <3> QED BY <3>1, <3>2 DEF Honours
  <2>2. CASE CrashesIn(points)
    <3>1. mem' = NoEngine
      BY <2>2 DEF CrashesIn, Falls
    <3> QED BY <3>1, DownHolds
  <2> QED BY <2>1, <2>2
<1>3. PICK k \in 1..n : Persists(points, k, sink = "journal")
  <2>1. CASE Completes(points)
    <3>1. Persists(points, n, sink = "journal") /\ n \in 1..n
      BY <1>1, <2>1 DEF Completes
    <3> QED BY <3>1
  <2>2. CASE CrashesIn(points)
    BY <2>2 DEF CrashesIn
  <2> QED BY <2>1, <2>2
<1>4. /\ \A g \in GrantIds : Founded(disk'.grants[g], disk'.spec)
      /\ Measured /\ disk'.replays => Contained(disk'.grants, disk'.spec)
  <2>1. CASE sink = "journal"
    <3>1. disk' = points[k].disk
      BY <1>3, <2>1 DEF Persists
    <3>2. k \in 1..Reached(points, sink = "journal")
      BY <1>3
    <3> QED BY <2>1, <3>1, <3>2, PointKeeps
  <2>2. CASE sink # "journal"
    <3>1. disk' = disk
      BY <1>3, <2>2 DEF Persists
    <3> QED BY <3>1 DEF Pools
  <2> QED BY <2>1, <2>2
<1> QED BY <1>2, <1>4 DEF Pools

LEMMA ContinuesPools ==
  ASSUME Inv, Books, Pools, up, NEW points \in Seq(SafePoints), Len(points) >= 1,
         NEW told, Told \subseteq told, Walks(points, told),
         \A n \in 1..Len(points) : Continues(points[n]),
         Completes(points) \/ CrashesIn(points)
  PROVE  Pools'
<1>1. \A n \in 1..Len(points) : Honours(points[n])
  <2>1. TAKE n \in 1..Len(points)
  <2>2. points[n] \in PointType
    BY DEF SafePoints
  <2> QED BY <2>2, ContinuesHonours DEF Inv, Books
<1> QED BY <1>1, RunPools

-------------------------------------------------------------------------------
(* Grants that go on or end *)

\* A row that a grant may come to: it keeps what it holds, or lets go of it.
Dwindles(grant, row) ==
  /\ grant.state # "Absent" /\ SameHolding(grant, row)
  /\ HoldsCapacity(row.state) => HoldsCapacity(grant.state)

LEMMA TerminatedDwindles ==
  ASSUME NEW grant \in Grant, NEW state \in GrantStates, IsTerminal(state),
         grant.state # "Absent"
  PROVE  Dwindles(grant, Terminated(grant, state))
<1>1. Terminated(grant, state).state = state /\ ~HoldsCapacity(state)
  BY DEF Terminated, Grant, IsTerminal, HoldsCapacity, IsQuarantined
<1>2. SameHolding(grant, Terminated(grant, state))
  BY DEF Terminated, SameHolding, Grant
<1> QED BY <1>1, <1>2 DEF Dwindles

LEMMA RevalidatedDwindles ==
  ASSUME NEW engine, NEW grant \in Grant, HoldsCapacity(grant.state)
  PROVE  Dwindles(grant, Revalidated(engine, grant))
<1>1. grant.state # "Absent"
  BY DEF HoldsCapacity, IsQuarantined
<1>2. SameHolding(grant, Revalidated(engine, grant))
  <2>1. CASE Sound(engine, grant)
    <3> DEFINE epoch == engine.spec.epoch
               degraded == grant.degraded \/ "degrades" \in GrantEffects(engine, grant)
               new == [grant EXCEPT !.state = "Committed", !.commit = "Committed",
                                    !.epoch = epoch, !.degraded = degraded]
    <3>1. Revalidated(engine, grant) = new
      BY <2>1 DEF Revalidated
    <3> HIDE DEF epoch, degraded
    <3>2. SameHolding(grant, new)
      BY DEF SameHolding, Grant
    <3> QED BY <3>1, <3>2
  <2>2. CASE ~Sound(engine, grant)
    BY <2>2 DEF Revalidated, Terminated, SameHolding, Grant
  <2> QED BY <2>1, <2>2
<1> QED BY <1>1, <1>2 DEF Dwindles

LEMMA LiveHeld ==
  ASSUME Tables, NEW g \in Live(mem.grants)
  PROVE  g \in GrantIds /\ HoldsCapacity(mem.grants[g].state)
<1>1. g \in GrantIds /\ IsLive(mem.grants[g].state)
  BY DEF Live
<1>2. mem.grants[g].state # "Prepared"
  BY <1>1 DEF Tables, Good, EngineGood, Minted
<1> QED BY <1>1, <1>2 DEF IsLive, HoldsCapacity

\* The grants in ids have come to rows, those in logged to the same rows in the log.
LEMMA RowsContinue ==
  ASSUME NEW point, NEW ids, NEW logged, NEW rows,
         \A g \in GrantIds :
           point.mem.grants[g] = IF g \in ids THEN rows[g] ELSE mem.grants[g],
         sink = "journal" => \A g \in GrantIds :
           point.disk.grants[g] = IF g \in logged THEN rows[g] ELSE disk.grants[g],
         \A g \in GrantIds : g \in ids \cup logged => Dwindles(mem.grants[g], rows[g]),
         SpecOn(mem.spec, point.mem.spec)
  PROVE  Continues(point)
<1>1. ASSUME NEW g \in GrantIds PROVE Stays(mem.grants[g], point.mem.grants[g])
  <2>1. CASE g \in ids
    BY <2>1 DEF Dwindles, Stays
  <2>2. CASE g \notin ids
    BY <2>2, StaysSame
  <2> QED BY <2>1, <2>2
<1>2. ASSUME sink = "journal", NEW g \in GrantIds
      PROVE  \/ point.disk.grants[g] = disk.grants[g]
             \/ /\ mem.grants[g].state # "Absent"
                /\ SameHolding(mem.grants[g], point.disk.grants[g])
  BY <1>2 DEF Dwindles
<1> QED BY <1>1, <1>2 DEF Continues

LEMMA SweepContinues ==
  ASSUME NEW engine \in Engine, NEW image \in Image,
         NEW targets \in SUBSET GrantIds, NEW rows \in [GrantIds -> Grant],
         engine.grants = mem.grants, image.grants = disk.grants,
         SpecOn(mem.spec, engine.spec),
         \A g \in targets : Dwindles(mem.grants[g], rows[g]),
         NEW n \in 1..Len(Sweep(engine, image, targets, rows))
  PROVE  Continues(Sweep(engine, image, targets, rows)[n])
<1>. DEFINE k == Cardinality(targets) + 1
            done == Earliest(targets, n - 1)
            grants == Rewritten(engine.grants, done, rows)
            new == [engine EXCEPT !.grants = grants]
            written == WriteGrants(image, done, rows, engine.tick)
            point == Point(new, written, None)
<1>1. k \in Nat
  BY CountType
<1>2. n \in 1..k
  BY <1>1 DEF Sweep
<1>3. Sweep(engine, image, targets, rows)[n] = point
  <2>1. Sweep(engine, image, targets, rows)[n] =
          Point([engine EXCEPT !.grants = Rewritten(@, done, rows)], written, None)
    BY <1>2 DEF Sweep
  <2>2. [engine EXCEPT !.grants = Rewritten(@, done, rows)] = new
    BY DEF Engine
  <2> QED BY <2>1, <2>2
<1>4. engine.grants \in [GrantIds -> Grant] /\ engine.tick \in Nat
  BY EngineFields
<1>5. done \in SUBSET targets /\ done \in SUBSET GrantIds
  BY DEF Earliest
<1> HIDE DEF done
<1>6. /\ grants \in [GrantIds -> Grant]
      /\ \A g \in GrantIds : grants[g] = IF g \in done THEN rows[g] ELSE engine.grants[g]
  BY <1>4, <1>5 DEF Rewritten
<1> HIDE DEF grants
<1>7. new.grants = grants /\ new.spec = engine.spec
  BY <1>6, EngineGrants
<1>8. Wrote(image, written, done, rows, engine.tick)
  BY <1>4, <1>5, GrantsWritten
<1> HIDE DEF new, written
<1>9. point.mem = new /\ point.disk = written
  BY DEF Point
<1>10. \A g \in GrantIds :
         point.mem.grants[g] = IF g \in done THEN rows[g] ELSE mem.grants[g]
  BY <1>6, <1>7, <1>9
<1>11. \A g \in GrantIds :
         point.disk.grants[g] = IF g \in done THEN rows[g] ELSE disk.grants[g]
  BY <1>8, <1>9 DEF Wrote
<1>12. \A g \in GrantIds : g \in done \cup done => Dwindles(mem.grants[g], rows[g])
  BY <1>5
<1>13. SpecOn(mem.spec, point.mem.spec)
  BY <1>7, <1>9
<1> HIDE DEF point
<1>14. Continues(point)
  BY <1>10, <1>11, <1>12, <1>13, RowsContinue
<1> QED BY <1>3, <1>14

LEMMA FenceAllPools ==
  ASSUME Inv, Books, Pools, FenceAll
  PROVE  Pools'
<1>. DEFINE targets == Holders(mem.grants)
            rows == AllTerminated(mem, "Fenced")
            points == Sweep(mem, disk, targets, rows)
<1>1. mem \in Engine /\ disk \in Image
  BY DEF Inv, CoreInv
<1>2. points \in Seq(SafePoints) /\ Len(points) >= 1 /\ Walks(points, Told)
  BY FenceAllWalks DEF Inv, Books
<1>3. up /\ (Completes(points) \/ CrashesIn(points))
  BY DEF FenceAll, Performs
<1>4. /\ mem.grants \in [GrantIds -> Grant]
      /\ "Fenced" \in GrantStates /\ IsTerminal("Fenced")
  BY <1>1, EngineFields DEF GrantStates, IsTerminal
<1>5. rows \in [GrantIds -> Grant]
  BY <1>4, TerminatedType DEF AllTerminated
<1>6. ASSUME NEW g \in targets PROVE g \in GrantIds /\ Dwindles(mem.grants[g], rows[g])
  <2>1. g \in GrantIds /\ mem.grants[g] \in Grant /\ mem.grants[g].state # "Absent"
    BY <1>4 DEF Holders, HoldsCapacity, IsQuarantined
  <2>2. rows[g] = Terminated(mem.grants[g], "Fenced")
    BY <2>1 DEF AllTerminated
  <2> QED BY <1>4, <2>1, <2>2, TerminatedDwindles
<1>7. targets \in SUBSET GrantIds
  BY <1>6
<1>8. \A n \in 1..Len(points) : Continues(points[n])
  BY <1>1, <1>5, <1>6, <1>7, SpecStays, SweepContinues
<1>. HIDE DEF points
<1>. QED BY <1>2, <1>3, <1>8, ContinuesPools

LEMMA RevalidationDwindles ==
  ASSUME mem \in Engine, Tables, NEW engine, engine.grants = mem.grants, NEW g \in Live(mem.grants)
  PROVE  g \in GrantIds /\ Dwindles(mem.grants[g], AllRevalidated(engine)[g])
<1>1. g \in GrantIds /\ HoldsCapacity(mem.grants[g].state)
  BY LiveHeld
<1>2. mem.grants[g] \in Grant
  BY <1>1, EngineFields
<1>3. AllRevalidated(engine)[g] = Revalidated(engine, mem.grants[g])
  BY <1>1 DEF AllRevalidated
<1> QED BY <1>1, <1>2, <1>3, RevalidatedDwindles

LEMMA RevalidatePools ==
  ASSUME Inv, Books, Pools, Revalidate
  PROVE  Pools'
<1>. DEFINE targets == Live(mem.grants)
            rows == AllRevalidated(mem)
            points == Sweep(mem, disk, targets, rows)
<1>1. mem \in Engine /\ disk \in Image /\ Tables
  BY DEF Inv, CoreInv, Books
<1>2. points \in Seq(SafePoints) /\ Len(points) >= 1 /\ Walks(points, Told)
  BY RevalidateWalks DEF Inv, Books
<1>3. up /\ (Completes(points) \/ CrashesIn(points))
  BY DEF Revalidate, Performs
<1>4. rows \in [GrantIds -> Grant]
  BY <1>1, AllRevalidatedType
<1>5. targets \in SUBSET GrantIds
  BY DEF Live
<1>6. \A g \in targets : Dwindles(mem.grants[g], rows[g])
  BY <1>1, RevalidationDwindles
<1>7. \A n \in 1..Len(points) : Continues(points[n])
  BY <1>1, <1>4, <1>5, <1>6, SpecStays, SweepContinues
<1>. HIDE DEF points
<1>. QED BY <1>2, <1>3, <1>7, ContinuesPools

-------------------------------------------------------------------------------
(* Commands *)

LEMMA MembersStay ==
  ASSUME NEW spec \in ClusterSpecs, NEW contracts, NEW command \in Command,
         Accepts(spec, contracts, command)
  PROVE  LET members == MembersAfter(spec.members, command)
         IN  /\ Ids(spec.members) \subseteq Ids(members)
             /\ command.kind \notin {"UpsertMember", "RemoveMember"} =>
                  /\ Ids(members) = Ids(spec.members)
                  /\ \A m \in Ids(spec.members) :
                       members[m].resources = spec.members[m].resources
<1>. DEFINE members == MembersAfter(spec.members, command)
<1>1. spec.members \in Table(MemberIds, Member)
  BY DEF ClusterSpecs
<1>2. members \in Table(MemberIds, Member)
  BY MembersAfterType
<1>3. None \notin Member
  BY RowsAssumption
<1>4. CASE command.kind = "UpsertMember"
  <2>1. command.id \in MemberIds /\ command.row \in Member
    BY <1>4, CommandKinds
  <2>2. members = [spec.members EXCEPT ![command.id] = command.row]
    BY <1>4 DEF MembersAfter
  <2> HIDE DEF members
  <2>3. Ids(spec.members) \subseteq Ids(members)
    BY <1>1, <1>3, <2>1, <2>2 DEF Ids, Table
  <2> QED BY <1>4, <2>3 DEF members
<1>5. CASE command.kind = "RemoveMember"
  <2> DEFINE row == Retired(spec.members[command.id])
  <2>1. command.id \in Ids(spec.members)
    BY <1>5 DEF Accepts
  <2>2. members = [spec.members EXCEPT ![command.id] = row]
    BY <1>5 DEF MembersAfter
  <2>3. command.id \in MemberIds /\ members[command.id] = row
    BY <1>1, <2>1, <2>2 DEF Ids, Table
  <2>4. row # None
    <3>1. spec.members[command.id] \in Member
      BY <1>1, <2>1 DEF Ids, Table
    <3>2. EmptyTable(ResourceIds) \in Table(ResourceIds, Resource)
      BY DEF EmptyTable, Table
    <3>3. row \in Member
      BY <3>1, <3>2 DEF Retired, Member, Lifecycles
    <3> QED BY <1>3, <3>3
  <2> HIDE DEF members, row
  <2>5. Ids(spec.members) \subseteq Ids(members)
    BY <1>1, <2>2, <2>3, <2>4 DEF Ids, Table
  <2> QED BY <1>5, <2>5 DEF members
<1>6. CASE command.kind = "SetMemberLifecycle"
  <2> DEFINE row == [spec.members[command.id] EXCEPT !.lifecycle = command.lifecycle]
  <2>1. command.id \in Ids(spec.members) /\ command.lifecycle \in Lifecycles
    BY <1>6, CommandKinds DEF Accepts, LifecycleAdmissible
  <2>2. members = [spec.members EXCEPT ![command.id] = row]
    BY <1>6 DEF MembersAfter
  <2>3. command.id \in MemberIds /\ spec.members[command.id] \in Member
    BY <1>1, <2>1 DEF Ids, Table
  <2>4. row # None /\ row.resources = spec.members[command.id].resources
    <3>1. row \in Member /\ row.resources = spec.members[command.id].resources
      BY <2>1, <2>3 DEF Member
    <3> QED BY <1>3, <3>1
  <2> HIDE DEF members, row
  <2>5. \A m \in MemberIds :
          members[m] = IF m = command.id THEN row ELSE spec.members[m]
    BY <1>1, <2>2 DEF Table
  <2>6. DOMAIN members = MemberIds /\ DOMAIN spec.members = MemberIds
    BY <1>1, <1>2 DEF Table, members
  <2>7. Ids(members) = Ids(spec.members)
    BY <2>1, <2>4, <2>5, <2>6 DEF Ids
  <2>8. \A m \in Ids(spec.members) : members[m].resources = spec.members[m].resources
    BY <2>4, <2>5, <2>6 DEF Ids
  <2> QED BY <2>7, <2>8 DEF members
<1>7. CASE command.kind \notin {"UpsertMember", "RemoveMember", "SetMemberLifecycle"}
  <2>1. members = spec.members
    BY <1>7 DEF MembersAfter
  <2> QED BY <2>1
<1> QED BY <1>4, <1>5, <1>6, <1>7

LEMMA PathsStay ==
  ASSUME NEW spec \in ClusterSpecs, NEW contracts, NEW command \in Command,
         Accepts(spec, contracts, command),
         command.kind \notin {"UpsertPath", "RemovePath"}
  PROVE  LET paths == PathsAfter(spec.paths, command)
         IN  /\ Ids(paths) = Ids(spec.paths)
             /\ \A p \in Ids(spec.paths) :
                  /\ paths[p].capacity = spec.paths[p].capacity
                  /\ paths[p].exclusive = spec.paths[p].exclusive
<1>. DEFINE paths == PathsAfter(spec.paths, command)
<1>1. spec.paths \in Table(PathIds, Path)
  BY DEF ClusterSpecs
<1>2. CASE command.kind = "SetPathState"
  <2> DEFINE row == [spec.paths[command.id] EXCEPT !.state = command.state]
  <2>1. command.id \in Ids(spec.paths) /\ command.state \in PathStates
    BY <1>2, CommandKinds DEF Accepts
  <2>2. paths = [spec.paths EXCEPT ![command.id] = row]
    BY <1>2 DEF PathsAfter
  <2>3. command.id \in PathIds /\ spec.paths[command.id] \in Path
    BY <1>1, <2>1 DEF Ids, Table
  <2>4. /\ row # None /\ row.capacity = spec.paths[command.id].capacity
        /\ row.exclusive = spec.paths[command.id].exclusive
    <3>1. /\ row \in Path /\ row.capacity = spec.paths[command.id].capacity
          /\ row.exclusive = spec.paths[command.id].exclusive
      BY <2>1, <2>3 DEF Path
    <3> QED BY <3>1, RowsAssumption
  <2> HIDE DEF row, paths
  <2>5. \A p \in PathIds : paths[p] = IF p = command.id THEN row ELSE spec.paths[p]
    BY <1>1, <2>2 DEF Table
  <2>6. DOMAIN paths = PathIds /\ DOMAIN spec.paths = PathIds
    BY <1>1, <2>2 DEF Table
  <2>7. Ids(paths) = Ids(spec.paths)
    BY <2>1, <2>4, <2>5, <2>6 DEF Ids
  <2>8. \A p \in Ids(spec.paths) :
          /\ paths[p].capacity = spec.paths[p].capacity
          /\ paths[p].exclusive = spec.paths[p].exclusive
    BY <2>4, <2>5, <2>6 DEF Ids
  <2> QED BY <2>7, <2>8 DEF paths
<1>3. CASE command.kind # "SetPathState"
  <2>1. paths = spec.paths
    BY <1>3 DEF PathsAfter
  <2> QED BY <2>1
<1> QED BY <1>2, <1>3

LEMMA CommandSpecOn ==
  ASSUME NEW spec \in ClusterSpecs, NEW contracts, NEW command \in Commands,
         Accepts(spec, contracts, command)
  PROVE  SpecOn(spec, SpecAfter(spec, command))
<1> DEFINE next == SpecAfter(spec, command)
           members == MembersAfter(spec.members, command)
           paths == PathsAfter(spec.paths, command)
<1>1. command \in Command
  BY CoreAssumption
<1>2. next.members = members /\ next.paths = paths
  BY DEF SpecAfter, ClusterSpecs
<1>3. Ids(spec.members) \subseteq Ids(members)
  BY <1>1, MembersStay
<1>4. ASSUME FixedPools
      PROVE  /\ Ids(paths) = Ids(spec.paths)
             /\ \A p \in Ids(spec.paths) :
                  /\ paths[p].capacity = spec.paths[p].capacity
                  /\ paths[p].exclusive = spec.paths[p].exclusive
             /\ \A m \in MemberIds, resource \in ResourceIds :
                  /\ Declares(next, m, resource) <=> Declares(spec, m, resource)
                  /\ Declares(next, m, resource) =>
                       members[m].resources[resource] = spec.members[m].resources[resource]
  <2>1. command.kind \notin {"UpsertMember", "RemoveMember", "UpsertPath", "RemovePath"}
    BY <1>4 DEF FixedPools
  <2>2. /\ Ids(paths) = Ids(spec.paths)
        /\ \A p \in Ids(spec.paths) :
             /\ paths[p].capacity = spec.paths[p].capacity
             /\ paths[p].exclusive = spec.paths[p].exclusive
    BY <1>1, <2>1, PathsStay
  <2>3. /\ Ids(members) = Ids(spec.members)
        /\ \A m \in Ids(spec.members) : members[m].resources = spec.members[m].resources
    BY <1>1, <2>1, MembersStay
  <2> HIDE DEF next, members, paths
  <2>4. \A m \in MemberIds, resource \in ResourceIds :
          /\ Declares(next, m, resource) <=> Declares(spec, m, resource)
          /\ Declares(next, m, resource) =>
               members[m].resources[resource] = spec.members[m].resources[resource]
    BY <1>2, <2>3 DEF Declares
  <2> QED BY <2>2, <2>4
<1> HIDE DEF next, members, paths
<1>5. SpecOn(spec, next)
  BY <1>2, <1>3, <1>4 DEF SpecOn
<1> QED BY <1>5 DEF next

\* The engine as it was, whatever the log notes of the command.
LEMMA SameContinues ==
  ASSUME NEW point, point.mem.grants = mem.grants, SpecOn(mem.spec, point.mem.spec),
         point.disk.grants = disk.grants
  PROVE  Continues(point)
<1>1. \A g \in GrantIds : Stays(mem.grants[g], point.mem.grants[g])
  BY StaysSame
<1> QED BY <1>1 DEF Continues

LEMMA ConsContinues ==
  ASSUME NEW S, NEW first \in S, NEW rest \in Seq(S), Len(rest) >= 1,
         Continues(first), \A n \in 1..Len(rest) : Continues(rest[n])
  PROVE  LET points == << first >> \o rest
         IN  \A n \in 1..Len(points) : Continues(points[n])
<1> DEFINE points == << first >> \o rest
<1>1. /\ Len(points) = Len(rest) + 1 /\ points[1] = first
      /\ \A n \in 2..Len(points) : n - 1 \in 1..Len(rest) /\ points[n] = rest[n - 1]
  BY ConsAt
<1>2. Len(rest) \in Nat
  OBVIOUS
<1> HIDE DEF points
<1>3. ASSUME NEW n \in 1..Len(points) PROVE Continues(points[n])
  <2>1. n = 1 \/ n \in 2..Len(points)
    BY <1>1, <1>2
  <2>2. CASE n = 1
    BY <1>1, <2>2
  <2>3. CASE n \in 2..Len(points)
    <3>1. n - 1 \in 1..Len(rest) /\ points[n] = rest[n - 1]
      BY <1>1, <2>3
    <3>2. Continues(rest[n - 1])
      BY <3>1
    <3> QED BY <3>1, <3>2
  <2> QED BY <2>1, <2>2, <2>3
<1> QED BY <1>3 DEF points

LEMMA AfterContinues ==
  ASSUME NEW first, NEW last, Continues(first), Continues(last)
  PROVE  LET points == << first >> \o << last >>
         IN  \A n \in 1..Len(points) : Continues(points[n])
<1> DEFINE S == {first, last}
           rest == << last >>
<1>1. rest \in Seq(S) /\ Len(rest) = 1 /\ rest[1] = last
  OBVIOUS
<1>2. first \in S
  OBVIOUS
<1> HIDE DEF S, rest
<1>3. Len(rest) >= 1 /\ \A n \in 1..Len(rest) : Continues(rest[n])
  BY <1>1
<1>4. LET points == << first >> \o rest
      IN  \A n \in 1..Len(points) : Continues(points[n])
  BY <1>1, <1>2, <1>3, ConsContinues
<1> QED BY <1>4 DEF rest

LEMMA AdministerPools ==
  ASSUME Inv, Books, Pools, NEW command \in Commands, Administer(command)
  PROVE  Pools'
<1>. DEFINE written == WriteCommand(disk, command, mem.tick)
            changed == [mem EXCEPT !.spec = SpecAfter(@, command),
                                   !.contracts = ContractsAfter(@, command)]
            targets == Live(mem.grants)
            rows == AllRevalidated(changed)
            sweep == Sweep(changed, written, targets, rows)
            first == Point(mem, disk, None)
            points == CommandPoints(command)
<1>1. /\ mem \in Engine /\ disk \in Image /\ Tables /\ CoreInv /\ mem.tick \in Nat
      /\ command \in Command /\ mem.spec \in ClusterSpecs
  BY CoreAssumption, EngineFields DEF Inv, CoreInv, Books
<1>2. points \in Seq(SafePoints) /\ Len(points) >= 1 /\ Walks(points, Told)
  BY <1>1, CommandPointsSafe, CommandPointsWalk
<1>3. up /\ (Completes(points) \/ CrashesIn(points))
  BY DEF Administer, Performs
<1>4. written \in Image /\ written.grants = disk.grants
  BY <1>1, WriteCommandType
<1>5. Continues(first)
  <2>1. first.mem = mem /\ first.disk = disk
    BY DEF Point
  <2> HIDE DEF first
  <2> QED BY <2>1, SpecStays, SameContinues
<1>6. \A n \in 1..Len(points) : Continues(points[n])
  <2>1. CASE ~Accepts(mem.spec, mem.contracts, command)
    <3> DEFINE last == Point(mem, written, None)
    <3>1. points = << first >> \o << last >>
      BY <2>1 DEF CommandPoints
    <3>2. Continues(last)
      <4>1. last.mem = mem /\ last.disk = written
        BY DEF Point
      <4> HIDE DEF last, written
      <4> QED BY <1>4, <4>1, SpecStays, SameContinues
    <3> HIDE DEF first, last, points
    <3> QED BY <1>5, <3>1, <3>2, AfterContinues
  <2>2. ASSUME Accepts(mem.spec, mem.contracts, command)
        PROVE  /\ changed \in Engine /\ changed.grants = mem.grants
               /\ SpecOn(mem.spec, changed.spec)
    <3>1. changed \in Engine /\ changed.grants = mem.grants
      BY <1>1, <2>2, CommandedType
    <3>2. changed.spec = SpecAfter(mem.spec, command)
      BY <1>1 DEF Engine
    <3> QED BY <1>1, <2>2, <3>1, <3>2, CommandSpecOn
  <2>3. CASE Accepts(mem.spec, mem.contracts, command) /\ ~MovesAuthority(command)
    <3> DEFINE last == Point(changed, written, None)
    <3>1. points = << first >> \o << last >>
      BY <2>3 DEF CommandPoints
    <3>2. Continues(last)
      <4>1. last.mem = changed /\ last.disk = written
        BY DEF Point
      <4> HIDE DEF last, written, changed
      <4> QED BY <1>4, <2>2, <2>3, <4>1, SameContinues
    <3> HIDE DEF first, last, points
    <3> QED BY <1>5, <3>1, <3>2, AfterContinues
  <2>4. CASE Accepts(mem.spec, mem.contracts, command) /\ MovesAuthority(command)
    <3>1. points = << first >> \o sweep
      BY <2>4 DEF CommandPoints
    <3>2. changed \in Engine /\ changed.grants = mem.grants /\ SpecOn(mem.spec, changed.spec)
      BY <2>2, <2>4
    <3> HIDE DEF changed, written
    <3>3. rows \in [GrantIds -> Grant] /\ targets \in SUBSET GrantIds
      BY <3>2, AllRevalidatedType DEF Live
    <3>4. \A g \in targets : Dwindles(mem.grants[g], rows[g])
      BY <1>1, <3>2, RevalidationDwindles
    <3> HIDE DEF rows, targets
    <3>5. \A n \in 1..Len(sweep) : Continues(sweep[n])
      BY <1>4, <3>2, <3>3, <3>4, SweepContinues
    <3> DEFINE k == Cardinality(targets) + 1
               S == {sweep[n] : n \in 1..k} \cup {first}
    <3>6. k \in Nat /\ k >= 1
      BY <3>3, CountType
    <3>7. sweep \in [1..k -> S]
      <4>1. sweep = [n \in 1..k |-> sweep[n]]
        BY DEF Sweep
      <4> HIDE DEF sweep, k
      <4> QED BY <4>1
    <3>8. first \in S
      OBVIOUS
    <3> HIDE DEF first, sweep, points, S, k
    <3>9. sweep \in Seq(S) /\ Len(sweep) = k
      BY <3>6, <3>7, PointSequence
    <3> QED BY <1>5, <3>1, <3>5, <3>6, <3>8, <3>9, ConsContinues
  <2> QED BY <2>1, <2>3, <2>4
<1>. HIDE DEF points
<1>. QED BY <1>2, <1>3, <1>6, ContinuesPools

-------------------------------------------------------------------------------
(* Time and compaction *)

LEMMA AttemptsLeaveGrants ==
  ASSUME NEW image \in Image, NEW ids, NEW rows, NEW now
  PROVE  WriteAttempts(image, ids, rows, now).grants = image.grants
BY DEF WriteAttempts, Image

LEMMA ExpiryContinues ==
  ASSUME CoreInv, Tables, NEW tick \in Nat,
         NEW n \in 1..Len(Expiry([mem EXCEPT !.tick = tick], disk))
  PROVE  Continues(Expiry([mem EXCEPT !.tick = tick], disk)[n])
<1>. DEFINE engine == [mem EXCEPT !.tick = tick]
            expired == Expired(engine)
            rows == AllTerminated(engine, "Expired")
            k == 2 * Cardinality(expired) + 1
            ended == Earliest(expired, n \div 2)
            noted == Earliest(expired, (n - 1) \div 2)
            rebound == Rebound(engine, noted)
            next == [engine EXCEPT !.grants = Rewritten(@, ended, rows),
                                   !.attempts = rebound]
            middle == WriteGrants(disk, ended, rows, engine.tick)
            written == WriteAttempts(middle, AttemptsOf(engine.grants, noted), rebound,
                                     engine.tick)
            point == Expiry(engine, disk)[n]
<1>1. mem \in Engine /\ disk \in Image
  BY DEF CoreInv
<1>2. /\ engine \in Engine /\ engine.grants = mem.grants /\ engine.spec = mem.spec
      /\ engine.tick \in Nat
  BY <1>1, EngineFields DEF Engine
<1>3. expired \in SUBSET Live(mem.grants)
  BY <1>2 DEF Expired
<1>4. expired \in SUBSET GrantIds /\ ended \in SUBSET expired
  BY <1>3 DEF Live, Earliest
<1>5. k \in Nat
  BY <1>4, CountType
<1>6. n \in 1..k
  BY <1>5 DEF Expiry
<1>7. point = Point(next, written, None)
  BY <1>6 DEF Expiry
<1>8. mem.grants \in [GrantIds -> Grant]
  BY <1>1, EngineFields
<1>9. rows \in [GrantIds -> Grant]
  BY <1>2, <1>8, TerminatedType DEF AllTerminated, GrantStates
<1>10. next.grants = Rewritten(mem.grants, ended, rows) /\ next.spec = mem.spec
  BY <1>1, <1>2 DEF Engine
<1>11. \A g \in GrantIds : next.grants[g] = IF g \in ended THEN rows[g] ELSE mem.grants[g]
  BY <1>8, <1>10 DEF Rewritten
<1>12. ended \in SUBSET GrantIds
  BY <1>4
<1>13. /\ middle \in Image
       /\ \A g \in GrantIds :
            middle.grants[g] = IF g \in ended THEN rows[g] ELSE disk.grants[g]
  <2>1. engine.tick \in Nat /\ disk \in Image
    BY <1>1, <1>2
  <2> HIDE DEF ended, rows, engine
  <2> QED BY <1>9, <1>12, <2>1, WriteGrantsType
<1>14. written.grants = middle.grants
  <2> HIDE DEF middle
  <2> QED BY <1>13, AttemptsLeaveGrants
<1>15. ASSUME NEW g \in ended PROVE Dwindles(mem.grants[g], rows[g])
  <2>1. g \in GrantIds /\ HoldsCapacity(mem.grants[g].state)
    BY <1>3, <1>4, LiveHeld
  <2>2. mem.grants[g] \in Grant /\ mem.grants[g].state # "Absent"
    BY <1>8, <2>1 DEF HoldsCapacity, IsQuarantined
  <2>3. rows[g] = Terminated(mem.grants[g], "Expired")
    BY <1>2, <2>1 DEF AllTerminated
  <2>4. "Expired" \in GrantStates /\ IsTerminal("Expired")
    BY DEF GrantStates, IsTerminal
  <2> HIDE DEF rows
  <2> QED BY <2>2, <2>3, <2>4, TerminatedDwindles
<1> HIDE DEF next, written
<1>16. point.mem = next /\ point.disk = written
  BY <1>7 DEF Point
<1> HIDE DEF point, ended, rows, middle
<1>17. Continues(point)
  <2>1. \A g \in GrantIds :
          point.mem.grants[g] = IF g \in ended THEN rows[g] ELSE mem.grants[g]
    BY <1>11, <1>16
  <2>2. \A g \in GrantIds :
          point.disk.grants[g] = IF g \in ended THEN rows[g] ELSE disk.grants[g]
    BY <1>13, <1>14, <1>16
  <2>3. SpecOn(mem.spec, point.mem.spec)
    BY <1>10, <1>16, SpecStays
  <2> QED BY <1>15, <2>1, <2>2, <2>3, RowsContinue
<1> QED BY <1>17 DEF point, engine

LEMMA AdvanceTickPools ==
  ASSUME Inv, Books, Pools, NEW tick \in 0..MaxTick, AdvanceTick(tick)
  PROVE  Pools'
<1>. DEFINE points == Expiry([mem EXCEPT !.tick = tick], disk)
<1>1. CoreInv /\ Tables /\ up /\ Performs(points) /\ tick \in Nat /\ tick >= mem.tick
  BY CoreAssumption DEF Inv, Books, AdvanceTick
<1>2. points \in Seq(SafePoints) /\ Len(points) >= 1
  BY <1>1, TickedSafe
<1>3. Walks(points, Told)
  BY <1>1, ExpiryWalks
<1>4. \A n \in 1..Len(points) : Continues(points[n])
  BY <1>1, ExpiryContinues
<1>5. Completes(points) \/ CrashesIn(points)
  BY <1>1 DEF Performs
<1>. HIDE DEF points
<1>. QED BY <1>1, <1>2, <1>3, <1>4, <1>5, ContinuesPools

LEMMA RoundContinues ==
  ASSUME CoreInv, Tables
  PROVE  \A n \in 1..Len(RoundPoints) : Continues(RoundPoints[n])
<1>. DEFINE tick == mem.tick + 1
<1>1. mem \in Engine /\ mem.tick \in Nat
  BY EngineFields DEF CoreInv
<1>2. tick \in Nat
  BY <1>1
<1>3. RoundPoints = Expiry([mem EXCEPT !.tick = tick], disk)
  BY <1>1 DEF RoundPoints, Engine
<1>. HIDE DEF tick
<1>. QED BY <1>2, <1>3, ExpiryContinues

\* A log that is compacted is left with the engine it is compacted from.
LEMMA CompactsPools ==
  ASSUME NEW engine, Holdings(engine.grants, engine.spec), Compacts(engine)
  PROVE  Pools'
<1>1. disk'.grants = engine.grants /\ disk'.spec = engine.spec
  BY DEF Compacts, Snapshot
<1>2. /\ \A g \in GrantIds : Founded(disk'.grants[g], disk'.spec)
      /\ Measured => Contained(disk'.grants, disk'.spec)
  BY <1>1 DEF Holdings
<1>3. Holdings(mem'.grants, mem'.spec)
  <2>1. mem' = engine \/ mem' = NoEngine
    BY DEF Compacts, Falls
  <2> QED BY <2>1, DownHolds
<1> QED BY <1>2, <1>3 DEF Pools

LEMMA CompactPools ==
  ASSUME Pools, Compact
  PROVE  Pools'
BY CompactsPools DEF Compact, Pools

LEMMA RoundPools ==
  ASSUME Inv, Books, Pools, HousekeepingRound \/ CompactingRound \/ CrashingRound
  PROVE  Pools'
<1>1. /\ CoreInv /\ Tables /\ RoundPoints \in Seq(SafePoints) /\ Len(RoundPoints) >= 1
      /\ Walks(RoundPoints, Told) /\ up
  BY RoundPointsSafe, RoundPointsWalk
     DEF Inv, Books, HousekeepingRound, CompactingRound, CrashingRound
<1>2. \A n \in 1..Len(RoundPoints) : Continues(RoundPoints[n])
  BY <1>1, RoundContinues
<1>3. CASE HousekeepingRound \/ CrashingRound
  <2>1. Completes(RoundPoints) \/ CrashesIn(RoundPoints)
    BY <1>3 DEF HousekeepingRound, CrashingRound
  <2> QED BY <1>1, <1>2, <2>1, ContinuesPools
<1>4. CASE CompactingRound
  <2> DEFINE n == Reached(RoundPoints, sink = "journal")
             engine == RoundPoints[n].mem
  <2>1. Compacts(engine)
    BY <1>4 DEF CompactingRound
  <2>2. n \in 1..Len(RoundPoints)
    BY <1>1, ReachedType DEF CoreInv
  <2>3. RoundPoints[n] \in PointType
    BY <1>1, <2>2 DEF SafePoints
  <2>4. Honours(RoundPoints[n])
    BY <1>1, <1>2, <2>2, <2>3, ContinuesHonours
  <2> HIDE DEF n
  <2>5. Holdings(engine.grants, engine.spec)
    BY <2>4 DEF Honours
  <2> HIDE DEF engine
  <2> QED BY <2>1, <2>5, CompactsPools
<1> QED BY <1>3, <1>4

-------------------------------------------------------------------------------
(* One grant that goes on *)

LEMMA PairContinues ==
  ASSUME NEW id \in GrantIds, NEW grant, NEW row,
         Dwindles(mem.grants[id], grant), SameHolding(mem.grants[id], row),
         NEW point, point.mem.spec = mem.spec,
         \/ point.mem.grants = mem.grants
         \/ \A g \in GrantIds :
              point.mem.grants[g] = IF g \in {id} THEN grant ELSE mem.grants[g],
         \/ point.disk.grants = disk.grants
         \/ \A g \in GrantIds :
              point.disk.grants[g] = IF g \in {id} THEN row ELSE disk.grants[g]
  PROVE  Continues(point)
<1>1. ASSUME NEW g \in GrantIds PROVE Stays(mem.grants[g], point.mem.grants[g])
  <2>1. point.mem.grants[g] = mem.grants[g] \/ (g = id /\ point.mem.grants[g] = grant)
    OBVIOUS
  <2>2. CASE point.mem.grants[g] = mem.grants[g]
    BY <2>2, StaysSame
  <2>3. CASE g = id /\ point.mem.grants[g] = grant
    BY <2>3 DEF Dwindles, Stays
  <2> QED BY <2>1, <2>2, <2>3
<1>2. \A g \in GrantIds :
        \/ point.disk.grants[g] = disk.grants[g]
        \/ mem.grants[g].state # "Absent" /\ SameHolding(mem.grants[g], point.disk.grants[g])
  BY DEF Dwindles
<1>3. SpecOn(mem.spec, point.mem.spec)
  BY SpecStays
<1> QED BY <1>1, <1>2, <1>3 DEF Continues

LEMMA GrantContinues ==
  ASSUME NEW id \in GrantIds, NEW grant,
         Dwindles(mem.grants[id], grant), SameHolding(mem.grants[id], grant),
         NEW point, point.mem.spec = mem.spec,
         \A g \in GrantIds :
           /\ point.mem.grants[g] = IF g \in {id} THEN grant ELSE mem.grants[g]
           /\ point.disk.grants[g] = IF g \in {id} THEN grant ELSE disk.grants[g]
  PROVE  Continues(point)
<1>1. ASSUME NEW g \in GrantIds
      PROVE  /\ Stays(mem.grants[g], point.mem.grants[g])
             /\ \/ point.disk.grants[g] = disk.grants[g]
                \/ /\ mem.grants[g].state # "Absent"
                   /\ SameHolding(mem.grants[g], point.disk.grants[g])
  <2>1. CASE g = id
    BY <2>1 DEF Dwindles, Stays
  <2>2. CASE g # id
    BY <2>2, StaysSame
  <2> QED BY <2>1, <2>2
<1>2. SpecOn(mem.spec, point.mem.spec)
  BY SpecStays
<1> QED BY <1>1, <1>2 DEF Continues

LEMMA TwoContinue ==
  ASSUME NEW p, NEW q, Continues(p), Continues(q)
  PROVE  \A n \in 1..Len(<< p, q >>) : Continues(<< p, q >>[n])
<1> DEFINE points == << p, q >>
<1>1. Len(points) = 2 /\ points[1] = p /\ points[2] = q
  OBVIOUS
<1> HIDE DEF points
<1>2. \A n \in 1..Len(points) : Continues(points[n])
  <2>1. TAKE n \in 1..Len(points)
  <2>2. n = 1 \/ n = 2
    BY <1>1
  <2> QED BY <1>1, <2>2
<1> QED BY <1>2 DEF points

LEMMA ThreeContinue ==
  ASSUME NEW p, NEW q, NEW r, Continues(p), Continues(q), Continues(r)
  PROVE  \A n \in 1..Len(<< p, q, r >>) : Continues(<< p, q, r >>[n])
<1> DEFINE points == << p, q, r >>
<1>1. Len(points) = 3 /\ points[1] = p /\ points[2] = q /\ points[3] = r
  OBVIOUS
<1> HIDE DEF points
<1>2. \A n \in 1..Len(points) : Continues(points[n])
  <2>1. TAKE n \in 1..Len(points)
  <2>2. n = 1 \/ n = 2 \/ n = 3
    BY <1>1
  <2> QED BY <1>1, <2>2
<1> QED BY <1>2 DEF points

LEMMA StillContinues ==
  ASSUME NEW reply
  PROVE  Continues(Point(mem, disk, reply))
<1> DEFINE point == Point(mem, disk, reply)
<1>1. point.mem = mem /\ point.disk = disk
  BY DEF Point
<1> HIDE DEF point
<1>2. Continues(point)
  BY <1>1, SpecStays, SameContinues
<1> QED BY <1>2 DEF point

\* A grant the engine carries that has not ended holds what it has.
LEMMA StandingHolds ==
  ASSUME CoreInv, Tables, NEW id \in GrantIds, mem.grants[id].state # "Absent",
         ~IsTerminal(mem.grants[id].state)
  PROVE  mem.grants[id] \in Grant /\ HoldsCapacity(mem.grants[id].state)
<1>1. mem.grants[id] \in Grant
  BY EngineFields DEF CoreInv
<1>2. mem.grants[id].state # "Prepared"
  BY DEF Tables, Good, EngineGood, Minted
<1> QED BY <1>1, <1>2 DEF Grant, GrantStates, IsTerminal, HoldsCapacity, IsQuarantined

LEMMA ReleasePools ==
  ASSUME Inv, Books, Pools, NEW id \in GrantIds \cup {0}, NEW attempt \in Attempts \cup {None},
         NEW lease, Release(id, attempt, lease)
  PROVE  Pools'
<1>. DEFINE target == Reaches(id, attempt)
<1>1. target \in GrantIds \cup {0} /\ CoreInv /\ Tables
  BY ReachesType DEF Inv, CoreInv, Books
<1>2. /\ up /\ target # 0 /\ mem.grants[target].state # "Absent"
      /\ ~IsTerminal(mem.grants[target].state)
      /\ Performs(ReleasePoints(target))
  BY DEF Release
<1>. HIDE DEF target
<1>3. /\ ReleasePoints(target) \in Seq(SafePoints) /\ Len(ReleasePoints(target)) >= 1
      /\ Walks(ReleasePoints(target), Told)
  BY <1>1, <1>2, ReleasePointsSafe, ReleasePointsWalk
<1>. DEFINE owner    == mem.grants[target].attempt
            grant    == Terminated(mem.grants[target], "Released")
            released == WithGrant(mem, target, grant)
            marked   == [released EXCEPT !.attempts[owner].released = TRUE]
            written  == WriteGrant(disk, target, grant, mem.tick)
            noted    == WriteAttempt(written, owner, marked.attempts[owner], mem.tick)
            first    == Point(mem, disk, "Indeterminate")
            middle   == Point(marked, written, "Indeterminate")
            last     == Point(marked, noted, "Granted")
            done     == Point(released, written, "Granted")
<1>4. /\ mem \in Engine /\ disk \in Image /\ mem.tick \in Nat /\ target \in GrantIds
      /\ mem.grants[target] \in Grant
  BY <1>1, <1>2, EngineFields DEF CoreInv
<1>5. Dwindles(mem.grants[target], grant)
  BY <1>2, <1>4, TerminatedDwindles DEF GrantStates, IsTerminal
<1>6. grant \in Grant
  BY <1>4, TerminatedType DEF GrantStates
<1>7. ReleasePoints(target) \in {<< first, middle, last >>, << first, done >>}
  <2>1. [mem EXCEPT !.grants[target] = grant] = released
    BY DEF WithGrant
  <2> HIDE DEF released
  <2> QED BY <2>1 DEF ReleasePoints
<1> HIDE DEF grant
<1>8. /\ released \in Engine /\ released.spec = mem.spec
      /\ \A g \in GrantIds :
           released.grants[g] = IF g \in {target} THEN grant ELSE mem.grants[g]
  BY <1>4, <1>6, EngineGrant
<1>9. /\ written \in Image
      /\ \A g \in GrantIds :
           written.grants[g] = IF g \in {target} THEN grant ELSE disk.grants[g]
  BY <1>4, <1>6, WriteGrantType
<1> HIDE DEF released, written
<1>10. marked.grants = released.grants /\ marked.spec = released.spec
  BY <1>8 DEF Engine
<1>11. noted.grants = written.grants
  BY <1>9, AttemptsLeaveGrants DEF WriteAttempt
<1> HIDE DEF marked, noted
<1>12. SameHolding(mem.grants[target], grant)
  BY <1>5 DEF Dwindles
<1>13. Continues(first) /\ Continues(middle) /\ Continues(last) /\ Continues(done)
  <2>1. /\ middle.mem = marked /\ middle.disk = written
        /\ last.mem = marked /\ last.disk = noted
        /\ done.mem = released /\ done.disk = written
    BY DEF Point
  <2>2. Continues(first)
    BY StillContinues
  <2> HIDE DEF first, middle, last, done
  <2>3. ASSUME NEW point, point.mem.spec = mem.spec, point.mem.grants = released.grants,
               point.disk.grants = written.grants
        PROVE  Continues(point)
    <3>1. \A g \in GrantIds :
            point.mem.grants[g] = IF g \in {target} THEN grant ELSE mem.grants[g]
      BY <1>8, <2>3
    <3>2. \A g \in GrantIds :
            point.disk.grants[g] = IF g \in {target} THEN grant ELSE disk.grants[g]
      BY <1>9, <2>3
    <3> QED BY <1>4, <1>5, <1>12, <2>3, <3>1, <3>2, PairContinues
  <2>4. Continues(middle)
    BY <1>8, <1>10, <2>1, <2>3
  <2>5. Continues(last)
    BY <1>8, <1>10, <1>11, <2>1, <2>3
  <2>6. Continues(done)
    BY <1>8, <2>1, <2>3
  <2> QED BY <2>2, <2>4, <2>5, <2>6
<1> HIDE DEF first, middle, last, done
<1>14. \A n \in 1..Len(ReleasePoints(target)) : Continues(ReleasePoints(target)[n])
  <2>1. CASE ReleasePoints(target) = << first, middle, last >>
    BY <1>13, <2>1, ThreeContinue
  <2>2. CASE ReleasePoints(target) = << first, done >>
    BY <1>13, <2>2, TwoContinue
  <2> QED BY <1>7, <2>1, <2>2
<1>15. Completes(ReleasePoints(target)) \/ CrashesIn(ReleasePoints(target))
  BY <1>2 DEF Performs
<1>. QED BY <1>2, <1>3, <1>14, <1>15, ContinuesPools

LEMMA CancelPools ==
  ASSUME Inv, Books, Pools, NEW id \in GrantIds \cup {0}, NEW named \in Attempts \cup {None},
         CancelForm(id, named) \in CancelForms, Cancel(id, named)
  PROVE  Pools'
<1>. DEFINE target   == Reaches(id, named)
            held     == target # 0 /\ HoldsCapacity(mem.grants[target].state)
            revoked  == Terminated(mem.grants[target], "Revoked")
            engine   == IF held THEN [mem EXCEPT !.grants[target] = revoked] ELSE mem
            image    == IF held THEN WriteGrant(disk, target, revoked, mem.tick) ELSE disk
            attempt  == IF named # None /\ mem.attempts[named].known THEN named
                        ELSE mem.grants[target].attempt
            marked   == [engine EXCEPT !.attempts[attempt].cancelled = TRUE]
            noted    == WriteCancel(image, attempt, mem.tick)
            first    == Point(mem, disk, "Indeterminate")
            middle   == Point(engine, image, "Indeterminate")
            last     == Point(marked, noted, "Cancelled")
            done     == Point(engine, image, "Cancelled")
            revoking == IF held THEN << first >> ELSE << >>
            rest     == IF mem.attempts[attempt].known THEN << middle, last >> ELSE << done >>
            points   == CancelPoints(id, named)
<1>1. /\ CoreInv /\ Tables /\ mem \in Engine /\ disk \in Image /\ mem.tick \in Nat
      /\ target \in GrantIds \cup {0}
  BY ReachesType, EngineFields DEF Inv, CoreInv, Books
<1>2. points \in Seq(SafePoints) /\ Len(points) >= 1 /\ Walks(points, Told)
  <2>1. id # 0 /\ named # None => Mixed
    BY DEF CancelForm, Mixed
  <2>2. \/ named # None /\ mem.attempts[named].known
        \/ Reaches(id, named) # 0 /\ mem.grants[Reaches(id, named)].state # "Absent"
    BY DEF Cancel
  <2> HIDE DEF points, target
  <2>3. points \in Seq(SafePoints) /\ Len(points) >= 1
    BY <1>1, CancelPointsSafe DEF points
  <2>4. Walks(points, Told)
    BY <1>1, <2>1, <2>2, CancelPointsWalk DEF points
  <2> QED BY <2>3, <2>4
<1>3. up /\ (Completes(points) \/ CrashesIn(points))
  BY DEF Cancel, Answers
<1>4. points = revoking \o rest
  BY DEF CancelPoints
<1>5. /\ engine \in Engine /\ image \in Image
      /\ \A reply : Continues(Point(engine, image, reply))
      /\ Continues(last)
  <2>1. ASSUME held
        PROVE  /\ target \in GrantIds
               /\ Dwindles(mem.grants[target], revoked)
               /\ revoked \in Grant
    <3>1. target \in GrantIds /\ mem.grants[target] \in Grant
          /\ mem.grants[target].state # "Absent"
      BY <1>1, <2>1, EngineFields DEF HoldsCapacity, IsQuarantined
    <3> QED BY <3>1, TerminatedDwindles, TerminatedType DEF GrantStates, IsTerminal
  <2> HIDE DEF revoked
  <2>2. ASSUME held
        PROVE  /\ engine \in Engine /\ engine.spec = mem.spec
               /\ \A g \in GrantIds :
                    engine.grants[g] = IF g \in {target} THEN revoked ELSE mem.grants[g]
               /\ image \in Image
               /\ \A g \in GrantIds :
                    image.grants[g] = IF g \in {target} THEN revoked ELSE disk.grants[g]
    <3>1. target \in GrantIds /\ revoked \in Grant
      BY <2>1, <2>2
    <3>2. engine = WithGrant(mem, target, revoked)
      BY <2>2 DEF WithGrant
    <3>3. image = WriteGrant(disk, target, revoked, mem.tick)
      BY <2>2
    <3> HIDE DEF engine, image, held, target
    <3> QED BY <1>1, <3>1, <3>2, <3>3, EngineGrant, WriteGrantType
  <2>3. ~held => engine = mem /\ image = disk
    OBVIOUS
  <2>4. engine \in Engine /\ image \in Image
    BY <1>1, <2>2, <2>3
  <2> HIDE DEF engine, image, held, target, attempt
  <2>5. marked.grants = engine.grants /\ marked.spec = engine.spec
    BY <2>4 DEF Engine
  <2>6. noted.grants = image.grants
    BY <2>4, AttemptsLeaveGrants DEF WriteCancel, WriteAttempt
  <2> HIDE DEF marked, noted
  <2>7. ASSUME NEW point, point.mem.grants = engine.grants, point.mem.spec = engine.spec,
               point.disk.grants = image.grants
        PROVE  Continues(point)
    <3>1. CASE held
      <4>1. SameHolding(mem.grants[target], revoked)
        BY <2>1, <3>1 DEF Dwindles
      <4> QED BY <2>1, <2>2, <2>7, <3>1, <4>1, PairContinues
    <3>2. CASE ~held
      BY <2>3, <2>7, <3>2, SpecStays, SameContinues
    <3> QED BY <3>1, <3>2
  <2>8. ASSUME NEW reply PROVE Continues(Point(engine, image, reply))
    <3> DEFINE point == Point(engine, image, reply)
    <3>1. point.mem = engine /\ point.disk = image
      BY DEF Point
    <3> HIDE DEF point
    <3>2. Continues(point)
      BY <2>7, <3>1
    <3> QED BY <3>2 DEF point
  <2>9. Continues(last)
    <3>1. last.mem = marked /\ last.disk = noted
      BY DEF Point
    <3> HIDE DEF last
    <3> QED BY <2>5, <2>6, <2>7, <3>1
  <2> QED BY <2>4, <2>8, <2>9
<1>6. Continues(first)
  BY StillContinues
<1>7. Continues(middle) /\ Continues(done)
  BY <1>5
<1> HIDE DEF engine, image, held, target, attempt, marked, noted, first, middle, last, done
<1> DEFINE S == {first, middle, last, done}
<1>8. /\ rest \in Seq(S) /\ Len(rest) >= 1
      /\ \A n \in 1..Len(rest) : Continues(rest[n])
  <2>1. CASE mem.attempts[attempt].known
    <3>1. rest = << middle, last >>
      BY <2>1
    <3>2. << middle, last >> \in Seq(S) /\ Len(<< middle, last >>) = 2
      BY TwoPoints
    <3>3. \A n \in 1..Len(<< middle, last >>) : Continues(<< middle, last >>[n])
      BY <1>5, <1>7, TwoContinue
    <3> HIDE DEF rest
    <3> QED BY <3>1, <3>2, <3>3
  <2>2. CASE ~mem.attempts[attempt].known
    <3>1. rest = << done >>
      BY <2>2
    <3>2. << done >> \in Seq(S) /\ Len(<< done >>) = 1 /\ << done >>[1] = done
      OBVIOUS
    <3> HIDE DEF rest
    <3> QED BY <1>7, <3>1, <3>2
  <2> QED BY <2>1, <2>2
<1>9. first \in S
  OBVIOUS
<1> HIDE DEF rest, S, points
<1>10. \A n \in 1..Len(points) : Continues(points[n])
  <2>1. CASE held
    <3>1. points = << first >> \o rest
      BY <1>4, <2>1
    <3> QED BY <1>6, <1>8, <1>9, <3>1, ConsContinues
  <2>2. CASE ~held
    <3>1. points = << >> \o rest
      BY <1>4, <2>2
    <3>2. points = rest
      BY <1>8, <3>1
    <3> QED BY <1>8, <3>2
  <2> QED BY <2>1, <2>2
<1>. QED BY <1>2, <1>3, <1>10, ContinuesPools

LEMMA AcknowledgePools ==
  ASSUME Inv, Books, Pools, NEW id \in GrantIds, NEW lease, Acknowledge(id, lease)
  PROVE  Pools'
<1>. DEFINE old      == mem.grants[id]
            lifted   == IsQuarantined(old.state)
            grant    == IF lifted THEN Revalidated(mem, old) ELSE old
            engine   == WithGrant(mem, id, grant)
            image    == IF lifted THEN WriteGrant(disk, id, grant, mem.tick) ELSE disk
            acked    == [grant EXCEPT !.acked = TRUE, !.state = "Acknowledged",
                                      !.commit = "Acknowledged"]
            accepted == [grant EXCEPT !.state = "Acknowledged"]
            next     == WithGrant(engine, id, acked)
            written  == WriteGrant(image, id, accepted, mem.tick)
            first    == Point(mem, disk, "Indeterminate")
            waiting  == Point(engine, image, "Indeterminate")
            done     == Point(next, written, GrantOutcome(grant))
            fenced   == Point(engine, image, "Fenced")
            points   == AcknowledgePoints(id)
<1>1. /\ CoreInv /\ Tables /\ up
      /\ mem.grants[id].state # "Absent" /\ ~IsTerminal(mem.grants[id].state)
      /\ acks \in [GrantIds -> {"none", "sent", "accepted"}]
      /\ mem \in Engine /\ disk \in Image /\ mem.tick \in Nat
      /\ Completes(points) \/ CrashesIn(points)
  BY EngineFields DEF Inv, CoreInv, HistoryOK, Books, Acknowledge
<1>2. \E told : Told \subseteq told /\ id \in told
  BY DEF Told
<1>3. PICK told : Told \subseteq told /\ id \in told
  BY <1>2
<1>4. points \in Seq(SafePoints) /\ Len(points) >= 1
  BY <1>1, AcknowledgePointsSafe
<1>5. Walks(points, told)
  BY <1>1, <1>3, AcknowledgePointsWalk
<1>6. points = IF ~lifted THEN << waiting, done >>
               ELSE << first >> \o
                    IF grant.state = "Committed" THEN << waiting, done >> ELSE << fenced >>
  BY Zenon DEF AcknowledgePoints, WithGrant
<1>7. old \in Grant /\ HoldsCapacity(old.state)
  BY <1>1, StandingHolds
<1>8. grant \in Grant /\ Dwindles(old, grant)
  <2>1. CASE lifted
    BY <1>1, <1>7, <2>1, RevalidatedType, RevalidatedDwindles
  <2>2. CASE ~lifted
    <3>1. SameHolding(old, old)
      BY DEF SameHolding
    <3> QED BY <1>1, <1>7, <2>2, <3>1 DEF Dwindles
  <2> QED BY <2>1, <2>2
<1>9. SameHolding(old, grant)
  BY <1>8 DEF Dwindles
<1> HIDE DEF grant
<1>10. /\ acked \in Grant /\ accepted \in Grant
       /\ SameHolding(grant, acked) /\ SameHolding(grant, accepted)
  <2>1. acked \in Grant
    BY <1>8, GrantUpdates, Zenon DEF GrantStates, CommitStates
  <2>2. accepted \in Grant
    BY <1>8, GrantUpdates, Zenon DEF GrantStates
  <2>3. SameHolding(grant, acked)
    BY <1>8 DEF SameHolding, Grant
  <2>4. SameHolding(grant, accepted)
    BY <1>8 DEF SameHolding, Grant
  <2> QED BY <2>1, <2>2, <2>3, <2>4
<1>11. Dwindles(old, acked) /\ SameHolding(old, accepted)
  <2>1. SameHolding(old, acked) /\ SameHolding(old, accepted)
    BY <1>9, <1>10 DEF SameHolding
  <2> QED BY <1>1, <1>7, <2>1 DEF Dwindles
<1> HIDE DEF acked, accepted
<1>12. /\ engine \in Engine /\ engine.spec = mem.spec
       /\ \A g \in GrantIds : engine.grants[g] = IF g \in {id} THEN grant ELSE mem.grants[g]
  BY <1>1, <1>8, EngineGrant
<1> HIDE DEF engine
<1>13. /\ next \in Engine /\ next.spec = mem.spec
       /\ \A g \in GrantIds : next.grants[g] = IF g \in {id} THEN acked ELSE mem.grants[g]
  <2>1. /\ next \in Engine /\ next.spec = engine.spec
        /\ \A g \in GrantIds :
             next.grants[g] = IF g \in {id} THEN acked ELSE engine.grants[g]
    BY <1>10, <1>12, EngineGrant
  <2> HIDE DEF next
  <2> QED BY <1>12, <2>1
<1> HIDE DEF next
<1>14. /\ image \in Image
       /\ \/ image.grants = disk.grants
          \/ \A g \in GrantIds : image.grants[g] = IF g \in {id} THEN grant ELSE disk.grants[g]
  <2>1. CASE lifted
    <3>1. image = WriteGrant(disk, id, grant, mem.tick)
      BY <2>1
    <3> HIDE DEF image
    <3> QED BY <1>1, <1>8, <3>1, WriteGrantType
  <2>2. CASE ~lifted
    BY <1>1, <2>2
  <2> QED BY <2>1, <2>2
<1> HIDE DEF image
<1>15. \A g \in GrantIds :
         written.grants[g] = IF g \in {id} THEN accepted ELSE disk.grants[g]
  <2>1. \A g \in GrantIds :
          written.grants[g] = IF g \in {id} THEN accepted ELSE image.grants[g]
    BY <1>1, <1>10, <1>14, WriteGrantType
  <2> HIDE DEF written
  <2> QED BY <1>14, <2>1
<1> HIDE DEF written
<1>16. Continues(first)
  BY StillContinues
<1>17. ASSUME NEW reply PROVE Continues(Point(engine, image, reply))
  <2> DEFINE point == Point(engine, image, reply)
  <2>1. point.mem = engine /\ point.disk = image
    BY DEF Point
  <2> HIDE DEF point
  <2>2. \A g \in GrantIds :
          point.mem.grants[g] = IF g \in {id} THEN grant ELSE mem.grants[g]
    BY <1>12, <2>1
  <2>3. \/ point.disk.grants = disk.grants
        \/ \A g \in GrantIds :
             point.disk.grants[g] = IF g \in {id} THEN grant ELSE disk.grants[g]
    BY <1>14, <2>1
  <2>4. point.mem.spec = mem.spec
    BY <1>12, <2>1
  <2>5. Continues(point)
    <3>1. Dwindles(mem.grants[id], grant) /\ SameHolding(mem.grants[id], grant)
      BY <1>8, <1>9
    <3> HIDE DEF point, old
    <3>2. CASE point.disk.grants = disk.grants
      BY <2>2, <2>4, <3>1, <3>2, PairContinues
    <3>3. CASE \A g \in GrantIds :
                 point.disk.grants[g] = IF g \in {id} THEN grant ELSE disk.grants[g]
      BY <2>2, <2>4, <3>1, <3>3, GrantContinues
    <3> QED BY <2>3, <3>2, <3>3
  <2> QED BY <2>5 DEF point
<1>18. Continues(waiting) /\ Continues(fenced)
  BY <1>17
<1>19. Continues(done)
  <2>1. done.mem = next /\ done.disk = written
    BY DEF Point
  <2>2. Dwindles(mem.grants[id], acked) /\ SameHolding(mem.grants[id], accepted)
    BY <1>11
  <2> HIDE DEF done
  <2>3. /\ done.mem.spec = mem.spec
        /\ \A g \in GrantIds :
             done.mem.grants[g] = IF g \in {id} THEN acked ELSE mem.grants[g]
    BY <1>13, <2>1
  <2>4. \A g \in GrantIds :
          done.disk.grants[g] = IF g \in {id} THEN accepted ELSE disk.grants[g]
    BY <1>15, <2>1
  <2> HIDE DEF old
  <2> QED BY <2>2, <2>3, <2>4, PairContinues, SMT
<1> HIDE DEF first, waiting, done, fenced, points
<1> DEFINE S == {first, waiting, done, fenced}
<1>20. /\ << waiting, done >> \in Seq(S) /\ Len(<< waiting, done >>) >= 1
       /\ \A n \in 1..Len(<< waiting, done >>) : Continues(<< waiting, done >>[n])
  BY <1>18, <1>19, TwoPoints, TwoContinue
<1>21. first \in S
  OBVIOUS
<1> HIDE DEF S, lifted
<1>22. \A n \in 1..Len(points) : Continues(points[n])
  <2>1. CASE ~lifted
    BY <1>6, <1>20, <2>1
  <2>2. CASE lifted /\ grant.state = "Committed"
    <3> DEFINE rest == << waiting, done >>
    <3>1. points = << first >> \o rest
      BY <1>6, <2>2
    <3>2. /\ rest \in Seq(S) /\ Len(rest) >= 1
          /\ \A n \in 1..Len(rest) : Continues(rest[n])
      BY <1>20
    <3> HIDE DEF rest
    <3> QED BY <1>16, <1>21, <3>1, <3>2, ConsContinues
  <2>3. CASE lifted /\ grant.state # "Committed"
    <3>1. points = << first >> \o << fenced >>
      BY <1>6, <2>3
    <3> QED BY <1>16, <1>18, <3>1, AfterContinues
  <2> QED BY <2>1, <2>2, <2>3
<1>. QED BY <1>1, <1>3, <1>4, <1>5, <1>22, ContinuesPools

-------------------------------------------------------------------------------
(* Granting and renewing *)

\* A holder that joins a pool takes no more than the pool has left.
LEMMA JoinFits ==
  ASSUME NEW old, Counted(old), NEW new, Counted(new), NEW id \in GrantIds,
         \A g \in GrantIds : g # id => new[g] = old[g],
         NEW H \in SUBSET GrantIds, NEW K \in SUBSET GrantIds, K \ {id} = H \ {id},
         NEW pool \in Nat, UnitsOf(old, H) <= pool,
         id \in K => new[id].units <= IF pool > UnitsOf(old, H \ {id})
                                      THEN pool - UnitsOf(old, H \ {id}) ELSE 0
  PROVE  UnitsOf(new, K) <= pool
<1> DEFINE T == H \ {id}
<1>1. /\ T \in SUBSET GrantIds /\ id \notin T /\ T \in SUBSET H
      /\ \A g \in T : new[g].units = old[g].units
  OBVIOUS
<1>2. \A g \in T : new[g].units \in Nat /\ old[g].units \in Nat
  BY <1>1 DEF Counted
<1>3. /\ UnitsOf(old, T) \in Nat /\ UnitsOf(old, H) \in Nat /\ UnitsOf(new, T) \in Nat
  BY <1>1, UnitsType
<1>4. UnitsOf(old, T) <= UnitsOf(old, H)
  <2>1. \A g \in T : old[g].units <= old[g].units
    BY <1>2
  <2> HIDE DEF T
  <2> QED BY <1>1, <2>1, UnitsGrow
<1>5. UnitsOf(old, T) <= pool
  BY <1>3, <1>4
<1>6. CASE id \in K
  <2>1. K = T \cup {id}
    BY <1>6
  <2>2. new[id].units <= IF pool > UnitsOf(old, T) THEN pool - UnitsOf(old, T) ELSE 0
    BY <1>6
  <2> HIDE DEF T
  <2>3. UnitsOf(new, T \cup {id}) <= pool
    BY <1>1, <1>5, <2>2, UnitsJoin
  <2> QED BY <2>1, <2>3
<1>7. CASE id \notin K
  <2>1. K = T
    BY <1>7
  <2>2. \A g \in T : new[g].units <= old[g].units
    BY <1>1, <1>2
  <2> HIDE DEF T
  <2>3. UnitsOf(new, T) <= UnitsOf(old, T)
    <3>1. T \in SUBSET T
      OBVIOUS
    <3> QED BY <1>1, <2>2, <3>1, UnitsGrow
  <2> QED BY <1>3, <1>5, <2>1, <2>3
<1> QED BY <1>6, <1>7

\* The grant that is decided fits the path and the pool that it joins.
LEMMA DecidedFits ==
  ASSUME mem \in Engine, Measured, NEW request \in Request,
         Decision(request).outcome \in Authorising,
         Contained(mem.grants, mem.spec),
         NEW id \in GrantIds, NEW new \in [GrantIds -> Grant],
         \A g \in GrantIds : g # id => new[g] = mem.grants[g],
         new[id].path = Decision(request).path, new[id].resource = request.resource,
         new[id].units = Decision(request).units, new[id].attempt = request.attempt,
         \/ request.renews = id
         \/ request.renews = 0 /\ mem.grants[id].state = "Absent"
  PROVE  Contained(new, mem.spec)
<1> DEFINE old == mem.grants
           spec == mem.spec
           bound == BoundPath(spec, request)
           units == Decision(request).units
<1>1. /\ old \in [GrantIds -> Grant] /\ spec \in ClusterSpecs /\ Options.capacity
  BY DEF Engine, Measured
<1>2. Counted(old) /\ Counted(new)
  BY <1>1, GrantsCounted
<1>3. /\ Decision(request).path = bound
      /\ bound # 0 => bound \in Ids(spec.paths)
      /\ bound # 0 => ~Occupied(mem, bound, request)
      /\ request.source \in Ids(spec.members)
      /\ request.resource \in Ids(MemberAt(spec, request.source).resources) \cup {None}
  BY <1>1, Decided
<1>4. /\ bound # 0 => units <= FreeOnPath(mem, request)
      /\ request.resource # None => units <= FreeInPool(mem, request)
  BY <1>1, <1>3, UnitsGranted
<1>5. ASSUME NEW H \in SUBSET GrantIds, H \subseteq Holders(old)
      PROVE  H \ {request.renews} = H \ {id}
  <2>1. CASE request.renews = id
    BY <2>1
  <2>2. CASE request.renews = 0 /\ mem.grants[id].state = "Absent"
    <3>1. 0 \notin H
      BY <1>5, EligibilityAssumption
    <3>2. id \notin H
      BY <1>5, <2>2 DEF Holders, HoldsCapacity, IsQuarantined
    <3> QED BY <2>2, <3>1, <3>2
  <2> QED BY <2>1, <2>2
<1>6. OneOwner(spec)
  BY DEF Contained
<1> HIDE DEF units
<1>7. ASSUME NEW p \in Ids(spec.paths) PROVE PathFits(new, spec.paths[p], p)
  <2> DEFINE H == PathHolders(old, p)
             K == PathHolders(new, p)
             pool == spec.paths[p].capacity
  <2>1. /\ H \in SUBSET GrantIds /\ K \in SUBSET GrantIds /\ H \subseteq Holders(old)
        /\ K \ {id} = H \ {id}
    BY DEF PathHolders, Holders
  <2>2. p \in PathIds /\ pool \in Nat /\ p # 0
    BY <1>1, IdsAssumption DEF Ids, ClusterSpecs, Table, Path
  <2>3. PathFits(old, spec.paths[p], p)
    BY DEF Contained
  <2>4. id \in K => p = bound /\ new[id].units = units
    BY <1>3 DEF PathHolders, units
  <2>5. id \in K => new[id].units <= IF pool > UnitsOf(old, H \ {id})
                                     THEN pool - UnitsOf(old, H \ {id}) ELSE 0
    <3>1. SUFFICES ASSUME id \in K
                   PROVE  units <= IF pool > UnitsOf(old, H \ {id})
                                   THEN pool - UnitsOf(old, H \ {id}) ELSE 0
      BY <2>4
    <3>2. p = bound /\ bound # 0
      BY <2>2, <2>4, <3>1
    <3>3. PathAt(spec, bound).capacity = pool
      BY <3>2 DEF PathAt
    <3>4. H \ {request.renews} = H \ {id}
      BY <1>5, <2>1
    <3>5. FreeOnPath(mem, request) =
            LET taken == UnitsOf(old, H \ {request.renews})
            IN  IF pool > taken THEN pool - taken ELSE 0
      BY <3>2, <3>3 DEF FreeOnPath, FreeUnits
    <3>6. units <= FreeOnPath(mem, request)
      BY <1>4, <3>2
    <3> HIDE DEF H, pool, bound
    <3> QED BY <3>4, <3>5, <3>6
  <2>6. UnitsOf(old, H) <= pool
    BY <2>3 DEF PathFits
  <2>7. ASSUME spec.paths[p].exclusive, NEW g \in K, NEW h \in K
        PROVE  new[g].attempt = new[h].attempt
    <3>1. \A x \in K : x # id => x \in H /\ new[x].attempt = old[x].attempt
      BY DEF PathHolders, Holders
    <3>2. ASSUME NEW x \in K, x # id, id \in K PROVE new[x].attempt = request.attempt
      <4>1. bound = p /\ bound # 0 /\ ~Occupied(mem, bound, request)
        BY <1>3, <2>2, <2>4, <3>2
      <4>2. PathAt(spec, bound).exclusive
        BY <2>7, <4>1 DEF PathAt
      <4>3. x \in PathHolders(mem.grants, bound)
        BY <3>1, <3>2, <4>1
      <4>4. old[x].attempt = request.attempt \/ x = request.renews
        BY <4>1, <4>2, <4>3 DEF Occupied
      <4>5. x # request.renews
        <5>1. H \ {request.renews} = H \ {id}
          BY <1>5, <2>1
        <5>2. x \in H \ {id}
          BY <3>1, <3>2
        <5> HIDE DEF H
        <5> QED BY <5>1, <5>2
      <4> QED BY <3>1, <3>2, <4>4, <4>5
    <3>3. new[id].attempt = request.attempt
      OBVIOUS
    <3>4. \A x, y \in H : old[x].attempt = old[y].attempt
      BY <2>3, <2>7 DEF PathFits
    <3> HIDE DEF H, K
    <3>5. CASE id \in {g, h}
      BY <2>7, <3>2, <3>3, <3>5
    <3>6. CASE id \notin {g, h}
      BY <2>7, <3>1, <3>4, <3>6
    <3> QED BY <3>5, <3>6
  <2>8. UnitsOf(new, K) <= pool
    <3> HIDE DEF H, K, pool
    <3> QED BY <1>2, <2>1, <2>2, <2>5, <2>6, JoinFits
  <2> QED BY <2>7, <2>8 DEF PathFits
<1>8. ASSUME NEW r \in ResourceIds, NEW m \in MemberIds, Declares(spec, m, r)
      PROVE  UnitsOf(new, ResourceHolders(new, r)) <= spec.members[m].resources[r].total
  <2> DEFINE H == ResourceHolders(old, r)
             K == ResourceHolders(new, r)
             pool == spec.members[m].resources[r].total
  <2>1. /\ H \in SUBSET GrantIds /\ K \in SUBSET GrantIds /\ H \subseteq Holders(old)
        /\ K \ {id} = H \ {id}
    BY DEF ResourceHolders, Holders
  <2>2. pool \in Nat
    <3>1. m \in Ids(spec.members) /\ r \in Ids(spec.members[m].resources)
      BY <1>8 DEF Declares
    <3>2. spec.members[m] \in Member
      BY <1>1, <3>1 DEF Ids, ClusterSpecs, Table
    <3>3. spec.members[m].resources[r] \in Resource
      BY <3>1, <3>2 DEF Ids, Member, Table
    <3> QED BY <3>3 DEF Resource
  <2>3. UnitsOf(old, H) <= pool
    BY <1>8 DEF Contained
  <2>4. id \in K => request.resource = r /\ new[id].units = units
    BY DEF ResourceHolders, units
  <2>5. id \in K => new[id].units <= IF pool > UnitsOf(old, H \ {id})
                                     THEN pool - UnitsOf(old, H \ {id}) ELSE 0
    <3>1. SUFFICES ASSUME id \in K
                   PROVE  units <= IF pool > UnitsOf(old, H \ {id})
                                   THEN pool - UnitsOf(old, H \ {id}) ELSE 0
      BY <2>4
    <3>2. request.resource = r /\ r # None
      BY <2>4, <3>1, IdsAssumption
    <3>3. MemberAt(spec, request.source) = spec.members[request.source]
      BY <1>3 DEF MemberAt
    <3>4. r \in Ids(spec.members[request.source].resources)
      BY <1>3, <3>2, <3>3
    <3>5. request.source \in MemberIds
      BY <1>1, <1>3 DEF Ids, ClusterSpecs, Table
    <3>6. request.source = m
      BY <1>3, <1>6, <1>8, <3>4, <3>5 DEF OneOwner, Declares
    <3>7. PoolOf(spec, request).total = pool
      BY <3>2, <3>3, <3>4, <3>6 DEF PoolOf
    <3>8. H \ {request.renews} = H \ {id}
      BY <1>5, <2>1
    <3>9. FreeInPool(mem, request) =
            LET taken == UnitsOf(old, H \ {request.renews})
            IN  IF pool > taken THEN pool - taken ELSE 0
      BY <3>2, <3>7 DEF FreeInPool, FreeUnits
    <3>10. units <= FreeInPool(mem, request)
      BY <1>4, <3>2
    <3> HIDE DEF H, pool
    <3> QED BY <3>8, <3>9, <3>10
  <2> HIDE DEF H, K, pool
  <2>6. UnitsOf(new, K) <= pool
    BY <1>2, <2>1, <2>2, <2>3, <2>5, JoinFits
  <2> QED BY <2>6 DEF K, pool
<1> QED BY <1>6, <1>7, <1>8 DEF Contained

LEMMA BoundAsked ==
  ASSUME mem \in Engine, NEW request \in Request, Decision(request).outcome \in Authorising
  PROVE  /\ Decision(request).path \in Bindings(request)
         /\ EveryRequestBinds /\ request \in Requests =>
              Decision(request).path \in Ids(mem.spec.paths)
<1> DEFINE bound == BoundPath(mem.spec, request)
<1>1. /\ Decision(request).path = bound
      /\ bound # 0 => bound \in Ids(mem.spec.paths)
      /\ Options.binding \/ request.path # 0 => bound # 0
  BY Decided
<1>2. bound \in PathIds \cup {0}
  BY BoundPathType, EngineFields
<1>3. request.path # 0 => bound = request.path
  BY DEF BoundPath
<1>4. request.path = 0 /\ ~Options.binding => bound = 0
  BY DEF BoundPath
<1> HIDE DEF bound
<1>5. bound \in Bindings(request)
  BY <1>1, <1>2, <1>3, <1>4 DEF Bindings
<1>6. EveryRequestBinds /\ request \in Requests => bound # 0
  BY <1>1 DEF EveryRequestBinds
<1> QED BY <1>1, <1>5, <1>6

LEMMA NewGrantFounded ==
  ASSUME mem \in Engine, NEW request \in Requests, ~Renews(request),
         Decision(request).outcome \in Authorising
  PROVE  Founded(NewGrant(request, Decision(request)), mem.spec)
<1> DEFINE decision == Decision(request)
           grant == NewGrant(request, decision)
           asked == IF request.units = 0 THEN mem.contracts[request.contract].minUnits
                    ELSE request.units
<1>1. request \in Request /\ request.renews = 0 /\ mem.spec \in ClusterSpecs
      /\ request.units \in Nat
  BY CoreAssumption, EngineFields DEF Renews, Request
<1>2. /\ request.source \in Ids(mem.spec.members)
      /\ request.resource \in
           Ids(MemberAt(mem.spec, request.source).resources) \cup {None}
  BY <1>1, Decided
<1>3. decision.units <= asked /\ (request.units > 0 => decision.units > 0)
  BY <1>1, UnitsGranted
<1>4. /\ decision.path \in Bindings(request)
      /\ EveryRequestBinds => decision.path \in Ids(mem.spec.paths)
  BY <1>1, BoundAsked
<1>5. /\ grant.attempt = request.attempt /\ grant.source = request.source
      /\ grant.resource = request.resource /\ grant.path = decision.path
      /\ grant.units = decision.units /\ grant.requested = asked
  BY DEF NewGrant
<1> HIDE DEF decision, grant, asked
<1>6. AskedFor(grant)
  BY <1>1, <1>4, <1>5 DEF AskedFor
<1>7. grant.source \in Ids(mem.spec.members) /\ grant.units <= grant.requested
  BY <1>2, <1>3, <1>5
<1>8. Measured /\ PoolsAreAskedForUnits /\ grant.resource # None => grant.units > 0
  BY <1>3, <1>5 DEF PoolsAreAskedForUnits
<1>9. Measured => grant.path \in Ids(mem.spec.paths)
  BY <1>4, <1>5 DEF Measured
<1>10. grant.resource # None => Declares(mem.spec, grant.source, grant.resource)
  BY <1>2, <1>5 DEF Declares, MemberAt
<1>11. Founded(grant, mem.spec)
  BY <1>6, <1>7, <1>8, <1>9, <1>10 DEF Founded
<1> QED BY <1>11 DEF grant, decision

\* A point that gives out what is founded and fits.
LEMMA NewHonours ==
  ASSUME CoreInv, Tables, Pools, NEW point, point.mem.spec = mem.spec,
         \A g \in GrantIds : \/ point.mem.grants[g] = mem.grants[g]
                             \/ Founded(point.mem.grants[g], mem.spec),
         Measured => Contained(point.mem.grants, mem.spec),
         \A g \in GrantIds : \/ point.disk.grants[g] = disk.grants[g]
                             \/ Founded(point.disk.grants[g], mem.spec)
  PROVE  Honours(point)
<1>1. \A g \in GrantIds : Founded(mem.grants[g], mem.spec)
  BY DEF Pools, Holdings
<1>2. \A g \in GrantIds : Founded(point.mem.grants[g], point.mem.spec)
  <2>1. TAKE g \in GrantIds
  <2>2. Founded(mem.grants[g], mem.spec)
    BY <1>1
  <2> QED BY <2>2
<1>3. sink = "journal" => \A g \in GrantIds : Founded(point.disk.grants[g], point.mem.spec)
  <2>1. HAVE sink = "journal"
  <2>2. TAKE g \in GrantIds
  <2>3. disk.spec = mem.spec
    BY <2>1 DEF Tables, Good
  <2>4. Founded(disk.grants[g], mem.spec)
    BY <2>3 DEF Pools
  <2> QED BY <2>4
<1> QED BY <1>2, <1>3 DEF Honours, Holdings

LEMMA SameFits ==
  ASSUME Pools, Measured
  PROVE  Contained(mem.grants, mem.spec)
BY DEF Pools, Holdings

LEMMA TwoHonour ==
  ASSUME NEW S, NEW a \in S, NEW b \in S, Honours(a), Honours(b)
  PROVE  /\ << a >> \in Seq(S) /\ Len(<< a >>) = 1
         /\ \A n \in 1..Len(<< a >>) : Honours(<< a >>[n])
         /\ << a, b >> \in Seq(S) /\ Len(<< a, b >>) = 2
         /\ \A n \in 1..Len(<< a, b >>) : Honours(<< a, b >>[n])
<1>1. /\ Len(<< a >>) = 1 /\ << a >>[1] = a
      /\ Len(<< a, b >>) = 2 /\ << a, b >>[1] = a /\ << a, b >>[2] = b
  OBVIOUS
<1>2. \A n \in 1..1 : n = 1
  OBVIOUS
<1>3. \A n \in 1..2 : n = 1 \/ n = 2
  OBVIOUS
<1>4. << a >> \in Seq(S) /\ << a, b >> \in Seq(S)
  OBVIOUS
<1>5. \A n \in 1..Len(<< a >>) : Honours(<< a >>[n])
  BY <1>1, <1>2
<1>6. \A n \in 1..Len(<< a, b >>) : Honours(<< a, b >>[n])
  <2>1. TAKE n \in 1..Len(<< a, b >>)
  <2>2. n = 1 \/ n = 2
    BY <1>1, <1>3
  <2>3. CASE n = 1
    BY <1>1, <2>3
  <2>4. CASE n = 2
    BY <1>1, <2>4
  <2> QED BY <2>2, <2>3, <2>4
<1> QED BY <1>1, <1>4, <1>5, <1>6

LEMMA JoinHonours ==
  ASSUME NEW S, NEW s \in Seq(S), NEW t \in Seq(S),
         \A n \in 1..Len(s) : Honours(s[n]), \A n \in 1..Len(t) : Honours(t[n])
  PROVE  \A n \in 1..Len(s \o t) : Honours((s \o t)[n])
<1>1. /\ Len(s) \in Nat /\ Len(t) \in Nat /\ Len(s \o t) = Len(s) + Len(t)
      /\ \A i \in 1..Len(s) : (s \o t)[i] = s[i]
      /\ \A i \in 1..Len(t) : (s \o t)[Len(s) + i] = t[i]
  BY ConcatFacts
<1>2. TAKE n \in 1..Len(s \o t)
<1>3. CASE n <= Len(s)
  <2>1. n \in 1..Len(s)
    BY <1>1, <1>3
  <2> QED BY <1>1, <2>1
<1>4. CASE n > Len(s)
  <2>1. n - Len(s) \in 1..Len(t) /\ Len(s) + (n - Len(s)) = n
    BY <1>1, <1>4
  <2>2. (s \o t)[n] = t[n - Len(s)]
    BY <1>1, <2>1
  <2> QED BY <2>1, <2>2
<1> QED BY <1>1, <1>3, <1>4

LEMMA IssuePools ==
  ASSUME Inv, Books, Pools, NEW request \in Requests, NEW view \in Views,
         Issue(request, view)
  PROVE  Pools'
<1>. DEFINE decision == Decision(request)
            id       == mem.serial + 1
            counter  == Greatest(mem.counter, id)
            minted   == [mem EXCEPT !.serial = id, !.counter = counter]
            grant    == NewGrant(request, decision)
            row      == [grant EXCEPT !.state = "Prepared", !.commit = "Prepared"]
            prepared == WriteGrant(disk, id, row, mem.tick)
            commit   == WriteGrant(prepared, id, grant, mem.tick)
            digest   == [request |-> request, view |-> view]
            attempt  == [NoAttempt EXCEPT !.known = TRUE, !.grant = id,
                                          !.outcome = decision.outcome, !.digest = digest]
            granted  == WithGrant(minted, id, grant)
            held     == WithAttempt(granted, request.attempt, attempt)
            noted    == WriteAttempt(commit, request.attempt, attempt, mem.tick)
            begun    == << Point(minted, disk, "Indeterminate"),
                           Point(minted, prepared, "Indeterminate") >>
            refused  == << Point(minted, disk, "Refused") >>
            full     == << Point(minted, commit, "Refused") >>
            done     == << Point(held, commit, "Refused"),
                           Point(held, noted, decision.outcome) >>
            points   == GrantPoints(request, view, decision)
<1>1. /\ mem \in Engine /\ disk \in Image /\ mem.tick \in Nat /\ mem.serial \in Nat
      /\ mem.counter \in Nat /\ CoreInv /\ Tables /\ up /\ id \in GrantIds
      /\ mem.spec \in ClusterSpecs /\ mem.grants \in [GrantIds -> Grant]
  BY EngineFields DEF Inv, CoreInv, Books, Issue
<1>2. request \in Request /\ request.attempt \in Attempts /\ request.renews = 0
  BY CoreAssumption DEF Request, Issue, Renews
<1>3. decision.outcome \in Authorising /\ decision.outcome \in Outcomes
  BY <1>1, <1>2, DecisionType DEF Issue
<1>4. grant \in Grant
  BY <1>1, <1>2, <1>3, NewGrantType
<1>5. view \in View
  BY <1>1, ViewsType
<1>6. Founded(grant, mem.spec)
  BY <1>1, <1>3, NewGrantFounded DEF Issue
<1>7. /\ grant.attempt = request.attempt /\ grant.resource = request.resource
      /\ grant.path = decision.path /\ grant.units = decision.units
      /\ grant.state = "Committed"
  BY DEF NewGrant
<1>8. /\ points \in Seq(SafePoints) /\ Len(points) >= 1 /\ Walks(points, Told)
  BY <1>1, <1>5, GrantPointsSafe, GrantPointsWalk DEF Issue
<1>9. Completes(points) \/ CrashesIn(points)
  BY DEF Issue, Answers
<1>10. counter \in Nat /\ id \in Nat
  BY <1>1 DEF Greatest
<1>11. points \in {refused, begun \o full, begun \o done}
  <2>1. [mem EXCEPT !.serial = id, !.counter = Greatest(@, id)] = minted
    BY <1>1 DEF Engine, minted, counter
  <2>2. minted.grants = mem.grants /\ minted.attempts = mem.attempts /\ minted \in Engine
    <3>. HIDE DEF counter, id
    <3>1. minted \in Engine
      BY <1>1, <1>10 DEF Engine
    <3>2. minted.grants = mem.grants /\ minted.attempts = mem.attempts
      BY <1>1 DEF Engine
    <3>. QED BY <3>1, <3>2
  <2>3. [minted EXCEPT !.grants[id] = grant, !.attempts[request.attempt] = attempt] = held
    BY <2>2 DEF Engine, held, granted, WithGrant, WithAttempt
  <2>. QED
    BY <2>1, <2>3 DEF GrantPoints, grant, row, prepared, commit, digest, attempt, noted
<1>. HIDE DEF points, decision, grant
<1>12. /\ row \in Grant /\ Founded(row, mem.spec)
  <2>1. row \in Grant
    <3>1. "Prepared" \in GrantStates /\ "Prepared" \in CommitStates
      BY DEF GrantStates, CommitStates
    <3>. QED BY <1>4, <3>1, GrantUpdates
  <2>2. SameHolding(grant, row) /\ row.resource \in ResourceIds \cup {None}
    BY <1>4 DEF Grant, SameHolding
  <2>3. grant.state # "Absent"
    BY <1>7
  <2>. HIDE DEF row
  <2> QED BY <1>1, <1>6, <2>1, <2>2, <2>3, SpecStays, FoundedStays
<1>. HIDE DEF row
<1>13. attempt \in Attempt
  <2>1. digest \in Digest
    BY <1>5 DEF Digest
  <2>. HIDE DEF digest
  <2> QED BY <1>1, <1>3, <2>1 DEF NoAttempt, Attempt
<1>. HIDE DEF attempt
<1>14. /\ minted \in Engine /\ minted.grants = mem.grants /\ minted.spec = mem.spec
  <2>. HIDE DEF counter, id
  <2>1. minted \in Engine
    BY <1>1, <1>10 DEF Engine
  <2>2. minted.grants = mem.grants /\ minted.spec = mem.spec
    BY <1>1 DEF Engine
  <2>. QED BY <2>1, <2>2
<1>. HIDE DEF minted
<1>15. /\ granted \in Engine /\ granted.spec = mem.spec
       /\ \A g \in GrantIds :
            granted.grants[g] = IF g \in {id} THEN grant ELSE mem.grants[g]
  <2>1. /\ granted \in Engine
        /\ \A g \in GrantIds :
             granted.grants[g] = IF g \in {id} THEN grant ELSE minted.grants[g]
        /\ granted.serial = minted.serial /\ granted.spec = minted.spec
    <3>1. minted \in Engine /\ id \in GrantIds /\ grant \in Grant
      BY <1>1, <1>4, <1>14
    <3> HIDE DEF id
    <3> QED BY <3>1, EngineGrant
  <2> HIDE DEF granted, id
  <2> QED BY <1>14, <2>1
<1>. HIDE DEF granted
<1>16. /\ held \in Engine /\ held.grants = granted.grants /\ held.spec = mem.spec
  <2>1. /\ held \in Engine /\ held.grants = granted.grants
        /\ held.serial = granted.serial /\ held.spec = granted.spec
    BY <1>2, <1>13, <1>15, EngineAttempt
  <2> HIDE DEF held
  <2> QED BY <1>15, <2>1
<1>. HIDE DEF held
<1>17. /\ prepared \in Image
       /\ \A g \in GrantIds :
            prepared.grants[g] = IF g \in {id} THEN row ELSE disk.grants[g]
  <2>1. disk \in Image /\ mem.tick \in Nat /\ id \in GrantIds
    BY <1>1
  <2>. HIDE DEF id
  <2> QED BY <1>12, <2>1, WriteGrantType
<1>. HIDE DEF prepared
<1>18. /\ commit \in Image
       /\ \A g \in GrantIds :
            commit.grants[g] = IF g \in {id} THEN grant ELSE disk.grants[g]
  <2>1. mem.tick \in Nat /\ id \in GrantIds
    BY <1>1
  <2>. HIDE DEF id
  <2>2. /\ commit \in Image
        /\ \A g \in GrantIds :
             commit.grants[g] = IF g \in {id} THEN grant ELSE prepared.grants[g]
    BY <1>4, <1>17, <2>1, WriteGrantType
  <2> HIDE DEF commit
  <2> QED BY <1>17, <2>2
<1>. HIDE DEF commit
<1>19. noted.grants = commit.grants
  BY <1>1, <1>2, <1>13, <1>18, WriteAttemptType
<1>. HIDE DEF noted
<1>20. Measured => Contained(held.grants, mem.spec)
  <2>1. HAVE Measured
  <2> DEFINE new == held.grants
  <2>2. /\ new \in [GrantIds -> Grant]
        /\ \A g \in GrantIds : new[g] = IF g \in {id} THEN grant ELSE mem.grants[g]
    BY <1>15, <1>16, EngineFields
  <2>3. mem.grants[id].state = "Absent"
    BY <1>1 DEF Tables, Good, EngineGood, Minted
  <2>4. Contained(mem.grants, mem.spec)
    BY <2>1, SameFits
  <2> HIDE DEF new, id
  <2>5. id \in GrantIds
    BY <1>1
  <2>6. new[id] = grant /\ \A g \in GrantIds : g # id => new[g] = mem.grants[g]
    BY <2>2, <2>5
  <2>7. Contained(new, mem.spec)
    BY <1>1, <1>2, <1>3, <1>7, <2>1, <2>2, <2>3, <2>4, <2>5, <2>6, DecidedFits
       DEF decision
  <2> QED BY <2>7 DEF new
<1>21. ASSUME NEW engine \in {minted, held}, NEW image \in {disk, prepared, commit, noted},
              NEW reply
       PROVE  Honours(Point(engine, image, reply))
  <2> DEFINE point == Point(engine, image, reply)
  <2>1. point.mem = engine /\ point.disk = image
    BY DEF Point
  <2> HIDE DEF point, id
  <2>2. point.mem.spec = mem.spec
    BY <1>14, <1>16, <2>1
  <2>3. \A g \in GrantIds : \/ point.mem.grants[g] = mem.grants[g]
                            \/ Founded(point.mem.grants[g], mem.spec)
    BY <1>6, <1>14, <1>15, <1>16, <2>1
  <2>4. \A g \in GrantIds : \/ point.disk.grants[g] = disk.grants[g]
                            \/ Founded(point.disk.grants[g], mem.spec)
    BY <1>6, <1>12, <1>17, <1>18, <1>19, <2>1
  <2>5. Measured => Contained(point.mem.grants, mem.spec)
    BY <1>14, <1>20, <2>1, SameFits
  <2>6. Honours(point)
    BY <1>1, <2>2, <2>3, <2>4, <2>5, NewHonours
  <2> QED BY <2>6 DEF point
<1> DEFINE p1 == Point(minted, disk, "Indeterminate")
           p2 == Point(minted, prepared, "Indeterminate")
           p3 == Point(minted, disk, "Refused")
           p4 == Point(minted, commit, "Refused")
           p5 == Point(held, commit, "Refused")
           p6 == Point(held, noted, decision.outcome)
           S == {p1, p2, p3, p4, p5, p6}
<1>22. /\ Honours(p1) /\ Honours(p2) /\ Honours(p3)
       /\ Honours(p4) /\ Honours(p5) /\ Honours(p6)
  BY <1>21
<1>23. /\ begun = << p1, p2 >> /\ refused = << p3 >> /\ full = << p4 >>
       /\ done = << p5, p6 >>
  OBVIOUS
<1> HIDE DEF p1, p2, p3, p4, p5, p6, begun, refused, full, done
<1>24. /\ begun \in Seq(S) /\ \A n \in 1..Len(begun) : Honours(begun[n])
  BY <1>22, <1>23, TwoHonour
<1>25. /\ full \in Seq(S) /\ \A n \in 1..Len(full) : Honours(full[n])
       /\ \A n \in 1..Len(refused) : Honours(refused[n])
  BY <1>22, <1>23, TwoHonour
<1>26. /\ done \in Seq(S) /\ \A n \in 1..Len(done) : Honours(done[n])
  BY <1>22, <1>23, TwoHonour
<1> HIDE DEF S
<1>27. /\ \A n \in 1..Len(begun \o full) : Honours((begun \o full)[n])
       /\ \A n \in 1..Len(begun \o done) : Honours((begun \o done)[n])
  BY <1>24, <1>25, <1>26, JoinHonours
<1>28. \A n \in 1..Len(points) : Honours(points[n])
  BY <1>11, <1>25, <1>27
<1> QED BY <1>1, <1>8, <1>9, <1>28, RunPools

LEMMA RenewPools ==
  ASSUME Inv, Books, Pools, NEW request \in Requests, NEW view, Renew(request, view)
  PROVE  Pools'
<1>. DEFINE decision == Decision(request)
            id       == request.renews
            old      == mem.grants[id]
            expiry   == IF request.lease = 0 THEN 0 ELSE mem.tick + request.lease
            epoch    == mem.spec.epoch
            degraded == decision.outcome = "Degraded"
            renewed  == [old EXCEPT !.requested = request.units, !.units = decision.units,
                                    !.expiry = expiry, !.epoch = epoch,
                                    !.degraded = degraded]
            row      == [renewed EXCEPT !.state = "Committed"]
            next     == WithGrant(mem, id, renewed)
            written  == WriteGrant(disk, id, row, mem.tick)
            points   == RenewPoints(request, decision)
            first    == Point(mem, disk, "Indeterminate")
            done     == Point(next, written, decision.outcome)
<1>1. /\ CoreInv /\ Tables /\ up /\ Renews(request) /\ decision.outcome \in Authorising
      /\ mem \in Engine /\ disk \in Image /\ mem.tick \in Nat
      /\ mem.spec \in ClusterSpecs /\ mem.grants \in [GrantIds -> Grant]
      /\ Completes(points) \/ CrashesIn(points)
  BY EngineFields DEF Inv, CoreInv, Books, Renew, Performs
<1>2. /\ points \in Seq(SafePoints) /\ Len(points) >= 1 /\ Walks(points, Told)
  BY <1>1, RenewPointsSafe, RenewPointsWalk
<1>3. points = << first, done >>
  <2>1. [mem EXCEPT !.grants[id] = renewed] = next
    BY DEF WithGrant
  <2>. QED BY <2>1 DEF RenewPoints
<1>4. request \in Request
  BY CoreAssumption
<1>5. /\ id \in GrantIds /\ id # 0 /\ request.units \in Nat /\ request.lease \in Nat
  BY <1>1, <1>4 DEF Request, Renews
<1>6. /\ decision.units \in Nat /\ old.state # "Absent" /\ old \in Grant
  BY <1>1, <1>4, <1>5, DecisionType
<1>7. /\ Founded(old, mem.spec)
      /\ Measured => Contained(mem.grants, mem.spec)
  BY <1>5 DEF Pools, Holdings
<1>8. /\ old.attempt = request.attempt /\ decision.path = BoundPath(mem.spec, request)
      /\ decision.path \in Bindings(request)
      /\ request.units > 0 => decision.units > 0 /\ decision.units <= request.units
  <2>1. old.attempt = request.attempt /\ decision.path = BoundPath(mem.spec, request)
    BY <1>1, <1>4, <1>5, Decided
  <2>2. decision.path \in Bindings(request)
    BY <1>1, <1>4, BoundAsked
  <2>3. ASSUME request.units > 0 PROVE decision.units > 0 /\ decision.units <= request.units
    BY <1>1, <1>4, <1>5, <2>3, UnitsGranted
  <2> QED BY <2>1, <2>2, <2>3
<1>9. Measured => /\ old.resource = request.resource
                  /\ old.path = decision.path
  <2>1. PICK asking \in Requests :
          /\ asking.renews = 0 /\ asking.attempt = old.attempt
          /\ asking.source = old.source /\ asking.resource = old.resource
          /\ old.path \in Bindings(asking)
    BY <1>6, <1>7 DEF Founded, AskedFor
  <2>2. HAVE Measured
  <2>3. /\ request.resource = asking.resource
        /\ \A p \in Bindings(asking), q \in Bindings(request) : p = q
    BY <1>5, <1>8, <2>1, <2>2 DEF Measured, RenewsInPlace
  <2> QED BY <1>8, <2>1, <2>3
<1>10. expiry \in Nat /\ epoch \in Nat /\ degraded \in BOOLEAN
  BY <1>1, <1>5 DEF ClusterSpecs
<1>. HIDE DEF decision, id, old, expiry, epoch, degraded, points
<1>11. renewed \in Grant
  BY <1>5, <1>6, <1>10, GrantUpdates
<1>12. /\ renewed.state = old.state /\ renewed.attempt = old.attempt
       /\ renewed.source = old.source /\ renewed.path = old.path
       /\ renewed.resource = old.resource /\ renewed.units = decision.units
       /\ renewed.requested = request.units
  BY <1>6 DEF Grant
<1>13. row \in Grant
  <2> HIDE DEF renewed
  <2> QED BY <1>11, GrantUpdates, Zenon DEF GrantStates
<1>14. SameHolding(renewed, row)
  BY <1>11 DEF Grant, SameHolding
<1>. HIDE DEF renewed, row
<1>15. Founded(renewed, mem.spec)
  <2>1. AskedFor(renewed)
    <3>1. AskedFor(old)
      BY <1>6, <1>7 DEF Founded
    <3> QED BY <1>12, <3>1 DEF AskedFor
  <2>2. renewed.source \in Ids(mem.spec.members)
    BY <1>6, <1>7, <1>12 DEF Founded
  <2>3. renewed.requested > 0 => renewed.units <= renewed.requested
    BY <1>8, <1>12
  <2>4. Measured /\ PoolsAreAskedForUnits /\ renewed.resource # None => renewed.units > 0
    BY <1>8, <1>9, <1>12 DEF PoolsAreAskedForUnits
  <2>5. Measured =>
          /\ renewed.path \in Ids(mem.spec.paths)
          /\ renewed.resource # None => Declares(mem.spec, renewed.source, renewed.resource)
    BY <1>6, <1>7, <1>12 DEF Founded
  <2> QED BY <2>1, <2>2, <2>3, <2>4, <2>5 DEF Founded
<1>16. Founded(row, mem.spec)
  <2>1. renewed.state # "Absent" /\ row.resource \in ResourceIds \cup {None}
    BY <1>6, <1>12, <1>13 DEF Grant
  <2> QED BY <1>1, <1>14, <1>15, <2>1, SpecStays, FoundedStays
<1>17. /\ next \in Engine /\ next.spec = mem.spec
       /\ \A g \in GrantIds : next.grants[g] = IF g \in {id} THEN renewed ELSE mem.grants[g]
  BY <1>1, <1>5, <1>11, EngineGrant
<1>18. \A g \in GrantIds : written.grants[g] = IF g \in {id} THEN row ELSE disk.grants[g]
  <2>1. disk \in Image /\ id \in GrantIds /\ row \in Grant /\ mem.tick \in Nat
    BY <1>1, <1>5, <1>13
  <2>. QED BY <2>1, WriteGrantType
<1>. HIDE DEF next, written
<1>19. Measured => Contained(next.grants, mem.spec)
  <2>1. HAVE Measured
  <2> DEFINE new == next.grants
  <2>2. new \in [GrantIds -> Grant]
    BY <1>17, EngineFields
  <2>3. new[id] = renewed /\ \A g \in GrantIds : g # id => new[g] = mem.grants[g]
    BY <1>5, <1>17
  <2>4. /\ new[id].path = decision.path /\ new[id].resource = request.resource
        /\ new[id].units = decision.units /\ new[id].attempt = request.attempt
    BY <1>8, <1>9, <1>12, <2>1, <2>3
  <2>5. Contained(mem.grants, mem.spec)
    BY <1>7, <2>1
  <2>6. request.renews = id
    BY DEF id
  <2> HIDE DEF new
  <2>7. Contained(new, mem.spec)
    BY <1>1, <1>4, <1>5, <2>1, <2>2, <2>3, <2>4, <2>5, <2>6, DecidedFits DEF decision
  <2> QED BY <2>7 DEF new
<1>20. Honours(first)
  <2>1. first.mem = mem /\ first.disk = disk
    BY DEF Point
  <2> HIDE DEF first
  <2> QED BY <1>1, <1>7, <2>1, NewHonours
<1>21. Honours(done)
  <2>1. done.mem = next /\ done.disk = written
    BY DEF Point
  <2> HIDE DEF done
  <2> QED BY <1>1, <1>15, <1>16, <1>17, <1>18, <1>19, <2>1, NewHonours
<1> DEFINE S == {first, done}
<1>22. \A n \in 1..Len(points) : Honours(points[n])
  <2> HIDE DEF first, done
  <2>1. first \in S /\ done \in S
    OBVIOUS
  <2> HIDE DEF S
  <2> QED BY <1>3, <1>20, <1>21, <2>1, TwoHonour
<1> QED BY <1>1, <1>2, <1>22, RunPools

-------------------------------------------------------------------------------
(* Starting and stopping *)

\* What a log may hold, whoever rules from it.
LogHolds(image) ==
  /\ \A g \in GrantIds : Founded(image.grants[g], image.spec)
  /\ Measured /\ image.replays => Contained(image.grants, image.spec)

LEMMA StartsPools ==
  ASSUME Inv, Pools, NEW S, NEW points \in Seq(S), Len(points) >= 1,
         NEW records \in BOOLEAN, Starts(points, records),
         records => \A k \in 1..Len(points) : LogHolds(points[k].disk),
         NEW n, n = Reached(points, records),
         Holdings(points[n].mem.grants, points[n].mem.spec)
  PROVE  Pools'
<1>1. n \in 1..Len(points)
  BY ReachedType DEF Inv, CoreInv
<1>2. ASSUME NEW k \in 1..n, Persists(points, k, records) PROVE LogHolds(disk')
  <2>1. k \in 1..Len(points)
    BY <1>1
  <2>2. CASE records
    <3>1. disk' = points[k].disk
      BY <1>2, <2>2 DEF Persists
    <3> QED BY <2>1, <2>2, <3>1
  <2>3. CASE ~records
    <3>1. disk' = disk
      BY <1>2, <2>3 DEF Persists
    <3>2. LogHolds(disk)
      BY DEF Pools, LogHolds
    <3> QED BY <3>1, <3>2
  <2> QED BY <2>2, <2>3
<1>3. CASE mem' = points[n].mem /\ Persists(points, n, records)
  <2>1. n \in 1..n
    BY <1>1
  <2>2. LogHolds(disk')
    BY <1>2, <1>3, <2>1
  <2> QED BY <1>3, <2>2 DEF Pools, LogHolds
<1>4. CASE (\E k \in 1..n : Persists(points, k, records)) /\ Falls
  <2>1. LogHolds(disk')
    BY <1>2, <1>4
  <2>2. mem' = NoEngine
    BY <1>4 DEF Falls
  <2> QED BY <2>1, <2>2, DownHolds DEF Pools, LogHolds
<1> QED BY <1>3, <1>4 DEF Starts

LEMMA StopPools == ASSUME Pools, Stop PROVE Pools'
<1>1. mem' = NoEngine /\ disk' = disk
  BY DEF Stop, Falls
<1> QED BY <1>1, DownHolds DEF Pools

LEMMA StillPools == ASSUME Pools, mem' = mem, disk' = disk PROVE Pools'
BY DEF Pools

\* No holder, no units.
LEMMA NobodyHolds ==
  /\ \A p : PathHolders(NoGrants, p) = {}
  /\ \A r : ResourceHolders(NoGrants, r) = {}
  /\ UnitsOf(NoGrants, {}) = 0
<1>1. \A g \in GrantIds : ~HoldsCapacity(NoGrants[g].state)
  BY DEF NoGrants, NoGrant, HoldsCapacity, IsQuarantined
<1>2. /\ \A p : PathHolders(NoGrants, p) = {}
      /\ \A r : ResourceHolders(NoGrants, r) = {}
  BY <1>1 DEF PathHolders, ResourceHolders, Holders
<1>3. Counted(NoGrants) /\ {} \in SUBSET GrantIds
  BY DEF Counted, NoGrants, NoGrant
<1>4. UnitsOf(NoGrants, {}) = 0
  <2>1. Total(NoGrants, {}) = 0
    BY <1>3, TotalSteps
  <2>2. UnitsOf(NoGrants, {}) \in Nat /\ UnitsOf(NoGrants, {}) <= Total(NoGrants, {})
    BY <1>3, UnitsType
  <2> QED BY <2>1, <2>2
<1> QED BY <1>2, <1>4

LEMMA InitPools == ASSUME Init PROVE Pools
<1>1. /\ disk \in InitialImages /\ disk \in Image /\ disk.grants = NoGrants
      /\ mem = NoEngine
  BY CoreAssumption DEF Init
<1>2. \A g \in GrantIds : Founded(NoGrants[g], disk.spec)
  BY DEF Founded, NoGrants, NoGrant
<1>3. ASSUME Measured PROVE Contained(NoGrants, disk.spec)
  <2>1. OneOwner(disk.spec)
    BY <1>1, <1>3 DEF Measured, PoolsAreOwned
  <2>2. disk.spec \in ClusterSpecs
    BY <1>1, ImageFields
  <2>3. ASSUME NEW p \in Ids(disk.spec.paths) PROVE PathFits(NoGrants, disk.spec.paths[p], p)
    <3>1. disk.spec.paths[p].capacity \in Nat
      BY <2>2 DEF Ids, ClusterSpecs, Table, Path
    <3>2. UnitsOf(NoGrants, PathHolders(NoGrants, p)) <= disk.spec.paths[p].capacity
      BY <3>1, NobodyHolds
    <3> QED BY <3>2, NobodyHolds DEF PathFits
  <2>4. ASSUME NEW r \in ResourceIds, NEW m \in MemberIds, Declares(disk.spec, m, r)
        PROVE  UnitsOf(NoGrants, ResourceHolders(NoGrants, r))
                 <= disk.spec.members[m].resources[r].total
    <3>1. m \in Ids(disk.spec.members) /\ r \in Ids(disk.spec.members[m].resources)
      BY <2>4 DEF Declares
    <3>2. disk.spec.members[m] \in Member
      BY <2>2, <3>1 DEF Ids, ClusterSpecs, Table
    <3>3. disk.spec.members[m].resources[r] \in Resource
      BY <3>1, <3>2 DEF Ids, Member, Table
    <3>4. disk.spec.members[m].resources[r].total \in Nat
      BY <3>3 DEF Resource
    <3> QED BY <3>4, NobodyHolds
  <2> QED BY <2>1, <2>3, <2>4 DEF Contained
<1> QED BY <1>1, <1>2, <1>3, DownHolds DEF Pools

LEMMA InitializePools ==
  ASSUME Inv, Books, Pools, Initialize
  PROVE  Pools'
<1>. DEFINE spec  == [UnboundSpec EXCEPT !.bound = TRUE, !.policy = 1]
            bound == [disk EXCEPT !.spec = spec, !.tick = Greatest(@, 1)]
            last  == WriteEpoch(bound, 1)
            p1 == Point(NoEngine, disk, None)
            p2 == Point(NoEngine, bound, None)
            p3 == Point(Fresh, last, None)
            points == InitializePoints
<1>1. /\ disk = EmptyImage /\ disk \in Image
      /\ Reached(points, TRUE) = 3 /\ Starts(points, TRUE)
  BY CoreAssumption DEF Initialize, Books, Tables, Inv, CoreInv
<1>2. points = << p1, p2, p3 >>
  BY DEF InitializePoints
<1>3. /\ EmptyImage.grants = NoGrants /\ EmptyImage.spec = UnboundSpec
      /\ UnboundSpec.members = EmptyTable(MemberIds)
      /\ UnboundSpec.paths = EmptyTable(PathIds)
  BY DEF EmptyImage, UnboundSpec
<1>4. spec.members = EmptyTable(MemberIds) /\ spec.paths = EmptyTable(PathIds)
  BY DEF UnboundSpec
<1>. HIDE DEF points, spec
<1>5. bound.grants = NoGrants /\ bound.spec = spec
  <2> DEFINE tick == Greatest(disk.tick, 1)
  <2>1. bound = [disk EXCEPT !.spec = spec, !.tick = tick]
    OBVIOUS
  <2> HIDE DEF tick, bound
  <2> QED BY <1>1, <1>3, <2>1 DEF Image
<1>6. /\ last.grants = NoGrants
      /\ last.spec.members = EmptyTable(MemberIds)
      /\ last.spec.paths = EmptyTable(PathIds)
  <2> DEFINE begun == EpochBegun(spec)
             tick == Greatest(bound.tick, 1)
  <2>1. spec.members = begun.members /\ spec.paths = begun.paths
    BY DEF EpochBegun, spec, UnboundSpec
  <2>2. last = [bound EXCEPT !.spec = begun, !.tick = tick]
    BY <1>5 DEF WriteEpoch, Image
  <2>3. /\ DOMAIN bound = DOMAIN disk /\ {"grants", "spec", "tick"} \subseteq DOMAIN disk
    BY <1>1 DEF Image
  <2> HIDE DEF bound, last, begun, tick
  <2>4. last.grants = bound.grants /\ last.spec = begun
    BY <2>2, <2>3
  <2> QED BY <1>4, <1>5, <2>1, <2>4
<1>7. /\ Fresh.grants = NoGrants
      /\ Fresh.spec.members = EmptyTable(MemberIds)
      /\ Fresh.spec.paths = EmptyTable(PathIds)
  BY DEF Fresh, NoEngine, UnboundSpec
<1>. HIDE DEF bound, last
<1>8. ASSUME NEW image, image.grants = NoGrants,
             image.spec.members = EmptyTable(MemberIds),
             image.spec.paths = EmptyTable(PathIds)
      PROVE  LogHolds(image)
  BY <1>8, NothingHeld DEF LogHolds, Holdings
<1>9. LogHolds(disk) /\ LogHolds(bound) /\ LogHolds(last)
  BY <1>1, <1>3, <1>4, <1>5, <1>6, <1>8
<1>10. Holdings(Fresh.grants, Fresh.spec)
  BY <1>7, NothingHeld
<1>11. p1.disk = disk /\ p2.disk = bound /\ p3.disk = last /\ p3.mem = Fresh
  BY DEF Point
<1>. HIDE DEF p1, p2, p3
<1>12. /\ Len(points) = 3 /\ points[1] = p1 /\ points[2] = p2 /\ points[3] = p3
       /\ points \in Seq({p1, p2, p3})
  <2>1. \A x, y, z : <<x, y, z>> \in Seq({x, y, z})
    OBVIOUS
  <2>. QED BY <1>2, <2>1
<1>13. \A k \in 1..Len(points) : LogHolds(points[k].disk)
  <2>1. \A k \in 1..3 : k = 1 \/ k = 2 \/ k = 3
    OBVIOUS
  <2>2. /\ LogHolds(points[1].disk) /\ LogHolds(points[2].disk)
        /\ LogHolds(points[3].disk)
    BY <1>9, <1>11, <1>12
  <2> QED BY <1>12, <2>1, <2>2
<1>14. Holdings(points[3].mem.grants, points[3].mem.spec) /\ Len(points) >= 1
       /\ TRUE \in BOOLEAN
  BY <1>10, <1>11, <1>12
<1>. QED BY <1>1, <1>12, <1>13, <1>14, StartsPools

-------------------------------------------------------------------------------
(* Recovering *)

LEMMA RecoveryHolds ==
  ASSUME NEW engine \in Engine, NEW g \in Live(engine.grants), Logged(engine.grants[g])
  PROVE  /\ Dwindles(engine.grants[g], Recovery(engine, g))
         /\ Recovery(engine, g) \in Grant
<1>. DEFINE old == engine.grants[g]
            new == Recovery(engine, g)
<1>1. g \in GrantIds /\ old \in Grant /\ IsLive(old.state) /\ new \in Grant
  BY EngineFields, RecoveryRow DEF Live
<1>2. /\ old.state # "Absent"
      /\ old.state = "Prepared" => old.commit = "Prepared"
      /\ old.commit # "Prepared" => HoldsCapacity(old.state)
  BY <1>1 DEF Logged, IsLive, HoldsCapacity
<1>3. CASE g \in Settles(engine) /\ old.commit = "Prepared"
  <2>1. new = Terminated(old, "Released")
    BY <1>3 DEF Recovery, Settled
  <2>2. "Released" \in GrantStates /\ IsTerminal("Released")
    BY DEF GrantStates, IsTerminal
  <2> HIDE DEF old, new
  <2>3. Dwindles(old, new)
    BY <1>1, <1>2, <2>1, <2>2, TerminatedDwindles
  <2> QED BY <1>1, <2>3 DEF old, new
<1>4. CASE g \in Settles(engine) /\ old.commit # "Prepared"
  <2>1. new = [old EXCEPT !.state = "Ambiguous", !.commit = "Ambiguous"]
    BY <1>4 DEF Recovery, Settled
  <2> HIDE DEF old, new
  <2>2. SameHolding(old, new)
    BY <1>1, <2>1 DEF SameHolding, Grant
  <2>3. Dwindles(old, new)
    BY <1>2, <1>4, <2>2 DEF Dwindles
  <2> QED BY <1>1, <2>3 DEF old, new
<1>5. CASE g \notin Settles(engine)
  <2>1. new = Revalidated(engine, old)
    BY <1>5 DEF Recovery
  <2>2. old.commit # "Prepared"
    BY <1>5 DEF Settles, Reissues
  <2> HIDE DEF old, new
  <2>3. Dwindles(old, new)
    BY <1>1, <1>2, <2>1, <2>2, RevalidatedDwindles
  <2> QED BY <1>1, <2>3 DEF old, new
<1> QED BY <1>3, <1>4, <1>5

LEMMA EpochOn == ASSUME NEW spec \in ClusterSpecs PROVE SpecOn(spec, EpochBegun(spec))
<1> DEFINE next == EpochBegun(spec)
<1>1. next.members = spec.members /\ next.paths = spec.paths
  BY DEF EpochBegun, ClusterSpecs
<1> HIDE DEF next
<1>2. SpecOn(spec, next)
  BY <1>1 DEF SpecOn, Declares
<1> QED BY <1>2 DEF next

\* Tables whose rows are the log's or what became of them hold what they may.
LEMMA DwindlesHold ==
  ASSUME Pools, disk \in Image, disk.replays,
         NEW grants \in [GrantIds -> Grant],
         \A g \in GrantIds : grants[g] = disk.grants[g] \/ Dwindles(disk.grants[g], grants[g])
  PROVE  Holdings(grants, EpochBegun(disk.spec))
<1> DEFINE next == EpochBegun(disk.spec)
<1>1. disk.spec \in ClusterSpecs /\ disk.grants \in [GrantIds -> Grant]
  BY ImageFields
<1>2. SpecOn(disk.spec, next)
  BY <1>1, EpochOn
<1> HIDE DEF next
<1>3. ASSUME NEW g \in GrantIds
      PROVE  /\ grants[g].state # "Absent" =>
                  disk.grants[g].state # "Absent" /\ SameHolding(disk.grants[g], grants[g])
             /\ HoldsCapacity(grants[g].state) =>
                  /\ HoldsCapacity(disk.grants[g].state)
                  /\ SameReservation(grants[g], disk.grants[g])
  <2>1. CASE grants[g] = disk.grants[g]
    BY <2>1 DEF SameHolding, SameReservation
  <2>2. CASE Dwindles(disk.grants[g], grants[g])
    BY <2>2 DEF Dwindles, SameHolding, SameReservation
  <2> QED BY <2>1, <2>2
<1>4. ASSUME NEW g \in GrantIds PROVE Founded(grants[g], next)
  <2>1. Founded(disk.grants[g], disk.spec)
    BY DEF Pools
  <2>2. grants[g].resource \in ResourceIds \cup {None}
    BY DEF Grant
  <2> QED BY <1>1, <1>2, <1>3, <2>1, <2>2, FoundedStays
<1>5. ASSUME Measured PROVE Contained(grants, next)
  <2>1. Contained(disk.grants, disk.spec)
    BY <1>5 DEF Pools
  <2> QED BY <1>1, <1>2, <1>3, <1>5, <2>1, ContainedOn
<1>6. Holdings(grants, next)
  BY <1>4, <1>5 DEF Holdings
<1> QED BY <1>6 DEF next

LEMMA RecoverPointPools ==
  ASSUME Inv, Pools, disk.replays, NEW engine, Resumes(engine), NEW records
  PROVE  LET point == RecoverPoint(engine, records)
         IN  /\ Holdings(point.mem.grants, point.mem.spec)
             /\ LogHolds(point.disk)
<1>. DEFINE point == RecoverPoint(engine, records)
            next == point.mem
            written == point.disk
            logs == Logs(engine, records)
            settles == Settles(engine)
<1>1. /\ disk \in Image /\ ImageOK(disk)
      /\ engine \in Engine /\ engine.grants = disk.grants
      /\ engine.spec = EpochBegun(disk.spec)
  BY DEF Inv, CoreInv, Resumes
<1>2. Resumed(engine, records, next, written)
  BY <1>1, RecoverResumed
<1> HIDE DEF point
<1>3. /\ next.grants \in [GrantIds -> Grant] /\ written.grants \in [GrantIds -> Grant]
      /\ next.spec = EpochBegun(disk.spec) /\ written.spec = EpochBegun(disk.spec)
  BY <1>1, <1>2, EngineFields, ImageFields DEF Resumed
<1>4. settles \subseteq Live(engine.grants) /\ logs \subseteq Live(engine.grants)
      /\ Live(engine.grants) \subseteq GrantIds
  BY DEF Settles, Logs, Live
<1>5. ASSUME NEW g \in Live(engine.grants)
      PROVE  Dwindles(disk.grants[g], Recovery(engine, g))
  <2>1. Logged(engine.grants[g])
    BY <1>1, <1>4 DEF ImageOK
  <2> QED BY <1>1, <2>1, RecoveryHolds
<1>6. /\ \A g \in GrantIds : next.grants[g] = disk.grants[g]
                             \/ Dwindles(disk.grants[g], next.grants[g])
      /\ \A g \in GrantIds : written.grants[g] = disk.grants[g]
                             \/ Dwindles(disk.grants[g], written.grants[g])
  <2>1. \A g \in GrantIds :
          next.grants[g] = IF g \in logs \cup settles THEN Recovery(engine, g)
                           ELSE disk.grants[g]
    BY <1>2 DEF Resumed
  <2>2. \A g \in GrantIds :
          written.grants[g] = IF g \in logs THEN Recovery(engine, g) ELSE disk.grants[g]
    BY <1>2 DEF Resumed
  <2> HIDE DEF next, written, logs, settles
  <2> QED BY <1>4, <1>5, <2>1, <2>2
<1> HIDE DEF next, written
<1>7. Holdings(next.grants, EpochBegun(disk.spec))
  BY <1>1, <1>3, <1>6, DwindlesHold
<1>8. Holdings(written.grants, EpochBegun(disk.spec))
  BY <1>1, <1>3, <1>6, DwindlesHold
<1>9. Holdings(next.grants, next.spec) /\ LogHolds(written)
  BY <1>3, <1>7, <1>8 DEF Holdings, LogHolds
<1> QED BY <1>9 DEF next, written, point

LEMMA RecoverPools ==
  ASSUME Inv, Books, Pools, Recover
  PROVE  Pools'
<1>. DEFINE engine  == Recovered
            records == RepairOf(engine, Cardinality(GrantIds))
            first   == Point(NoEngine, disk, None)
            point(k) == IF k = 1 THEN first ELSE RecoverPoint(engine, k - 1)
            points  == RecoverPoints(engine)
            n       == Reached(points, Options.attaches)
<1>1. /\ disk \in Image /\ disk.spec.bound /\ disk.replays /\ starts \in Nat
      /\ n > 1 /\ Starts(points, Options.attaches) /\ Options.attaches \in BOOLEAN
  BY CoreAssumption, EligibilityAssumption DEF Inv, CoreInv, Recover
<1>2. Resumes(engine)
  BY <1>1, RecoveredResumes
<1>3. points = [k \in 1..records + 1 |-> point(k)]
  BY DEF RecoverPoints
<1>. HIDE DEF engine
<1>4. records \in Nat
  BY RecordsEnough
<1>. HIDE DEF records
<1>5. \A k : /\ Holdings(RecoverPoint(engine, k).mem.grants, RecoverPoint(engine, k).mem.spec)
             /\ LogHolds(RecoverPoint(engine, k).disk)
  BY <1>1, <1>2, RecoverPointPools
<1>6. LogHolds(first.disk)
  <2>1. first.disk = disk
    BY DEF Point
  <2>. HIDE DEF first
  <2>. QED BY <2>1 DEF LogHolds, Pools
<1>. HIDE DEF first
<1>7. PICK S : \A k \in 1..records + 1 : point(k) \in S
  <2>1. \A k \in 1..records + 1 : point(k) \in {point(j) : j \in 1..records + 1}
    OBVIOUS
  <2>. QED BY <2>1
<1>8. /\ points \in Seq(S) /\ Len(points) = records + 1 /\ Len(points) >= 1
      /\ \A k \in 1..records + 1 : points[k] = point(k)
  <2>1. [k \in 1..records + 1 |-> point(k)] \in [1..records + 1 -> S]
    BY <1>7
  <2>2. records + 1 \in Nat /\ records + 1 >= 1
    BY <1>4
  <2>. HIDE DEF points, point
  <2>3. points \in Seq(S) /\ Len(points) = records + 1
    BY <1>3, <2>1, <2>2, PointSequence
  <2>. QED BY <1>3, <2>2, <2>3
<1>9. n \in 1..records + 1
  BY <1>8, ReachedType DEF Inv, CoreInv
<1>. HIDE DEF points
<1>10. \A k \in 1..Len(points) : LogHolds(points[k].disk)
  BY <1>5, <1>6, <1>8
<1>. HIDE DEF n
<1>11. points[n] = RecoverPoint(engine, n - 1)
  BY <1>1, <1>8, <1>9
<1>12. Holdings(points[n].mem.grants, points[n].mem.spec)
  BY <1>5, <1>11
<1>. HIDE DEF point
<1>. QED BY <1>1, <1>8, <1>10, <1>12, StartsPools DEF n

-------------------------------------------------------------------------------
(* Every step *)

LEMMA NextPools == ASSUME Inv, Books, Pools, Next PROVE Pools'
<1>1. CASE Initialize
  BY <1>1, InitializePools
<1>2. CASE Recover
  BY <1>2, RecoverPools
<1>3. CASE Stop
  BY <1>3, StopPools
<1>4. CASE \E request \in Requests, view \in Views :
             \/ Replay(request, view) \/ Refuse(request, view)
             \/ Issue(request, view) \/ Renew(request, view)
  <2>1. PICK request \in Requests, view \in Views :
          \/ Replay(request, view) \/ Refuse(request, view)
          \/ Issue(request, view) \/ Renew(request, view)
    BY <1>4
  <2>2. CASE Replay(request, view) \/ Refuse(request, view)
    BY <2>2, StillPools DEF Replay, Refuse, Tells
  <2>3. CASE Issue(request, view)
    BY <2>3, IssuePools
  <2>4. CASE Renew(request, view)
    BY <2>4, RenewPools
  <2>. QED BY <2>1, <2>2, <2>3, <2>4
<1>5. CASE \E id \in GrantIds \cup {0}, attempt \in Attempts \cup {None},
             lease \in GrantIds \cup {0} : Release(id, attempt, lease)
  BY <1>5, ReleasePools
<1>6. CASE \E attempt \in Attempts : Resolve(attempt)
  BY <1>6, StillPools DEF Resolve, Tells
<1>7. CASE \E id \in GrantIds, lease \in GrantIds : Acknowledge(id, lease)
  BY <1>7, AcknowledgePools
<1>8. CASE \E id \in GrantIds \cup {0}, attempt \in Attempts \cup {None} :
             CancelForm(id, attempt) \in CancelForms /\ Cancel(id, attempt)
  BY <1>8, CancelPools
<1>9. CASE \E command \in Commands : Administer(command)
  BY <1>9, AdministerPools
<1>10. CASE FenceAll
  BY <1>10, FenceAllPools
<1>11. CASE Revalidate
  BY <1>11, RevalidatePools
<1>12. CASE \E tick \in 0..MaxTick : AdvanceTick(tick)
  BY <1>12, AdvanceTickPools
<1>13. CASE Compact
  BY <1>13, CompactPools
<1>14. CASE HousekeepingRound \/ CompactingRound \/ CrashingRound
  BY <1>14, RoundPools
<1>. QED BY <1>1, <1>2, <1>3, <1>4, <1>5, <1>6, <1>7, <1>8, <1>9, <1>10, <1>11, <1>12,
            <1>13, <1>14 DEF Next

\* What every grant holds, it asked for, and where no command changes the pools and a
\* renewal asks for what is renewed, the holders fit their pools, in the engine and in
\* the log a restart would rule from.
THEOREM Holds == Spec => []Pools
<1>1. Init => Pools
  BY InitPools
<1>2. Inv /\ Books /\ Pools /\ [Next]_vars => Pools'
  <2>1. ASSUME Inv, Books, Pools, Next PROVE Pools'
    BY <2>1, NextPools
  <2>2. ASSUME Pools, UNCHANGED vars PROVE Pools'
    BY <2>2, StillPools DEF vars
  <2>. QED BY <2>1, <2>2
<1>. QED BY <1>1, <1>2, Invariance, PTL DEF Spec

-------------------------------------------------------------------------------
(* The theorems *)

\* No path and no resource pool is over-committed, and an exclusive path has the grants of
\* one attempt only: capacity_check, select_path and the commit that follows them never
\* give out more than is declared, over crashes, refused appends and compactions, as long
\* as the engine counts units and nobody changes the pools beneath the grants.
THEOREM CapacityHolds ==
  ASSUME Measured
  PROVE  Spec => []CapacityIsHonoured
<1>1. ASSUME Inv, Pools PROVE CapacityIsHonoured
  <2>1. SUFFICES ASSUME NEW g \in Holders(mem.grants)
                 PROVE  LET grant == mem.grants[g]
                            path  == PathAt(mem.spec, grant.path)
                            pools == MemberAt(mem.spec, grant.source).resources
                        IN  /\ UnitsOf(mem.grants, PathHolders(mem.grants, grant.path))
                                 <= path.capacity
                            /\ grant.resource # None =>
                                 /\ grant.resource \in Ids(pools)
                                 /\ UnitsOf(mem.grants,
                                            ResourceHolders(mem.grants, grant.resource))
                                      <= pools[grant.resource].total
                            /\ path.exclusive =>
                                 \A h \in PathHolders(mem.grants, grant.path) :
                                   mem.grants[h].attempt = grant.attempt
    BY DEF CapacityIsHonoured
  <2> DEFINE grant == mem.grants[g]
  <2>2. g \in GrantIds /\ grant.state # "Absent" /\ HoldsCapacity(grant.state)
    BY DEF Holders, HoldsCapacity, IsQuarantined
  <2>3. /\ mem.spec \in ClusterSpecs /\ grant \in Grant
        /\ Founded(grant, mem.spec) /\ Contained(mem.grants, mem.spec)
    BY <1>1, <2>2, EngineFields DEF Inv, CoreInv, Pools, Holdings
  <2>4. /\ grant.path \in Ids(mem.spec.paths) /\ grant.source \in Ids(mem.spec.members)
        /\ grant.resource # None => Declares(mem.spec, grant.source, grant.resource)
    BY <2>2, <2>3 DEF Founded
  <2>5. /\ PathAt(mem.spec, grant.path) = mem.spec.paths[grant.path]
        /\ MemberAt(mem.spec, grant.source) = mem.spec.members[grant.source]
    BY <2>4 DEF PathAt, MemberAt
  <2>6. PathFits(mem.grants, mem.spec.paths[grant.path], grant.path)
    BY <2>3, <2>4 DEF Contained
  <2>7. g \in PathHolders(mem.grants, grant.path)
    BY DEF PathHolders
  <2>8. ASSUME grant.resource # None
        PROVE  /\ grant.resource \in Ids(mem.spec.members[grant.source].resources)
               /\ UnitsOf(mem.grants, ResourceHolders(mem.grants, grant.resource))
                    <= mem.spec.members[grant.source].resources[grant.resource].total
    <3>1. grant.resource \in ResourceIds /\ grant.source \in MemberIds
      BY <2>3, <2>4, <2>8 DEF Grant, Ids, ClusterSpecs, Table
    <3> QED BY <2>3, <2>4, <2>8, <3>1 DEF Contained, Declares
  <2> HIDE DEF grant
  <2>9. /\ UnitsOf(mem.grants, PathHolders(mem.grants, grant.path))
             <= PathAt(mem.spec, grant.path).capacity
        /\ PathAt(mem.spec, grant.path).exclusive =>
             \A h \in PathHolders(mem.grants, grant.path) :
               mem.grants[h].attempt = mem.grants[g].attempt
    BY <2>5, <2>6, <2>7 DEF PathFits
  <2>10. ASSUME grant.resource # None
         PROVE  /\ grant.resource \in Ids(MemberAt(mem.spec, grant.source).resources)
                /\ UnitsOf(mem.grants, ResourceHolders(mem.grants, grant.resource))
                     <= MemberAt(mem.spec, grant.source).resources[grant.resource].total
    BY <2>5, <2>8, <2>10
  <2> QED BY <2>9, <2>10 DEF grant
<1>. QED BY <1>1, Invariance, Holds, PTL

\* What self_check asks of every grant and of every pool with holders: the source is a
\* member, no more units than requested, a pool with its units or neither, an attempt
\* record, and owners whose pool has room for the holders.
THEOREM GrantsCheckOut ==
  ASSUME Measured, PoolsAreAskedForUnits
  PROVE  Spec => []GrantsPassSelfCheck
<1>1. ASSUME Inv, Books, Pools PROVE GrantsPassSelfCheck
  <2>1. /\ mem.spec \in ClusterSpecs /\ mem.grants \in [GrantIds -> Grant]
        /\ Complete(mem.grants, mem.attempts) /\ Contained(mem.grants, mem.spec)
        /\ \A g \in GrantIds : Founded(mem.grants[g], mem.spec)
    BY <1>1, EngineFields DEF Inv, CoreInv, Books, Tables, Good, EngineGood, Pools, Holdings
  <2>2. ASSUME NEW g \in Present(mem.grants) PROVE GrantAgrees(mem, mem.grants[g])
    <3> DEFINE grant == mem.grants[g]
    <3>1. g \in GrantIds /\ grant.state # "Absent"
      BY DEF Present
    <3>2. /\ grant.source \in Ids(mem.spec.members)
          /\ grant.requested > 0 => grant.units <= grant.requested
          /\ grant.resource # None => grant.units > 0
      <4>1. Founded(grant, mem.spec)
        BY <2>1, <3>1
      <4> HIDE DEF grant
      <4> QED BY <3>1, <4>1 DEF Founded
    <3>3. mem.attempts[grant.attempt].known
      BY <2>1, <3>1 DEF Complete
    <3>4. HoldsCapacity(grant.state) /\ grant.units = 0 => grant.resource = None
      BY <3>2
    <3> QED BY <3>2, <3>3, <3>4 DEF GrantAgrees
  <2>3. ASSUME NEW r \in ResourceIds PROVE ResourceFits(mem, r)
    <3> DEFINE holders == ResourceHolders(mem.grants, r)
               owners == {m \in Ids(mem.spec.members) :
                            r \in Ids(mem.spec.members[m].resources)}
    <3>1. ASSUME NEW g \in holders PROVE owners # {}
      <4>1. /\ g \in GrantIds /\ mem.grants[g].state # "Absent"
            /\ mem.grants[g].resource = r /\ r # None
        BY IdsAssumption DEF ResourceHolders, Holders, HoldsCapacity, IsQuarantined
      <4>2. Declares(mem.spec, mem.grants[g].source, r)
        BY <2>1, <4>1 DEF Founded
      <4> QED BY <4>2 DEF Declares
    <3>2. \A m \in owners : m \in MemberIds /\ Declares(mem.spec, m, r)
      BY <2>1 DEF Declares, Ids, ClusterSpecs, Table
    <3>3. \A m \in owners :
            UnitsOf(mem.grants, holders) <= mem.spec.members[m].resources[r].total
      BY <2>1, <3>2 DEF Contained
    <3> QED BY <3>1, <3>3 DEF ResourceFits
  <2> QED BY <2>2, <2>3 DEF GrantsPassSelfCheck
<1>. QED BY <1>1, Invariance, Holds, PTL

-------------------------------------------------------------------------------
(* Live grants and the cluster as it is declared *)

\* A renewal has no choice of a path but the one its attempt was granted.
RenewsOnPath ==
  \A request, renewal \in Requests :
    request.renews = 0 /\ renewal.renews # 0 /\ renewal.attempt = request.attempt =>
      \A p \in Bindings(request), q \in Bindings(renewal) : p = q

\* The log takes every append, the engine counts units and binds every request, a renewal
\* stays on its path, and no command touches a contract: nothing a live grant rests on
\* changes without a sweep that reaches the last of them.
Undisturbed ==
  /\ JournalBound = 0 /\ Options.capacity /\ EveryRequestBinds /\ RenewsOnPath
  /\ \A command \in Commands : command.kind \notin {"UpsertContract", "RemoveContract"}

Upheld(engine, grant) == grant.epoch = engine.spec.epoch /\ Sound(engine, grant)

\* What LiveGrantsAreCurrent says, of any engine.
UpToDate(engine) ==
  \A g \in GrantIds : IsLive(engine.grants[g].state) => Upheld(engine, engine.grants[g])

\* What of the cluster a live grant rests on.
SameCluster(old, new) ==
  /\ new.spec.members = old.spec.members /\ new.spec.paths = old.spec.paths
  /\ new.spec.epoch = old.spec.epoch /\ new.contracts = old.contracts

\* What of a grant its soundness rests on.
SameTerms(grant, other) ==
  /\ other.contract = grant.contract
  /\ other.source = grant.source /\ other.target = grant.target
  /\ other.sourceGen = grant.sourceGen /\ other.targetGen = grant.targetGen
  /\ other.sourceDigest = grant.sourceDigest /\ other.targetDigest = grant.targetDigest
  /\ other.path = grant.path /\ other.pathGen = grant.pathGen
  /\ other.units = grant.units

\* An engine that rules the same cluster, by grants as they were or upheld.
Calm(engine) ==
  /\ SameCluster(mem, engine)
  /\ \A g \in GrantIds :
       IsLive(engine.grants[g].state) =>
         engine.grants[g] = mem.grants[g] \/ Upheld(mem, engine.grants[g])

Ending(points) == points[Len(points)]

LEMMA SoundStays ==
  ASSUME NEW old, NEW new, SameCluster(old, new), NEW grant, NEW other,
         SameTerms(grant, other), Sound(old, grant)
  PROVE  Sound(new, other)
<1>1. \A m : MemberAt(new.spec, m) = MemberAt(old.spec, m)
  BY DEF MemberAt, SameCluster
<1>2. \A m, generation, digest :
        MemberUnchanged(new.spec, m, generation, digest)
          <=> MemberUnchanged(old.spec, m, generation, digest)
  BY <1>1 DEF MemberUnchanged
<1>3. Participants(other) = Participants(grant)
  BY DEF Participants, SameTerms
<1>4. GrantEffects(new, other) = GrantEffects(old, grant)
  BY <1>1, <1>3 DEF GrantEffects, SameTerms, SameCluster
<1>5. /\ MemberUnchanged(new.spec, other.source, other.sourceGen, other.sourceDigest)
      /\ MemberUnchanged(new.spec, other.target, other.targetGen, other.targetDigest)
  BY <1>2 DEF Sound, SameTerms
<1>6. /\ other.path \in Ids(new.spec.paths)
      /\ LET path == new.spec.paths[other.path]
         IN  /\ path.generation = other.pathGen
             /\ path.state \notin {"Down", "Unknown"}
             /\ other.units <= path.capacity
      /\ other.contract \in Ids(new.contracts)
  BY DEF Sound, SameTerms, SameCluster
<1> QED BY <1>4, <1>5, <1>6 DEF Sound

LEMMA UpheldStays ==
  ASSUME NEW old, NEW new, SameCluster(old, new), NEW grant, NEW other,
         SameTerms(grant, other), other.epoch = grant.epoch, Upheld(old, grant)
  PROVE  Upheld(new, other)
BY SoundStays DEF Upheld, SameCluster

LEMMA CalmUpToDate ==
  ASSUME UpToDate(mem), NEW engine, Calm(engine)
  PROVE  UpToDate(engine)
<1>1. ASSUME NEW g \in GrantIds, IsLive(engine.grants[g].state)
      PROVE  Upheld(engine, engine.grants[g])
  <2>1. Upheld(mem, engine.grants[g])
    BY <1>1 DEF Calm, UpToDate
  <2>2. SameTerms(engine.grants[g], engine.grants[g])
    BY DEF SameTerms
  <2> QED BY <2>1, <2>2, UpheldStays DEF Calm
<1> QED BY <1>1 DEF UpToDate

LEMMA NothingToUphold ==
  ASSUME NEW engine, engine.grants = NoGrants
  PROVE  UpToDate(engine)
BY DEF UpToDate, NoGrants, NoGrant, IsLive

LEMMA DownUpToDate == UpToDate(NoEngine)
<1>1. NoEngine.grants = NoGrants
  BY DEF NoEngine
<1> QED BY <1>1, NothingToUphold

\* Where the log takes every append, a handler comes to its last point.
LEMMA RunUpToDate ==
  ASSUME JournalBound = 0, NEW points, UpToDate(Ending(points).mem),
         Completes(points) \/ CrashesIn(points)
  PROVE  UpToDate(mem')
<1>1. CASE Completes(points)
  BY <1>1 DEF Completes, Reached, Ending
<1>2. CASE CrashesIn(points)
  BY <1>2, DownUpToDate DEF CrashesIn, Falls
<1> QED BY <1>1, <1>2

LEMMA CalmRun ==
  ASSUME JournalBound = 0, UpToDate(mem), NEW points, Calm(Ending(points).mem),
         Completes(points) \/ CrashesIn(points)
  PROVE  UpToDate(mem')
BY CalmUpToDate, RunUpToDate

LEMMA Endings ==
  \A p, q, r, s :
    /\ Ending(<< p >>) = p
    /\ Ending(<< p, q >>) = q
    /\ Ending(<< p, q, r >>) = r
    /\ Ending(<< p >> \o << q >>) = q
    /\ Ending(<< p >> \o << q, r >>) = r
    /\ Ending(<< p, q >> \o << r >>) = r
    /\ Ending(<< p, q >> \o << r, s >>) = s
<1> SUFFICES ASSUME NEW p, NEW q, NEW r, NEW s
             PROVE  /\ Ending(<< p >>) = p
                    /\ Ending(<< p, q >>) = q
                    /\ Ending(<< p, q, r >>) = r
                    /\ Ending(<< p >> \o << q >>) = q
                    /\ Ending(<< p >> \o << q, r >>) = r
                    /\ Ending(<< p, q >> \o << r >>) = r
                    /\ Ending(<< p, q >> \o << r, s >>) = s
  OBVIOUS
<1>1. Ending(<< p >>) = p /\ Ending(<< p, q >>) = q /\ Ending(<< p, q, r >>) = r
  BY DEF Ending
<1>2. Ending(<< p >> \o << q >>) = q
  BY DEF Ending
<1>3. Ending(<< p >> \o << q, r >>) = r
  BY DEF Ending
<1>4. Ending(<< p, q >> \o << r >>) = r
  BY DEF Ending
<1>5. Ending(<< p, q >> \o << r, s >>) = s
  BY DEF Ending
<1> QED BY <1>1, <1>2, <1>3, <1>4, <1>5

-------------------------------------------------------------------------------
(* Grants that end or stay *)

LEMMA TerminatedEnds ==
  ASSUME NEW grant \in Grant, NEW state, IsTerminal(state)
  PROVE  ~IsLive(Terminated(grant, state).state)
BY DEF Terminated, IsTerminal, IsLive, Grant

LEMMA RevalidatedUpheld ==
  ASSUME NEW engine, NEW grant \in Grant, IsLive(Revalidated(engine, grant).state)
  PROVE  Upheld(engine, Revalidated(engine, grant))
<1> DEFINE new == Revalidated(engine, grant)
<1>1. CASE Sound(engine, grant)
  <2> DEFINE epoch == engine.spec.epoch
             degraded == grant.degraded \/ "degrades" \in GrantEffects(engine, grant)
  <2>1. new = [grant EXCEPT !.state = "Committed", !.commit = "Committed",
                            !.epoch = epoch, !.degraded = degraded]
    BY <1>1 DEF Revalidated
  <2> HIDE DEF new, degraded, epoch
  <2>2. SameTerms(grant, new) /\ new.epoch = epoch
    BY <2>1 DEF Grant, SameTerms
  <2>3. SameCluster(engine, engine)
    BY DEF SameCluster
  <2>4. Sound(engine, new)
    BY <1>1, <2>2, <2>3, SoundStays
  <2> QED BY <2>2, <2>4 DEF Upheld, new, epoch
<1>2. CASE ~Sound(engine, grant)
  <2>1. new = Terminated(grant, "Revoked")
    BY <1>2 DEF Revalidated
  <2> QED BY <2>1, TerminatedEnds DEF IsTerminal
<1> QED BY <1>1, <1>2

\* A grant that is counted in order has fewer before it than there are.
LEMMA AllEarly ==
  ASSUME NEW targets \in SUBSET GrantIds
  PROVE  Earliest(targets, Cardinality(targets)) = targets
<1>1. IsFiniteSet(targets) /\ targets \subseteq Nat
  BY FS_Subset, EligibilityAssumption
<1>2. ASSUME NEW g \in targets
      PROVE  Cardinality({h \in targets : h < g}) < Cardinality(targets)
  <2> DEFINE before == {h \in targets : h < g}
  <2>1. before \subseteq targets /\ g \notin before
    BY <1>1
  <2>2. before # targets
    BY <2>1
  <2> HIDE DEF before
  <2>3. /\ Cardinality(before) <= Cardinality(targets)
        /\ Cardinality(before) = Cardinality(targets) => before = targets
    BY <1>1, <2>1, FS_Subset
  <2>4. Cardinality(before) \in Nat /\ Cardinality(targets) \in Nat
    BY <1>1, <2>1, FS_Subset, FS_CardinalityType
  <2>5. Cardinality(before) < Cardinality(targets)
    BY <2>2, <2>3, <2>4
  <2> QED BY <2>5 DEF before
<1> QED BY <1>2 DEF Earliest

LEMMA SweepEnds ==
  ASSUME NEW engine \in Engine, NEW image, NEW targets \in SUBSET GrantIds,
         NEW rows \in [GrantIds -> Grant]
  PROVE  LET sweep == Sweep(engine, image, targets, rows)
             last  == Ending(sweep).mem
         IN  /\ \A g \in GrantIds :
                  last.grants[g] = IF g \in targets THEN rows[g] ELSE engine.grants[g]
             /\ last.spec = engine.spec /\ last.contracts = engine.contracts
             /\ sweep \in Seq({sweep[n] : n \in 1..Len(sweep)}) /\ Len(sweep) >= 1
<1> DEFINE k == Cardinality(targets) + 1
           sweep == Sweep(engine, image, targets, rows)
           S == {sweep[n] : n \in 1..Len(sweep)}
           done == Earliest(targets, k - 1)
           grants == Rewritten(engine.grants, done, rows)
           new == [engine EXCEPT !.grants = grants]
           last == Ending(sweep).mem
<1>1. k \in Nat /\ k >= 1 /\ k - 1 = Cardinality(targets) /\ k \in 1..k
  BY CountType
<1>2. Len(sweep) = k
  BY <1>1 DEF Sweep
<1>3. last = [engine EXCEPT !.grants = Rewritten(@, done, rows)]
  <2>1. sweep[k] = Point([engine EXCEPT !.grants = Rewritten(@, done, rows)],
                         WriteGrants(image, done, rows, engine.tick), None)
    BY <1>1 DEF Sweep
  <2> HIDE DEF sweep, k, done
  <2> QED BY <1>2, <2>1 DEF Ending, Point
<1>4. done = targets
  BY <1>1, AllEarly
<1>5. sweep \in Seq(S)
  <2>1. sweep \in [1..k -> S]
    <3>1. sweep = [n \in 1..k |-> sweep[n]]
      BY DEF Sweep
    <3> HIDE DEF sweep, k
    <3> QED BY <1>2, <3>1
  <2> HIDE DEF sweep, k, S
  <2> QED BY <1>1, <2>1, PointSequence
<1> HIDE DEF done, sweep, k
<1>6. /\ engine.grants \in [GrantIds -> Grant]
      /\ \A g \in GrantIds : grants[g] = IF g \in targets THEN rows[g] ELSE engine.grants[g]
  BY <1>4, EngineFields DEF Rewritten
<1>7. last = new
  BY <1>3 DEF Engine
<1> HIDE DEF last, grants
<1>8. last.grants = grants /\ last.spec = engine.spec /\ last.contracts = engine.contracts
  BY <1>7 DEF Engine
<1> QED BY <1>1, <1>2, <1>5, <1>6, <1>8 DEF last, sweep

-------------------------------------------------------------------------------
(* Live grants under sweeps, commands and ticks *)

LEMMA FenceAllUpToDate ==
  ASSUME Inv, UpToDate(mem), JournalBound = 0, FenceAll
  PROVE  UpToDate(mem')
<1>. DEFINE targets == Holders(mem.grants)
            rows == AllTerminated(mem, "Fenced")
            points == Sweep(mem, disk, targets, rows)
            last == Ending(points).mem
<1>1. mem \in Engine /\ mem.grants \in [GrantIds -> Grant]
  BY EngineFields DEF Inv, CoreInv
<1>2. "Fenced" \in GrantStates /\ IsTerminal("Fenced")
  BY DEF GrantStates, IsTerminal
<1>3. rows \in [GrantIds -> Grant] /\ targets \in SUBSET GrantIds
  BY <1>1, <1>2, TerminatedType DEF AllTerminated, Holders
<1>4. \A g \in GrantIds : ~IsLive(rows[g].state)
  BY <1>1, <1>2, TerminatedEnds DEF AllTerminated
<1>5. Completes(points) \/ CrashesIn(points)
  BY DEF FenceAll, Performs
<1> HIDE DEF rows, targets
<1>6. /\ \A g \in GrantIds :
           last.grants[g] = IF g \in targets THEN rows[g] ELSE mem.grants[g]
      /\ last.spec = mem.spec /\ last.contracts = mem.contracts
      /\ points \in Seq({points[n] : n \in 1..Len(points)}) /\ Len(points) >= 1
  BY <1>1, <1>3, SweepEnds
<1> HIDE DEF last, points
<1>7. Calm(last)
  BY <1>4, <1>6 DEF Calm, SameCluster
<1> QED BY <1>5, <1>7, CalmRun DEF last

\* A sweep over the live grants leaves none that is not upheld.
LEMMA RevalidationUpToDate ==
  ASSUME NEW engine \in Engine, NEW image, engine.grants = mem.grants
  PROVE  LET sweep == Sweep(engine, image, Live(mem.grants), AllRevalidated(engine))
         IN  /\ UpToDate(Ending(sweep).mem)
             /\ sweep \in Seq({sweep[n] : n \in 1..Len(sweep)}) /\ Len(sweep) >= 1
<1>. DEFINE targets == Live(mem.grants)
            rows == AllRevalidated(engine)
            points == Sweep(engine, image, targets, rows)
            last == Ending(points).mem
<1>1. mem.grants \in [GrantIds -> Grant]
  BY EngineFields
<1>2. rows \in [GrantIds -> Grant] /\ targets \in SUBSET GrantIds
  BY AllRevalidatedType DEF Live
<1>3. \A g \in GrantIds : rows[g] = Revalidated(engine, mem.grants[g])
  BY DEF AllRevalidated
<1>4. \A g \in GrantIds : IsLive(mem.grants[g].state) => g \in targets
  BY DEF Live
<1> HIDE DEF rows, targets
<1>5. /\ \A g \in GrantIds :
           last.grants[g] = IF g \in targets THEN rows[g] ELSE engine.grants[g]
      /\ last.spec = engine.spec /\ last.contracts = engine.contracts
      /\ points \in Seq({points[n] : n \in 1..Len(points)}) /\ Len(points) >= 1
  BY <1>2, SweepEnds
<1> HIDE DEF last, points
<1>6. ASSUME NEW g \in GrantIds, IsLive(last.grants[g].state)
      PROVE  Upheld(last, last.grants[g])
  <2>1. last.grants[g] = Revalidated(engine, mem.grants[g])
    BY <1>3, <1>4, <1>5, <1>6
  <2>2. mem.grants[g] \in Grant
    BY <1>1
  <2>3. Upheld(engine, last.grants[g])
    BY <1>6, <2>1, <2>2, RevalidatedUpheld
  <2>4. SameCluster(engine, last) /\ SameTerms(last.grants[g], last.grants[g])
    BY <1>5 DEF SameCluster, SameTerms
  <2> QED BY <2>3, <2>4, UpheldStays
<1>7. UpToDate(last)
  BY <1>6 DEF UpToDate
<1> QED BY <1>5, <1>7 DEF last, points, rows, targets

LEMMA RevalidateUpToDate ==
  ASSUME Inv, JournalBound = 0, Revalidate
  PROVE  UpToDate(mem')
<1>. DEFINE points == Sweep(mem, disk, Live(mem.grants), AllRevalidated(mem))
<1>1. mem \in Engine /\ (Completes(points) \/ CrashesIn(points))
  BY DEF Inv, CoreInv, Revalidate, Performs
<1>2. UpToDate(Ending(points).mem)
  BY <1>1, RevalidationUpToDate
<1> HIDE DEF points
<1> QED BY <1>1, <1>2, RunUpToDate

LEMMA AdministerUpToDate ==
  ASSUME Inv, UpToDate(mem), Undisturbed, NEW command \in Commands, Administer(command)
  PROVE  UpToDate(mem')
<1>. DEFINE written == WriteCommand(disk, command, mem.tick)
            changed == [mem EXCEPT !.spec = SpecAfter(@, command),
                                   !.contracts = ContractsAfter(@, command)]
            sweep == Sweep(changed, written, Live(mem.grants), AllRevalidated(changed))
            first == Point(mem, disk, None)
            points == CommandPoints(command)
<1>1. /\ mem \in Engine /\ command \in Command /\ JournalBound = 0
      /\ Completes(points) \/ CrashesIn(points)
      /\ command.kind \notin {"UpsertContract", "RemoveContract"}
  BY CoreAssumption DEF Inv, CoreInv, Undisturbed, Administer, Performs
<1>2. CASE ~Accepts(mem.spec, mem.contracts, command)
  <2> DEFINE last == Point(mem, written, None)
  <2>1. points = << first >> \o << last >>
    BY <1>2 DEF CommandPoints
  <2>2. last.mem = mem
    BY DEF Point
  <2> HIDE DEF first, last, points
  <2>3. Ending(points).mem = mem
    BY <2>1, <2>2, Endings
  <2>4. Calm(Ending(points).mem)
    BY <2>3 DEF Calm, SameCluster
  <2> QED BY <1>1, <2>4, CalmRun
<1>3. CASE Accepts(mem.spec, mem.contracts, command) /\ ~MovesAuthority(command)
  <2> DEFINE last == Point(changed, written, None)
  <2>1. points = << first >> \o << last >>
    BY <1>3 DEF CommandPoints
  <2>2. last.mem = changed
    BY DEF Point
  <2>3. /\ changed.spec = SpecAfter(mem.spec, command) /\ changed.grants = mem.grants
        /\ changed.contracts = ContractsAfter(mem.contracts, command)
    BY <1>1 DEF Engine
  <2> HIDE DEF changed
  <2>4. changed.contracts = mem.contracts
    BY <1>1, <2>3 DEF ContractsAfter
  <2>5. changed.spec.members = mem.spec.members /\ changed.spec.paths = mem.spec.paths
        /\ changed.spec.epoch = mem.spec.epoch
    <3>1. /\ MembersAfter(mem.spec.members, command) = mem.spec.members
          /\ PathsAfter(mem.spec.paths, command) = mem.spec.paths
      BY <1>3 DEF MovesAuthority, MembersAfter, PathsAfter
    <3>2. mem.spec \in ClusterSpecs
      BY <1>1, EngineFields
    <3> QED BY <2>3, <3>1, <3>2 DEF SpecAfter, ClusterSpecs
  <2> HIDE DEF first, last, points
  <2>6. Ending(points).mem = changed
    BY <2>1, <2>2, Endings
  <2>7. Calm(Ending(points).mem)
    BY <2>3, <2>4, <2>5, <2>6 DEF Calm, SameCluster
  <2> QED BY <1>1, <2>7, CalmRun
<1>4. CASE Accepts(mem.spec, mem.contracts, command) /\ MovesAuthority(command)
  <2>1. points = << first >> \o sweep
    BY <1>4 DEF CommandPoints
  <2>2. changed \in Engine /\ changed.grants = mem.grants
    BY <1>1, <1>4, CommandedType
  <2> HIDE DEF changed, written
  <2> DEFINE R == {sweep[n] : n \in 1..Len(sweep)}
             S == R \cup {first}
  <2>3. /\ UpToDate(Ending(sweep).mem) /\ sweep \in Seq(R) /\ Len(sweep) >= 1
    BY <2>2, RevalidationUpToDate
  <2> HIDE DEF sweep, first, points, R
  <2>4. sweep \in Seq(S) /\ first \in S
    BY <2>3
  <2> HIDE DEF S
  <2>5. Ending(points) = Ending(sweep)
    BY <2>1, <2>3, <2>4, ConsAt DEF Ending
  <2> QED BY <1>1, <2>3, <2>5, RunUpToDate
<1> QED BY <1>2, <1>3, <1>4

LEMMA ExpiryUpToDate ==
  ASSUME mem \in Engine, NEW tick \in Nat
  PROVE  Calm(Ending(Expiry([mem EXCEPT !.tick = tick], disk)).mem)
<1>. DEFINE engine == [mem EXCEPT !.tick = tick]
            expired == Expired(engine)
            rows == AllTerminated(engine, "Expired")
            k == 2 * Cardinality(expired) + 1
            ended == Earliest(expired, k \div 2)
            noted == Earliest(expired, (k - 1) \div 2)
            rebound == Rebound(engine, noted)
            next == [engine EXCEPT !.grants = Rewritten(@, ended, rows),
                                   !.attempts = rebound]
            points == Expiry(engine, disk)
            last == Ending(points).mem
<1>1. /\ engine \in Engine /\ engine.grants = mem.grants /\ engine.spec = mem.spec
      /\ engine.contracts = mem.contracts
  BY EngineFields DEF Engine
<1>2. expired \in SUBSET GrantIds
  BY DEF Expired, Live
<1>3. k \in Nat /\ k >= 1
  BY <1>2, CountType
<1>4. Len(points) = k
  BY <1>3 DEF Expiry
<1>5. last = next
  <2>1. points[k] = Point(next,
                          WriteAttempts(WriteGrants(disk, ended, rows, engine.tick),
                                        AttemptsOf(engine.grants, noted), rebound,
                                        engine.tick), None)
    <3>1. 2 * Cardinality(expired) + 1 \in 1..2 * Cardinality(expired) + 1
      BY <1>3
    <3> QED BY <3>1 DEF Expiry
  <2> HIDE DEF points, k, next, ended, rows, noted, rebound, engine
  <2> QED BY <1>4, <2>1 DEF Ending, Point
<1>6. mem.grants \in [GrantIds -> Grant]
  BY EngineFields
<1>7. \A g \in GrantIds : ~IsLive(rows[g].state)
  BY <1>1, <1>6, TerminatedEnds DEF AllTerminated, IsTerminal
<1> HIDE DEF engine, ended, rows, rebound, last, points
<1>8. /\ next.grants = Rewritten(mem.grants, ended, rows)
      /\ next.spec = mem.spec /\ next.contracts = mem.contracts
  BY <1>1 DEF Engine
<1> HIDE DEF next
<1>9. \A g \in GrantIds : IsLive(last.grants[g].state) => last.grants[g] = mem.grants[g]
  BY <1>5, <1>6, <1>7, <1>8 DEF Rewritten
<1>10. Calm(last)
  BY <1>5, <1>8, <1>9 DEF Calm, SameCluster
<1> QED BY <1>10 DEF last, points, engine

LEMMA AdvanceTickUpToDate ==
  ASSUME Inv, UpToDate(mem), JournalBound = 0, NEW tick \in 0..MaxTick, AdvanceTick(tick)
  PROVE  UpToDate(mem')
<1>. DEFINE points == Expiry([mem EXCEPT !.tick = tick], disk)
<1>1. mem \in Engine /\ tick \in Nat /\ (Completes(points) \/ CrashesIn(points))
  BY CoreAssumption DEF Inv, CoreInv, AdvanceTick, Performs
<1>2. Calm(Ending(points).mem)
  BY <1>1, ExpiryUpToDate
<1>. HIDE DEF points
<1>. QED BY <1>1, <1>2, CalmRun

LEMMA RoundUpToDate ==
  ASSUME Inv, UpToDate(mem), JournalBound = 0,
         Compact \/ HousekeepingRound \/ CompactingRound \/ CrashingRound
  PROVE  UpToDate(mem')
<1>1. HousekeepingRound \/ CrashingRound
  BY DEF Compact, CompactingRound, FullAfterRound, Full
<1>2. Completes(RoundPoints) \/ CrashesIn(RoundPoints)
  BY <1>1 DEF HousekeepingRound, CrashingRound
<1>. DEFINE tick == mem.tick + 1
<1>3. mem \in Engine /\ tick \in Nat
  BY EngineFields DEF Inv, CoreInv
<1>4. RoundPoints = Expiry([mem EXCEPT !.tick = tick], disk)
  BY <1>3 DEF RoundPoints, Engine
<1>. HIDE DEF tick
<1>5. Calm(Ending(RoundPoints).mem)
  BY <1>3, <1>4, ExpiryUpToDate
<1>. QED BY <1>2, <1>5, CalmRun

-------------------------------------------------------------------------------
(* One live grant *)

LEMMA GrantContracts ==
  ASSUME NEW engine \in Engine, NEW id, NEW grant
  PROVE  WithGrant(engine, id, grant).contracts = engine.contracts
BY DEF Engine, WithGrant

\* One grant of the engine is another, which is not live or is upheld.
LEMMA OneCalm ==
  ASSUME NEW engine, engine.spec = mem.spec, engine.contracts = mem.contracts,
         NEW id, NEW grant,
         \A g \in GrantIds : engine.grants[g] = IF g \in {id} THEN grant ELSE mem.grants[g],
         IsLive(grant.state) => grant = mem.grants[id] \/ Upheld(mem, grant)
  PROVE  Calm(engine)
BY DEF Calm, SameCluster

LEMMA SameCalm ==
  ASSUME NEW engine, engine.spec = mem.spec, engine.contracts = mem.contracts,
         engine.grants = mem.grants
  PROVE  Calm(engine)
BY DEF Calm, SameCluster

LEMMA ReleaseUpToDate ==
  ASSUME Inv, UpToDate(mem), JournalBound = 0,
         NEW id \in GrantIds \cup {0}, NEW attempt \in Attempts \cup {None}, NEW lease,
         Release(id, attempt, lease)
  PROVE  UpToDate(mem')
<1>. DEFINE target == Reaches(id, attempt)
<1>1. target \in GrantIds \cup {0} /\ mem \in Engine
  BY ReachesType DEF Inv, CoreInv
<1>2. target # 0 /\ Performs(ReleasePoints(target))
  BY DEF Release
<1>. HIDE DEF target
<1>. DEFINE owner    == mem.grants[target].attempt
            grant    == Terminated(mem.grants[target], "Released")
            released == WithGrant(mem, target, grant)
            marked   == [released EXCEPT !.attempts[owner].released = TRUE]
            written  == WriteGrant(disk, target, grant, mem.tick)
            noted    == WriteAttempt(written, owner, marked.attempts[owner], mem.tick)
            first    == Point(mem, disk, "Indeterminate")
            middle   == Point(marked, written, "Indeterminate")
            last     == Point(marked, noted, "Granted")
            done     == Point(released, written, "Granted")
            points   == ReleasePoints(target)
<1>3. target \in GrantIds /\ mem.grants[target] \in Grant
  BY <1>1, <1>2, EngineFields
<1>4. grant \in Grant /\ ~IsLive(grant.state)
  BY <1>3, TerminatedType, TerminatedEnds DEF GrantStates, IsTerminal
<1>5. points \in {<< first, middle, last >>, << first, done >>}
  <2>1. [mem EXCEPT !.grants[target] = grant] = released
    BY DEF WithGrant
  <2> HIDE DEF released
  <2> QED BY <2>1 DEF ReleasePoints
<1> HIDE DEF grant, points
<1>6. /\ released \in Engine /\ released.spec = mem.spec /\ released.contracts = mem.contracts
      /\ \A g \in GrantIds :
           released.grants[g] = IF g \in {target} THEN grant ELSE mem.grants[g]
  BY <1>1, <1>3, <1>4, EngineGrant, GrantContracts
<1> HIDE DEF released
<1>7. /\ marked.grants = released.grants /\ marked.spec = released.spec
      /\ marked.contracts = released.contracts
  BY <1>6 DEF Engine
<1>8. last.mem = marked /\ done.mem = released
  BY DEF Point
<1> HIDE DEF marked, first, middle, last, done
<1>9. Calm(released)
  BY <1>4, <1>6, OneCalm
<1>10. Calm(marked)
  BY <1>4, <1>6, <1>7, OneCalm
<1>11. Ending(points).mem = marked \/ Ending(points).mem = released
  BY <1>5, <1>8, Endings
<1>12. Completes(points) \/ CrashesIn(points)
  BY <1>2 DEF Performs, points
<1>. QED BY <1>9, <1>10, <1>11, <1>12, CalmRun

LEMMA CancelUpToDate ==
  ASSUME Inv, UpToDate(mem), JournalBound = 0,
         NEW id \in GrantIds \cup {0}, NEW named \in Attempts \cup {None}, Cancel(id, named)
  PROVE  UpToDate(mem')
<1>. DEFINE target   == Reaches(id, named)
            held     == target # 0 /\ HoldsCapacity(mem.grants[target].state)
            revoked  == Terminated(mem.grants[target], "Revoked")
            engine   == IF held THEN [mem EXCEPT !.grants[target] = revoked] ELSE mem
            image    == IF held THEN WriteGrant(disk, target, revoked, mem.tick) ELSE disk
            attempt  == IF named # None /\ mem.attempts[named].known THEN named
                        ELSE mem.grants[target].attempt
            marked   == [engine EXCEPT !.attempts[attempt].cancelled = TRUE]
            noted    == WriteCancel(image, attempt, mem.tick)
            first    == Point(mem, disk, "Indeterminate")
            middle   == Point(engine, image, "Indeterminate")
            last     == Point(marked, noted, "Cancelled")
            done     == Point(engine, image, "Cancelled")
            revoking == IF held THEN << first >> ELSE << >>
            rest     == IF mem.attempts[attempt].known THEN << middle, last >> ELSE << done >>
            points   == CancelPoints(id, named)
<1>1. target \in GrantIds \cup {0} /\ mem \in Engine
  BY ReachesType DEF Inv, CoreInv
<1>2. Completes(points) \/ CrashesIn(points)
  BY DEF Cancel, Answers
<1>3. points = revoking \o rest
  BY DEF CancelPoints
<1>4. /\ engine \in Engine /\ engine.spec = mem.spec /\ engine.contracts = mem.contracts
      /\ Calm(engine)
  <2>1. CASE held
    <3>1. target \in GrantIds /\ mem.grants[target] \in Grant
      BY <1>1, <2>1, EngineFields
    <3>2. revoked \in Grant /\ ~IsLive(revoked.state)
      BY <3>1, TerminatedType, TerminatedEnds DEF GrantStates, IsTerminal
    <3>3. engine = WithGrant(mem, target, revoked)
      BY <2>1 DEF WithGrant
    <3> DEFINE next == WithGrant(mem, target, revoked)
    <3> HIDE DEF engine, held, target, revoked
    <3>4. /\ next \in Engine /\ next.spec = mem.spec
          /\ \A g \in GrantIds :
               next.grants[g] = IF g \in {target} THEN revoked ELSE mem.grants[g]
      BY <1>1, <3>1, <3>2, EngineGrant
    <3>5. next.contracts = mem.contracts
      BY <1>1, GrantContracts
    <3>6. engine = next
      BY <3>3
    <3> HIDE DEF next
    <3> QED BY <3>2, <3>4, <3>5, <3>6, OneCalm
  <2>2. CASE ~held
    <3>1. engine = mem
      BY <2>2
    <3> HIDE DEF engine
    <3> QED BY <1>1, <3>1, SameCalm
  <2> QED BY <2>1, <2>2
<1> HIDE DEF engine, image, held, target, attempt
<1>5. /\ marked.grants = engine.grants /\ marked.spec = engine.spec
      /\ marked.contracts = engine.contracts
  BY <1>4 DEF Engine
<1> HIDE DEF marked, noted
<1>6. Calm(marked)
  BY <1>4, <1>5 DEF Calm, SameCluster
<1>7. last.mem = marked /\ done.mem = engine
  BY DEF Point
<1> HIDE DEF first, middle, last, done
<1>8. points \in {<< first >> \o << middle, last >>, << first >> \o << done >>,
                  << >> \o << middle, last >>, << >> \o << done >>}
  BY <1>3
<1>9. /\ << >> \o << middle, last >> = << middle, last >>
      /\ << >> \o << done >> = << done >>
  OBVIOUS
<1> HIDE DEF points, revoking, rest
<1>10. Ending(points) = last \/ Ending(points) = done
  BY <1>8, <1>9, Endings
<1>. QED BY <1>2, <1>4, <1>6, <1>7, <1>10, CalmRun

LEMMA AcknowledgeUpToDate ==
  ASSUME Inv, Books, UpToDate(mem), JournalBound = 0,
         NEW id \in GrantIds, NEW lease, Acknowledge(id, lease)
  PROVE  UpToDate(mem')
<1>. DEFINE old      == mem.grants[id]
            lifted   == IsQuarantined(old.state)
            grant    == IF lifted THEN Revalidated(mem, old) ELSE old
            engine   == WithGrant(mem, id, grant)
            image    == IF lifted THEN WriteGrant(disk, id, grant, mem.tick) ELSE disk
            acked    == [grant EXCEPT !.acked = TRUE, !.state = "Acknowledged",
                                      !.commit = "Acknowledged"]
            accepted == [grant EXCEPT !.state = "Acknowledged"]
            next     == WithGrant(engine, id, acked)
            written  == WriteGrant(image, id, accepted, mem.tick)
            first    == Point(mem, disk, "Indeterminate")
            waiting  == Point(engine, image, "Indeterminate")
            done     == Point(next, written, GrantOutcome(grant))
            fenced   == Point(engine, image, "Fenced")
            points   == AcknowledgePoints(id)
<1>1. /\ CoreInv /\ Tables /\ mem.grants[id].state # "Absent"
      /\ ~IsTerminal(mem.grants[id].state)
      /\ mem \in Engine /\ (Completes(points) \/ CrashesIn(points))
  BY DEF Inv, CoreInv, Books, Acknowledge
<1>2. points = IF ~lifted THEN << waiting, done >>
               ELSE << first >> \o
                    IF grant.state = "Committed" THEN << waiting, done >> ELSE << fenced >>
  BY Zenon DEF AcknowledgePoints, WithGrant
<1>3. old \in Grant /\ HoldsCapacity(old.state)
  BY <1>1, StandingHolds
<1>4. /\ grant \in Grant
      /\ IsLive(grant.state) => Upheld(mem, grant)
      /\ ~lifted => IsLive(grant.state)
      /\ lifted /\ grant.state # "Committed" => ~IsLive(grant.state)
  <2>1. CASE lifted
    <3>1. grant = Revalidated(mem, old)
      BY <2>1
    <3>2. grant.state = "Committed" \/ grant.state = "Revoked"
      BY <1>1, <1>3, <3>1, RevalidatedType
    <3>3. grant \in Grant
      BY <1>1, <1>3, <3>1, RevalidatedType
    <3>4. IsLive(grant.state) => Upheld(mem, grant)
      BY <1>3, <3>1, RevalidatedUpheld
    <3> HIDE DEF grant
    <3> QED BY <2>1, <3>2, <3>3, <3>4 DEF IsLive
  <2>2. CASE ~lifted
    <3>1. grant = old
      BY <2>2
    <3>2. IsLive(old.state)
      BY <1>3, <2>2 DEF HoldsCapacity, IsLive
    <3>3. Upheld(mem, old)
      BY <3>2 DEF UpToDate
    <3> QED BY <1>3, <2>2, <3>1, <3>2, <3>3
  <2> QED BY <2>1, <2>2
<1> HIDE DEF grant
<1>5. acked \in Grant
  BY <1>4, GrantUpdates, Zenon DEF GrantStates, CommitStates
<1>6. SameTerms(grant, acked) /\ acked.epoch = grant.epoch
  BY <1>4 DEF Grant, SameTerms
<1> HIDE DEF acked
<1>7. /\ engine \in Engine /\ engine.spec = mem.spec /\ engine.contracts = mem.contracts
      /\ \A g \in GrantIds : engine.grants[g] = IF g \in {id} THEN grant ELSE mem.grants[g]
  BY <1>1, <1>4, EngineGrant, GrantContracts
<1> HIDE DEF engine
<1>8. /\ next.spec = mem.spec /\ next.contracts = mem.contracts
      /\ \A g \in GrantIds : next.grants[g] = IF g \in {id} THEN acked ELSE mem.grants[g]
  <2>1. /\ next.spec = engine.spec /\ next.contracts = engine.contracts
        /\ \A g \in GrantIds : next.grants[g] = IF g \in {id} THEN acked ELSE engine.grants[g]
    BY <1>5, <1>7, EngineGrant, GrantContracts
  <2> HIDE DEF next
  <2> QED BY <1>7, <2>1
<1> HIDE DEF next
<1>9. done.mem = next /\ fenced.mem = engine
  BY DEF Point
<1> HIDE DEF first, waiting, done, fenced, points
<1>10. CASE lifted /\ grant.state # "Committed"
  <2>1. points = << first >> \o << fenced >>
    BY <1>2, <1>10
  <2>2. Ending(points).mem = engine
    BY <1>9, <2>1, Endings
  <2>3. Calm(engine)
    BY <1>4, <1>7, <1>10, OneCalm
  <2> QED BY <1>1, <2>2, <2>3, CalmRun
<1>11. CASE ~lifted \/ grant.state = "Committed"
  <2>1. points = << waiting, done >> \/ points = << first >> \o << waiting, done >>
    BY <1>2, <1>11
  <2>2. Ending(points).mem = next
    BY <1>9, <2>1, Endings
  <2>3. Upheld(mem, grant)
    BY <1>4, <1>11 DEF IsLive
  <2>4. SameCluster(mem, mem)
    BY DEF SameCluster
  <2>5. Upheld(mem, acked)
    BY <1>6, <2>3, <2>4, UpheldStays
  <2>6. Calm(next)
    BY <1>8, <2>5, OneCalm
  <2> QED BY <1>1, <2>2, <2>6, CalmRun
<1>. QED BY <1>10, <1>11

-------------------------------------------------------------------------------
(* Grants that are given out *)

\* The path an authorised request is bound to has room for it.
LEMMA RoomOnPath ==
  ASSUME mem \in Engine, Undisturbed, NEW request \in Requests,
         Decision(request).outcome \in Authorising
  PROVE  LET decision == Decision(request)
         IN  /\ decision.path \in Ids(mem.spec.paths)
             /\ decision.units <= mem.spec.paths[decision.path].capacity
<1> DEFINE decision == Decision(request)
           path == decision.path
           pool == PathAt(mem.spec, path).capacity
           rest == PathHolders(mem.grants, path) \ {request.renews}
           taken == UnitsOf(mem.grants, rest)
<1>1. /\ request \in Request /\ mem.spec \in ClusterSpecs
      /\ mem.grants \in [GrantIds -> Grant] /\ Options.capacity /\ EveryRequestBinds
  BY CoreAssumption, EngineFields DEF Undisturbed
<1>2. path = BoundPath(mem.spec, request)
  BY <1>1, Decided
<1>3. path \in Ids(mem.spec.paths)
  BY <1>1, BoundAsked
<1>4. path # 0
  BY <1>1, <1>3, IdsAssumption DEF Ids, ClusterSpecs, Table
<1>5. decision.units \in Nat /\ decision.units <= FreeOnPath(mem, request)
  BY <1>1, <1>4, UnitsGranted
<1>6. pool \in Nat /\ PathAt(mem.spec, path) = mem.spec.paths[path]
  BY <1>1, <1>3, PathAtType DEF PathAt
<1>7. taken \in Nat
  <2>1. Counted(mem.grants) /\ rest \in SUBSET GrantIds
    BY <1>1, GrantsCounted DEF PathHolders, Holders
  <2> HIDE DEF rest
  <2> QED BY <2>1, UnitsType
<1>8. FreeOnPath(mem, request) = IF pool > taken THEN pool - taken ELSE 0
  BY <1>2 DEF FreeOnPath, FreeUnits
<1> HIDE DEF decision, pool, taken, path
<1>9. decision.units <= pool
  BY <1>5, <1>6, <1>7, <1>8
<1> QED BY <1>3, <1>6, <1>9 DEF decision, path, pool

\* What evaluate lets pass is what revalidate_grant asks for.
LEMMA NewUpheld ==
  ASSUME mem \in Engine, Undisturbed, NEW request \in Requests,
         Decision(request).outcome \in Authorising
  PROVE  Upheld(mem, NewGrant(request, Decision(request)))
<1> DEFINE decision == Decision(request)
           contract == mem.contracts[request.contract]
           source   == MemberAt(mem.spec, request.source)
           target   == MemberAt(mem.spec, request.target)
           path     == mem.spec.paths[decision.path]
           grant    == NewGrant(request, decision)
<1>1. request \in Request /\ mem.spec \in ClusterSpecs
  BY CoreAssumption, EngineFields
<1>2. /\ request.contract \in Ids(mem.contracts)
      /\ decision.path = BoundPath(mem.spec, request)
      /\ source.lifecycle # "Removed" /\ target.lifecycle # "Removed"
      /\ "fails" \notin MemberEffects(mem, request, contract)
      /\ "fails" \notin BoundPathEffects(mem, request, contract)
  BY <1>1, Decided
<1>3. decision.path \in Ids(mem.spec.paths) /\ decision.units <= path.capacity
  BY RoomOnPath
<1>4. decision.path # 0 /\ PathAt(mem.spec, decision.path) = path
  BY <1>1, <1>3, IdsAssumption DEF PathAt, Ids, ClusterSpecs, Table
<1>5. /\ grant.contract = request.contract
      /\ grant.source = request.source /\ grant.target = request.target
      /\ grant.sourceGen = source.generation /\ grant.targetGen = target.generation
      /\ grant.sourceDigest = source.digest /\ grant.targetDigest = target.digest
      /\ grant.path = decision.path
      /\ grant.pathGen = PathAt(mem.spec, decision.path).generation
      /\ grant.units = decision.units /\ grant.epoch = mem.spec.epoch
  BY DEF NewGrant
<1> HIDE DEF decision, grant
<1>6. /\ MemberUnchanged(mem.spec, grant.source, grant.sourceGen, grant.sourceDigest)
      /\ MemberUnchanged(mem.spec, grant.target, grant.targetGen, grant.targetDigest)
  BY <1>2, <1>5 DEF MemberUnchanged
<1>7. path.state \notin {"Down", "Unknown"}
  <2> DEFINE state == path.state
  <2>1. PathEffect(contract, state) # "fails"
    BY <1>2, <1>4 DEF BoundPathEffects, PathEffects
  <2> HIDE DEF state, contract
  <2>2. state \notin {"Down", "Unknown"}
    BY <2>1 DEF PathEffect
  <2> QED BY <2>2 DEF state
<1>8. "fails" \notin GrantEffects(mem, grant)
  <2>1. \A m \in {request.source, request.target} :
          LifecycleEffect(contract, MemberAt(mem.spec, m).lifecycle)
            \in MemberEffects(mem, request, contract)
    BY DEF MemberEffects
  <2> QED BY <1>2, <1>5, <2>1 DEF GrantEffects, Participants
<1>9. Sound(mem, grant)
  <2>1. /\ grant.path \in Ids(mem.spec.paths) /\ mem.spec.paths[grant.path] = path
        /\ path.generation = grant.pathGen /\ grant.units <= path.capacity
        /\ grant.contract \in Ids(mem.contracts)
    BY <1>2, <1>3, <1>4, <1>5
  <2> HIDE DEF path
  <2> QED BY <1>6, <1>7, <1>8, <2>1 DEF Sound
<1> QED BY <1>5, <1>9 DEF Upheld, grant, decision

LEMMA IssueUpToDate ==
  ASSUME Inv, UpToDate(mem), Undisturbed, NEW request \in Requests, NEW view,
         Issue(request, view)
  PROVE  UpToDate(mem')
<1>. DEFINE decision == Decision(request)
            id       == mem.serial + 1
            counter  == Greatest(mem.counter, id)
            minted   == [mem EXCEPT !.serial = id, !.counter = counter]
            grant    == NewGrant(request, decision)
            row      == [grant EXCEPT !.state = "Prepared", !.commit = "Prepared"]
            prepared == WriteGrant(disk, id, row, mem.tick)
            commit   == WriteGrant(prepared, id, grant, mem.tick)
            digest   == [request |-> request, view |-> view]
            attempt  == [NoAttempt EXCEPT !.known = TRUE, !.grant = id,
                                          !.outcome = decision.outcome, !.digest = digest]
            held     == [minted EXCEPT !.grants[id] = grant,
                                       !.attempts[request.attempt] = attempt]
            noted    == WriteAttempt(commit, request.attempt, attempt, mem.tick)
            p1 == Point(minted, disk, "Indeterminate")
            p2 == Point(minted, prepared, "Indeterminate")
            p3 == Point(minted, disk, "Refused")
            p4 == Point(minted, commit, "Refused")
            p5 == Point(held, commit, "Refused")
            p6 == Point(held, noted, decision.outcome)
            points == GrantPoints(request, view, decision)
<1>1. /\ mem \in Engine /\ mem.serial \in Nat /\ mem.counter \in Nat /\ id \in GrantIds
      /\ mem.grants \in [GrantIds -> Grant]
  BY EngineFields DEF Inv, CoreInv, Issue
<1>2. Completes(points) \/ CrashesIn(points)
  BY DEF Issue, Answers
<1>3. Upheld(mem, grant)
  BY <1>1, NewUpheld DEF Issue
<1>4. points \in {<< p3 >>, << p1, p2 >> \o << p4 >>, << p1, p2 >> \o << p5, p6 >>}
  <2>1. [mem EXCEPT !.serial = id, !.counter = Greatest(@, id)] = minted
    BY <1>1 DEF Engine, minted, counter
  <2>. QED BY <2>1 DEF GrantPoints
<1>. HIDE DEF points, decision, grant, attempt, prepared, commit, noted, counter
<1>5. /\ minted.grants = mem.grants /\ minted.spec = mem.spec
      /\ minted.contracts = mem.contracts
  BY <1>1 DEF Engine
<1>6. /\ held.spec = mem.spec /\ held.contracts = mem.contracts
      /\ \A g \in GrantIds : held.grants[g] = IF g \in {id} THEN grant ELSE mem.grants[g]
  <2>1. DOMAIN minted = DOMAIN mem /\ {"grants", "spec", "contracts", "attempts"} \subseteq DOMAIN mem
    BY <1>1 DEF Engine
  <2> HIDE DEF minted
  <2>2. /\ held.spec = minted.spec /\ held.contracts = minted.contracts
        /\ held.grants = [minted.grants EXCEPT ![id] = grant]
    BY <2>1
  <2> HIDE DEF held, id
  <2> QED BY <1>1, <1>5, <2>2
<1>7. p3.mem = minted /\ p4.mem = minted /\ p6.mem = held
  BY DEF Point
<1> HIDE DEF p1, p2, p3, p4, p5, p6, minted, held, id
<1>8. Calm(minted)
  BY <1>5, SameCalm
<1>9. Calm(held)
  BY <1>3, <1>6, OneCalm
<1>10. Ending(points) \in {p3, p4, p6}
  <2>1. /\ Ending(<< p3 >>) = p3 /\ Ending(<< p1, p2 >> \o << p4 >>) = p4
        /\ Ending(<< p1, p2 >> \o << p5, p6 >>) = p6
    BY Endings
  <2> QED BY <1>4, <2>1
<1>11. Calm(Ending(points).mem)
  BY <1>7, <1>8, <1>9, <1>10
<1> QED BY <1>2, <1>11, CalmRun DEF Undisturbed

LEMMA RenewUpToDate ==
  ASSUME Inv, Pools, UpToDate(mem), Undisturbed, NEW request \in Requests, NEW view,
         Renew(request, view)
  PROVE  UpToDate(mem')
<1>. DEFINE decision == Decision(request)
            id       == request.renews
            old      == mem.grants[id]
            expiry   == IF request.lease = 0 THEN 0 ELSE mem.tick + request.lease
            epoch    == mem.spec.epoch
            degraded == decision.outcome = "Degraded"
            renewed  == [old EXCEPT !.requested = request.units, !.units = decision.units,
                                    !.expiry = expiry, !.epoch = epoch,
                                    !.degraded = degraded]
            next     == WithGrant(mem, id, renewed)
            written  == WriteGrant(disk, id, [renewed EXCEPT !.state = "Committed"], mem.tick)
            points   == RenewPoints(request, decision)
            first    == Point(mem, disk, "Indeterminate")
            done     == Point(next, written, decision.outcome)
<1>1. /\ Renews(request) /\ decision.outcome \in Authorising
      /\ mem \in Engine /\ mem.grants \in [GrantIds -> Grant] /\ mem.tick \in Nat
      /\ mem.spec \in ClusterSpecs /\ (Completes(points) \/ CrashesIn(points))
  BY EngineFields DEF Inv, CoreInv, Renew, Performs
<1>2. points = << first, done >>
  <2>1. [mem EXCEPT !.grants[id] = renewed] = next
    BY DEF WithGrant
  <2>. QED BY <2>1 DEF RenewPoints
<1>3. request \in Request
  BY CoreAssumption
<1>4. id \in GrantIds /\ request.units \in Nat /\ request.lease \in Nat /\ id # 0
  BY <1>1, <1>3 DEF Request, Renews
<1>5. /\ decision.units \in Nat /\ old.state # "Absent" /\ old \in Grant
      /\ Founded(old, mem.spec) /\ RenewsOnPath /\ JournalBound = 0
  BY <1>1, <1>3, <1>4, DecisionType DEF Pools, Holdings, Undisturbed
<1>6. old.attempt = request.attempt /\ decision.path \in Bindings(request)
  BY <1>1, <1>3, <1>4, Decided, BoundAsked
<1>7. old.path = decision.path
  <2>1. PICK asking \in Requests :
          /\ asking.renews = 0 /\ asking.attempt = old.attempt
          /\ old.path \in Bindings(asking)
    BY <1>5 DEF Founded, AskedFor
  <2> QED BY <1>4, <1>5, <1>6, <2>1 DEF RenewsOnPath
<1>8. /\ decision.path \in Ids(mem.spec.paths)
      /\ decision.units <= mem.spec.paths[decision.path].capacity
  BY <1>1, RoomOnPath
<1>9. expiry \in Nat /\ epoch \in Nat /\ degraded \in BOOLEAN
  BY <1>1, <1>4 DEF ClusterSpecs
<1>. HIDE DEF decision, id, old, expiry, epoch, degraded, points
<1>10. renewed \in Grant
  BY <1>4, <1>5, <1>9, GrantUpdates
<1>11. /\ renewed.state = old.state /\ renewed.epoch = epoch
       /\ renewed.contract = old.contract
       /\ renewed.source = old.source /\ renewed.target = old.target
       /\ renewed.sourceGen = old.sourceGen /\ renewed.targetGen = old.targetGen
       /\ renewed.sourceDigest = old.sourceDigest
       /\ renewed.targetDigest = old.targetDigest
       /\ renewed.path = old.path /\ renewed.pathGen = old.pathGen
       /\ renewed.units = decision.units
  BY <1>5 DEF Grant
<1>. HIDE DEF renewed
<1>12. ASSUME IsLive(renewed.state) PROVE Upheld(mem, renewed)
  <2>1. Sound(mem, old)
    BY <1>4, <1>11, <1>12 DEF UpToDate, Upheld, old
  <2>2. GrantEffects(mem, renewed) = GrantEffects(mem, old)
    BY <1>11 DEF GrantEffects, Participants
  <2>3. Sound(mem, renewed)
    BY <1>7, <1>8, <1>11, <2>1, <2>2 DEF Sound
  <2> QED BY <1>11, <2>3 DEF Upheld, epoch
<1>13. /\ next.spec = mem.spec /\ next.contracts = mem.contracts
       /\ \A g \in GrantIds : next.grants[g] = IF g \in {id} THEN renewed ELSE mem.grants[g]
  <2>1. /\ next.spec = mem.spec
        /\ \A g \in GrantIds : next.grants[g] = IF g \in {id} THEN renewed ELSE mem.grants[g]
    BY <1>1, <1>4, <1>10, EngineGrant
  <2>2. next.contracts = mem.contracts
    BY <1>1, GrantContracts
  <2> QED BY <2>1, <2>2
<1>14. done.mem = next
  BY DEF Point
<1>. HIDE DEF next, first, done
<1>15. Calm(next)
  BY <1>12, <1>13, OneCalm
<1>16. Ending(points) = done
  BY <1>2, Endings
<1> QED BY <1>1, <1>5, <1>14, <1>15, <1>16, CalmRun

-------------------------------------------------------------------------------
(* Engines that start *)

LEMMA StartsUpToDate ==
  ASSUME JournalBound = 0, NEW points, NEW records, Starts(points, records),
         UpToDate(Ending(points).mem)
  PROVE  UpToDate(mem')
<1>1. Reached(points, records) = Len(points)
  BY DEF Reached
<1>2. mem' = points[Len(points)].mem \/ mem' = NoEngine
  BY <1>1 DEF Starts, Falls
<1> QED BY <1>2, DownUpToDate DEF Ending

LEMMA InitializeUpToDate ==
  ASSUME JournalBound = 0, Initialize
  PROVE  UpToDate(mem')
<1> DEFINE bound == [disk EXCEPT
                       !.spec = [UnboundSpec EXCEPT !.bound = TRUE, !.policy = 1],
                       !.tick = Greatest(@, 1)]
           p1 == Point(NoEngine, disk, None)
           p2 == Point(NoEngine, bound, None)
           p3 == Point(Fresh, WriteEpoch(bound, 1), None)
           points == InitializePoints
<1>1. points = << p1, p2, p3 >> /\ Starts(points, TRUE)
  BY DEF InitializePoints, Initialize
<1>2. p3.mem = Fresh /\ Fresh.grants = NoGrants
  BY DEF Point, Fresh, NoEngine
<1> HIDE DEF p1, p2, p3, points
<1>3. Ending(points) = p3
  BY <1>1, Endings
<1>4. UpToDate(Ending(points).mem)
  BY <1>2, <1>3, NothingToUphold
<1> QED BY <1>1, <1>4, StartsUpToDate

\* Recovery reissues a live grant or leaves it settled.
LEMMA RecoveryUpheld ==
  ASSUME NEW engine \in Engine, NEW g \in Live(engine.grants),
         IsLive(Recovery(engine, g).state)
  PROVE  Upheld(engine, Recovery(engine, g))
<1> DEFINE old == engine.grants[g]
<1>1. g \in GrantIds /\ old \in Grant
  BY EngineFields DEF Live
<1>2. g \notin Settles(engine)
  <2>1. ~IsLive(Settled(old).state)
    <3>1. CASE old.commit = "Prepared"
      BY <1>1, <3>1, TerminatedEnds DEF Settled, IsTerminal
    <3>2. CASE old.commit # "Prepared"
      <4>1. Settled(old).state = "Ambiguous"
        BY <1>1, <3>2 DEF Settled, Grant
      <4> QED BY <4>1 DEF IsLive
    <3> QED BY <3>1, <3>2
  <2> QED BY <2>1 DEF Recovery
<1>3. Recovery(engine, g) = Revalidated(engine, old)
  BY <1>2 DEF Recovery
<1> HIDE DEF old
<1> QED BY <1>1, <1>3, RevalidatedUpheld

LEMMA RecoverUpToDate ==
  ASSUME Inv, JournalBound = 0, Recover
  PROVE  UpToDate(mem')
<1>. DEFINE engine  == Recovered
            records == RepairOf(engine, Cardinality(GrantIds))
            first   == Point(NoEngine, disk, None)
            point(k) == IF k = 1 THEN first ELSE RecoverPoint(engine, k - 1)
            points  == RecoverPoints(engine)
            count   == records + 1
            k       == count - 1
            last    == RecoverPoint(engine, k)
            next    == last.mem
<1>1. /\ disk \in Image /\ disk.spec.bound /\ starts \in Nat
      /\ Reached(points, Options.attaches) > 1 /\ Starts(points, Options.attaches)
  BY DEF Inv, CoreInv, Recover
<1>2. Resumes(engine)
  BY <1>1, RecoveredResumes
<1>3. points = [j \in 1..count |-> point(j)]
  BY DEF RecoverPoints
<1>. HIDE DEF engine
<1>4. /\ Logs(engine, k) = Live(engine.grants)
      /\ count \in Nat
  <2>1. records \in Nat
    BY RecordsEnough
  <2> HIDE DEF records
  <2>2. k = records /\ count \in Nat
    BY <2>1
  <2> HIDE DEF k, count
  <2>3. k = RepairOf(engine, Cardinality(GrantIds))
    BY <2>2 DEF records
  <2> QED BY <2>2, <2>3, RecordsEnough
<1>5. Resumed(engine, k, next, last.disk)
  BY <1>1, <1>2, RecoverResumed
<1>. HIDE DEF records, last, count
<1>6. /\ Len(points) = count
      /\ count > 1 => points[count] = point(count)
  <2>. HIDE DEF point, points
  <2>1. [j \in 1..count |-> point(j)] \in [1..count -> {point(j) : j \in 1..count}]
    OBVIOUS
  <2>2. Len([j \in 1..count |-> point(j)]) = count
    BY <1>4, <2>1, PointSequence
  <2> QED BY <1>3, <1>4, <2>2
<1>7. Reached(points, Options.attaches) = Len(points)
  BY DEF Reached
<1>8. Ending(points) = last
  <2>1. count > 1 /\ count # 1
    BY <1>1, <1>4, <1>6, <1>7
  <2>2. point(count) = RecoverPoint(engine, k)
    BY <2>1
  <2> HIDE DEF points, point
  <2> QED BY <1>6, <2>1, <2>2 DEF Ending, last
<1> HIDE DEF k
<1> HIDE DEF points, point
<1>9. UpToDate(next)
  <2> HIDE DEF next
  <2>1. ASSUME NEW g \in GrantIds, IsLive(next.grants[g].state)
        PROVE  Upheld(next, next.grants[g])
    <3>1. engine \in Engine /\ engine.grants = disk.grants
      BY <1>2 DEF Resumes
    <3>2. g \in Live(engine.grants) /\ next.grants[g] = Recovery(engine, g)
      <4>1. Settles(engine) \subseteq Live(engine.grants)
        BY DEF Settles
      <4>2. next.grants[g] = IF g \in Live(engine.grants) THEN Recovery(engine, g)
                             ELSE engine.grants[g]
        BY <1>4, <1>5, <3>1, <4>1 DEF Resumed
      <4> QED BY <2>1, <4>2 DEF Live
    <3>3. Upheld(engine, next.grants[g])
      BY <2>1, <3>1, <3>2, RecoveryUpheld
    <3>4. /\ SameCluster(engine, next) /\ SameTerms(next.grants[g], next.grants[g])
      BY <1>5 DEF Resumed, SameCluster, SameTerms
    <3> QED BY <3>3, <3>4, UpheldStays
  <2> QED BY <2>1 DEF UpToDate
<1> QED BY <1>1, <1>8, <1>9, StartsUpToDate

-------------------------------------------------------------------------------
(* Every step *)

LEMMA NextUpToDate ==
  ASSUME Inv, Books, Pools, UpToDate(mem), Undisturbed, Next
  PROVE  UpToDate(mem')
<1> JournalBound = 0
  BY DEF Undisturbed
<1>1. CASE Initialize
  BY <1>1, InitializeUpToDate
<1>2. CASE Recover
  BY <1>2, RecoverUpToDate
<1>3. CASE Stop
  BY <1>3, DownUpToDate DEF Stop, Falls
<1>4. CASE \E request \in Requests, view \in Views :
             \/ Replay(request, view) \/ Refuse(request, view)
             \/ Issue(request, view) \/ Renew(request, view)
  <2>1. PICK request \in Requests, view \in Views :
          \/ Replay(request, view) \/ Refuse(request, view)
          \/ Issue(request, view) \/ Renew(request, view)
    BY <1>4
  <2>2. CASE Replay(request, view) \/ Refuse(request, view)
    BY <2>2 DEF Replay, Refuse, Tells
  <2>3. CASE Issue(request, view)
    BY <2>3, IssueUpToDate
  <2>4. CASE Renew(request, view)
    BY <2>4, RenewUpToDate
  <2>. QED BY <2>1, <2>2, <2>3, <2>4
<1>5. CASE \E id \in GrantIds \cup {0}, attempt \in Attempts \cup {None},
             lease \in GrantIds \cup {0} : Release(id, attempt, lease)
  BY <1>5, ReleaseUpToDate
<1>6. CASE \E attempt \in Attempts : Resolve(attempt)
  BY <1>6 DEF Resolve, Tells
<1>7. CASE \E id \in GrantIds, lease \in GrantIds : Acknowledge(id, lease)
  BY <1>7, AcknowledgeUpToDate
<1>8. CASE \E id \in GrantIds \cup {0}, attempt \in Attempts \cup {None} :
             CancelForm(id, attempt) \in CancelForms /\ Cancel(id, attempt)
  BY <1>8, CancelUpToDate
<1>9. CASE \E command \in Commands : Administer(command)
  BY <1>9, AdministerUpToDate
<1>10. CASE FenceAll
  BY <1>10, FenceAllUpToDate
<1>11. CASE Revalidate
  BY <1>11, RevalidateUpToDate
<1>12. CASE \E tick \in 0..MaxTick : AdvanceTick(tick)
  BY <1>12, AdvanceTickUpToDate
<1>13. CASE Compact \/ HousekeepingRound \/ CompactingRound \/ CrashingRound
  BY <1>13, RoundUpToDate
<1>. QED BY <1>1, <1>2, <1>3, <1>4, <1>5, <1>6, <1>7, <1>8, <1>9, <1>10, <1>11, <1>12,
            <1>13 DEF Next

\* The invariant: where nothing disturbs it, the engine's live grants are up to date.
Upholds == Undisturbed => UpToDate(mem)

\* A live grant belongs to the current epoch and stands on what is declared now: every
\* change of members and paths revalidates it (revalidate_live_grants), a restart reissues,
\* settles or quarantines it (apply_recovery_policy), an acknowledgement revalidates what
\* was quarantined, and submit and renew give out only what revalidate_grant would uphold.
THEOREM StaysCurrent ==
  ASSUME Undisturbed
  PROVE  Spec => []LiveGrantsAreCurrent
<1>1. Init => Upholds
  BY DownUpToDate DEF Init, Upholds
<1>2. Inv /\ Books /\ Pools /\ Upholds /\ [Next]_vars => Upholds'
  <2>1. ASSUME Inv, Books, Pools, Upholds, Next PROVE Upholds'
    BY <2>1, NextUpToDate DEF Upholds
  <2>2. ASSUME Upholds, UNCHANGED vars PROVE Upholds'
    BY <2>2 DEF Upholds, vars
  <2> QED BY <2>1, <2>2
<1>3. Upholds => LiveGrantsAreCurrent
  BY DEF Upholds, UpToDate, Upheld, LiveGrantsAreCurrent, Live
<1> QED BY <1>1, <1>2, <1>3, Invariance, Holds, PTL DEF Spec
===============================================================================
