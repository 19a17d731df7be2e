------------------------------ MODULE Extrema ------------------------------
(* Least and largest elements of sets of naturals, which the choices of    *)
(* handler.go come down to: the highest index found, the first file to     *)
(* remove.                                                                 *)
EXTENDS Integers, FiniteSetsExt, FiniteSetTheorems, WellFoundedInduction, TLAPS

\* Every set of naturals that is not empty has a least element.
LEMMA LeastNatural ==
    ASSUME NEW T \in SUBSET Nat, T # {}
    PROVE  \E m \in T : \A t \in T : m <= t
<1>1. PICK m \in T : \A t \in T : ~ (<<t, m>> \in OpToRel(<, Nat))
  BY NatLessThanWellFounded, WFMin
<1>2. \A t \in T : ~ (t < m)
  BY <1>1 DEF OpToRel
<1>3. QED
  BY <1>2

\* Max of a bounded set of naturals is its largest element.
LEMMA MaxOfBounded ==
    ASSUME NEW T \in SUBSET Nat, T # {}, NEW b \in Nat, \A t \in T : t <= b
    PROVE  Max(T) \in T /\ \A t \in T : t <= Max(T)
<1> DEFINE D == {b - t : t \in T}
<1>1. D \in SUBSET Nat /\ D # {}
  <2>1. \A t \in T : b - t \in Nat
    OBVIOUS
  <2>2. QED
    BY <2>1
<1>2. PICK d \in D : \A e \in D : d <= e
  BY <1>1, LeastNatural
<1>3. PICK m \in T : d = b - m
  OBVIOUS
<1>4. \A t \in T : b - t \in D
  OBVIOUS
<1>5. \A t \in T : m >= t
  BY <1>2, <1>3, <1>4
<1>6. QED
  BY <1>5 DEF Max

\* So is Max of a finite one.
LEMMA MaxOfFinite ==
    ASSUME NEW T \in SUBSET Nat, IsFiniteSet(T), T # {}
    PROVE  Max(T) \in T /\ \A t \in T : t <= Max(T)
<1> DEFINE Up(x) == {t \in T : t >= x}
           F == {Up(x) : x \in T}
<1>1. F \subseteq FiniteSubsetsOf(T) /\ F # {}
  <2>1. \A x \in T : Up(x) \in SUBSET T
    OBVIOUS
  <2>2. \A U \in SUBSET T : IsFiniteSet(U)
    BY FS_Subset
  <2>3. \A U \in F : U \in SUBSET T /\ IsFiniteSet(U)
    BY <2>1, <2>2
  <2>4. F # {}
    <3>1. PICK x \in T : TRUE
      OBVIOUS
    <3>2. Up(x) \in F
      BY <3>1
    <3>3. QED
      BY <3>2
  <2>5. QED
    BY <2>3, <2>4 DEF FiniteSubsetsOf
<1>2. PICK U \in F : \A V \in F : ~ (<<V, U>> \in StrictSubsetOrdering(T))
  BY <1>1, FS_StrictSubsetOrderingWellFounded, WFMin
<1>3. PICK x \in T : U = Up(x)
  OBVIOUS
<1>4. ASSUME NEW y \in T, ~ (y <= x) PROVE FALSE
  <2>1. x \in Nat /\ y \in Nat /\ x < y
    BY <1>4
  <2>2. x \in Up(x) /\ x \notin Up(y)
    BY <2>1
  <2>3. \A t \in Up(y) : t \in T /\ t \in Nat /\ t >= y
    OBVIOUS
  <2>4. Up(y) \subseteq Up(x)
    <3>1. \A t \in Up(y) : t \in T /\ t >= x
      BY <2>1, <2>3
    <3>2. QED
      BY <3>1
  <2>5. Up(y) \in F
    OBVIOUS
  <2>6. <<Up(y), Up(x)>> \in StrictSubsetOrdering(T)
    BY <2>2, <2>4 DEF StrictSubsetOrdering
  <2>7. QED
    BY <1>2, <1>3, <2>5, <2>6
<1>5. QED
  BY <1>4, MaxOfBounded

\* Min of a pair is one of the two, and no larger than the other.
LEMMA MinOfTwo ==
    ASSUME NEW a \in Int, NEW b \in Int
    PROVE  /\ Min({a, b}) = IF a <= b THEN a ELSE b
           /\ Min({a, b}) \in Int /\ Min({a, b}) <= a /\ Min({a, b}) <= b
<1>1. PICK m \in {a, b} : m = IF a <= b THEN a ELSE b
  OBVIOUS
<1>2. m \in Int /\ m <= a /\ m <= b
  BY <1>1
<1>3. \A x \in {a, b} : (\A y \in {a, b} : x <= y) <=> x = m
  BY <1>1, <1>2
<1>4. Min({a, b}) = m
  BY <1>3 DEF Min
<1>5. QED
  BY <1>1, <1>2, <1>4

\* A set of two elements at least has two different ones.
LEMMA TwoElements ==
    ASSUME NEW S, IsFiniteSet(S), Cardinality(S) >= 2
    PROVE  \E a, b \in S : a # b
<1>1. S # {}
  BY FS_EmptySet
<1>2. PICK a \in S : TRUE
  BY <1>1
<1>3. IsFiniteSet(S \ {a}) /\ Cardinality(S \ {a}) = Cardinality(S) - 1
  BY FS_RemoveElement
<1>4. Cardinality(S \ {a}) # 0
  BY <1>3, FS_CardinalityType
<1>5. S \ {a} # {}
  BY <1>4, FS_EmptySet
<1>6. QED
  BY <1>5
=============================================================================
