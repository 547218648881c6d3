------------------------------- MODULE Least --------------------------------
(***************************************************************************)
(* Every set of natural numbers that is not empty has a least element.     *)
(* The library states it only for predicates, which no prover at hand can  *)
(* instantiate; here it follows from the well-foundedness of inclusion     *)
(* between finite sets, as the sets 0 .. n - 1.  Proofs of this project    *)
(* that need an induction take the least counterexample.                   *)
(***************************************************************************)
EXTENDS Integers, FiniteSets, FiniteSetTheorems, WellFoundedInduction, TLAPS

LEMMA LeastNatural ==
    ASSUME NEW S \in SUBSET Nat, S # {}
    PROVE  \E n \in S : \A m \in S : n <= m
  <1> DEFINE Below(n) == 0 .. n - 1
             T == {Below(n) : n \in S}
  <1>1. T \subseteq FiniteSubsetsOf(Nat)
    <2>1. ASSUME NEW n \in S PROVE Below(n) \in SUBSET Nat /\ IsFiniteSet(Below(n))
      <3>1. 0 \in Int /\ n - 1 \in Int
        OBVIOUS
      <3> QED
        BY <3>1, FS_Interval
    <2> QED
      BY <2>1 DEF FiniteSubsetsOf
  <1>2. IsWellFoundedOn(StrictSubsetOrdering(Nat), FiniteSubsetsOf(Nat))
    BY FS_StrictSubsetOrderingWellFounded
  <1>3. PICK x \in T : \A y \in T : ~ (<<y, x>> \in StrictSubsetOrdering(Nat))
    <2>1. T # {}
      OBVIOUS
    <2> HIDE DEF T
    <2> QED
      BY ONLY <1>1, <1>2, <2>1, WFMin, Zenon
  <1>4. PICK n \in S : x = Below(n)
    OBVIOUS
  <1>5. ASSUME NEW m \in S, m < n PROVE FALSE
    <2>1. Below(m) \in T /\ Below(m) \in SUBSET Nat /\ Below(n) \in SUBSET Nat
      OBVIOUS
    <2>2. Below(m) \subseteq Below(n)
      BY <1>5
    <2>3. m \in Below(n) /\ m \notin Below(m)
      BY <1>5
    <2>4. <<Below(m), Below(n)>> \in StrictSubsetOrdering(Nat)
      BY <2>1, <2>2, <2>3 DEF StrictSubsetOrdering
    <2> QED
      BY <1>3, <1>4, <2>1, <2>4
  <1> QED
    BY <1>5

(* Among the elements of a set one has the least value of a function.      *)
LEMMA LeastValue ==
    ASSUME NEW S, S # {}, NEW f, \A n \in S : f[n] \in Nat
    PROVE  \E n \in S : \A m \in S : f[n] <= f[m]
  <1> DEFINE V == {f[n] : n \in S}
  <1>1. V \in SUBSET Nat /\ V # {}
    OBVIOUS
  <1> HIDE DEF V
  <1>2. PICK v \in V : \A w \in V : v <= w
    BY <1>1, LeastNatural
  <1> QED
    BY <1>2 DEF V

(* Costs a that no link can lower are at most costs b each of which a link *)
(* explains: the least of b that is lower would have a link to a lower one. *)
LEMMA LeastCosts ==
    ASSUME NEW N, NEW top \in Nat, NEW near, NEW len, NEW a, NEW b, NEW m,
           \A n \in N : near[n] \subseteq N /\ \A h \in near[n] : len[n][h] \in Nat \ {0},
           \A n \in N : a[n] \in 0 .. top /\ b[n] \in 0 .. top,
           a[m] = 0,
           \A n \in N : \A h \in near[n] : a[h] < top => a[n] <= len[n][h] + a[h],
           \A n \in N \ {m} : b[n] < top => \E h \in near[n] : b[n] = len[n][h] + b[h]
    PROVE  \A n \in N : a[n] <= b[n]
  <1> DEFINE S == {n \in N : ~ (a[n] <= b[n])}
  <1>1. SUFFICES ASSUME S # {} PROVE FALSE
    OBVIOUS
  <1>2. \A n \in S : b[n] \in Nat
    OBVIOUS
  <1> HIDE DEF S
  <1>3. PICK n \in S : \A k \in S : b[n] <= b[k]
    BY <1>1, <1>2, LeastValue
  <1>4. n \in N /\ b[n] < a[n] /\ a[n] \in Nat /\ b[n] \in Nat /\ a[n] <= top
    BY DEF S
  <1>5. n # m /\ b[n] < top
    BY <1>4
  <1>6. PICK h \in near[n] : b[n] = len[n][h] + b[h]
    BY <1>4, <1>5
  <1>7. h \in N /\ len[n][h] \in Nat \ {0} /\ a[h] \in Nat /\ b[h] \in Nat
    BY <1>4, <1>6
  <1>8. b[h] < b[n]
    BY <1>4, <1>6, <1>7
  <1>9. a[h] <= b[h]
    BY <1>3, <1>4, <1>7, <1>8 DEF S
  <1>10. a[n] <= len[n][h] + a[h]
    BY <1>4, <1>5, <1>6, <1>7, <1>8, <1>9
  <1> QED
    BY <1>4, <1>6, <1>7, <1>9, <1>10
=============================================================================
