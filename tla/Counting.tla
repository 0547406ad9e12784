------------------------------ MODULE Counting ------------------------------
(***************************************************************************)
(* Facts about sets of numbers that several proofs need: the least and the *)
(* greatest element, and the ranks of the members of a finite set.         *)
(***************************************************************************)
EXTENDS Integers, FiniteSetTheorems, TLAPS

(* A set of natural numbers that is not empty has a least element.  (The      *)
(* finite sets 0 .. x - 1 are well-founded under inclusion.)                  *)
LEMMA SmallestNumber ==
  ASSUME NEW T \in SUBSET Nat, T # {}
  PROVE  \E x \in T : \A y \in T : x <= y
<1> DEFINE F == {0 .. x - 1 : x \in T}
<1>1. F \subseteq FiniteSubsetsOf(Nat) /\ F # {}
  <2>1. \A x \in T : 0 .. x - 1 \in FiniteSubsetsOf(Nat)
    <3>1. TAKE x \in T
    <3>2. IsFiniteSet(0 .. x - 1)
      BY FS_Interval
    <3> QED
      BY <3>2 DEF FiniteSubsetsOf
  <2> QED
    BY <2>1
<1>2. PICK m \in F : \A s \in F : ~ (<<s, m>> \in StrictSubsetOrdering(Nat))
  <2> HIDE DEF F
  <2> QED
    BY <1>1, FS_StrictSubsetOrderingWellFounded, WFMin
<1>3. PICK x \in T : m = 0 .. x - 1
  OBVIOUS
<1>4. ASSUME NEW y \in T, y < x PROVE FALSE
  <2>1. 0 .. y - 1 \in F /\ 0 .. y - 1 \subseteq Nat /\ 0 .. x - 1 \subseteq Nat
    OBVIOUS
  <2>2. 0 .. y - 1 \subseteq 0 .. x - 1 /\ 0 .. y - 1 # 0 .. x - 1
    <3>1. y \in 0 .. x - 1 /\ y \notin 0 .. y - 1
      BY <1>4
    <3> QED
      BY <1>4, <3>1
  <2> QED
    BY <1>2, <1>3, <2>1, <2>2 DEF StrictSubsetOrdering
<1> QED
  BY <1>4

(* One with an upper bound has a greatest element. *)
LEMMA LargestNumber ==
  ASSUME NEW T \in SUBSET Nat, T # {}, NEW n \in Nat, \A x \in T : x <= n
  PROVE  \E x \in T : \A y \in T : y <= x
<1> DEFINE M == {n - x : x \in T}
<1>0. \A x \in T : x \in Nat /\ n - x \in Nat
  OBVIOUS
<1>1. M \in SUBSET Nat /\ M # {}
  <2>1. M \subseteq Nat
    BY <1>0
  <2> QED
    BY <2>1
<1>2. PICK m \in M : \A k \in M : m <= k
  <2> HIDE DEF M
  <2> QED
    BY <1>1, SmallestNumber
<1>3. PICK x \in T : m = n - x
  OBVIOUS
<1>4. \A y \in T : y <= x
  <2>1. \A y \in T : n - x <= n - y
    BY <1>2, <1>3
  <2>2. ASSUME NEW y \in T PROVE y <= x
    <3>1. x \in Nat /\ y \in Nat /\ n - x <= n - y
      BY <1>0, <2>1
    <3> QED
      BY <3>1
  <2> QED
    BY <2>2
<1> QED
  BY <1>4

(* The smaller members of a finite set, and how many there are. *)
Lesser(T, x) == {y \in T : y < x}
Rank(T, x) == Cardinality(Lesser(T, x))

(* A member's rank is a number below the size of the set, and a greater         *)
(* member has a greater rank.                                                   *)
LEMMA RankGrows ==
  ASSUME NEW T \in SUBSET Nat, IsFiniteSet(T), NEW x \in T
  PROVE  /\ Rank(T, x) \in 0 .. Cardinality(T) - 1
         /\ \A y \in T : y < x => Rank(T, y) < Rank(T, x)
<1>1. /\ Lesser(T, x) \subseteq T /\ x \notin Lesser(T, x)
      /\ Cardinality(T) \in Nat
  BY FS_CardinalityType DEF Lesser
<1>2. /\ IsFiniteSet(Lesser(T, x)) /\ Cardinality(Lesser(T, x)) \in Nat
      /\ Cardinality(Lesser(T, x)) <= Cardinality(T)
      /\ Cardinality(Lesser(T, x)) # Cardinality(T)
  BY <1>1, FS_Subset, FS_CardinalityType
<1>3. ASSUME NEW y \in T, y < x PROVE Rank(T, y) < Rank(T, x)
  <2>1. /\ Lesser(T, y) \subseteq Lesser(T, x)
        /\ y \in Lesser(T, x) /\ y \notin Lesser(T, y)
    <3>1. \A z \in T : z \in Nat
      OBVIOUS
    <3>2. x \in Nat /\ y \in Nat /\ y < x
      BY <1>3, <3>1
    <3>3. ASSUME NEW z \in T, z < y PROVE z < x
      BY <3>1, <3>2, <3>3
    <3>4. Lesser(T, y) \subseteq Lesser(T, x)
      BY <3>3 DEF Lesser
    <3>5. y \in Lesser(T, x) /\ ~(y < y)
      BY <3>2 DEF Lesser
    <3> QED
      BY <3>4, <3>5 DEF Lesser
  <2>2. /\ Cardinality(Lesser(T, y)) <= Cardinality(Lesser(T, x))
        /\ Cardinality(Lesser(T, y)) # Cardinality(Lesser(T, x))
        /\ Cardinality(Lesser(T, y)) \in Nat
    BY <1>2, <2>1, FS_Subset, FS_CardinalityType
  <2> QED
    BY <1>2, <2>2 DEF Rank
<1> QED
  BY <1>1, <1>2, <1>3 DEF Rank

(* Every number below the size of the set is somebody's rank. *)
LEMMA EveryRank ==
  ASSUME NEW T \in SUBSET Nat, IsFiniteSet(T), NEW k \in 0 .. Cardinality(T) - 1
  PROVE  \E x \in T : Rank(T, x) = k
<1> DEFINE n == Cardinality(T)
           f == [x \in T |-> Rank(T, x)]
<1>1. n \in Nat /\ IsFiniteSet(0 .. n - 1) /\ Cardinality(0 .. n - 1) = n
  BY FS_CardinalityType, FS_Interval
<1>2. f \in [T -> 0 .. n - 1]
  BY RankGrows
<1>3. ASSUME NEW x \in T, NEW y \in T, f[x] = f[y] PROVE x = y
  <2>1. /\ x < y => Rank(T, x) < Rank(T, y)
        /\ y < x => Rank(T, y) < Rank(T, x)
        /\ Rank(T, x) \in Int /\ Rank(T, y) \in Int
    BY RankGrows, <1>1
  <2> QED
    BY <1>3, <2>1
<1>4. f \in Injection(T, 0 .. n - 1)
  BY <1>2, <1>3 DEF Injection, IsInjective
<1>5. f \in Surjection(T, 0 .. n - 1)
  BY <1>1, <1>4, FS_Injection
<1> QED
  BY <1>5 DEF Surjection

-----------------------------------------------------------------------------
(* Records with a number of their own                                        *)

Numbered(S) ==
  /\ \A e \in S : e.id \in Nat
  /\ \A e, f \in S : e.id = f.id => e = f

(* There are as many of them as there are numbers.                            *)
LEMMA AsManyNumbers ==
  ASSUME NEW S, IsFiniteSet(S), Numbered(S)
  PROVE  /\ {e.id : e \in S} \in SUBSET Nat /\ IsFiniteSet({e.id : e \in S})
         /\ Cardinality({e.id : e \in S}) = Cardinality(S)
<1> DEFINE T == {e.id : e \in S}
           g == [e \in S |-> e.id]
<1>1. g \in [S -> T] /\ T \in SUBSET Nat
  BY DEF Numbered
<1>2. g \in Injection(S, T)
  BY <1>1 DEF Injection, IsInjective, Numbered
<1>3. g \in Surjection(S, T)
  BY <1>1 DEF Surjection
<1>4. ExistsBijection(S, T)
  BY <1>2, <1>3 DEF Bijection, ExistsBijection
<1> HIDE DEF T
<1>5. IsFiniteSet(T) /\ Cardinality(T) = Cardinality(S)
  BY <1>4, FS_Bijection
<1> QED
  BY <1>1, <1>5 DEF T

(* One of them has exactly k below it, for each k short of their count.       *)
LEMMA EveryPlace ==
  ASSUME NEW S, IsFiniteSet(S), Numbered(S), NEW k \in 0 .. Cardinality(S) - 1
  PROVE  \E e \in S : Cardinality({f \in S : f.id < e.id}) = k
<1> DEFINE T == {e.id : e \in S}
<1>1. T \in SUBSET Nat /\ IsFiniteSet(T) /\ Cardinality(T) = Cardinality(S)
  BY AsManyNumbers
<1>2. PICK x \in T : Rank(T, x) = k
  <2> HIDE DEF T
  <2> QED
    BY <1>1, EveryRank
<1>3. PICK e \in S : x = e.id
  BY <1>2
<1> DEFINE U == {f \in S : f.id < e.id}
<1>4. IsFiniteSet(U) /\ Numbered(U)
  BY FS_Subset DEF Numbered
<1>5. {f.id : f \in U} = Lesser(T, x)
  BY <1>3 DEF Lesser
<1>6. Cardinality({f.id : f \in U}) = Cardinality(U)
  <2> HIDE DEF U
  <2> QED
    BY <1>4, AsManyNumbers
<1> QED
  BY <1>2, <1>5, <1>6 DEF Rank
=============================================================================
