---------------------------- MODULE NumberLemmas ----------------------------
(***************************************************************************)
(* Max and Min of FiniteSetsExt on finite, non-empty sets of naturals.     *)
(***************************************************************************)
EXTENDS Integers, FiniteSetsExt, FiniteSetTheorems, TLAPS

\* A finite, non-empty set of naturals has a largest element, which Max chooses:
\* used for the server times that receive and update record.
LEMMA MaxInSet ==
  ASSUME NEW S \in SUBSET Nat, IsFiniteSet(S), S # {}
  PROVE  Max(S) \in S /\ \A y \in S : Max(S) >= y
<1> DEFINE Above(x) == {y \in S : y > x}
           U == {Above(x) : x \in S}
<1>1. IsWellFoundedOn(StrictSubsetOrdering(S), FiniteSubsetsOf(S))
  BY FS_StrictSubsetOrderingWellFounded
<1>2. U \subseteq FiniteSubsetsOf(S) /\ U # {}
  <2>1. ASSUME NEW x \in S PROVE Above(x) \in FiniteSubsetsOf(S)
    <3>1. Above(x) \in SUBSET S
      OBVIOUS
    <3> HIDE DEF Above
    <3>2. IsFiniteSet(Above(x))
      BY <3>1, FS_Subset
    <3> QED BY <3>1, <3>2 DEF FiniteSubsetsOf
  <2> HIDE DEF Above
  <2> QED BY <2>1
<1>3. PICK A \in U : \A B \in U : ~(<<B, A>> \in StrictSubsetOrdering(S))
  <2> HIDE DEF U
  <2> QED BY <1>1, <1>2, WFMin
<1>4. PICK x \in S : A = Above(x)
  BY <1>3
<1>5. \A y \in S : x >= y
  <2> SUFFICES ASSUME NEW y \in S, y > x PROVE FALSE
    OBVIOUS
  <2>1. Above(y) \subseteq A /\ y \in A /\ y \notin Above(y)
    <3>1. \A z \in S : z > y => z > x
      OBVIOUS
    <3>2. ~(y > y)
      OBVIOUS
    <3> QED BY <1>4, <3>1, <3>2
  <2>2. <<Above(y), A>> \in StrictSubsetOrdering(S)
    BY <1>4, <2>1 DEF StrictSubsetOrdering
  <2> QED BY <1>3, <2>2
<1> QED BY <1>5 DEF Max

\* The smallest element likewise: the time to which update rolls a server back.
LEMMA MinInSet ==
  ASSUME NEW S \in SUBSET Nat, IsFiniteSet(S), S # {}
  PROVE  Min(S) \in S /\ \A y \in S : Min(S) =< y
<1> DEFINE Below(x) == {y \in S : y < x}
           U == {Below(x) : x \in S}
<1>1. IsWellFoundedOn(StrictSubsetOrdering(S), FiniteSubsetsOf(S))
  BY FS_StrictSubsetOrderingWellFounded
<1>2. U \subseteq FiniteSubsetsOf(S) /\ U # {}
  <2>1. ASSUME NEW x \in S PROVE Below(x) \in FiniteSubsetsOf(S)
    <3>1. Below(x) \in SUBSET S
      OBVIOUS
    <3> HIDE DEF Below
    <3>2. IsFiniteSet(Below(x))
      BY <3>1, FS_Subset
    <3> QED BY <3>1, <3>2 DEF FiniteSubsetsOf
  <2> HIDE DEF Below
  <2> QED BY <2>1
<1>3. PICK A \in U : \A B \in U : ~(<<B, A>> \in StrictSubsetOrdering(S))
  <2> HIDE DEF U
  <2> QED BY <1>1, <1>2, WFMin
<1>4. PICK x \in S : A = Below(x)
  BY <1>3
<1>5. \A y \in S : x =< y
  <2> SUFFICES ASSUME NEW y \in S, y < x PROVE FALSE
    OBVIOUS
  <2>1. Below(y) \subseteq A /\ y \in A /\ y \notin Below(y)
    <3>1. \A z \in S : z < y => z < x
      OBVIOUS
    <3>2. ~(y < y)
      OBVIOUS
    <3> QED BY <1>4, <3>1, <3>2
  <2>2. <<Below(y), A>> \in StrictSubsetOrdering(S)
    BY <1>4, <2>1 DEF StrictSubsetOrdering
  <2> QED BY <1>3, <2>2
<1> QED BY <1>5 DEF Min

\* An upper bound that belongs to the set is what Max chooses, finite set or not.
LEMMA MaxIs ==
  ASSUME NEW S \in SUBSET Nat, NEW x \in S, \A y \in S : x >= y
  PROVE  Max(S) = x
<1>1. \A z \in S : (\A y \in S : z >= y) => z = x
  OBVIOUS
<1> QED BY <1>1 DEF Max

\* The values of a function on a finite set are finitely many: the times of a replay.
LEMMA ImageFinite ==
  ASSUME NEW S, IsFiniteSet(S), NEW R, NEW f \in [S -> R]
  PROVE  IsFiniteSet({f[x] : x \in S})
<1> DEFINE T == {f[x] : x \in S}
<1>1. f \in Surjection(S, T)
  BY DEF Surjection
<1> HIDE DEF T
<1>2. IsFiniteSet(T)
  BY <1>1, FS_Surjection
<1> QED BY <1>2 DEF T
=============================================================================
