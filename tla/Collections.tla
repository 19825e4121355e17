---------------------------- MODULE Collections ----------------------------
(***************************************************************************)
(* Facts about numbers and bags that the proofs of several components need.*)
(***************************************************************************)
EXTENDS Integers, Bags, FiniteSetTheorems, TLAPS

\* A finite set of numbers that is not empty has a least element.
LEMMA LeastNatural ==
  ASSUME NEW S \in SUBSET Nat, S # {}, IsFiniteSet(S)
  PROVE  \E m \in S : \A n \in S : n >= m
<1> DEFINE Below(g) == {h \in S : h < g}
           T == {Below(g) : g \in S}
<1>1. T \subseteq FiniteSubsetsOf(S) /\ T # {}
  <2>1. \A g \in S : Below(g) \in SUBSET S
    OBVIOUS
  <2>2. \A U \in SUBSET S : U \in FiniteSubsetsOf(S)
    BY FS_Subset DEF FiniteSubsetsOf
  <2> HIDE DEF Below
  <2> QED BY <2>1, <2>2
<1>2. \E x \in T : \A y \in T : <<y, x>> \notin StrictSubsetOrdering(S)
  <2> HIDE DEF T
  <2> QED BY <1>1, WFMin, FS_StrictSubsetOrderingWellFounded
<1>3. PICK m \in S : \A n \in S : <<Below(n), Below(m)>> \notin StrictSubsetOrdering(S)
  BY <1>2
<1>4. ASSUME NEW n \in S, n < m PROVE FALSE
  <2>1. Below(n) \subseteq Below(m) /\ n \in Below(m) /\ n \notin Below(n)
    <3>1. \A h \in S : h < n => h < m
      BY <1>4
    <3>2. n \in Nat /\ ~(n < n)
      OBVIOUS
    <3> HIDE DEF T
    <3> QED BY <1>4, <3>1, <3>2
  <2>2. Below(n) \in SUBSET S /\ Below(m) \in SUBSET S /\ Below(n) # Below(m)
    BY <2>1
  <2> HIDE DEF Below
  <2> QED BY <1>3, <2>1, <2>2 DEF StrictSubsetOrdering
<1> QED BY <1>4

\* A multiple of a larger number is larger.
LEMMA ProductGrows ==
  ASSUME NEW b \in Nat, NEW m \in Int, NEW k \in Int, m >= k
  PROVE  b * m >= b * k
<1>1. b * m - b * k = b * (m - k)
  OBVIOUS
<1>2. b * (m - k) >= 0
  OBVIOUS
<1>3. b * m \in Int /\ b * k \in Int
  OBVIOUS
<1> QED BY <1>1, <1>2, <1>3

\* A quotient exceeds n when the dividend reaches the next multiple.
LEMMA QuotientExceeds ==
  ASSUME NEW a \in Nat, NEW b \in Nat \ {0}, NEW n \in Nat
  PROVE  a \div b \in Nat /\ (a \div b > n <=> a >= b * (n + 1))
<1> DEFINE q == a \div b
<1>1. q \in Int /\ b * q <= a /\ a < b * q + b
  OBVIOUS
<1> HIDE DEF q
<1>2. b * (q + 1) = b * q + b /\ b * q \in Int /\ b * (n + 1) \in Int
  BY <1>1
<1>3. q \in Nat
  <2>1. ASSUME q < 0 PROVE FALSE
    <3>1. b * (q + 1) <= b * 0
      BY <1>1, <2>1, ProductGrows
    <3> QED BY <1>1, <1>2, <3>1
  <2> QED BY <1>1, <2>1
<1>4. CASE q > n
  <2>1. b * q >= b * (n + 1)
    BY <1>1, <1>4, ProductGrows
  <2> QED BY <1>1, <1>2, <1>3, <1>4, <2>1 DEF q
<1>5. CASE q <= n
  <2>1. b * (n + 1) >= b * (q + 1)
    BY <1>1, <1>5, ProductGrows
  <2> QED BY <1>1, <1>2, <1>3, <1>5, <2>1 DEF q
<1> QED BY <1>1, <1>4, <1>5

\* A message joins a queue ...
LEMMA BagAdded ==
  ASSUME NEW B, IsABag(B), NEW m, NEW C, C = B (+) SetToBag({m})
  PROVE  /\ IsABag(C)
         /\ BagToSet(C) = BagToSet(B) \cup {m}
         /\ \A n \in BagToSet(B) : n # m => C[n] = B[n]
         /\ m \notin BagToSet(B) => C[m] = 1
BY DEF IsABag, BagToSet, SetToBag, (+)

\* ... and leaves it; B[m] = 1 when it is there once.
LEMMA BagTaken ==
  ASSUME NEW B, IsABag(B), NEW m \in BagToSet(B), NEW C, C = B (-) SetToBag({m})
  PROVE  /\ IsABag(C)
         /\ BagToSet(C) \subseteq BagToSet(B)
         /\ \A n \in BagToSet(C) \ {m} : C[n] = B[n]
         /\ B[m] = 1 => BagToSet(C) = BagToSet(B) \ {m}
BY DEF IsABag, BagToSet, SetToBag, (-)
=============================================================================
