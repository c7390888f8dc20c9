----------------------------- MODULE FirstElements -----------------------------
(***************************************************************************)
(* Finite sets in a linear order have first elements, as many as one likes,*)
(* which the proofs about the order of claims need: State::ordered of the  *)
(* in-memory backend, and the sorted sets of Redis.                        *)
(*                                                                         *)
(* Induction over sets is done by least counterexamples: the numbers are   *)
(* well founded.                                                           *)
(***************************************************************************)
EXTENDS Naturals, FiniteSets, FiniteSetTheorems, WellFoundedInduction, TLAPS

\* A set of numbers has a least one.
LEMMA LeastNumber ==
  ASSUME NEW T \in SUBSET Nat, T # {}
  PROVE  \E x \in T : \A y \in T : x <= y
<1> DEFINE R == OpToRel(<, Nat)
<1>1. IsWellFoundedOn(R, Nat)
  BY NatLessThanWellFounded
<1>2. \A x, y \in Nat : x < y => <<x, y>> \in R
  BY DEF OpToRel
<1> HIDE DEF R
<1>3. PICK x \in T : \A y \in T : ~(<<y, x>> \in R)
  BY <1>1, WFMin
<1>4. T \subseteq Nat
  OBVIOUS
<1>5. \A y \in T : ~(y < x)
  BY <1>2, <1>3, <1>4
<1> QED BY <1>4, <1>5

\* R is a linear order of S.
Linear(R, S) ==
    /\ \A x, y \in S : x # y => <<x, y>> \in R \/ <<y, x>> \in R
    /\ \A x, y, z \in S : <<x, y>> \in R /\ <<y, z>> \in R => <<x, z>> \in R

\* A finite set has a least element in a linear order.
LEMMA LeastElement ==
  ASSUME NEW S, NEW R, IsFiniteSet(S), Linear(R, S), S # {}
  PROVE  \E x \in S : \A y \in S \ {x} : <<x, y>> \in R
<1> DEFINE Bad(Q) == Q # {} /\ \A x \in Q : \E y \in Q \ {x} : <<x, y>> \notin R
           Sizes == {n \in Nat : \E Q \in SUBSET S : Bad(Q) /\ Cardinality(Q) = n}
<1>1. SUFFICES ASSUME Bad(S) PROVE FALSE
  OBVIOUS
<1>2. Cardinality(S) \in Sizes
  <2>1. Cardinality(S) \in Nat
    BY FS_CardinalityType
  <2>2. S \in SUBSET S
    OBVIOUS
  <2> QED BY <1>1, <2>1, <2>2
<1>3. PICK n \in Sizes : \A m \in Sizes : n <= m
  <2>1. Sizes \in SUBSET Nat
    OBVIOUS
  <2>2. Sizes # {}
    BY <1>2
  <2> HIDE DEF Sizes
  <2> QED BY <2>1, <2>2, LeastNumber
<1>4. PICK Q \in SUBSET S : Bad(Q) /\ Cardinality(Q) = n
  OBVIOUS
<1>5. PICK x \in Q : TRUE
  BY <1>4
<1>6. PICK y \in Q \ {x} : <<x, y>> \notin R
  BY <1>4, <1>5
<1> DEFINE P == Q \ {x}
<1>7. IsFiniteSet(Q)
  BY FS_Subset
<1>8. Cardinality(P) \in Nat /\ Cardinality(P) < n
  <2>1. IsFiniteSet(P) /\ Cardinality(P) = Cardinality(Q) - 1
    BY <1>5, <1>7, FS_RemoveElement
  <2>2. Cardinality(P) \in Nat
    BY <2>1, FS_CardinalityType
  <2>3. Cardinality(Q) \in Nat
    BY <1>7, FS_CardinalityType
  <2> QED BY <1>4, <2>1, <2>2, <2>3
<1>9. ~Bad(P)
  <2>1. SUFFICES ASSUME Bad(P) PROVE FALSE
    OBVIOUS
  <2>2. P \in SUBSET S
    OBVIOUS
  <2>3. Cardinality(P) \in Sizes
    BY <1>8, <2>1, <2>2
  <2>4. n \in Nat
    OBVIOUS
  <2>5. n <= Cardinality(P)
    BY <1>3, <2>3
  <2> HIDE DEF P, Sizes
  <2> QED BY <1>8, <2>4, <2>5
<1>10. PICK z \in P : \A v \in P \ {z} : <<z, v>> \in R
  BY <1>6, <1>9
<1>11. <<x, z>> \notin R
  <2>1. CASE z = y BY <1>6, <2>1
  <2>2. CASE z # y
    <3>1. <<z, y>> \in R
      BY <1>6, <1>10, <2>2
    <3> QED BY <1>5, <1>6, <1>10, <3>1 DEF Linear
  <2> QED BY <2>1, <2>2
<1>12. <<z, x>> \in R
  BY <1>5, <1>10, <1>11 DEF Linear
<1>13. \A v \in Q \ {z} : <<z, v>> \in R
  BY <1>10, <1>12
<1>14. z \in Q
  BY <1>10
<1>15. \E v \in Q \ {z} : <<z, v>> \notin R
  BY <1>4, <1>14
<1> QED BY <1>13, <1>15

\* ... and, for each number, as many first elements.
LEMMA FirstFew ==
  ASSUME NEW S, NEW R, IsFiniteSet(S), Linear(R, S), NEW n \in 0 .. Cardinality(S)
  PROVE  \E P \in SUBSET S : Cardinality(P) = n /\ \A x \in P, y \in S \ P : <<x, y>> \in R
<1> DEFINE Head(P, m) == Cardinality(P) = m /\ \A x \in P, y \in S \ P : <<x, y>> \in R
           Bad == {m \in 0 .. Cardinality(S) : \A P \in SUBSET S : ~Head(P, m)}
<1>0. Cardinality(S) \in Nat
  BY FS_CardinalityType
<1>1. SUFFICES ASSUME n \in Bad PROVE FALSE
  OBVIOUS
<1>2. PICK m \in Bad : \A k \in Bad : m <= k
  <2>1. Bad \in SUBSET Nat
    BY <1>0
  <2>2. Bad # {}
    BY <1>1
  <2> HIDE DEF Bad
  <2> QED BY <2>1, <2>2, LeastNumber
<1>3. m \in 0 .. Cardinality(S) /\ \A P \in SUBSET S : ~Head(P, m)
  OBVIOUS
<1>4. m # 0
  <2>1. Head({}, 0)
    BY FS_EmptySet
  <2>2. {} \in SUBSET S
    OBVIOUS
  <2> HIDE DEF Head
  <2> QED BY <1>3, <2>1, <2>2
<1>5. m - 1 \in 0 .. Cardinality(S) /\ ~(m <= m - 1)
  BY <1>0, <1>3, <1>4
<1>6. m - 1 \notin Bad
  BY <1>2, <1>5
<1>7. PICK P \in SUBSET S : Head(P, m - 1)
  BY <1>5, <1>6
<1> DEFINE Rest == S \ P
<1>8. IsFiniteSet(P) /\ IsFiniteSet(Rest)
  BY FS_Subset, FS_Difference
<1>9. Rest # {}
  <2>1. SUFFICES ASSUME Rest = {} PROVE FALSE
    OBVIOUS
  <2>2. S = P
    BY <2>1
  <2> QED BY <1>0, <1>3, <1>7, <2>2
<1>10. Linear(R, Rest)
  BY DEF Linear
<1>11. PICK z \in Rest : \A y \in Rest \ {z} : <<z, y>> \in R
  <2> HIDE DEF Rest
  <2> QED BY <1>8, <1>9, <1>10, LeastElement
<1> DEFINE Q == P \cup {z}
<1>12. Q \in SUBSET S
  OBVIOUS
<1>13. Cardinality(Q) = m
  <2>1. Cardinality(Q) = Cardinality(P) + 1
    BY <1>8, FS_AddElement
  <2> QED BY <1>0, <1>3, <1>7, <2>1
<1>14. \A x \in Q, y \in S \ Q : <<x, y>> \in R
  BY <1>7, <1>11
<1>15. Head(Q, m)
  BY <1>13, <1>14
<1> HIDE DEF Head, Q
<1> QED BY <1>3, <1>12, <1>15

\* No two elements of S precede each other in R.
Strict(R, S) == \A x, y \in S : <<x, y>> \in R => <<y, x>> \notin R

\* The elements that fewer than n others precede are the first n.
LEMMA RankedFirst ==
  ASSUME NEW S, NEW R, IsFiniteSet(S), Linear(R, S), Strict(R, S),
         NEW n \in 0 .. Cardinality(S)
  PROVE  LET P == {x \in S : Cardinality({y \in S : <<y, x>> \in R}) < n} IN
         /\ Cardinality(P) = n
         /\ \A x \in P, y \in S \ P : <<x, y>> \in R
<1> DEFINE Under(x) == {y \in S : <<y, x>> \in R}
           P == {x \in S : Cardinality(Under(x)) < n}
<1>1. PICK Q \in SUBSET S : Cardinality(Q) = n /\ \A x \in Q, y \in S \ Q : <<x, y>> \in R
  BY FirstFew
<1>2. IsFiniteSet(Q) /\ Cardinality(S) \in Nat /\ n \in Nat
  BY FS_Subset, FS_CardinalityType
<1>3. ASSUME NEW x \in Q PROVE Cardinality(Under(x)) < n
  <2>1. Under(x) \subseteq Q \ {x}
    BY <1>1 DEF Strict
  <2>2. IsFiniteSet(Q \ {x}) /\ Cardinality(Q \ {x}) = n - 1
    BY <1>1, <1>2, FS_RemoveElement
  <2>3. Cardinality(Under(x)) <= n - 1 /\ Cardinality(Under(x)) \in Nat
    BY <2>1, <2>2, FS_Subset, FS_CardinalityType
  <2> HIDE DEF Under
  <2> QED BY <1>2, <2>3
<1>4. ASSUME NEW y \in S \ Q PROVE ~(Cardinality(Under(y)) < n)
  <2>1. Q \subseteq Under(y)
    BY <1>1
  <2>2. IsFiniteSet(Under(y))
    BY FS_Subset
  <2>3. n <= Cardinality(Under(y)) /\ Cardinality(Under(y)) \in Nat
    BY <1>1, <2>1, <2>2, FS_Subset, FS_CardinalityType
  <2> HIDE DEF Under
  <2> QED BY <1>2, <2>3
<1>5. P = Q
  <2> HIDE DEF Under
  <2> QED BY <1>3, <1>4
<1> QED BY <1>1, <1>5

=============================================================================
