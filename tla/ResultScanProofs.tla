-------------------------- MODULE ResultScanProofs --------------------------
(***************************************************************************)
(* Facts about the operators of module ResultScan, for messages of any     *)
(* length over any codes.                                                  *)
(***************************************************************************)
EXTENDS ResultScan, SequenceTheorems, FiniteSetTheorems, WellFoundedInduction, TLAPS

\* A nonempty set of naturals has a least element: of the intervals 0..i that
\* end in the set, one contains no other.
LEMMA LeastElement ==
  ASSUME NEW F, F \subseteq Nat, F # {}
  PROVE  \E i \in F : \A j \in F : i <= j
<1> DEFINE Up == {0..i : i \in F}
           R == StrictSubsetOrdering(Nat)
<1>1. Up \subseteq FiniteSubsetsOf(Nat)
  <2> SUFFICES ASSUME NEW i \in F PROVE 0..i \in FiniteSubsetsOf(Nat)
    OBVIOUS
  <2>1. IsFiniteSet(0..i)
    BY FS_Interval
  <2> QED
    BY <2>1 DEF FiniteSubsetsOf
<1>2. IsWellFoundedOn(R, FiniteSubsetsOf(Nat))
  BY FS_StrictSubsetOrderingWellFounded
<1>3. PICK u \in Up : \A v \in Up : <<v, u>> \notin R
  <2> HIDE DEF Up, R
  <2>1. Up # {}
    BY DEF Up
  <2> QED
    BY <1>1, <1>2, <2>1, WFMin
<1>4. PICK i \in F : u = 0..i
  OBVIOUS
<1>5. ASSUME NEW j \in F PROVE i <= j
  <2>1. <<0..j, 0..i>> \notin R
    BY <1>3, <1>4
  <2>2. ~(0..j \subseteq 0..i /\ 0..j # 0..i)
    BY <2>1 DEF StrictSubsetOrdering
  <2> SUFFICES ASSUME j < i PROVE FALSE
    OBVIOUS
  <2>3. 0..j \subseteq 0..i
    OBVIOUS
  <2>4. i \in 0..i /\ i \notin 0..j
    OBVIOUS
  <2> QED
    BY <2>2, <2>3, <2>4
<1> QED
  BY <1>5

\* The verdict is an integer, is 0 exactly when no point failed, and is
\* otherwise the code of the first point that did.
LEMMA FinalResultMeaning ==
  ASSUME NEW m \in Seq(Int)
  PROVE  /\ FinalResult(m) \in Int
         /\ FinalResult(m) = 0 <=> Failures(m) = {}
         /\ Failures(m) # {} =>
              \E i \in Failures(m) : /\ FinalResult(m) = m[i]
                                     /\ \A j \in Failures(m) : i <= j
<1>1. DOMAIN m = 1..Len(m) /\ Len(m) \in Nat
  BY LenProperties
<1>2. CASE Failures(m) = {}
  BY <1>2 DEF FinalResult
<1>3. CASE Failures(m) # {}
  <2> DEFINE Least(i) == \A j \in Failures(m) : i <= j
             f == CHOOSE i \in Failures(m) : Least(i)
  <2>1. Failures(m) \subseteq Nat
    BY <1>1 DEF Failures
  <2>2. \E i \in Failures(m) : Least(i)
    BY <1>3, <2>1, LeastElement
  <2>3. f \in Failures(m) /\ Least(f)
    BY <2>2
  <2>4. FinalResult(m) = m[f]
    BY <1>3 DEF FinalResult
  <2>5. m[f] \in Int \ {0}
    <3>1. f \in 1..Len(m) /\ m[f] # 0
      BY <1>1, <2>3 DEF Failures
    <3> HIDE DEF f
    <3> QED
      BY <3>1, ElementOfSeq
  <2> HIDE DEF f
  <2> QED
    BY <1>3, <2>3, <2>4, <2>5
<1> QED
  BY <1>2, <1>3

\* The number of accepted points is between 0 and the number of points, and
\* equal to it exactly when every point is accepted.
LEMMA RightSizeBounds ==
  ASSUME NEW m \in Seq(Int)
  PROVE  /\ RightSize(m) \in 0..Len(m)
         /\ RightSize(m) = Len(m) <=> Failures(m) = {}
<1> DEFINE A == {i \in DOMAIN m : m[i] = ACCEPT}
<1>1. DOMAIN m = 1..Len(m) /\ Len(m) \in Nat
  BY LenProperties
<1>2. IsFiniteSet(1..Len(m)) /\ Cardinality(1..Len(m)) = Len(m)
  BY <1>1, FS_Interval
<1>3. A \in SUBSET (1..Len(m))
  BY <1>1
<1>4. /\ IsFiniteSet(A)
      /\ Cardinality(A) <= Len(m)
      /\ Cardinality(A) = Len(m) => A = 1..Len(m)
  <2> HIDE DEF A
  <2> QED
    BY <1>2, <1>3, FS_Subset
<1>5. Cardinality(A) \in Nat
  <2> HIDE DEF A
  <2> QED
    BY <1>4, FS_CardinalityType
<1>6. A = 1..Len(m) <=> Failures(m) = {}
  BY <1>1 DEF Failures, ACCEPT
<1>7. RightSize(m) = Cardinality(A)
  BY DEF RightSize
<1> HIDE DEF A
<1> QED
  BY <1>1, <1>2, <1>4, <1>5, <1>6, <1>7

\* The score is a percentage, and it is full exactly for a message that has
\* points and whose verdict is 0.
THEOREM ScoreIsFullWhenAccepted ==
  ASSUME NEW m \in Seq(Int)
  PROVE  /\ Score(m) \in Nat /\ Score(m) <= 100
         /\ Score(m) = 100 <=> Len(m) # 0 /\ FinalResult(m) = 0
<1> DEFINE r == RightSize(m)
           n == Len(m)
<1>1. n \in Nat /\ r \in 0..n
  BY LenProperties, RightSizeBounds
<1>2. r = n <=> FinalResult(m) = 0
  BY RightSizeBounds, FinalResultMeaning
<1>3. CASE n = 0
  BY <1>3 DEF Score
<1>4. CASE n # 0
  <2>1. Score(m) = (100 * r) \div n
    BY <1>4 DEF Score
  <2> HIDE DEF r, n
  <2>2. n > 0 /\ r >= 0 /\ r <= n /\ n \in Int /\ r \in Int
    BY <1>1, <1>4
  <2>3. (100 * r) \div n \in Nat /\ (100 * r) \div n <= 100
    BY <2>2
  <2>4. (100 * r) \div n = 100 <=> r = n
    BY <2>2
  <2> QED
    BY <1>2, <1>4, <2>1, <2>3, <2>4 DEF n
<1> QED
  BY <1>3, <1>4

=============================================================================
