--------------------------- MODULE ScanLoopProofs ---------------------------
(***************************************************************************)
(* The loop of module ScanLoop computes what module ResultScan defines.    *)
(***************************************************************************)
EXTENDS ScanLoop, ResultScanProofs

\* Reading one more point changes the verdict as the loop does.
LEMMA FinalResultStep ==
  ASSUME NEW m \in Seq(Int), NEW n \in 0..(Len(m) - 1)
  PROVE  FinalResult(SubSeq(m, 1, n + 1))
           = Keep(FinalResult(SubSeq(m, 1, n)), m[n + 1])
<1> DEFINE a == SubSeq(m, 1, n)
           b == SubSeq(m, 1, n + 1)
           e == m[n + 1]
<1>1. Len(m) \in Nat /\ n \in Nat /\ n + 1 \in 1..Len(m)
  BY LenProperties
<1>2. \A i \in 1..(n + 1) : m[i] \in Int
  BY <1>1, ElementOfSeq
<1>3. /\ a \in Seq(Int) /\ Len(a) = n
      /\ \A i \in 1..n : a[i] = m[i]
  BY <1>1, <1>2, SubSeqProperties
<1>4. /\ b \in Seq(Int) /\ Len(b) = n + 1
      /\ \A i \in 1..(n + 1) : b[i] = m[i]
  BY <1>1, <1>2, SubSeqProperties
<1>5. DOMAIN a = 1..n /\ DOMAIN b = 1..(n + 1)
  BY <1>3, <1>4, LenProperties
<1> SUFFICES FinalResult(b) = Keep(FinalResult(a), e)
  OBVIOUS
<1> HIDE DEF a, b
<1>6. Failures(b) = Failures(a) \union (IF e # 0 THEN {n + 1} ELSE {})
  <2>1. Failures(a) = {i \in 1..n : m[i] # 0}
    BY <1>3, <1>5 DEF Failures
  <2>2. Failures(b) = {i \in 1..(n + 1) : m[i] # 0}
    BY <1>4, <1>5 DEF Failures
  <2>3. 1..(n + 1) = (1..n) \union {n + 1}
    BY <1>1
  <2> QED
    BY <2>1, <2>2, <2>3
<1>7. \A i \in Failures(a) : i \in 1..n
  BY <1>5 DEF Failures
<1>8. CASE Failures(a) = {} /\ e = 0
  BY <1>3, <1>4, <1>6, <1>8, FinalResultMeaning DEF Keep
<1>9. CASE Failures(a) = {} /\ e # 0
  <2>1. Failures(b) = {n + 1}
    BY <1>6, <1>9
  <2>2. FinalResult(b) = b[n + 1]
    BY <1>4, <2>1, FinalResultMeaning
  <2>3. FinalResult(a) = 0
    BY <1>3, <1>9, FinalResultMeaning
  <2> QED
    BY <1>1, <1>4, <1>9, <2>2, <2>3 DEF Keep
<1>10. CASE Failures(a) # {}
  <2>1. PICK i \in Failures(a) :
          FinalResult(a) = a[i] /\ \A j \in Failures(a) : i <= j
    BY <1>3, <1>10, FinalResultMeaning
  <2>2. Failures(b) # {}
    BY <1>6, <1>10
  <2>3. PICK k \in Failures(b) :
          FinalResult(b) = b[k] /\ \A j \in Failures(b) : k <= j
    BY <1>4, <2>2, FinalResultMeaning
  <2>4. i \in 1..n /\ k \in 1..(n + 1)
    BY <1>5, <1>7 DEF Failures
  <2>5. k = i
    <3>1. i \in Failures(b) /\ k <= i
      BY <1>6, <2>3
    <3>2. k # n + 1
      BY <3>1, <2>4, <1>1
    <3>3. k \in Failures(a)
      BY <3>2, <1>6
    <3> QED
      BY <3>1, <3>3, <2>1, <2>4
  <2>6. FinalResult(b) = FinalResult(a)
    BY <1>3, <1>4, <1>1, <2>1, <2>3, <2>4, <2>5
  <2>7. FinalResult(a) # 0
    BY <1>3, <1>10, FinalResultMeaning
  <2> QED
    BY <2>6, <2>7 DEF Keep
<1> QED
  BY <1>8, <1>9, <1>10

\* ... and the count of accepted points.
LEMMA RightSizeStep ==
  ASSUME NEW m \in Seq(Int), NEW n \in 0..(Len(m) - 1)
  PROVE  RightSize(SubSeq(m, 1, n + 1))
           = Counted(RightSize(SubSeq(m, 1, n)), m[n + 1])
<1> DEFINE a == SubSeq(m, 1, n)
           b == SubSeq(m, 1, n + 1)
           A == {i \in DOMAIN a : a[i] = ACCEPT}
           B == {i \in DOMAIN b : b[i] = ACCEPT}
<1>1. Len(m) \in Nat /\ n \in Nat /\ n + 1 \in 1..Len(m)
  BY LenProperties
<1>2. \A i \in 1..(n + 1) : m[i] \in Int
  BY <1>1, ElementOfSeq
<1>3. /\ a \in Seq(Int) /\ Len(a) = n
      /\ \A i \in 1..n : a[i] = m[i]
  BY <1>1, <1>2, SubSeqProperties
<1>4. /\ b \in Seq(Int) /\ Len(b) = n + 1
      /\ \A i \in 1..(n + 1) : b[i] = m[i]
  BY <1>1, <1>2, SubSeqProperties
<1>5. DOMAIN a = 1..n /\ DOMAIN b = 1..(n + 1)
  BY <1>3, <1>4, LenProperties
<1>6. B = IF m[n + 1] = ACCEPT THEN A \union {n + 1} ELSE A
  <2> HIDE DEF a, b
  <2>1. A = {i \in 1..n : m[i] = ACCEPT}
    BY <1>3, <1>5
  <2>2. B = {i \in 1..(n + 1) : m[i] = ACCEPT}
    BY <1>4, <1>5
  <2>3. 1..(n + 1) = (1..n) \union {n + 1}
    BY <1>1
  <2> HIDE DEF A, B
  <2> QED
    BY <2>1, <2>2, <2>3
<1>7. IsFiniteSet(A) /\ n + 1 \notin A
  <2> HIDE DEF a, b
  <2>1. A \in SUBSET (1..n)
    BY <1>5
  <2>2. IsFiniteSet(1..n)
    BY <1>1, FS_Interval
  <2>3. n + 1 \notin 1..n
    BY <1>1
  <2> QED
    BY <2>1, <2>2, <2>3, FS_Subset
<1>8. RightSize(a) = Cardinality(A) /\ RightSize(b) = Cardinality(B)
  BY DEF RightSize
<1> HIDE DEF a, b, A, B
<1>9. Cardinality(A \union {n + 1}) = Cardinality(A) + 1
  BY <1>7, FS_AddElement
<1> QED
  BY <1>6, <1>8, <1>9 DEF Counted, a, b

-----------------------------------------------------------------------------
(* The inductive invariant: the three accumulators describe the prefix read. *)

Inv ==
  /\ ScanTypeOK
  /\ ScanComputesResult
  /\ Len(mini_result) = pos
  /\ \A i \in 1..pos : mini_result[i] = Letter(msg[i])

LEMMA InitInv == ScanInit => Inv
<1> SUFFICES ASSUME ScanInit PROVE Inv
  OBVIOUS
<1> USE CodesAreIntegers DEF ScanInit
<1>1. msg \in Seq(Int) /\ Len(msg) \in Nat
  BY LenProperties
<1>2. ScanTypeOK
  BY <1>1 DEF ScanTypeOK
<1>3. Scanned = <<>>
  BY <1>1, SubSeqEmpty DEF Scanned
<1>4. <<>> \in Seq(Int) /\ Len(<<>>) = 0
  BY EmptySeq
<1>5. Failures(<<>>) = {}
  BY DEF Failures
<1>6. FinalResult(<<>>) = 0
  BY <1>5 DEF FinalResult
<1>7. RightSize(<<>>) = 0
  <2>1. RightSize(<<>>) \in 0..Len(<<>>)
    BY <1>4, RightSizeBounds
  <2> QED
    BY <1>4, <2>1
<1> QED
  BY <1>2, <1>3, <1>4, <1>6, <1>7 DEF Inv, ScanComputesResult

LEMMA StepInv == Inv /\ [ScanPoint]_scanVars => Inv'
<1> SUFFICES ASSUME Inv, [ScanPoint]_scanVars PROVE Inv'
  OBVIOUS
<1>1. CASE UNCHANGED scanVars
  BY <1>1 DEF scanVars, Inv, ScanTypeOK, ScanComputesResult, Scanned
<1>2. CASE ScanPoint
  <2> DEFINE e == msg[pos + 1]
             L == {"W", "A", "T", "R", "M", "S", "X"}
  <2>1. msg \in Seq(Int) /\ Len(msg) \in Nat
    BY CodesAreIntegers, LenProperties DEF Inv, ScanTypeOK
  <2>2. pos \in 0..(Len(msg) - 1) /\ pos' = pos + 1 /\ msg' = msg
    BY <1>2, <2>1 DEF ScanPoint, Inv, ScanTypeOK
  <2>3. e \in Int
    BY <2>1, <2>2, ElementOfSeq
  <2>4. ScanComputesResult'
    BY <1>2, <2>1, <2>2, FinalResultStep, RightSizeStep
       DEF Inv, ScanComputesResult, Scanned, ScanPoint
  <2>5. Letter(e) \in L
    BY DEF Letter
  <2>6. /\ mini_result' \in Seq(L)
        /\ Len(mini_result') = pos'
        /\ \A i \in 1..pos' : mini_result'[i] = Letter(msg'[i])
    <3> HIDE DEF e
    <3>1. mini_result \in Seq(L) /\ Len(mini_result) = pos
      BY DEF Inv, ScanTypeOK
    <3>2. mini_result' = Append(mini_result, Letter(e))
      BY <1>2 DEF ScanPoint, e
    <3>3. /\ mini_result' \in Seq(L)
          /\ Len(mini_result') = pos + 1
          /\ \A i \in 1..pos : mini_result'[i] = mini_result[i]
          /\ mini_result'[pos + 1] = Letter(e)
      BY <2>5, <3>1, <3>2, AppendProperties
    <3> QED
      BY <2>2, <3>3 DEF Inv, e
  <2>7. final_result' \in Int /\ right_size' \in 0..pos'
    BY <1>2, <2>2, <2>3 DEF ScanPoint, Inv, ScanTypeOK, Keep, Counted
  <2>8. ScanTypeOK'
    BY <2>1, <2>2, <2>6, <2>7 DEF ScanTypeOK, Inv
  <2> QED
    BY <2>4, <2>6, <2>8 DEF Inv
<1> QED
  BY <1>1, <1>2

\* The loop's variables keep their types: right_size counts points already read.
THEOREM ScanTypes == ScanSpec => []ScanTypeOK
<1>1. Inv => ScanTypeOK
  BY DEF Inv
<1> QED
  BY InitInv, StepInv, <1>1, PTL DEF ScanSpec

\* Whatever message is scanned, each iteration leaves in final_result the code
\* of the first point that failed and in right_size the number accepted.
THEOREM ScanCorrect == ScanSpec => []ScanComputesResult
<1>1. Inv => ScanComputesResult
  BY DEF Inv
<1> QED
  BY InitInv, StepInv, <1>1, PTL DEF ScanSpec

\* The three columns computed from a message agree with each other.
THEOREM ScanColumnsAgree == ScanSpec => []ColumnsAgree
<1>1. Inv => ColumnsAgree
  <2> SUFFICES ASSUME Inv, pos = Len(msg), msg # <<>>
               PROVE  /\ final_result = 0 <=>
                           \A i \in DOMAIN mini_result : mini_result[i] = "A"
                      /\ final_result = 0 <=> Score(msg) = 100
                      /\ right_size =
                           Cardinality({i \in DOMAIN mini_result : mini_result[i] = "A"})
    BY DEF ColumnsAgree
  <2>1. msg \in Seq(Int) /\ Len(msg) \in Nat \ {0} /\ DOMAIN msg = 1..Len(msg)
    BY CodesAreIntegers, LenProperties, EmptySeq DEF Inv, ScanTypeOK
  <2>2. Scanned = msg
    BY <2>1, SubSeqFull DEF Scanned
  <2>3. final_result = FinalResult(msg) /\ right_size = RightSize(msg)
    BY <2>2 DEF Inv, ScanComputesResult
  <2>4. DOMAIN mini_result = 1..Len(msg)
    BY LenProperties DEF Inv, ScanTypeOK
  <2>5. \A i \in 1..Len(msg) : mini_result[i] = "A" <=> msg[i] = ACCEPT
    BY CodesAreIntegers DEF Inv, Letter, Errors
  <2>6. {i \in DOMAIN mini_result : mini_result[i] = "A"}
          = {i \in DOMAIN msg : msg[i] = ACCEPT}
    BY <2>1, <2>4, <2>5
  <2>7. Failures(msg) = {} <=> \A i \in 1..Len(msg) : msg[i] = ACCEPT
    BY <2>1 DEF Failures, ACCEPT
  <2>8. final_result = 0 <=> Failures(msg) = {}
    BY <2>1, <2>3, FinalResultMeaning
  <2>9. final_result = 0 <=> Score(msg) = 100
    BY <2>1, <2>3, ScoreIsFullWhenAccepted
  <2>10. right_size =
           Cardinality({i \in DOMAIN mini_result : mini_result[i] = "A"})
    BY <2>3, <2>6 DEF RightSize
  <2> QED
    BY <2>4, <2>5, <2>7, <2>8, <2>9, <2>10
<1> QED
  BY InitInv, StepInv, <1>1, PTL DEF ScanSpec
=============================================================================
