----------------------------- MODULE CodecProofs ----------------------------
(***************************************************************************)
(* What the judge server and the clients write is read back by the          *)
(* conversions of lib/rojcppUtils.hpp, for texts and numbers of any size.   *)
(* Each conversion is a recursive function: that it exists, and what its    *)
(* values are, is an induction over a text.                                 *)
(***************************************************************************)
EXTENDS Codec, ResultScanProofs

-----------------------------------------------------------------------------
(* Induction and recursion over an interval *)

\* Induction up to n: what holds of 0 and passes from i to i + 1 holds up to n.
LEMMA UpTo ==
  ASSUME NEW n \in Nat, NEW G, 0 \in G, \A i \in 0..(n - 1) : i \in G => i + 1 \in G
  PROVE  0..n \subseteq G
<1> SUFFICES ASSUME (0..n) \ G # {} PROVE FALSE
  OBVIOUS
<1>1. PICK i \in (0..n) \ G : \A j \in (0..n) \ G : i <= j
  <2>1. (0..n) \ G \subseteq Nat
    OBVIOUS
  <2> QED BY <2>1, LeastElement
<1>2. i # 0 /\ i \in 0..n
  OBVIOUS
<1>3. i - 1 \in 0..(n - 1) /\ i - 1 \in 0..n
  BY <1>2
<1>4. i - 1 \in G
  BY <1>1, <1>3
<1>5. (i - 1) + 1 \in G
  BY <1>3, <1>4
<1> QED BY <1>2, <1>5

\* The functions on 0..n whose values follow from one another.
Steps(n, Val) == [1..n -> [Val -> Val]]
Recursive(n, Val, base, step) ==
  {f \in [0..n -> Val] : f[0] = base /\ \A i \in 1..n : f[i] = step[i][f[i - 1]]}

LEMMA Recursion ==
  ASSUME NEW n \in Nat, NEW Val, NEW base \in Val, NEW step \in Steps(n, Val)
  PROVE  Recursive(n, Val, base, step) # {}
<1> USE DEF Steps
<1> DEFINE Chain(k, f) == /\ f \in [0..k -> Val] /\ f[0] = base
                          /\ \A i \in 1..k : f[i] = step[i][f[i - 1]]
           G == {k \in 0..n : \E f : Chain(k, f)}
<1>1. 0 \in G
  <2> DEFINE f == [i \in 0..0 |-> base]
  <2>1. Chain(0, f)
    OBVIOUS
  <2> HIDE DEF f, Chain
  <2> QED BY <2>1
<1>2. ASSUME NEW k \in 0..(n - 1), k \in G
      PROVE  k + 1 \in G
  <2>1. PICK f : Chain(k, f)
    BY <1>2
  <2> DEFINE g == [i \in 0..(k + 1) |-> IF i = k + 1 THEN step[k + 1][f[k]] ELSE f[i]]
  <2>2. k \in Nat /\ k + 1 \in 1..n /\ k \in 0..k
    OBVIOUS
  <2>3. step[k + 1][f[k]] \in Val
    BY <2>1, <2>2
  <2>4. g \in [0..(k + 1) -> Val] /\ g[0] = base
    BY <2>1, <2>2, <2>3
  <2>5. ASSUME NEW i \in 1..(k + 1) PROVE g[i] = step[i][g[i - 1]]
    <3>1. CASE i = k + 1
      <4>1. i - 1 = k /\ k \in 0..(k + 1) /\ k # k + 1
        BY <2>2, <3>1
      <4>2. g[i - 1] = f[k] /\ g[i] = step[k + 1][f[k]]
        BY <4>1, <3>1
      <4> QED BY <4>2, <3>1
    <3>2. CASE i # k + 1
      <4>1. i \in 1..k /\ i \in 0..(k + 1) /\ i - 1 \in 0..(k + 1) /\ i - 1 # k + 1
        BY <2>2, <3>2
      <4>2. g[i] = f[i] /\ g[i - 1] = f[i - 1]
        BY <4>1, <3>2
      <4> QED BY <2>1, <4>1, <4>2
    <3> QED BY <3>1, <3>2
  <2>6. Chain(k + 1, g)
    BY <2>4, <2>5
  <2> HIDE DEF g, Chain
  <2> QED BY <2>2, <2>6
<1> HIDE DEF G
<1>3. 0..n \subseteq G
  BY <1>1, <1>2, UpTo
<1>4. n \in G
  BY <1>3
<1>5. \E f : Chain(n, f)
  <2> HIDE DEF Chain
  <2> QED BY <1>4 DEF G
<1> QED BY <1>5 DEF Recursive

-----------------------------------------------------------------------------
(* Numbers *)

DigitChars == {Digits[value + 1] : value \in 0..9}

\* A digit stands for its number.
LEMMA DigitValues ==
  /\ \A value \in 0..9 : /\ Digits[value + 1] \in DigitChars
                         /\ DigitValue(Digits[value + 1]) = value
  /\ \A ch \in DigitChars : IsDigit(ch) /\ DigitValue(ch) \in 0..9
  /\ \A ch : IsDigit(ch) => ch \in DigitChars
<1>1. \A a, b \in 0..9 : Digits[a + 1] = Digits[b + 1] => a = b
  BY DEF Digits
<1>2. \A value \in 0..9 : Digits[value + 1] \in DigitChars
  BY DEF DigitChars
<1>3. \A value \in 0..9 : DigitValue(Digits[value + 1]) = value
  <2> SUFFICES ASSUME NEW value \in 0..9 PROVE DigitValue(Digits[value + 1]) = value
    OBVIOUS
  <2> HIDE DEF Digits
  <2> QED BY <1>1 DEF DigitValue
<1>4. Len(Digits) = 10
  BY DEF Digits
<1>5. \A ch \in DigitChars : IsDigit(ch) /\ DigitValue(ch) \in 0..9
  <2> SUFFICES ASSUME NEW value \in 0..9
               PROVE  IsDigit(Digits[value + 1]) /\ DigitValue(Digits[value + 1]) \in 0..9
    BY DEF DigitChars
  <2>1. value + 1 \in 1..Len(Digits)
    BY <1>4
  <2> HIDE DEF Digits
  <2> QED BY <1>3, <2>1 DEF IsDigit, Contains
<1>6. ASSUME NEW ch, IsDigit(ch) PROVE ch \in DigitChars
  <2>1. PICK i \in 1..10 : Digits[i] = ch
    BY <1>4, <1>6 DEF IsDigit, Contains
  <2>2. i - 1 \in 0..9 /\ (i - 1) + 1 = i
    OBVIOUS
  <2> QED BY <1>2, <2>1, <2>2
<1> QED BY <1>2, <1>3, <1>5, <1>6

\* str2int, one character at a time.
MagnitudeStep(str, i, a) == IF IsDigit(str[i]) THEN a * 10 + DigitValue(str[i]) ELSE a

LEMMA MagnitudeStates ==
  ASSUME NEW S, NEW str \in Seq(S)
  PROVE  \E f \in [0..Len(str) -> Nat] :
           /\ f[0] = 0
           /\ \A i \in 1..Len(str) : f[i] = MagnitudeStep(str, i, f[i - 1])
           /\ Magnitude(str) = f[Len(str)]
<1> DEFINE n == Len(str)
           step == [i \in 1..n |-> [a \in Nat |-> MagnitudeStep(str, i, a)]]
           States(f) == [i \in 0..n |->
                           IF i = 0 THEN 0
                           ELSE IF IsDigit(str[i]) THEN f[i - 1] * 10 + DigitValue(str[i])
                           ELSE f[i - 1]]
           value == CHOOSE f : f = States(f)
<1>1. n \in Nat
  OBVIOUS
<1>2. Magnitude(str) = value[n]
  BY DEF Magnitude
<1> HIDE DEF n
<1>3. \A i \in 1..n : \A a \in Nat : MagnitudeStep(str, i, a) \in Nat
  <2> SUFFICES ASSUME NEW i \in 1..n, NEW a \in Nat PROVE MagnitudeStep(str, i, a) \in Nat
    OBVIOUS
  <2>1. CASE IsDigit(str[i])
    <3>1. DigitValue(str[i]) \in 0..9
      BY <2>1, DigitValues
    <3> QED BY <2>1, <3>1 DEF MagnitudeStep
  <2>2. CASE ~IsDigit(str[i])
    BY <2>2 DEF MagnitudeStep
  <2> QED BY <2>1, <2>2
<1>4. step \in Steps(n, Nat)
  BY <1>3 DEF Steps
<1>5. PICK f \in [0..n -> Nat] : f[0] = 0 /\ \A i \in 1..n : f[i] = step[i][f[i - 1]]
  <2>1. 0 \in Nat
    OBVIOUS
  <2> HIDE DEF step
  <2>2. Recursive(n, Nat, 0, step) # {}
    BY <1>1, <1>4, <2>1, Recursion
  <2> QED BY <2>2 DEF Recursive
<1>6. f = States(f)
  <2> SUFFICES ASSUME NEW i \in 0..n PROVE f[i] = States(f)[i]
    BY <1>5
  <2>1. CASE i = 0
    BY <1>5, <2>1
  <2>2. CASE i # 0
    <3>1. i \in 1..n /\ f[i - 1] \in Nat
      BY <1>1, <1>5, <2>2
    <3> QED BY <1>5, <2>2, <3>1 DEF MagnitudeStep
  <2> QED BY <2>1, <2>2
<1>7. value = States(value)
  <2> HIDE DEF States
  <2> QED BY <1>6
<1> HIDE DEF value
<1>8. value[0] = 0 /\ \A i \in 1..n : value[i] = MagnitudeStep(str, i, value[i - 1])
  BY <1>1, <1>7 DEF MagnitudeStep
<1>9. \A i \in 0..n : value[i] \in Nat
  <2> DEFINE G == {i \in 0..n : value[i] \in Nat}
  <2>1. 0 \in G
    BY <1>1, <1>8
  <2>2. ASSUME NEW i \in 0..(n - 1), i \in G PROVE i + 1 \in G
    <3>1. i + 1 \in 1..n /\ i + 1 \in 0..n /\ (i + 1) - 1 = i
      BY <1>1
    <3>2. value[i + 1] = MagnitudeStep(str, i + 1, value[i])
      BY <1>8, <3>1
    <3> QED BY <1>3, <2>2, <3>1, <3>2
  <2> HIDE DEF G
  <2>3. 0..n \subseteq G
    BY <1>1, <2>1, <2>2, UpTo
  <2> QED BY <2>3 DEF G
<1>10. value \in [0..n -> Nat]
  BY <1>7, <1>9
<1> QED BY <1>2, <1>8, <1>10 DEF n

\* A text's number is a natural number, and that of no text is 0.
LEMMA MagnitudeType ==
  ASSUME NEW S, NEW str \in Seq(S)
  PROVE  Magnitude(str) \in Nat /\ (str = <<>> => Magnitude(str) = 0)
<1>1. PICK f \in [0..Len(str) -> Nat] : f[0] = 0 /\ Magnitude(str) = f[Len(str)]
  BY MagnitudeStates
<1>2. Len(str) \in Nat /\ (str = <<>> => Len(str) = 0)
  OBVIOUS
<1> QED BY <1>1, <1>2

\* The largest int, as the prover takes it: it would write out an interval of that size.
LEMMA IntMax == INT_MAX \in Nat /\ 999999999 <= INT_MAX
BY SMT DEF INT_MAX

\* Nine digits are too few for an overflow.
LEMMA NineDigits ==
  ASSUME NEW S, NEW str \in Seq(S), IsShort(str)
  PROVE  Magnitude(str) \in 0..INT_MAX
<1> DEFINE n == Len(str)
<1>1. n \in 0..9
  <2>1. n \in Nat
    OBVIOUS
  <2>2. n < 10
    BY DEF IsShort
  <2> HIDE DEF n
  <2> QED BY <2>1, <2>2
<1>2. PICK f \in [0..n -> Nat] :
        /\ f[0] = 0 /\ Magnitude(str) = f[n]
        /\ \A i \in 1..n : f[i] = MagnitudeStep(str, i, f[i - 1])
  BY MagnitudeStates
<1> HIDE DEF n
<1>3. ASSUME NEW i \in 1..n
      PROVE  f[i] \in Nat /\ f[i - 1] \in Nat /\ f[i] <= 10 * f[i - 1] + 9
  <2>1. i \in 0..n /\ i - 1 \in 0..n
    BY <1>1
  <2>2. f[i] \in Nat /\ f[i - 1] \in Nat
    BY <1>2, <2>1
  <2>3. f[i] = MagnitudeStep(str, i, f[i - 1])
    BY <1>2
  <2>4. CASE IsDigit(str[i])
    <3> DEFINE a == f[i - 1]
               d == DigitValue(str[i])
    <3>1. d \in 0..9
      BY <2>4, DigitValues
    <3>2. f[i] = a * 10 + d /\ a \in Nat
      BY <2>2, <2>3, <2>4 DEF MagnitudeStep
    <3> HIDE DEF d, a
    <3>3. a * 10 + d <= 10 * a + 9
      BY <3>1, <3>2
    <3>4. f[i] \in Nat /\ f[i] <= 10 * a + 9
      BY <2>2, <3>2, <3>3
    <3> QED BY <2>2, <3>4 DEF a
  <2>5. CASE ~IsDigit(str[i])
    BY <2>2, <2>3, <2>5 DEF MagnitudeStep
  <2> QED BY <2>4, <2>5
<1> DEFINE AtMost(i, bound) == i <= n => f[i] \in Nat /\ f[i] <= bound
<1>4. ASSUME NEW i \in Nat, NEW bound \in Nat, AtMost(i, bound)
      PROVE  AtMost(i + 1, 10 * bound + 9)
  <2> SUFFICES ASSUME i + 1 <= n PROVE f[i + 1] \in Nat /\ f[i + 1] <= 10 * bound + 9
    OBVIOUS
  <2>1. i <= n /\ i + 1 \in 1..n /\ (i + 1) - 1 = i
    BY <1>1
  <2>2. f[i] \in Nat /\ f[i] <= bound
    BY <1>4, <2>1
  <2>3. f[i + 1] \in Nat /\ f[i + 1] <= 10 * f[i] + 9
    BY <1>3, <2>1
  <2> QED BY <2>2, <2>3
<1>5. AtMost(0, 0)
  BY <1>2
<1> HIDE DEF AtMost
<1>6. AtMost(1, 9)
  <2>1. 0 + 1 = 1 /\ 10 * 0 + 9 = 9
    OBVIOUS
  <2> QED BY <1>4, <1>5, <2>1
<1>7. AtMost(2, 99)
  <2>1. 1 + 1 = 2 /\ 10 * 9 + 9 = 99
    OBVIOUS
  <2> QED BY <1>4, <1>6, <2>1
<1>8. AtMost(3, 999)
  <2>1. 2 + 1 = 3 /\ 10 * 99 + 9 = 999
    OBVIOUS
  <2> QED BY <1>4, <1>7, <2>1
<1>9. AtMost(4, 9999)
  <2>1. 3 + 1 = 4 /\ 10 * 999 + 9 = 9999
    OBVIOUS
  <2> QED BY <1>4, <1>8, <2>1
<1>10. AtMost(5, 99999)
  <2>1. 4 + 1 = 5 /\ 10 * 9999 + 9 = 99999
    OBVIOUS
  <2> QED BY <1>4, <1>9, <2>1
<1>11. AtMost(6, 999999)
  <2>1. 5 + 1 = 6 /\ 10 * 99999 + 9 = 999999
    OBVIOUS
  <2> QED BY <1>4, <1>10, <2>1
<1>12. AtMost(7, 9999999)
  <2>1. 6 + 1 = 7 /\ 10 * 999999 + 9 = 9999999
    OBVIOUS
  <2> QED BY <1>4, <1>11, <2>1
<1>13. AtMost(8, 99999999)
  <2>1. 7 + 1 = 8 /\ 10 * 9999999 + 9 = 99999999
    OBVIOUS
  <2> QED BY <1>4, <1>12, <2>1
<1>14. AtMost(9, 999999999)
  <2>1. 8 + 1 = 9 /\ 10 * 99999999 + 9 = 999999999
    OBVIOUS
  <2> QED BY <1>4, <1>13, <2>1
<1>15. f[n] \in Nat /\ f[n] <= 999999999
  <2>1. n = 0 \/ n = 1 \/ n = 2 \/ n = 3 \/ n = 4 \/ n = 5 \/ n = 6 \/ n = 7 \/ n = 8 \/ n = 9
    BY <1>1
  <2> QED BY <2>1, <1>5, <1>6, <1>7, <1>8, <1>9, <1>10, <1>11, <1>12, <1>13, <1>14, SMT DEF AtMost
<1>16. f[n] \in 0..INT_MAX
  BY <1>15, IntMax, SMT
<1> QED BY <1>2, <1>16

\* One more digit.
LEMMA MagnitudeAppend ==
  ASSUME NEW S, NEW str \in Seq(S), NEW ch \in S, IsDigit(ch)
  PROVE  Magnitude(str \o <<ch>>) = Magnitude(str) * 10 + DigitValue(ch)
<1> DEFINE n == Len(str)
           long == str \o <<ch>>
<1>1. n \in Nat /\ long \in Seq(S) /\ Len(long) = n + 1 /\ long[n + 1] = ch
      /\ \A i \in 1..n : long[i] = str[i]
  OBVIOUS
<1> HIDE DEF n, long
<1>2. PICK f \in [0..n -> Nat] :
           /\ f[0] = 0 /\ Magnitude(str) = f[n]
           /\ \A i \in 1..n : f[i] = MagnitudeStep(str, i, f[i - 1])
  BY MagnitudeStates DEF n
<1>3. PICK g \in [0..(n + 1) -> Nat] :
           /\ g[0] = 0 /\ Magnitude(long) = g[n + 1]
           /\ \A i \in 1..(n + 1) : g[i] = MagnitudeStep(long, i, g[i - 1])
  <2>1. \E g \in [0..Len(long) -> Nat] :
           /\ g[0] = 0
           /\ \A i \in 1..Len(long) : g[i] = MagnitudeStep(long, i, g[i - 1])
           /\ Magnitude(long) = g[Len(long)]
    BY <1>1, MagnitudeStates
  <2> QED BY <1>1, <2>1
<1>4. \A i \in 0..n : g[i] = f[i]
  <2> DEFINE G == {i \in 0..n : g[i] = f[i]}
  <2>1. 0 \in G
    BY <1>1, <1>2, <1>3
  <2>2. ASSUME NEW i \in 0..(n - 1), i \in G PROVE i + 1 \in G
    <3>1. i + 1 \in 1..n /\ i + 1 \in 0..n /\ i + 1 \in 1..(n + 1) /\ (i + 1) - 1 = i
      BY <1>1
    <3>2. g[i + 1] = MagnitudeStep(long, i + 1, g[i])
      BY <1>3, <3>1
    <3>3. f[i + 1] = MagnitudeStep(str, i + 1, f[i])
      BY <1>2, <3>1
    <3> QED BY <1>1, <2>2, <3>1, <3>2, <3>3 DEF MagnitudeStep
  <2> HIDE DEF G
  <2>3. 0..n \subseteq G
    BY <1>1, <2>1, <2>2, UpTo
  <2> QED BY <2>3 DEF G
<1>5. g[n + 1] = MagnitudeStep(long, n + 1, g[n])
  <2>1. n + 1 \in 1..(n + 1) /\ (n + 1) - 1 = n
    BY <1>1
  <2> QED BY <1>3, <2>1
<1>6. g[n] = f[n]
  BY <1>1, <1>4
<1>7. Magnitude(long) = f[n] * 10 + DigitValue(ch)
  BY <1>1, <1>3, <1>5, <1>6 DEF MagnitudeStep
<1> QED BY <1>2, <1>7 DEF long

\* A number written with one more digit.
LEMMA OneMoreDigit ==
  ASSUME NEW t \in Seq(DigitChars), NEW value \in 0..9
  PROVE  LET u == t \o <<Digits[value + 1]>>
         IN u \in Seq(DigitChars) /\ u # <<>> /\ Magnitude(u) = 10 * Magnitude(t) + value
<1> DEFINE ch == Digits[value + 1]
<1>1. ch \in DigitChars /\ IsDigit(ch) /\ DigitValue(ch) = value
  <2>1. ch \in DigitChars /\ DigitValue(ch) = value
    BY DigitValues, Zenon
  <2> HIDE DEF ch
  <2> QED BY <2>1, DigitValues, Zenon
<1> HIDE DEF ch
<1>2. t \o <<ch>> \in Seq(DigitChars) /\ t \o <<ch>> # <<>>
  BY <1>1
<1>3. Magnitude(t \o <<ch>>) = Magnitude(t) * 10 + value
  BY <1>1, MagnitudeAppend
<1>4. Magnitude(t) \in Nat
  BY MagnitudeType
<1>5. Magnitude(t) * 10 = 10 * Magnitude(t)
  BY <1>4
<1> QED BY <1>2, <1>3, <1>5 DEF ch

\* Every number is written with digits, and read back.
LEMMA NumeralReadBack ==
  ASSUME NEW n \in Nat
  PROVE  /\ Numeral(n) \in Seq(DigitChars) /\ Numeral(n) # <<>>
         /\ Magnitude(Numeral(n)) = n
<1> DEFINE Text == Seq(DigitChars)
           Written(k, f) == (IF k < 10 THEN <<>> ELSE f[k \div 10]) \o <<Digits[(k % 10) + 1]>>
           Table(f) == [k \in 0..n |-> Written(k, f)]
           Chain(m, f) == f \in [0..m -> Text] /\ \A k \in 0..m : f[k] = Written(k, f)
<1>1. Numeral(n) = (CHOOSE f : f = Table(f))[n]
  BY DEF Numeral
<1>2. \A k \in Nat : <<Digits[(k % 10) + 1]>> \in Text
  <2> SUFFICES ASSUME NEW k \in Nat PROVE Digits[(k % 10) + 1] \in DigitChars
    OBVIOUS
  <2>1. k % 10 \in 0..9
    OBVIOUS
  <2> HIDE DEF Text
  <2> QED BY <2>1 DEF DigitChars
<1>3. ASSUME NEW k \in Nat, NEW f, k >= 10 => f[k \div 10] \in Text
      PROVE  Written(k, f) \in Text
  BY <1>2, <1>3
<1>4. \A k \in Nat : k >= 10 => k \div 10 \in 0..(k - 1)
  OBVIOUS
<1> HIDE DEF Text
<1>5. \E f : Chain(n, f)
  <2> DEFINE G == {m \in 0..n : \E f : Chain(m, f)}
  <2>1. 0 \in G
    <3> DEFINE f == [k \in 0..0 |-> Written(0, <<>>)]
    <3>1. Written(0, <<>>) \in Text /\ Written(0, f) = Written(0, <<>>)
      <4>1. Written(0, <<>>) \in Text
        <5> HIDE DEF Written
        <5> QED BY <1>3
      <4> HIDE DEF f
      <4>2. Written(0, f) = Written(0, <<>>)
        OBVIOUS
      <4> QED BY <4>1, <4>2
    <3>2. f \in [0..0 -> Text] /\ \A k \in 0..0 : f[k] = Written(0, <<>>) /\ k = 0
      <4> HIDE DEF Written
      <4> QED BY <3>1
    <3>3. Chain(0, f)
      <4> HIDE DEF Written, f
      <4> QED BY <3>1, <3>2
    <3> HIDE DEF f, Chain
    <3> QED BY <3>3
  <2>2. ASSUME NEW m \in 0..(n - 1), m \in G
        PROVE  m + 1 \in G
    <3>1. PICK f : Chain(m, f)
      BY <2>2
    <3> DEFINE g == [k \in 0..(m + 1) |-> IF k = m + 1 THEN Written(m + 1, f) ELSE f[k]]
    <3>2. m \in Nat /\ m + 1 \in 0..n
      OBVIOUS
    <3>3. Written(m + 1, f) \in Text
      <4>1. m + 1 >= 10 => (m + 1) \div 10 \in 0..m
        BY <1>4, <3>2
      <4>2. m + 1 >= 10 => f[(m + 1) \div 10] \in Text
        BY <3>1, <4>1
      <4> HIDE DEF Written
      <4> QED BY <1>3, <3>2, <4>2
    <3>4. g \in [0..(m + 1) -> Text]
      <4> HIDE DEF Written
      <4> QED BY <3>1, <3>2, <3>3
    <3>5. ASSUME NEW k \in 0..(m + 1) PROVE Written(k, g) = Written(k, f)
      <4>1. k >= 10 => k \div 10 \in 0..m
        BY <1>4, <3>2
      <4>2. k >= 10 => g[k \div 10] = f[k \div 10]
        <5> HIDE DEF Written
        <5> QED BY <3>2, <4>1
      <4> HIDE DEF g
      <4>3. CASE k < 10
        BY <4>3
      <4>4. CASE k >= 10
        <5>1. ~(k < 10) /\ g[k \div 10] = f[k \div 10]
          BY <3>2, <4>2, <4>4
        <5> QED BY <5>1
      <4> HIDE DEF Written
      <4>5. k < 10 \/ k >= 10
        BY <3>2
      <4> QED BY <4>3, <4>4, <4>5
    <3>6. ASSUME NEW k \in 0..(m + 1) PROVE g[k] = Written(k, f)
      <4> HIDE DEF Written
      <4>1. CASE k = m + 1
        BY <4>1
      <4>2. CASE k # m + 1
        <5>1. k \in 0..m
          BY <3>2, <4>2
        <5>2. f[k] = Written(k, f)
          BY <3>1, <5>1
        <5> QED BY <4>2, <5>2
      <4> QED BY <4>1, <4>2
    <3>7. Chain(m + 1, g)
      <4> HIDE DEF Written, g
      <4> QED BY <3>4, <3>5, <3>6
    <3> HIDE DEF Chain, g
    <3> QED BY <3>2, <3>7
  <2> HIDE DEF G
  <2>3. 0..n \subseteq G
    BY <2>1, <2>2, UpTo
  <2>4. n \in G
    BY <2>3
  <2> HIDE DEF Chain
  <2> QED BY <2>4 DEF G
<1>6. \E f : f = Table(f)
  <2>1. PICK f : Chain(n, f)
    BY <1>5
  <2> HIDE DEF Written
  <2>2. f = Table(f)
    BY <2>1
  <2> QED BY <2>2
<1> DEFINE d == CHOOSE f : f = Table(f)
<1>7. d = Table(d)
  <2> HIDE DEF Table
  <2> QED BY <1>6
<1> HIDE DEF d
<1> DEFINE Fits(k) == d[k] \in Text /\ d[k] # <<>> /\ Magnitude(d[k]) = k
<1>8. ASSUME NEW k \in 0..n, k >= 10 => Fits(k \div 10)
      PROVE  Fits(k)
  <2>1. k \in Nat /\ k % 10 \in 0..9
    OBVIOUS
  <2>2. d[k] = Written(k, d)
    <3> HIDE DEF Written
    <3> QED BY <1>7
  <2>3. CASE k < 10
    <3>1. d[k] = <<>> \o <<Digits[(k % 10) + 1]>> /\ k % 10 = k
      BY <2>1, <2>2, <2>3
    <3>2. <<>> \in Text /\ Magnitude(<<>>) = 0
      <4>1. <<>> \in Text
        BY DEF Text
      <4> QED BY <4>1, MagnitudeType DEF Text
    <3>3. d[k] \in Text /\ d[k] # <<>> /\ Magnitude(d[k]) = 10 * 0 + (k % 10)
      <4> HIDE DEF Written
      <4>1. /\ d[k] \in Text /\ d[k] # <<>>
            /\ Magnitude(d[k]) = 10 * Magnitude(<<>>) + (k % 10)
        <5> DEFINE first == <<>>
        <5>1. first \in Seq(DigitChars) /\ d[k] = first \o <<Digits[(k % 10) + 1]>>
          BY <3>1
        <5> HIDE DEF first
        <5>2. /\ d[k] \in Seq(DigitChars) /\ d[k] # <<>>
              /\ Magnitude(d[k]) = 10 * Magnitude(first) + (k % 10)
          BY <2>1, <5>1, OneMoreDigit
        <5> QED BY <5>2 DEF first, Text
      <4> QED BY <3>2, <4>1
    <3>4. 10 * 0 + (k % 10) = k
      BY <2>1, <3>1
    <3> HIDE DEF Written
    <3> QED BY <3>3, <3>4
  <2>4. CASE k >= 10
    <3>1. d[k] = d[k \div 10] \o <<Digits[(k % 10) + 1]>>
      <4>1. ~(k < 10)
        BY <2>1, <2>4
      <4> QED BY <2>2, <4>1, Zenon
    <3>2. d[k \div 10] \in Text /\ Magnitude(d[k \div 10]) = k \div 10
      BY <1>8, <2>4
    <3>3. d[k] \in Text /\ d[k] # <<>> /\ Magnitude(d[k]) = 10 * (k \div 10) + (k % 10)
      <4> HIDE DEF Written
      <4> QED BY <2>1, <3>1, <3>2, OneMoreDigit DEF Text
    <3>4. 10 * (k \div 10) + (k % 10) = k
      BY <2>1
    <3> HIDE DEF Written
    <3> QED BY <3>3, <3>4
  <2> HIDE DEF Fits
  <2> QED BY <2>1, <2>3, <2>4
<1> HIDE DEF Fits
<1>9. \A k \in 0..n : Fits(k)
  <2> DEFINE G == {m \in 0..n : \A k \in 0..m : Fits(k)}
  <2>1. 0 \in G
    <3>1. Fits(0)
      BY <1>8
    <3> QED BY <3>1
  <2>2. ASSUME NEW m \in 0..(n - 1), m \in G
        PROVE  m + 1 \in G
    <3>1. m \in Nat /\ m + 1 \in 0..n
      OBVIOUS
    <3>2. m + 1 >= 10 => (m + 1) \div 10 \in 0..m
      BY <1>4, <3>1
    <3>3. Fits(m + 1)
      BY <1>8, <2>2, <3>1, <3>2
    <3>4. \A k \in 0..(m + 1) : k = m + 1 \/ k \in 0..m
      BY <3>1
    <3> QED BY <2>2, <3>1, <3>3, <3>4
  <2> HIDE DEF G
  <2>3. 0..n \subseteq G
    BY <2>1, <2>2, UpTo
  <2>4. n \in G
    BY <2>3
  <2> QED BY <2>4 DEF G
<1>10. Fits(n)
  BY <1>9
<1> QED BY <1>1, <1>10 DEF d, Fits, Text

-----------------------------------------------------------------------------
(* Two texts joined *)

LEMMA Joined ==
  ASSUME NEW S, NEW a \in Seq(S), NEW b \in Seq(S)
  PROVE  /\ a \o b \in Seq(S) /\ Len(a \o b) = Len(a) + Len(b)
         /\ \A i \in 1..Len(a) : (a \o b)[i] = a[i]
         /\ \A i \in 1..Len(b) : (a \o b)[Len(a) + i] = b[i]
<1>1. Len(a) \in Nat /\ Len(b) \in Nat
  OBVIOUS
<1>2. ASSUME NEW i \in 1..Len(b) PROVE (a \o b)[Len(a) + i] = b[i]
  <2>1. Len(a) + i \in 1..(Len(a) + Len(b)) /\ ~(Len(a) + i <= Len(a)) /\ (Len(a) + i) - Len(a) = i
    BY <1>1
  <2> QED BY <2>1
<1> QED BY <1>2

\* A part of a joined text that lies in the first, and the second as a part.
LEMMA PartsOfJoined ==
  ASSUME NEW S, NEW a \in Seq(S), NEW b \in Seq(S)
  PROVE  /\ \A m \in 0..Len(a) : SubSeq(a \o b, 1, m) = SubSeq(a, 1, m)
         /\ SubSeq(a \o b, Len(a) + 1, Len(a \o b)) = b
<1> DEFINE c == a \o b
<1>1. /\ c \in Seq(S) /\ Len(c) = Len(a) + Len(b)
      /\ \A i \in 1..Len(a) : c[i] = a[i]
      /\ \A i \in 1..Len(b) : c[Len(a) + i] = b[i]
  BY Joined
<1>2. Len(a) \in Nat /\ Len(b) \in Nat
  OBVIOUS
<1> HIDE DEF c
<1>3. ASSUME NEW m \in 0..Len(a) PROVE SubSeq(c, 1, m) = SubSeq(a, 1, m)
  BY <1>1, <1>2
<1>4. SubSeq(c, Len(a) + 1, Len(c)) = b
  <2> DEFINE d == SubSeq(c, Len(a) + 1, Len(c))
  <2>1. d \in Seq(S) /\ Len(d) = Len(b)
    BY <1>1, <1>2
  <2>2. ASSUME NEW i \in 1..Len(b) PROVE d[i] = b[i]
    <3>1. d[i] = c[Len(a) + 1 + i - 1] /\ Len(a) + 1 + i - 1 = Len(a) + i
      BY <1>1, <1>2
    <3> QED BY <1>1, <3>1
  <2> HIDE DEF d
  <2>3. d = b
    BY <2>1, <2>2, SeqEqual
  <2> QED BY <2>3 DEF d
<1> QED BY <1>3, <1>4 DEF c

-----------------------------------------------------------------------------
(* Messages *)

\* What follows the eight characters of a size message is its number.
LEMMA SizeReadBack ==
  ASSUME NEW n \in Nat
  PROVE  LET msg == SizeMessage(n)
         IN Kind(msg) = "size" /\ Str2int(GetAllSizeSize(msg)) = n
<1> DEFINE t == Numeral(n)
           S == DigitChars \union {"a", "l", "S", "i", "z", "e", ":"}
           msg == ALL_SIZE \o t
<1>1. t \in Seq(DigitChars) /\ t # <<>> /\ Magnitude(t) = n
  BY NumeralReadBack
<1> HIDE DEF t
<1>2. t \in Seq(S) /\ ALL_SIZE \in Seq(S)
  <2>1. DigitChars \subseteq S
    OBVIOUS
  <2>2. ALL_SIZE \in Seq(S)
    BY DEF ALL_SIZE
  <2> HIDE DEF S
  <2>3. t \in Seq(S)
    BY <1>1, <2>1
  <2> QED BY <2>2, <2>3
<1>3. Len(ALL_SIZE) = 8
  BY DEF ALL_SIZE
<1>4. Len(t) \in Nat
  BY <1>1
<1> HIDE DEF S
<1>5. msg \in Seq(S) /\ Len(msg) = Len(ALL_SIZE) + Len(t)
  BY <1>2, Joined
<1>6. msg # ALL
  <2>1. Len(ALL) = 3
    BY DEF ALL
  <2>2. Len(ALL_SIZE) + Len(t) # 3
    BY <1>3, <1>4
  <2> HIDE DEF msg
  <2>3. Len(msg) # Len(ALL)
    BY <1>5, <2>1, <2>2, Zenon
  <2> QED BY <2>3, Zenon
<1>7. StrBeginWith(msg, SubSeq(ALL_SIZE, 1, 7))
  <2>1. \A m \in 0..Len(ALL_SIZE) : SubSeq(msg, 1, m) = SubSeq(ALL_SIZE, 1, m)
    BY <1>2, PartsOfJoined
  <2> DEFINE p == SubSeq(ALL_SIZE, 1, 7)
  <2>2. Len(p) = 7 /\ SubSeq(p, 1, Len(p)) = p
    BY DEF ALL_SIZE
  <2> HIDE DEF msg, p
  <2>3. 7 \in 0..Len(ALL_SIZE)
    BY <1>3
  <2>4. SubSeq(msg, 1, Len(p)) = p /\ Len(p) <= Len(msg)
    BY <1>3, <1>4, <1>5, <2>1, <2>2, <2>3 DEF p
  <2> QED BY <2>2, <2>4 DEF StrBeginWith, IsPrefix, p
<1>8. GetAllSizeSize(msg) = t
  <2>1. SubSeq(msg, Len(ALL_SIZE) + 1, Len(msg)) = t
    BY <1>2, PartsOfJoined
  <2>2. Len(ALL_SIZE) + 1 = 9
    BY <1>3
  <2> HIDE DEF msg
  <2> QED BY <2>1, <2>2 DEF GetAllSizeSize
<1> HIDE DEF msg
<1>9. Kind(msg) = "size" /\ Str2int(GetAllSizeSize(msg)) = n
  BY <1>1, <1>6, <1>7, <1>8 DEF Kind, Str2int
<1> QED BY <1>9 DEF SizeMessage, msg, t

-----------------------------------------------------------------------------
(* Points *)

Infos(S) == [commas : Nat, tmp : Seq(S), point : Nat, in : Seq(S)]

LEMMA CharType ==
  ASSUME NEW S, NEW info \in Infos(S), NEW e \in S
  PROVE  Char(info, e) \in Infos(S)
<1>1. info.tmp \in Seq(S) /\ info.commas \in Nat /\ info.point \in Nat /\ info.in \in Seq(S)
  BY DEF Infos
<1>2. Str2int(info.tmp) \in Nat /\ Append(info.tmp, e) \in Seq(S) /\ <<>> \in Seq(S)
  BY <1>1, MagnitudeType DEF Str2int
<1>3. CASE e # COMMA
  BY <1>1, <1>2, <1>3 DEF Char, Infos
<1>4. CASE e = COMMA
  <2> DEFINE point == IF info.commas = 0 THEN Str2int(info.tmp) ELSE info.point
             in == IF info.commas = 1 THEN info.tmp ELSE info.in
  <2>1. point \in Nat /\ in \in Seq(S)
    BY <1>1, <1>2
  <2>2. Char(info, e) = [commas |-> info.commas + 1, tmp |-> <<>>, point |-> point, in |-> in]
    BY <1>4 DEF Char, Infos
  <2> HIDE DEF point, in
  <2> QED BY <1>1, <1>2, <2>1, <2>2 DEF Infos
<1> QED BY <1>3, <1>4

\* The records get_single_point_info goes through.
InfoStates(S, msg) ==
  {f \in [0..Len(msg) -> Infos(S)] :
     f[0] = NoInfo /\ \A i \in 1..Len(msg) : f[i] = Char(f[i - 1], msg[i])}

LEMMA InfosOfMessage ==
  ASSUME NEW S, NEW msg \in Seq(S)
  PROVE  \E f \in InfoStates(S, msg) :
           GetSinglePointInfo(msg) =
             [point |-> f[Len(msg)].point, in |-> f[Len(msg)].in, out |-> f[Len(msg)].tmp]
<1> DEFINE n == Len(msg)
           Val == Infos(S)
           step == [i \in 1..n |-> [a \in Val |-> Char(a, msg[i])]]
           States(f) == [i \in 0..n |-> IF i = 0 THEN NoInfo ELSE Char(f[i - 1], msg[i])]
           info == CHOOSE f : f = States(f)
           Told(last) == [point |-> last.point, in |-> last.in, out |-> last.tmp]
<1>1. n \in Nat /\ \A i \in 1..n : msg[i] \in S
  OBVIOUS
<1>2. GetSinglePointInfo(msg) = Told(info[n])
  BY DEF GetSinglePointInfo
<1> HIDE DEF n
<1>3. NoInfo \in Val
  BY DEF NoInfo, Infos
<1>4. \A i \in 1..n : \A a \in Val : Char(a, msg[i]) \in Val
  BY <1>1, CharType
<1> HIDE DEF Val
<1>5. step \in Steps(n, Val)
  BY <1>4 DEF Steps
<1>6. PICK f \in [0..n -> Val] : f[0] = NoInfo /\ \A i \in 1..n : f[i] = step[i][f[i - 1]]
  <2> HIDE DEF step
  <2>1. Recursive(n, Val, NoInfo, step) # {}
    BY <1>1, <1>3, <1>5, Recursion
  <2> QED BY <2>1 DEF Recursive
<1>7. f = States(f)
  <2> SUFFICES ASSUME NEW i \in 0..n PROVE f[i] = States(f)[i]
    BY <1>6
  <2>1. CASE i = 0
    BY <1>6, <2>1
  <2>2. CASE i # 0
    <3>1. i \in 1..n /\ f[i - 1] \in Val
      BY <1>1, <1>6, <2>2
    <3> QED BY <1>6, <2>2, <3>1
  <2> QED BY <2>1, <2>2
<1>8. info = States(info)
  <2> HIDE DEF States
  <2> QED BY <1>7
<1> HIDE DEF info
<1>9. info[0] = NoInfo /\ \A i \in 1..n : info[i] = Char(info[i - 1], msg[i])
  BY <1>1, <1>8
<1>10. \A i \in 0..n : info[i] \in Val
  <2> DEFINE G == {i \in 0..n : info[i] \in Val}
  <2>1. 0 \in G
    BY <1>1, <1>3, <1>9
  <2>2. ASSUME NEW i \in 0..(n - 1), i \in G PROVE i + 1 \in G
    <3>1. i + 1 \in 1..n /\ i + 1 \in 0..n /\ (i + 1) - 1 = i
      BY <1>1
    <3>2. info[i + 1] = Char(info[i], msg[i + 1])
      BY <1>9, <3>1
    <3> QED BY <1>4, <2>2, <3>1, <3>2
  <2> HIDE DEF G
  <2>3. 0..n \subseteq G
    BY <1>1, <2>1, <2>2, UpTo
  <2> QED BY <2>3 DEF G
<1>11. info \in InfoStates(S, msg)
  <2>1. info \in [0..n -> Val]
    BY <1>8, <1>10
  <2> QED BY <1>9, <2>1 DEF InfoStates, n, Val
<1> QED BY <1>2, <1>11 DEF n

\* A field without commas is in tmp when it has been read, and nothing else has
\* changed.
FieldAt(msg, w, j) ==
  j + Len(w) <= Len(msg) /\ \A i \in 1..Len(w) : msg[j + i] = w[i] /\ w[i] # COMMA
FieldKept(f, w, j) ==
  LET last == f[j + Len(w)]
  IN /\ last.tmp = w
     /\ last.commas = f[j].commas /\ last.point = f[j].point /\ last.in = f[j].in

LEMMA FieldRead ==
  ASSUME NEW S, NEW msg \in Seq(S), NEW f \in InfoStates(S, msg),
         NEW w \in Seq(S), NEW j \in Nat, FieldAt(msg, w, j), f[j].tmp = <<>>
  PROVE  FieldKept(f, w, j)
<1> DEFINE n == Len(w)
           Fits(k) == /\ f[j + k].tmp = SubSeq(w, 1, k) /\ f[j + k].commas = f[j].commas
                      /\ f[j + k].point = f[j].point /\ f[j + k].in = f[j].in
           G == {k \in 0..n : Fits(k)}
<1>1. n \in Nat
  OBVIOUS
<1>field. j + n <= Len(msg) /\ \A i \in 1..n : msg[j + i] = w[i] /\ w[i] # COMMA
  BY DEF FieldAt
<1>2. 0 \in G
  <2>1. SubSeq(w, 1, 0) = <<>>
    OBVIOUS
  <2>2. j + 0 = j
    OBVIOUS
  <2>3. Fits(0)
    BY <2>1, <2>2
  <2> HIDE DEF Fits
  <2> QED BY <1>1, <2>3
<1>3. ASSUME NEW k \in 0..(n - 1), k \in G PROVE k + 1 \in G
  <2>1. k \in Nat /\ k + 1 \in 1..n /\ k + 1 \in 0..n /\ j + (k + 1) \in 1..Len(msg)
        /\ (j + (k + 1)) - 1 = j + k /\ j + k \in 0..Len(msg)
    BY <1>1, <1>field
  <2>2. f[j + (k + 1)] = Char(f[j + k], w[k + 1])
    BY <1>field, <2>1 DEF InfoStates
  <2>3. f[j + k] \in Infos(S) /\ w[k + 1] # COMMA
    BY <1>field, <2>1 DEF InfoStates
  <2>4. f[j + (k + 1)] = [f[j + k] EXCEPT !.tmp = Append(f[j + k].tmp, w[k + 1])]
    BY <2>2, <2>3 DEF Char
  <2>5. SubSeq(w, 1, k + 1) = Append(SubSeq(w, 1, k), w[k + 1])
    BY <2>1
  <2>6. Fits(k)
    BY <1>3
  <2>7. Fits(k + 1)
    BY <2>3, <2>4, <2>5, <2>6 DEF Infos
  <2> QED BY <2>1, <2>7
<1> HIDE DEF G
<1>4. 0..n \subseteq G
  BY <1>1, <1>2, <1>3, UpTo
<1>5. Fits(n)
  BY <1>1, <1>4 DEF G
<1>6. SubSeq(w, 1, n) = w
  OBVIOUS
<1> QED BY <1>5, <1>6 DEF FieldKept

\* Where the parts of a point's message are.
PointLayout(S, t, in, out, msg) ==
  /\ msg \in Seq(S) /\ Len(msg) = Len(t) + 1 + Len(in) + 1 + Len(out)
  /\ \A i \in 1..Len(t) : msg[i] = t[i]
  /\ msg[Len(t) + 1] = COMMA
  /\ \A i \in 1..Len(in) : msg[Len(t) + 1 + i] = in[i]
  /\ msg[Len(t) + 1 + Len(in) + 1] = COMMA
  /\ \A i \in 1..Len(out) : msg[Len(t) + 1 + Len(in) + 1 + i] = out[i]

LEMMA PointPlaces ==
  ASSUME NEW S, NEW t \in Seq(S), NEW in \in Seq(S), NEW out \in Seq(S), COMMA \in S
  PROVE  PointLayout(S, t, in, out, t \o <<COMMA>> \o in \o <<COMMA>> \o out)
<1> DEFINE comma == <<COMMA>>
           m1 == t \o comma
           m2 == m1 \o in
           m3 == m2 \o comma
           msg == m3 \o out
<1>0. comma \in Seq(S)
  OBVIOUS
<1>1. Len(comma) = 1 /\ comma[1] = COMMA
  OBVIOUS
<1>2. Len(t) \in Nat /\ Len(in) \in Nat /\ Len(out) \in Nat
  OBVIOUS
<1> HIDE DEF comma
<1>3. /\ m1 \in Seq(S) /\ Len(m1) = Len(t) + Len(comma)
      /\ \A i \in 1..Len(t) : m1[i] = t[i]
      /\ \A i \in 1..Len(comma) : m1[Len(t) + i] = comma[i]
  BY <1>0, Joined
<1> HIDE DEF m1
<1>4. /\ m2 \in Seq(S) /\ Len(m2) = Len(m1) + Len(in)
      /\ \A i \in 1..Len(m1) : m2[i] = m1[i]
      /\ \A i \in 1..Len(in) : m2[Len(m1) + i] = in[i]
  <2>1. m1 \in Seq(S)
    BY <1>3
  <2> QED BY <2>1, Joined
<1> HIDE DEF m2
<1>5. /\ m3 \in Seq(S) /\ Len(m3) = Len(m2) + Len(comma)
      /\ \A i \in 1..Len(m2) : m3[i] = m2[i]
      /\ \A i \in 1..Len(comma) : m3[Len(m2) + i] = comma[i]
  <2>1. m2 \in Seq(S)
    BY <1>4
  <2> QED BY <1>0, <2>1, Joined
<1> HIDE DEF m3
<1>6. /\ msg \in Seq(S) /\ Len(msg) = Len(m3) + Len(out)
      /\ \A i \in 1..Len(m3) : msg[i] = m3[i]
      /\ \A i \in 1..Len(out) : msg[Len(m3) + i] = out[i]
  <2>1. m3 \in Seq(S)
    BY <1>5
  <2> QED BY <2>1, Joined
<1> HIDE DEF msg
<1>7. Len(m1) = Len(t) + 1 /\ Len(m2) = Len(t) + 1 + Len(in) /\ Len(m3) = Len(t) + 1 + Len(in) + 1
  BY <1>1, <1>3, <1>4, <1>5
<1>8. ASSUME NEW i \in 1..Len(t) PROVE msg[i] = t[i]
  <2>1. i \in 1..Len(m1) /\ i \in 1..Len(m2) /\ i \in 1..Len(m3)
    BY <1>2, <1>7
  <2> QED BY <1>3, <1>4, <1>5, <1>6, <2>1
<1>9. msg[Len(t) + 1] = COMMA
  <2>1. Len(t) + 1 \in 1..Len(m1) /\ Len(t) + 1 \in 1..Len(m2) /\ Len(t) + 1 \in 1..Len(m3)
        /\ 1 \in 1..Len(comma)
    BY <1>1, <1>2, <1>7
  <2> QED BY <1>1, <1>3, <1>4, <1>5, <1>6, <2>1
<1>10. ASSUME NEW i \in 1..Len(in) PROVE msg[Len(t) + 1 + i] = in[i]
  <2>1. Len(m1) + i \in 1..Len(m2) /\ Len(m1) + i \in 1..Len(m3)
    BY <1>2, <1>7
  <2>2. msg[Len(m1) + i] = in[i]
    BY <1>4, <1>5, <1>6, <2>1
  <2> QED BY <1>7, <2>2
<1>11. msg[Len(t) + 1 + Len(in) + 1] = COMMA
  <2>1. Len(m2) + 1 \in 1..Len(m3) /\ 1 \in 1..Len(comma)
    BY <1>1, <1>2, <1>7
  <2>2. msg[Len(m2) + 1] = COMMA
    BY <1>1, <1>5, <1>6, <2>1
  <2> QED BY <1>7, <2>2
<1>12. ASSUME NEW i \in 1..Len(out) PROVE msg[Len(t) + 1 + Len(in) + 1 + i] = out[i]
  BY <1>6, <1>7
<1>13. msg \in Seq(S) /\ Len(msg) = Len(t) + 1 + Len(in) + 1 + Len(out)
  BY <1>6, <1>7
<1>14. msg = t \o <<COMMA>> \o in \o <<COMMA>> \o out
  BY DEF msg, m3, m2, m1, comma
<1>15. PointLayout(S, t, in, out, msg)
  BY <1>8, <1>9, <1>10, <1>11, <1>12, <1>13 DEF PointLayout
<1> QED BY <1>14, <1>15, Zenon

\* The number and the two names of a point are read from its message.
LEMMA PointReadBack ==
  ASSUME NEW S, NEW n \in Nat, NEW in \in Seq(S), NEW out \in Seq(S),
         \A i \in 1..Len(in) : in[i] # COMMA, \A i \in 1..Len(out) : out[i] # COMMA
  PROVE  LET msg == PointMessage(n, in, out)
         IN /\ Kind(msg) = "point"
            /\ GetSinglePointInfo(msg) = [point |-> n, in |-> in, out |-> out]
<1> DEFINE t == Numeral(n)
           msg == t \o <<COMMA>> \o in \o <<COMMA>> \o out
           C == S \union DigitChars \union {COMMA}
           a == Len(t)
           b == a + 1 + Len(in)
           c == b + 1 + Len(out)
<1>1. t \in Seq(DigitChars) /\ t # <<>> /\ Magnitude(t) = n
  BY NumeralReadBack
<1>2. \A ch \in DigitChars : ch # COMMA /\ ch # "a"
  <2> SUFFICES ASSUME NEW value \in 0..9
               PROVE  Digits[value + 1] # COMMA /\ Digits[value + 1] # "a"
    BY DEF DigitChars
  <2> DEFINE ch == Digits[value + 1]
  <2>1. ch \in {"0", "1", "2", "3", "4", "5", "6", "7", "8", "9"}
    BY DEF Digits
  <2> HIDE DEF ch
  <2>2. ch # "a" /\ ch # ","
    BY <2>1
  <2>3. ch # COMMA
    BY <2>2 DEF COMMA
  <2> QED BY <2>2, <2>3 DEF ch
<1> HIDE DEF t
<1>3. t \in Seq(C) /\ in \in Seq(C) /\ out \in Seq(C) /\ COMMA \in C
  <2>1. DigitChars \subseteq C /\ S \subseteq C /\ COMMA \in C
    OBVIOUS
  <2> HIDE DEF C
  <2> QED BY <1>1, <2>1
<1> HIDE DEF C
<1>4. /\ msg \in Seq(C) /\ Len(msg) = c
      /\ \A i \in 1..a : msg[i] = t[i]
      /\ msg[a + 1] = COMMA
      /\ \A i \in 1..Len(in) : msg[a + 1 + i] = in[i]
      /\ msg[b + 1] = COMMA
      /\ \A i \in 1..Len(out) : msg[b + 1 + i] = out[i]
  <2>1. PointLayout(C, t, in, out, msg)
    <3> HIDE DEF a, b, c
    <3> QED BY <1>3, PointPlaces, Zenon
  <2> HIDE DEF msg
  <2> QED BY <2>1 DEF PointLayout
<1>5. a \in Nat /\ Len(in) \in Nat /\ Len(out) \in Nat /\ a # 0
  BY <1>1
<1>6. \A i \in 1..a : t[i] \in DigitChars
  BY <1>1
<1> HIDE DEF msg
<1>7. b \in Nat /\ c \in Nat /\ a + 1 <= b /\ b + 1 <= c /\ 0 + a <= c
      /\ a + 1 + Len(in) = b /\ b + 1 + Len(out) = c /\ 0 + a = a
  BY <1>5
<1> HIDE DEF a, b, c
<1>8. Kind(msg) = "point"
  <2>1. 1 \in 1..a
    BY <1>5
  <2>2. msg[1] # "a"
    BY <1>2, <1>4, <1>6, <2>1
  <2>3. msg # ALL
    BY <2>2 DEF ALL
  <2>4. ~StrBeginWith(msg, SubSeq(ALL_SIZE, 1, 7))
    <3> DEFINE p == SubSeq(ALL_SIZE, 1, 7)
    <3>1. Len(p) = 7 /\ SubSeq(p, 1, Len(p)) = p /\ p[1] = "a"
      BY DEF ALL_SIZE
    <3> HIDE DEF p
    <3> SUFFICES ASSUME Len(p) <= Len(msg), p = SubSeq(msg, 1, Len(p)) PROVE FALSE
      BY <3>1 DEF StrBeginWith, IsPrefix, p
    <3>2. 7 <= c /\ p = SubSeq(msg, 1, 7)
      BY <1>4, <3>1
    <3>3. SubSeq(msg, 1, 7)[1] = msg[1]
      BY <1>4, <1>7, <3>2
    <3> QED BY <2>2, <3>1, <3>2, <3>3
  <2> QED BY <2>3, <2>4 DEF Kind
<1>9. PICK f \in InfoStates(C, msg) :
        GetSinglePointInfo(msg) = [point |-> f[c].point, in |-> f[c].in, out |-> f[c].tmp]
  <2>1. \E f \in InfoStates(C, msg) :
          GetSinglePointInfo(msg) =
            [point |-> f[Len(msg)].point, in |-> f[Len(msg)].in, out |-> f[Len(msg)].tmp]
    BY <1>4, InfosOfMessage
  <2> QED BY <1>4, <2>1
<1>10. /\ f[0] = NoInfo
       /\ \A i \in 0..c : f[i] \in Infos(C)
       /\ \A i \in 1..c : f[i] = Char(f[i - 1], msg[i])
  BY <1>4, <1>9 DEF InfoStates
<1>11. f[a].tmp = t /\ f[a].commas = 0 /\ f[a].in = <<>>
  <2>1. f[0].tmp = <<>> /\ f[0].commas = 0 /\ f[0].in = <<>>
    BY <1>10 DEF NoInfo
  <2>2. \A i \in 1..Len(t) : msg[0 + i] = t[i] /\ t[i] # COMMA
    <3>1. \A i \in 1..Len(t) : 0 + i = i
      BY <1>5 DEF a
    <3> QED BY <1>2, <1>4, <1>6, <3>1 DEF a
  <2>3. 0 + Len(t) <= Len(msg) /\ 0 + Len(t) = a /\ 0 \in Nat
    BY <1>4, <1>5, <1>7 DEF a
  <2>4. FieldAt(msg, t, 0)
    BY <2>2, <2>3 DEF FieldAt
  <2>5. FieldKept(f, t, 0)
    <3>1. msg \in Seq(C) /\ t \in Seq(C) /\ 0 \in Nat /\ f[0].tmp = <<>>
      BY <1>3, <1>4, <2>1
    <3> QED BY <1>9, <2>4, <3>1, FieldRead, Zenon
  <2> QED BY <2>1, <2>3, <2>5 DEF FieldKept
<1>12. f[a + 1].tmp = <<>> /\ f[a + 1].commas = 1 /\ f[a + 1].point = n
  <2>1. a + 1 \in 1..c /\ (a + 1) - 1 = a /\ a \in 0..c
    BY <1>5, <1>7
  <2>2. f[a + 1] = Char(f[a], COMMA)
    BY <1>4, <1>10, <2>1
  <2>3. f[a] \in Infos(C)
    BY <1>10, <2>1
  <2> QED BY <1>1, <1>11, <2>2, <2>3 DEF Char, Infos, Str2int
<1>13. f[b].tmp = in /\ f[b].commas = 1 /\ f[b].point = n
  <2> DEFINE j == a + 1
  <2>1. \A i \in 1..Len(in) : msg[j + i] = in[i] /\ in[i] # COMMA
    BY <1>4
  <2>2. j + Len(in) <= Len(msg) /\ j + Len(in) = b /\ j \in Nat
    BY <1>4, <1>5, <1>7
  <2>3. f[j].tmp = <<>>
    BY <1>12
  <2> HIDE DEF j
  <2>4. msg \in Seq(C) /\ in \in Seq(C) /\ j \in Nat
    BY <1>3, <1>4, <2>2
  <2>5. FieldAt(msg, in, j)
    BY <2>1, <2>2 DEF FieldAt
  <2>6. FieldKept(f, in, j)
    BY <1>9, <2>3, <2>4, <2>5, FieldRead, Zenon
  <2> QED BY <1>12, <2>2, <2>6 DEF j, FieldKept
<1>14. f[b + 1].tmp = <<>> /\ f[b + 1].in = in /\ f[b + 1].point = n
  <2>1. b + 1 \in 1..c /\ (b + 1) - 1 = b /\ b \in 0..c
    BY <1>5, <1>7
  <2>2. f[b + 1] = Char(f[b], COMMA)
    BY <1>4, <1>10, <2>1
  <2>3. f[b] \in Infos(C)
    BY <1>10, <2>1
  <2> QED BY <1>13, <2>2, <2>3 DEF Char, Infos
<1>15. f[c].tmp = out /\ f[c].in = in /\ f[c].point = n
  <2> DEFINE j == b + 1
  <2>1. \A i \in 1..Len(out) : msg[j + i] = out[i] /\ out[i] # COMMA
    BY <1>4
  <2>2. j + Len(out) <= Len(msg) /\ j + Len(out) = c /\ j \in Nat
    BY <1>4, <1>5, <1>7
  <2>3. f[j].tmp = <<>>
    BY <1>14
  <2> HIDE DEF j
  <2>4. msg \in Seq(C) /\ out \in Seq(C) /\ j \in Nat
    BY <1>3, <1>4, <2>2
  <2>5. FieldAt(msg, out, j)
    BY <2>1, <2>2 DEF FieldAt
  <2>6. FieldKept(f, out, j)
    BY <1>9, <2>3, <2>4, <2>5, FieldRead, Zenon
  <2> QED BY <1>14, <2>2, <2>6 DEF j, FieldKept
<1>16. GetSinglePointInfo(msg) = [point |-> n, in |-> in, out |-> out]
  BY <1>9, <1>15
<1>17. PointMessage(n, in, out) = msg
  BY DEF PointMessage, msg, t
<1> QED BY <1>8, <1>16, <1>17

-----------------------------------------------------------------------------
(* The texts of the specification *)

Typed == text \in Seq(Chars) /\ number \in Nat

LEMMA TypedHolds == Spec => []Typed
<1>1. Init => Typed
  BY DEF Init, Typed
<1>2. Typed /\ [Next]_vars => Typed'
  <2> SUFFICES ASSUME Typed, [Next]_vars PROVE Typed'
    OBVIOUS
  <2>1. CASE Extend
    BY <2>1 DEF Extend, Typed
  <2>2. CASE Count
    BY <2>2 DEF Count, Typed
  <2>3. CASE UNCHANGED vars
    BY <2>3 DEF vars, Typed
  <2> QED BY <2>1, <2>2, <2>3 DEF Next
<1> QED BY <1>1, <1>2, PTL DEF Spec

\* The number of points of a run is read from the message that carries it,
\* whatever the number.
THEOREM SizesArrive == Spec => []SizeArrives
<1>1. Typed => SizeArrives
  BY SizeReadBack DEF Typed, SizeArrives
<1> QED BY <1>1, TypedHolds, PTL

\* The three fields of a point are found again, whatever its number and the
\* names of its files, if those have no comma.
THEOREM PointsArrive == Spec => []PointArrives
<1>1. Typed => PointArrives
  <2> SUFFICES ASSUME Typed, NEW cut \in 0..Len(text), ~Contains(text, COMMA)
               PROVE  LET in == SubSeq(text, 1, cut)
                          out == SubSeq(text, cut + 1, Len(text))
                          msg == PointMessage(number, in, out)
                      IN /\ Kind(msg) = "point"
                         /\ GetSinglePointInfo(msg) = [point |-> number, in |-> in, out |-> out]
    BY DEF PointArrives
  <2> DEFINE in == SubSeq(text, 1, cut)
             out == SubSeq(text, cut + 1, Len(text))
  <2>1. text \in Seq(Chars) /\ number \in Nat /\ \A i \in 1..Len(text) : text[i] # COMMA
    BY DEF Typed, Contains
  <2>2. in \in Seq(Chars) /\ \A i \in 1..Len(in) : in[i] # COMMA
    BY <2>1
  <2>3. out \in Seq(Chars) /\ \A i \in 1..Len(out) : out[i] # COMMA
    BY <2>1
  <2> HIDE DEF in, out
  <2>4. LET msg == PointMessage(number, in, out)
        IN /\ Kind(msg) = "point"
           /\ GetSinglePointInfo(msg) = [point |-> number, in |-> in, out |-> out]
    BY <2>1, <2>2, <2>3, PointReadBack
  <2> QED BY <2>4 DEF in, out
<1> QED BY <1>1, TypedHolds, PTL

-----------------------------------------------------------------------------
(* Texts rewritten from their ends *)

\* Induction down from n + 1 to 1.
LEMMA DownFrom ==
  ASSUME NEW n \in Nat, NEW G, n + 1 \in G, \A i \in 1..n : i + 1 \in G => i \in G
  PROVE  1..(n + 1) \subseteq G
<1> DEFINE H == {k \in 0..n : n + 1 - k \in G}
<1>1. 0 \in H
  OBVIOUS
<1>2. ASSUME NEW k \in 0..(n - 1), k \in H PROVE k + 1 \in H
  <2>1. n - k \in 1..n /\ (n - k) + 1 = n + 1 - k /\ n + 1 - (k + 1) = n - k /\ k + 1 \in 0..n
    OBVIOUS
  <2>2. (n - k) + 1 \in G
    BY <1>2, <2>1
  <2>3. n - k \in G
    BY <2>1, <2>2
  <2> QED BY <2>1, <2>3
<1> HIDE DEF H
<1>3. 0..n \subseteq H
  BY <1>1, <1>2, UpTo
<1> SUFFICES ASSUME NEW i \in 1..(n + 1) PROVE i \in G
  OBVIOUS
<1>4. n + 1 - i \in 0..n /\ n + 1 - (n + 1 - i) = i
  OBVIOUS
<1>5. n + 1 - (n + 1 - i) \in G
  BY <1>3, <1>4 DEF H
<1> QED BY <1>4, <1>5

\* The suffixes of a text whose characters are replaced by pieces, each piece
\* followed by the suffix at some later position.
Rewritten(n, piece, next, f) ==
  [i \in 1..(n + 1) |-> IF i > n THEN <<>> ELSE piece[i] \o f[next[i]]]

Pieces(n, S) == [1..n -> Seq(S)]
Later(n) == {next \in [1..n -> 1..(n + 1)] : \A i \in 1..n : next[i] > i}

LEMMA Rewriting ==
  ASSUME NEW n \in Nat, NEW S, NEW piece \in Pieces(n, S), NEW next \in Later(n)
  PROVE  \E f \in [1..(n + 1) -> Seq(S)] : f = Rewritten(n, piece, next, f)
<1> DEFINE Text == Seq(S)
           Chain(i, f) == /\ f \in [i..(n + 1) -> Text] /\ f[n + 1] = <<>>
                          /\ \A j \in i..n : f[j] = piece[j] \o f[next[j]]
           G == {i \in 1..(n + 1) : \E f : Chain(i, f)}
<1>0. <<>> \in Text /\ \A a, b \in Text : a \o b \in Text
  OBVIOUS
<1>pieces. /\ \A i \in 1..n : piece[i] \in Text
      /\ \A i \in 1..n : next[i] \in (i + 1)..(n + 1)
  BY DEF Later, Pieces
<1> HIDE DEF Text
<1>1. n + 1 \in G
  <2> DEFINE empty == <<>>
             f == [j \in (n + 1)..(n + 1) |-> empty]
  <2>1. f \in [(n + 1)..(n + 1) -> Text] /\ f[n + 1] = empty
    BY <1>0
  <2>2. ~(\E j \in (n + 1)..n : TRUE)
    OBVIOUS
  <2> HIDE DEF f
  <2>3. Chain(n + 1, f)
    BY <2>1, <2>2
  <2> HIDE DEF Chain
  <2> QED BY <2>3
<1>2. ASSUME NEW i \in 1..n, i + 1 \in G PROVE i \in G
  <2>1. PICK f : Chain(i + 1, f)
    BY <1>2
  <2> DEFINE here == piece[i] \o f[next[i]]
             g == [j \in i..(n + 1) |-> IF j = i THEN here ELSE f[j]]
  <2>2. f[next[i]] \in Text
    BY <1>pieces, <2>1
  <2>3. here \in Text
    BY <1>0, <1>pieces, <2>2
  <2>4. \A j \in i..n : next[j] \in (i + 1)..(n + 1) /\ next[j] \in i..(n + 1) /\ next[j] # i
    <3> SUFFICES ASSUME NEW j \in i..n
                 PROVE  next[j] \in (i + 1)..(n + 1) /\ next[j] \in i..(n + 1) /\ next[j] # i
      OBVIOUS
    <3>1. j \in 1..n
      OBVIOUS
    <3>2. next[j] \in (j + 1)..(n + 1)
      BY <1>pieces, <3>1
    <3> QED BY <3>1, <3>2
  <2>5. \A j \in i..(n + 1) : j # i => j \in (i + 1)..(n + 1)
    OBVIOUS
  <2>6. g \in [i..(n + 1) -> Text]
    <3> HIDE DEF here
    <3> QED BY <2>1, <2>3, <2>5
  <2>7. g[n + 1] = <<>>
    <3> HIDE DEF here
    <3>1. n + 1 \in i..(n + 1) /\ n + 1 # i
      OBVIOUS
    <3> QED BY <2>1, <3>1
  <2>8. ASSUME NEW j \in i..n PROVE g[j] = piece[j] \o g[next[j]]
    <3>1. g[next[j]] = f[next[j]]
      <4> HIDE DEF here
      <4> QED BY <2>4
    <3>2. CASE j = i
      <4>1. g[j] = here
        <5> HIDE DEF here
        <5> QED BY <3>2
      <4> HIDE DEF g
      <4> QED BY <3>1, <3>2, <4>1
    <3>3. CASE j # i
      <4>1. g[j] = f[j] /\ j \in (i + 1)..n
        <5> HIDE DEF here
        <5> QED BY <3>3
      <4> HIDE DEF g, here
      <4> QED BY <2>1, <3>1, <4>1
    <3> HIDE DEF g
    <3> QED BY <3>2, <3>3
  <2> HIDE DEF g
  <2>9. Chain(i, g)
    BY <2>6, <2>7, <2>8
  <2> HIDE DEF Chain
  <2> QED BY <2>9
<1> HIDE DEF G
<1>3. 1..(n + 1) \subseteq G
  BY <1>1, <1>2, DownFrom
<1>4. 1 \in G
  BY <1>3
<1>5. PICK f : Chain(1, f)
  <2> HIDE DEF Chain
  <2> QED BY <1>4 DEF G
<1>6. f \in [1..(n + 1) -> Seq(S)]
  BY <1>5 DEF Text
<1>7. f = Rewritten(n, piece, next, f)
  <2>1. ASSUME NEW i \in 1..(n + 1)
        PROVE  f[i] = IF i > n THEN <<>> ELSE piece[i] \o f[next[i]]
    <3>1. CASE i > n
      <4>1. i = n + 1
        BY <3>1
      <4> QED BY <1>5, <3>1, <4>1
    <3>2. CASE ~(i > n)
      <4>1. i \in 1..n
        BY <3>2
      <4> QED BY <1>5, <3>2, <4>1
    <3> QED BY <3>1, <3>2
  <2> QED BY <1>6, <2>1 DEF Rewritten
<1> QED BY <1>6, <1>7

RewrittenTexts(n, S, piece, next) ==
  {f \in [1..(n + 1) -> Seq(S)] :
     f[n + 1] = <<>> /\ \A i \in 1..n : f[i] = piece[i] \o f[next[i]]}

LEMMA RewrittenType ==
  ASSUME NEW n \in Nat, NEW S, NEW piece \in Pieces(n, S), NEW next \in Later(n),
         NEW f, f = Rewritten(n, piece, next, f)
  PROVE  f \in RewrittenTexts(n, S, piece, next)
<1>1. f[n + 1] = <<>> /\ \A i \in 1..n : f[i] = piece[i] \o f[next[i]]
  <2>1. \A i \in 1..(n + 1) : f[i] = IF i > n THEN <<>> ELSE piece[i] \o f[next[i]]
    BY DEF Rewritten
  <2>2. n + 1 \in 1..(n + 1) /\ n + 1 > n /\ \A i \in 1..n : i \in 1..(n + 1) /\ ~(i > n)
    OBVIOUS
  <2> QED BY <2>1, <2>2
<1> DEFINE Text == Seq(S)
           G == {i \in 1..(n + 1) : \A j \in i..(n + 1) : f[j] \in Text}
<1>2. /\ <<>> \in Text /\ \A a, b \in Text : a \o b \in Text
      /\ \A i \in 1..n : piece[i] \in Text /\ next[i] \in (i + 1)..(n + 1)
  BY DEF Later, Pieces
<1> HIDE DEF Text
<1>3. n + 1 \in G
  <2>1. \A j \in (n + 1)..(n + 1) : j = n + 1
    OBVIOUS
  <2>2. f[n + 1] \in Text
    BY <1>1, <1>2
  <2> QED BY <2>1, <2>2
<1>4. ASSUME NEW i \in 1..n, i + 1 \in G PROVE i \in G
  <2>1. f[next[i]] \in Text
    BY <1>2, <1>4
  <2>2. f[i] \in Text
    BY <1>1, <1>2, <2>1
  <2>3. \A j \in i..(n + 1) : j = i \/ j \in (i + 1)..(n + 1)
    OBVIOUS
  <2> QED BY <1>4, <2>2, <2>3
<1> HIDE DEF G
<1>5. 1..(n + 1) \subseteq G
  BY <1>3, <1>4, DownFrom
<1>6. \A j \in 1..(n + 1) : f[j] \in Text
  <2>1. 1 \in G
    BY <1>5
  <2> QED BY <2>1 DEF G
<1>7. f = [i \in 1..(n + 1) |-> f[i]]
  <2>1. Rewritten(n, piece, next, f) = [i \in 1..(n + 1) |-> Rewritten(n, piece, next, f)[i]]
    BY DEF Rewritten
  <2> QED BY <2>1
<1>8. f \in [1..(n + 1) -> Text]
  BY <1>6, <1>7
<1> QED BY <1>1, <1>8 DEF Text, RewrittenTexts

\* unescape_newline, from every position of the text.
UnescapeStates(T, str) ==
  {f \in [1..(Len(str) + 1) -> Seq(T)] :
     /\ f[Len(str) + 1] = <<>>
     /\ \A i \in 1..Len(str) :
          f[i] = IF str[i] = BACKSLASH /\ i < Len(str)
                 THEN Meaning(str[i + 1]) \o f[i + 1 + Len(Meaning(str[i + 1]))]
                 ELSE <<str[i]>> \o f[i + 1]}

LEMMA MeaningType ==
  ASSUME NEW ch
  PROVE  Meaning(ch) \in Seq({LINE_FEED, RETURN}) /\ Len(Meaning(ch)) \in {0, 1}
<1>1. <<LINE_FEED>> \in Seq({LINE_FEED, RETURN}) /\ <<RETURN>> \in Seq({LINE_FEED, RETURN})
      /\ Len(<<LINE_FEED>>) = 1 /\ Len(<<RETURN>>) = 1 /\ <<>> \in Seq({LINE_FEED, RETURN})
      /\ Len(<<>>) = 0
  OBVIOUS
<1>2. Meaning(ch) \in {<<LINE_FEED>>, <<RETURN>>, <<>>}
  BY DEF Meaning
<1> QED BY <1>1, <1>2

LEMMA Unescaping ==
  ASSUME NEW S, NEW str \in Seq(S)
  PROVE  \E f \in UnescapeStates(S \union {LINE_FEED, RETURN}, str) : Unescape(str) = f[1]
<1> DEFINE n == Len(str)
           T == S \union {LINE_FEED, RETURN}
           Escapes(i) == str[i] = BACKSLASH /\ i < n
           piece == [i \in 1..n |-> IF Escapes(i) THEN Meaning(str[i + 1]) ELSE <<str[i]>>]
           next == [i \in 1..n |->
                      IF Escapes(i) THEN i + 1 + Len(Meaning(str[i + 1])) ELSE i + 1]
           States(f) == [i \in 1..(n + 1) |->
                           IF i > n THEN <<>>
                           ELSE IF str[i] = BACKSLASH /\ i < n
                           THEN LET m == Meaning(str[i + 1])
                                IN m \o f[i + 1 + Len(m)]
                           ELSE <<str[i]>> \o f[i + 1]]
           from == CHOOSE f : f = States(f)
<1>1. n \in Nat /\ \A i \in 1..n : str[i] \in S
  OBVIOUS
<1>2. Unescape(str) = from[1]
  BY DEF Unescape
<1> HIDE DEF n
<1>3. piece \in Pieces(n, T)
  <2> SUFFICES ASSUME NEW i \in 1..n
               PROVE  Meaning(str[i + 1]) \in Seq(T) /\ <<str[i]>> \in Seq(T)
    BY DEF Pieces
  <2>1. {LINE_FEED, RETURN} \subseteq T /\ str[i] \in T
    BY <1>1
  <2> HIDE DEF T
  <2>2. Meaning(str[i + 1]) \in Seq({LINE_FEED, RETURN})
    BY MeaningType
  <2> QED BY <2>1, <2>2
<1>4. next \in Later(n)
  <2>1. ASSUME NEW i \in 1..n PROVE next[i] \in 1..(n + 1) /\ next[i] > i
    <3>1. Len(Meaning(str[i + 1])) \in {0, 1}
      BY MeaningType
    <3>2. CASE Escapes(i)
      <4> DEFINE width == Len(Meaning(str[i + 1]))
      <4>1. next[i] = i + 1 + width /\ i < n
        BY <3>2
      <4> HIDE DEF next
      <4>2. width \in {0, 1}
        BY <3>1
      <4> HIDE DEF width
      <4> QED BY <1>1, <4>1, <4>2
    <3>3. CASE ~Escapes(i)
      <4>1. next[i] = i + 1
        BY <3>3
      <4> HIDE DEF next
      <4> QED BY <1>1, <4>1
    <3> QED BY <3>2, <3>3
  <2>2. next = [i \in 1..n |-> next[i]]
    OBVIOUS
  <2> HIDE DEF next
  <2> QED BY <2>1, <2>2 DEF Later
<1>5. \A f : States(f) = Rewritten(n, piece, next, f)
  <2> SUFFICES ASSUME NEW f, NEW i \in 1..(n + 1)
               PROVE  States(f)[i] = IF i > n THEN <<>> ELSE piece[i] \o f[next[i]]
    BY DEF Rewritten
  <2>1. CASE i > n
    BY <2>1
  <2>2. CASE ~(i > n)
    <3>1. i \in 1..n
      BY <1>1, <2>2
    <3>2. CASE Escapes(i)
      BY <2>2, <3>1, <3>2
    <3>3. CASE ~Escapes(i)
      BY <2>2, <3>1, <3>3
    <3> QED BY <3>2, <3>3
  <2> QED BY <2>1, <2>2
<1> HIDE DEF piece, next, T
<1>6. \E f \in [1..(n + 1) -> Seq(T)] : f = Rewritten(n, piece, next, f)
  BY <1>1, <1>3, <1>4, Rewriting
<1>7. from = States(from)
  <2> HIDE DEF States
  <2> QED BY <1>5, <1>6
<1> HIDE DEF from
<1>8. from = Rewritten(n, piece, next, from)
  <2> HIDE DEF States
  <2> QED BY <1>5, <1>7
<1>9. from \in [1..(n + 1) -> Seq(T)] /\ from[n + 1] = <<>>
  <2>1. from \in RewrittenTexts(n, T, piece, next)
    BY <1>1, <1>3, <1>4, <1>8, RewrittenType, Zenon
  <2> QED BY <2>1 DEF RewrittenTexts
<1>10. ASSUME NEW i \in 1..n
       PROVE  from[i] = IF str[i] = BACKSLASH /\ i < n
                        THEN Meaning(str[i + 1]) \o from[i + 1 + Len(Meaning(str[i + 1]))]
                        ELSE <<str[i]>> \o from[i + 1]
  <2>1. i \in 1..(n + 1) /\ ~(i > n)
    BY <1>1
  <2>2. from[i] = States(from)[i]
    <3> HIDE DEF States
    <3> QED BY <1>7
  <2> QED BY <2>1, <2>2
<1>11. from \in UnescapeStates(T, str)
  BY <1>9, <1>10 DEF UnescapeStates, n
<1> QED BY <1>2, <1>11 DEF T

\* What a client sends of a program, from every position of the program.
EscapeChars == {BACKSLASH, "n", "r", QUOTE}

EscapeStates(T, program) ==
  {e \in [1..(Len(program) + 1) -> Seq(T)] :
     /\ e[Len(program) + 1] = <<>>
     /\ \A i \in 1..Len(program) : e[i] = EscapeOf(program[i]) \o e[i + 1]}

LEMMA Escaping ==
  ASSUME NEW S, NEW program \in Seq(S)
  PROVE  \E e \in EscapeStates(S \union EscapeChars, program) : Escaped(program) = e[1]
<1> DEFINE n == Len(program)
           T == S \union EscapeChars
           piece == [i \in 1..n |-> EscapeOf(program[i])]
           next == [i \in 1..n |-> i + 1]
           States(f) == [i \in 1..(n + 1) |->
                           IF i > n THEN <<>> ELSE EscapeOf(program[i]) \o f[i + 1]]
           from == CHOOSE f : f = States(f)
<1>1. n \in Nat /\ \A i \in 1..n : program[i] \in S
  OBVIOUS
<1>2. Escaped(program) = from[1]
  BY DEF Escaped
<1> HIDE DEF n
<1>3. piece \in Pieces(n, T)
  <2> SUFFICES ASSUME NEW i \in 1..n PROVE EscapeOf(program[i]) \in Seq(T)
    BY DEF Pieces
  <2>1. program[i] \in T /\ BACKSLASH \in T /\ "n" \in T /\ "r" \in T /\ QUOTE \in T
    BY <1>1 DEF EscapeChars
  <2> HIDE DEF T
  <2>2. \A a, b \in T : <<a, b>> \in Seq(T) /\ <<a>> \in Seq(T)
    OBVIOUS
  <2>3. \/ EscapeOf(program[i]) = <<BACKSLASH, "n">>
        \/ EscapeOf(program[i]) = <<BACKSLASH, "r">>
        \/ EscapeOf(program[i]) = <<BACKSLASH, QUOTE>>
        \/ EscapeOf(program[i]) = <<program[i]>>
    BY DEF EscapeOf
  <2>4. /\ <<BACKSLASH, "n">> \in Seq(T) /\ <<BACKSLASH, "r">> \in Seq(T)
        /\ <<BACKSLASH, QUOTE>> \in Seq(T) /\ <<program[i]>> \in Seq(T)
    BY <2>1, <2>2, Zenon
  <2> QED BY <2>3, <2>4, Zenon
<1>4. next \in Later(n)
  BY <1>1 DEF Later
<1>5. \A f : States(f) = Rewritten(n, piece, next, f)
  <2> SUFFICES ASSUME NEW f, NEW i \in 1..(n + 1)
               PROVE  States(f)[i] = IF i > n THEN <<>> ELSE piece[i] \o f[next[i]]
    BY DEF Rewritten
  <2>1. CASE i > n
    BY <2>1
  <2>2. CASE ~(i > n)
    <3>1. i \in 1..n
      BY <1>1, <2>2
    <3> QED BY <2>2, <3>1
  <2> QED BY <2>1, <2>2
<1>6. \A i \in 1..n : piece[i] = EscapeOf(program[i]) /\ next[i] = i + 1
  OBVIOUS
<1> HIDE DEF piece, next, T
<1>7. \E f \in [1..(n + 1) -> Seq(T)] : f = Rewritten(n, piece, next, f)
  BY <1>1, <1>3, <1>4, Rewriting
<1>8. from = States(from)
  <2> HIDE DEF States
  <2> QED BY <1>5, <1>7
<1> HIDE DEF from
<1>9. from = Rewritten(n, piece, next, from)
  <2> HIDE DEF States
  <2> QED BY <1>5, <1>8
<1>10. from \in RewrittenTexts(n, T, piece, next)
  BY <1>1, <1>3, <1>4, <1>9, RewrittenType, Zenon
<1>11. from \in EscapeStates(T, program)
  <2>1. /\ from \in [1..(n + 1) -> Seq(T)] /\ from[n + 1] = <<>>
        /\ \A i \in 1..n : from[i] = EscapeOf(program[i]) \o from[i + 1]
    BY <1>6, <1>10 DEF RewrittenTexts
  <2> QED BY <2>1 DEF EscapeStates, n
<1> QED BY <1>2, <1>11 DEF T

\* A text that begins with one or two characters before another.
LEMMA OneBefore ==
  ASSUME NEW S, NEW ch \in S, NEW rest \in Seq(S)
  PROVE  LET long == <<ch>> \o rest
         IN /\ Len(long) = 1 + Len(rest) /\ long[1] = ch
            /\ \A q \in 1..Len(rest) : long[1 + q] = rest[q]
<1> DEFINE first == <<ch>>
<1>1. first \in Seq(S) /\ Len(first) = 1 /\ first[1] = ch
  OBVIOUS
<1> HIDE DEF first
<1>2. /\ Len(first \o rest) = Len(first) + Len(rest)
      /\ \A i \in 1..Len(first) : (first \o rest)[i] = first[i]
      /\ \A i \in 1..Len(rest) : (first \o rest)[Len(first) + i] = rest[i]
  BY <1>1, Joined
<1> DEFINE long == first \o rest
<1> HIDE DEF long
<1>3. /\ Len(long) = 1 + Len(rest) /\ long[1] = ch
      /\ \A q \in 1..Len(rest) : long[1 + q] = rest[q]
  BY <1>1, <1>2 DEF long
<1> QED BY <1>3 DEF long, first

LEMMA TwoBefore ==
  ASSUME NEW S, NEW a \in S, NEW b \in S, NEW rest \in Seq(S)
  PROVE  LET long == <<a, b>> \o rest
         IN /\ Len(long) = 2 + Len(rest) /\ long[1] = a /\ long[2] = b
            /\ \A q \in 1..Len(rest) : long[2 + q] = rest[q]
<1> DEFINE first == <<a, b>>
<1>1. first \in Seq(S) /\ Len(first) = 2 /\ first[1] = a /\ first[2] = b
  OBVIOUS
<1> HIDE DEF first
<1>2. /\ Len(first \o rest) = Len(first) + Len(rest)
      /\ \A i \in 1..Len(first) : (first \o rest)[i] = first[i]
      /\ \A i \in 1..Len(rest) : (first \o rest)[Len(first) + i] = rest[i]
  <2>1. first \in Seq(S)
    BY <1>1
  <2> QED BY <2>1, Joined
<1> DEFINE long == first \o rest
<1> HIDE DEF long
<1>3. /\ Len(long) = 2 + Len(rest) /\ long[1] = a /\ long[2] = b
      /\ \A q \in 1..Len(rest) : long[2 + q] = rest[q]
  BY <1>1, <1>2 DEF long
<1> QED BY <1>3 DEF long, first

\* One escape sequence and what follows it, read back.
EndsWith(t, k, w) == k + Len(w) = Len(t) /\ \A q \in 1..Len(w) : t[k + q] = w[q]
ReadAs(t, f, w, read) == \A k \in Nat : EndsWith(t, k, w) => f[k + 1] = read

LEMMA OneEscape ==
  ASSUME NEW T, NEW t \in Seq(T), NEW f \in UnescapeStates(T, t),
         NEW ch, ch # BACKSLASH, NEW k \in Nat, NEW rest \in Seq(T), ch \in T,
         EscapeChars \subseteq T, NEW read \in Seq(T),
         EndsWith(t, k, EscapeOf(ch) \o rest), ReadAs(t, f, rest, read)
  PROVE  f[k + 1] = <<ch>> \o read
<1> DEFINE e == EscapeOf(ch) \o rest
           n == Len(t)
<1>1. n \in Nat /\ Len(rest) \in Nat
  OBVIOUS
<1>2. k + Len(e) = n /\ \A q \in 1..Len(e) : t[k + q] = e[q]
  BY DEF EndsWith
<1>3. /\ f \in [1..(n + 1) -> Seq(T)]
      /\ \A i \in 1..n :
           /\ ~(t[i] = BACKSLASH /\ i < n) => f[i] = <<t[i]>> \o f[i + 1]
           /\ t[i] = BACKSLASH /\ i < n =>
                f[i] = Meaning(t[i + 1]) \o f[i + 1 + Len(Meaning(t[i + 1]))]
  BY DEF UnescapeStates
<1> HIDE DEF n, e
<1>4. CASE ch \notin {LINE_FEED, RETURN, QUOTE}
  <2>1. e = <<ch>> \o rest
    BY <1>4 DEF EscapeOf, e
  <2>2. Len(e) = 1 + Len(rest) /\ e[1] = ch /\ \A q \in 1..Len(rest) : e[1 + q] = rest[q]
    BY <2>1, OneBefore
  <2>3. t[k + 1] = ch /\ k + 1 \in 1..n
    BY <1>1, <1>2, <2>2
  <2>4. f[k + 1] = <<ch>> \o f[(k + 1) + 1]
    BY <1>3, <2>3
  <2>5. k + 1 \in Nat /\ (k + 1) + Len(rest) = n
        /\ \A q \in 1..Len(rest) : t[(k + 1) + q] = rest[q]
    <3>1. \A q \in 1..Len(rest) : 1 + q \in 1..Len(e) /\ k + (1 + q) = (k + 1) + q
      BY <1>1, <2>2
    <3> QED BY <1>1, <1>2, <2>2, <3>1
  <2>6. f[(k + 1) + 1] = read
    BY <2>5 DEF n, ReadAs, EndsWith
  <2> QED BY <2>4, <2>6
<1>5. ASSUME NEW second \in T, EscapeOf(ch) = <<BACKSLASH, second>>
      PROVE  /\ t[k + 1] = BACKSLASH /\ t[k + 2] = second /\ k + 2 \in 1..n /\ k + 1 \in 1..n
             /\ k + 1 < n /\ f[k + 3] = read
  <2>1. e = <<BACKSLASH, second>> \o rest
    BY <1>5 DEF e
  <2>2. BACKSLASH \in T
    BY DEF EscapeChars
  <2>3. /\ Len(e) = 2 + Len(rest) /\ e[1] = BACKSLASH /\ e[2] = second
        /\ \A q \in 1..Len(rest) : e[2 + q] = rest[q]
    BY <2>1, <2>2, TwoBefore
  <2>4. t[k + 1] = BACKSLASH /\ t[k + 2] = second /\ k + 2 \in 1..n /\ k + 1 \in 1..n /\ k + 1 < n
    BY <1>1, <1>2, <2>3
  <2>5. k + 2 \in Nat /\ (k + 2) + Len(rest) = n
        /\ \A q \in 1..Len(rest) : t[(k + 2) + q] = rest[q]
    <3>1. \A q \in 1..Len(rest) : 2 + q \in 1..Len(e) /\ k + (2 + q) = (k + 2) + q
      BY <1>1, <2>3
    <3>2. ASSUME NEW q \in 1..Len(rest) PROVE t[(k + 2) + q] = rest[q]
      <4>1. 2 + q \in 1..Len(e) /\ k + (2 + q) = (k + 2) + q
        BY <3>1
      <4>2. t[k + (2 + q)] = e[2 + q]
        BY <1>2, <4>1
      <4> QED BY <2>3, <4>1, <4>2
    <3>3. k + 2 \in Nat /\ (k + 2) + Len(rest) = n
      BY <1>1, <1>2, <2>3
    <3> QED BY <3>2, <3>3
  <2>6. f[(k + 2) + 1] = read
    BY <2>5 DEF n, ReadAs, EndsWith
  <2>7. (k + 2) + 1 = k + 3
    OBVIOUS
  <2> QED BY <2>4, <2>6, <2>7
<1>6. /\ Meaning("n") = <<LINE_FEED>> /\ Meaning("r") = <<RETURN>> /\ Meaning(QUOTE) = <<>>
      /\ "n" \in T /\ "r" \in T /\ QUOTE \in T
  BY DEF Meaning, QUOTE, EscapeChars
<1>7. (k + 1) + 1 = k + 2 /\ (k + 1) + 1 + 1 = k + 3 /\ (k + 1) + 1 + 0 = k + 2 /\ (k + 2) + 1 = k + 3
  OBVIOUS
<1>distinct. LINE_FEED # RETURN /\ LINE_FEED # QUOTE /\ RETURN # QUOTE
  BY DEF LINE_FEED, RETURN, QUOTE
<1>escape. ASSUME NEW second \in T, NEW width \in Nat, k + 1 \in 1..n, k + 1 < n,
             t[k + 1] = BACKSLASH, t[k + 2] = second, Len(Meaning(second)) = width
      PROVE  f[k + 1] = Meaning(second) \o f[k + 2 + width]
  <2> DEFINE i == k + 1
             m == Meaning(second)
  <2>1. t[i + 1] = second /\ i + 1 + width = k + 2 + width
    BY <1>7, <1>escape
  <2> HIDE DEF i
  <2>2. f[i] = Meaning(t[i + 1]) \o f[i + 1 + Len(Meaning(t[i + 1]))]
    BY <1>3, <1>escape DEF i
  <2>3. Meaning(t[i + 1]) = m
    BY <2>1
  <2>4. Len(m) = width
    BY <1>escape
  <2> HIDE DEF m
  <2>5. f[i] = m \o f[i + 1 + width]
    BY <2>2, <2>3, <2>4, Zenon
  <2> QED BY <2>1, <2>5 DEF i, m
<1>8. CASE ch = LINE_FEED
  <2>1. EscapeOf(ch) = <<BACKSLASH, "n">>
    BY <1>8, <1>distinct DEF EscapeOf
  <2>2. /\ t[k + 1] = BACKSLASH /\ t[k + 2] = "n" /\ k + 1 \in 1..n /\ k + 1 < n
        /\ f[k + 3] = read
    BY <1>5, <1>6, <2>1
  <2>3. Len(Meaning("n")) = 1
    BY <1>6
  <2>4. f[k + 1] = Meaning("n") \o f[k + 3]
    <3>1. k + 2 + 1 = k + 3
      OBVIOUS
    <3> QED BY <1>6, <1>escape, <2>2, <2>3, <3>1
  <2> QED BY <1>6, <1>8, <2>2, <2>4
<1>9. CASE ch = RETURN
  <2>1. EscapeOf(ch) = <<BACKSLASH, "r">>
    BY <1>9, <1>distinct DEF EscapeOf
  <2>2. /\ t[k + 1] = BACKSLASH /\ t[k + 2] = "r" /\ k + 1 \in 1..n /\ k + 1 < n
        /\ f[k + 3] = read
    BY <1>5, <1>6, <2>1
  <2>3. Len(Meaning("r")) = 1
    BY <1>6
  <2>4. f[k + 1] = Meaning("r") \o f[k + 3]
    <3>1. k + 2 + 1 = k + 3
      OBVIOUS
    <3> QED BY <1>6, <1>escape, <2>2, <2>3, <3>1
  <2> QED BY <1>6, <1>9, <2>2, <2>4
<1>10. CASE ch = QUOTE
  <2>1. EscapeOf(ch) = <<BACKSLASH, QUOTE>>
    BY <1>10, <1>distinct DEF EscapeOf
  <2>2. /\ t[k + 1] = BACKSLASH /\ t[k + 2] = QUOTE /\ k + 1 \in 1..n /\ k + 2 \in 1..n /\ k + 1 < n
        /\ f[k + 3] = read
    BY <1>5, <1>6, <2>1
  <2>3. Len(Meaning(QUOTE)) = 0
    BY <1>6
  <2>4. f[k + 1] = Meaning(QUOTE) \o f[k + 2]
    <3> DEFINE width == 0
    <3>1. k + 2 + width = k + 2 /\ width \in Nat /\ Len(Meaning(QUOTE)) = width
      BY <2>3
    <3> HIDE DEF width
    <3>2. f[k + 1] = Meaning(QUOTE) \o f[k + 2 + width]
      BY <1>6, <1>escape, <2>2, <3>1
    <3> QED BY <3>1, <3>2
  <2>5. f[k + 2] = <<QUOTE>> \o f[k + 3]
    BY <1>3, <1>7, <1>10, <2>2
  <2>6. k + 2 \in 1..(n + 1) /\ f[k + 2] \in Seq(T)
    BY <1>1, <1>3, <2>2
  <2>7. <<>> \o f[k + 2] = f[k + 2]
    BY <2>6
  <2> QED BY <1>6, <1>10, <2>2, <2>4, <2>5, <2>7
<1> QED BY <1>4, <1>8, <1>9, <1>10

\* A program is read back from what a client sends of it.
LEMMA ProgramReadBack ==
  ASSUME NEW S, NEW program \in Seq(S), \A i \in 1..Len(program) : program[i] # BACKSLASH
  PROVE  Unescape(Escaped(program)) = program
<1> DEFINE n == Len(program)
           T == S \union EscapeChars
           U == T \union {LINE_FEED, RETURN}
           t == Escaped(program)
           left(i) == SubSeq(program, i, n)
<1>1. n \in Nat /\ \A i \in 1..n : program[i] \in S /\ program[i] # BACKSLASH
  OBVIOUS
<1>2. PICK e \in EscapeStates(T, program) : t = e[1]
  BY Escaping
<1>3. /\ e \in [1..(n + 1) -> Seq(T)] /\ e[n + 1] = <<>>
      /\ \A i \in 1..n : e[i] = EscapeOf(program[i]) \o e[i + 1]
  BY <1>2 DEF EscapeStates
<1>4. T \subseteq U /\ S \subseteq U /\ EscapeChars \subseteq U
  OBVIOUS
<1> HIDE DEF n
<1>5. t \in Seq(T)
  BY <1>1, <1>2, <1>3
<1> HIDE DEF t
<1>6. PICK f \in UnescapeStates(U, t) : Unescape(t) = f[1]
  BY <1>5, Unescaping
<1> HIDE DEF T, U
<1>7. \A w \in Seq(T) : w \in Seq(U)
  BY <1>4
<1>8. \A i \in 1..(n + 1) : e[i] \in Seq(U) /\ e[i] \in Seq(T)
  BY <1>3, <1>7
<1>9. program \in Seq(U)
  BY <1>4
<1>10. \A i \in 1..(n + 1) : left(i) \in Seq(U)
  BY <1>1, <1>9 DEF n
<1> DEFINE G == {i \in 1..(n + 1) : ReadAs(t, f, e[i], left(i))}
<1>11. n + 1 \in G
  <2> SUFFICES ASSUME NEW k \in Nat, EndsWith(t, k, e[n + 1]) PROVE f[k + 1] = left(n + 1)
    BY <1>1 DEF ReadAs
  <2>1. k = Len(t)
    BY <1>3 DEF EndsWith
  <2>2. f[Len(t) + 1] = <<>>
    BY <1>6 DEF UnescapeStates
  <2>3. left(n + 1) = <<>>
    BY <1>1, <1>9 DEF n
  <2> HIDE DEF left
  <2> QED BY <2>1, <2>2, <2>3
<1>12. ASSUME NEW i \in 1..n, i + 1 \in G PROVE i \in G
  <2> DEFINE ch == program[i]
  <2>1. ch \in U /\ ch # BACKSLASH
    BY <1>1, <1>4
  <2>2. e[i] = EscapeOf(ch) \o e[i + 1]
    BY <1>3
  <2>3. left(i) = <<ch>> \o left(i + 1)
    <3>1. left(i) \in Seq(U) /\ left(i + 1) \in Seq(U) /\ i \in 1..(n + 1) /\ i + 1 \in 1..(n + 1)
      BY <1>1, <1>10
    <3>2. Len(left(i)) = 1 + Len(left(i + 1)) /\ left(i)[1] = ch
          /\ \A q \in 1..Len(left(i + 1)) : left(i)[1 + q] = left(i + 1)[q]
      BY <1>1, <1>9 DEF n
    <3> DEFINE rest == left(i + 1)
               long == <<ch>> \o rest
               whole == left(i)
    <3>3. Len(whole) = 1 + Len(rest) /\ whole[1] = ch /\ whole \in Seq(U) /\ rest \in Seq(U)
          /\ \A q \in 1..Len(rest) : whole[1 + q] = rest[q]
      BY <3>1, <3>2
    <3> HIDE DEF rest, whole, ch
    <3>4. rest \in Seq(U)
      BY <3>3
    <3>5. /\ Len(long) = 1 + Len(rest) /\ long[1] = ch
          /\ \A q \in 1..Len(rest) : long[1 + q] = rest[q]
      BY <2>1, <3>4, OneBefore
    <3>6. long \in Seq(U)
      BY <2>1, <3>4
    <3> HIDE DEF long
    <3>7. Len(whole) = Len(long)
      BY <3>3, <3>5
    <3>8. ASSUME NEW p \in 1..Len(long) PROVE whole[p] = long[p]
      <4>1. CASE p = 1
        BY <3>3, <3>5, <4>1
      <4>2. CASE p # 1
        <5>1. p - 1 \in 1..Len(rest) /\ 1 + (p - 1) = p
          BY <3>4, <3>5, <4>2
        <5>2. whole[1 + (p - 1)] = rest[p - 1] /\ long[1 + (p - 1)] = rest[p - 1]
          BY <3>3, <3>5, <5>1
        <5> QED BY <5>1, <5>2
      <4> QED BY <4>1, <4>2
    <3>9. whole = long
      BY <3>3, <3>6, <3>7, <3>8, SeqEqual
    <3> QED BY <3>9 DEF whole, long, rest
  <2> HIDE DEF left, ch
  <2> SUFFICES ASSUME NEW k \in Nat, EndsWith(t, k, e[i]) PROVE f[k + 1] = left(i)
    BY <1>1 DEF ReadAs
  <2> DEFINE rest == e[i + 1]
             read == left(i + 1)
  <2>4. rest \in Seq(U) /\ read \in Seq(U)
    BY <1>1, <1>8, <1>10
  <2>5. ReadAs(t, f, rest, read)
    BY <1>12
  <2>6. EndsWith(t, k, EscapeOf(ch) \o rest)
    BY <2>2
  <2>7. t \in Seq(U)
    BY <1>5, <1>7
  <2> HIDE DEF rest, read
  <2>8. f[k + 1] = <<ch>> \o read
    <3>1. f \in UnescapeStates(U, t) /\ EscapeChars \subseteq U
      BY <1>4, <1>6
    <3>2. \A c, w, x : c # BACKSLASH /\ c \in U /\ w \in Seq(U) /\ x \in Seq(U)
                     /\ EndsWith(t, k, EscapeOf(c) \o w) /\ ReadAs(t, f, w, x)
                       => f[k + 1] = <<c>> \o x
      BY <2>7, <3>1, OneEscape
    <3> QED BY <3>2, <2>1, <2>4, <2>5, <2>6, Zenon
  <2> QED BY <2>3, <2>8 DEF read
<1> HIDE DEF G
<1>13. 1..(n + 1) \subseteq G
  BY <1>1, <1>11, <1>12, DownFrom
<1>14. ReadAs(t, f, e[1], left(1))
  BY <1>1, <1>13 DEF G
<1>15. EndsWith(t, 0, t)
  BY <1>5 DEF EndsWith
<1>16. f[0 + 1] = left(1)
  BY <1>2, <1>14, <1>15 DEF ReadAs
<1>17. left(1) = program
  BY DEF n
<1> HIDE DEF left
<1>18. f[1] = program
  BY <1>16, <1>17
<1> QED BY <1>6, <1>18 DEF t

\* A program without backslashes reaches the judge server as it was written,
\* however long it is.
THEOREM ProgramsArrive == Spec => []ProgramArrives
<1>1. Typed => ProgramArrives
  <2> SUFFICES ASSUME Typed, ~Contains(text, BACKSLASH) PROVE Unescape(Escaped(text)) = text
    BY DEF ProgramArrives
  <2>1. text \in Seq(Chars) /\ \A i \in 1..Len(text) : text[i] # BACKSLASH
    BY DEF Typed, Contains
  <2> QED BY <2>1, ProgramReadBack
<1> QED BY <1>1, TypedHolds, PTL

\* The point of a message that is too short for an overflow.
LEMMA PointFits ==
  ASSUME NEW S, NEW msg \in Seq(S), IsShort(msg)
  PROVE  GetSinglePointInfo(msg).point \in 0..INT_MAX
<1> DEFINE n == Len(msg)
<1>1. n \in 0..9 /\ \A i \in 1..n : msg[i] \in S
  <2>1. n \in Nat /\ \A i \in 1..n : msg[i] \in S
    OBVIOUS
  <2>2. n < 10
    BY DEF IsShort
  <2> HIDE DEF n
  <2> QED BY <2>1, <2>2
<1>2. PICK f \in InfoStates(S, msg) :
        GetSinglePointInfo(msg) = [point |-> f[n].point, in |-> f[n].in, out |-> f[n].tmp]
  BY InfosOfMessage
<1> HIDE DEF n
<1>3. /\ f \in [0..n -> Infos(S)] /\ f[0] = NoInfo
      /\ \A i \in 1..n : f[i] = Char(f[i - 1], msg[i])
  BY DEF InfoStates, n
<1> DEFINE G == {i \in 0..n : Len(f[i].tmp) <= i /\ f[i].point \in 0..INT_MAX}
<1>4. 0 \in G
  <2>1. 0 \in 0..INT_MAX
    BY IntMax, SMT
  <2> QED BY <1>1, <1>3, <2>1 DEF NoInfo
<1>5. ASSUME NEW i \in 0..(n - 1), i \in G PROVE i + 1 \in G
  <2>1. i \in 0..n /\ i + 1 \in 1..n /\ i + 1 \in 0..n /\ (i + 1) - 1 = i /\ i < 10
    BY <1>1
  <2>2. f[i + 1] = Char(f[i], msg[i + 1])
    BY <1>3, <2>1
  <2>3. f[i] \in Infos(S) /\ msg[i + 1] \in S
    BY <1>1, <1>3, <2>1
  <2>4. f[i].tmp \in Seq(S) /\ Len(f[i].tmp) <= i /\ f[i].point \in 0..INT_MAX
    BY <1>5, <2>3 DEF Infos
  <2>5. Str2int(f[i].tmp) \in 0..INT_MAX
    <3> DEFINE w == f[i].tmp
    <3>1. Len(w) \in Nat /\ Len(w) <= i
      BY <2>4
    <3>2. Len(w) < 10
      BY <2>1, <3>1
    <3>3. IsShort(w)
      BY <3>2 DEF IsShort
    <3> QED BY <2>4, <3>3, NineDigits DEF Str2int
  <2> DEFINE e == msg[i + 1]
  <2>6. CASE e # COMMA
    <3>1. f[i + 1] = [f[i] EXCEPT !.tmp = Append(f[i].tmp, e)]
      BY <2>2, <2>6 DEF Char
    <3>2. f[i + 1].tmp = Append(f[i].tmp, e) /\ f[i + 1].point = f[i].point
      BY <2>3, <3>1 DEF Infos
    <3>3. Len(Append(f[i].tmp, e)) = Len(f[i].tmp) + 1
      BY <2>4
    <3>4. Len(f[i].tmp) + 1 <= i + 1
      BY <2>1, <2>4
    <3> QED BY <2>1, <2>4, <3>2, <3>3, <3>4
  <2>7. CASE e = COMMA
    <3>1. /\ f[i + 1].tmp = <<>>
          /\ f[i + 1].point = IF f[i].commas = 0 THEN Str2int(f[i].tmp) ELSE f[i].point
      BY <2>2, <2>3, <2>7 DEF Char, Infos
    <3>2. f[i + 1].point \in 0..INT_MAX
      BY <2>4, <2>5, <3>1
    <3> QED BY <2>1, <3>1, <3>2
  <2> QED BY <2>6, <2>7
<1> HIDE DEF G
<1>6. 0..n \subseteq G
  BY <1>1, <1>4, <1>5, UpTo
<1>7. f[n].point \in 0..INT_MAX
  BY <1>1, <1>6 DEF G
<1> QED BY <1>2, <1>7

\* Whatever arrives, the conversions return texts of the characters they know,
\* and from texts too short for an overflow numbers that `int` holds, none of
\* them negative.
THEOREM CodecTypes == Spec => []TypeOK
<1>1. Typed => TypeOK
  <2> SUFFICES ASSUME Typed PROVE TypeOK
    OBVIOUS
  <2>1. text \in Seq(Chars) /\ Len(text) \in Nat
    BY DEF Typed
  <2>2. Unescape(text) \in Seq(Chars \union {LINE_FEED, RETURN})
    <3>1. PICK f \in UnescapeStates(Chars \union {LINE_FEED, RETURN}, text) : Unescape(text) = f[1]
      BY <2>1, Unescaping
    <3> DEFINE T == Chars \union {LINE_FEED, RETURN}
    <3>2. f \in [1..(Len(text) + 1) -> Seq(T)] /\ 1 \in 1..(Len(text) + 1)
      BY <2>1 DEF UnescapeStates
    <3> HIDE DEF T
    <3>3. f[1] \in Seq(T)
      BY <3>2
    <3> QED BY <3>1, <3>3 DEF T
  <2>3. IsShort(text) => Str2int(text) \in 0..INT_MAX
    BY <2>1, NineDigits DEF Str2int
  <2>4. IsShort(text) => GetSinglePointInfo(text).point \in 0..INT_MAX
    BY <2>1, PointFits
  <2> QED BY <2>2, <2>3, <2>4 DEF TypeOK
<1> QED BY <1>1, TypedHolds, PTL
=============================================================================
