----------------------------- MODULE ResultScan -----------------------------
(***************************************************************************)
(* What the result handler computes from the "all" message of a run        *)
(* (lib/judgeConnect.hpp, lines 113-175): one verdict, one score and one   *)
(* letter per test point.  A message is the sequence of its points' result *)
(* codes.  FinalResult and RightSize say what the scan finds; the loop     *)
(* itself is ScanLoop.                                                     *)
(***************************************************************************)
EXTENDS Integers, Sequences, FiniteSets

ACCEPT == 0

(***************************************************************************)
(* The verdict: the code of the first point that is not 0, or 0.           *)
(***************************************************************************)
Failures(msg) == {i \in DOMAIN msg : msg[i] # 0}

FinalResult(msg) ==
  IF Failures(msg) = {} THEN 0
  ELSE msg[CHOOSE i \in Failures(msg) : \A j \in Failures(msg) : i <= j]

RightSize(msg) == Cardinality({i \in DOMAIN msg : msg[i] = ACCEPT})

\* Percentage of accepted points, in the integer division of C++.
Score(msg) == IF Len(msg) = 0 THEN 0 ELSE (100 * RightSize(msg)) \div Len(msg)
=============================================================================
