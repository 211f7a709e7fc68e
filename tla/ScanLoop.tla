------------------------------ MODULE ScanLoop ------------------------------
(***************************************************************************)
(* The loop of the result handler over the points of an "all" message      *)
(* (lib/judgeConnect.hpp, lines 113-164), one iteration per step.  Module  *)
(* ResultScan says what it computes, and module Judging uses that.         *)
(***************************************************************************)
EXTENDS ResultScan

CONSTANTS
  Messages,   \* the sequences of result codes a message may carry
  WRONG_ANSWER, CPU_TIME_LIMIT_EXCEEDED, REAL_TIME_LIMIT_EXCEEDED,
  RUNTIME_ERROR, MEMORY_LIMIT_EXCEEDED, SYSTEM_ERROR

Errors == {WRONG_ANSWER, CPU_TIME_LIMIT_EXCEEDED, REAL_TIME_LIMIT_EXCEEDED,
           RUNTIME_ERROR, MEMORY_LIMIT_EXCEEDED, SYSTEM_ERROR}

ASSUME CodesAreIntegers == Messages \subseteq Seq(Int) /\ Errors \subseteq Int \ {ACCEPT}

VARIABLES msg, pos, final_result, right_size, mini_result

scanVars == <<msg, pos, final_result, right_size, mini_result>>

LetterOrNothing(result) ==   \* mutant: no default case
  IF result \in Errors \union {ACCEPT} THEN "A" ELSE ""

\* result_to_mini_result
Letter(result) ==
  CASE result = WRONG_ANSWER -> "W"
    [] result = ACCEPT -> "A"
    [] result \in {CPU_TIME_LIMIT_EXCEEDED, REAL_TIME_LIMIT_EXCEEDED} -> "T"
    [] result = RUNTIME_ERROR -> "R"
    [] result = MEMORY_LIMIT_EXCEEDED -> "M"
    [] result = SYSTEM_ERROR -> "S"
    [] OTHER -> "X"

ScanInit ==
  /\ msg \in Messages
  /\ pos = 0
  /\ final_result = 0
  /\ right_size = 0
  /\ mini_result = <<>>

LastWins(found, e) == IF e # 0 THEN e ELSE found   \* mutant: no test of found

Keep(found, e) == IF found = 0 /\ e # 0 THEN e ELSE found

CountsAll(size, e) == size + 1   \* mutant: no test of the code

Counted(size, e) == IF e = ACCEPT THEN size + 1 ELSE size

ScanPoint ==
  /\ pos < Len(msg)
  /\ pos' = pos + 1
  /\ final_result' = Keep(final_result, msg[pos + 1])
  /\ right_size' = Counted(right_size, msg[pos + 1])
  /\ mini_result' = Append(mini_result, Letter(msg[pos + 1]))
  /\ UNCHANGED msg

ScanSpec == ScanInit /\ [][ScanPoint]_scanVars

-----------------------------------------------------------------------------
(* Properties *)

ScanTypeOK ==
  /\ msg \in Messages
  /\ pos \in 0..Len(msg)
  /\ final_result \in Int
  /\ right_size \in 0..pos
  /\ mini_result \in Seq({"W", "A", "T", "R", "M", "S", "X"})

Scanned == SubSeq(msg, 1, pos)

\* After every iteration the loop's variables are what ResultScan defines for
\* the points read so far; at the end, for the whole message.
ScanComputesResult ==
  /\ final_result = FinalResult(Scanned)
  /\ right_size = RightSize(Scanned)

\* The three columns tell one story: every letter is an A exactly when the
\* verdict is 0, and then the score of a message that has points is 100.
ColumnsAgree ==
  pos = Len(msg) /\ msg # <<>> =>
    /\ final_result = 0 <=> \A i \in DOMAIN mini_result : mini_result[i] = "A"
    /\ final_result = 0 <=> Score(msg) = 100
    /\ right_size = Cardinality({i \in DOMAIN mini_result : mini_result[i] = "A"})
=============================================================================
