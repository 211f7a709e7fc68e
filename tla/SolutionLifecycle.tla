-------------------------- MODULE SolutionLifecycle -------------------------
(***************************************************************************)
(* What the two tables promise whoever reads them: a submission is         *)
(* inserted waiting, gets one verdict that never changes again, and only   *)
(* then its detail, once.  No handler, cache, thread or message appears    *)
(* here; module Judging implements this (CURD/judger_table.hpp is the only *)
(* writer of both tables).                                                 *)
(***************************************************************************)
EXTENDS Integers, Sequences

CONSTANTS Submissions, Users, Verdicts, Scores, MaxPoints, WAIT, NoRow

VARIABLES row, detail

vars == <<row, detail>>

\* Points in some order, none of them twice.
PointLists ==
  UNION {{f \in [1..n -> 1..MaxPoints] : \A i, j \in 1..n : f[i] = f[j] => i = j} :
           n \in 1..MaxPoints}

Init ==
  /\ row = [s \in Submissions |-> NoRow]
  /\ detail = [s \in Submissions |-> <<>>]

Submit(s) ==
  /\ row[s] = NoRow
  /\ \E u \in Users :
       row' = [row EXCEPT ![s] = [owner |-> u, result |-> WAIT, score |-> 0]]
  /\ UNCHANGED detail

\* Accepted is the verdict exactly when the score is full.
Judge(s) ==
  /\ row[s] # NoRow /\ row[s].result = WAIT
  /\ \E r \in Verdicts, v \in Scores :
       /\ r # WAIT /\ ((r = 0) <=> (v = 100))
       /\ row' = [row EXCEPT ![s] = [owner |-> row[s].owner, result |-> r, score |-> v]]
  /\ UNCHANGED detail

Publish(s) ==
  /\ row[s] # NoRow /\ row[s].result # WAIT
  /\ detail[s] = <<>>
  /\ detail' \in {[detail EXCEPT ![s] = l] : l \in PointLists}
  /\ UNCHANGED row

Next == \E s \in Submissions : Submit(s) \/ Judge(s) \/ Publish(s)

Spec == Init /\ [][Next]_vars
=============================================================================
