------------------------------ MODULE MCJudging -----------------------------
(* Judging with small values for TLC; the configurations choose among them. *)
EXTENDS JudgingProperties, TLC

\* A table with the columns update_solution writes, and the ones of SQL/create-sql.sql.
AllColumns == {"result", "time_used", "memory_used", "mini_result", "score"}
ShippedColumns == {"result", "time_used", "memory_used"}

PassOrFail == {0, 1}
OneFailCode == {3}

ThreadSymmetry == Permutations(Workers)
=============================================================================
