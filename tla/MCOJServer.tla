----------------------------- MODULE MCOJServer -----------------------------
(* OJServer with submissions 7 and 8, of which 7 is always oddly written.    *)
EXTENDS OJServer, TLC

Written == {"07", "8", "seven"}
Parsed(q) == CASE q = "07" -> 7 [] q = "8" -> 8 [] OTHER -> NoNumber
Text(n) == IF n = 7 THEN "7" ELSE "8"

Symmetry == Permutations(Names) \union Permutations(Passwords)
              \union Permutations(Schools) \union Permutations(Emails)
              \union Permutations(Fds)
=============================================================================
