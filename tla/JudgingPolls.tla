----------------------------- MODULE JudgingPolls ---------------------------
(***************************************************************************)
(* Judging with a history of its polls.  handleResult looks at the cache   *)
(* twice and other threads go on in between.                               *)
(***************************************************************************)
EXTENDS JudgingProperties

VARIABLE
  overtaken   \* the submissions sent since each thread's first look

pollVars == <<vars, overtaken>>

BetweenLooks(h) == handler[h].pc = "cache_result"
Sent == {s \in Ids : Running(s)' /\ ~Running(s)}

Watch ==
  overtaken' = [h \in Handlers |->
    IF BetweenLooks(h)' THEN (IF BetweenLooks(h) THEN overtaken[h] \union Sent ELSE {})
    ELSE {}]

PollInit == Init /\ overtaken = [h \in Handlers |-> {}]

PollSpec == PollInit /\ [][Next /\ Watch]_pollVars

\* /judge_result answers NOT_FOUND of a running submission in two cases only: it
\* was sent while the poll was between its two looks at the cache, or it has
\* outlasted its flag.
NotFoundMeansNotRunning ==
  [][\A h \in Handlers :
       reply'[h].kind = "not_found" /\ reply[h].kind # "not_found"
         => LET s == reply'[h].id IN
            ~Running(s) \/ ~InTime(s) \/ s \in overtaken[h]]_pollVars
=============================================================================
