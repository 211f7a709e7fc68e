-------------------------- MODULE JudgingProperties -------------------------
(***************************************************************************)
(* What must hold of module Judging.                                       *)
(***************************************************************************)
EXTENDS Judging

HandlerPCs == {"idle", "codes", "full", "flag", "send", "cache_result"}
ReplyKinds == {"none", "accepted", "judging", "result", "not_found"}
Phases == {"idle", "running", "ended", "failed", "gone"}

HandlerRecords == [pc : HandlerPCs, sub : Ids, key : Ids]
ReplyRecords == [kind : ReplyKinds, id : Ids]
RunRecords == [phase : Phases, sub : Ids, total : 0..MaxPoints, sized : BOOLEAN,
               arrived : SUBSET (1..MaxPoints), counted : SUBSET (1..MaxPoints), late : BOOLEAN]
WorkerRecords == [pc : {"idle", "solutions", "full_results"}, id : Ids,
                  result : Int, score : Nat, full : Seq(Nat)]
Caches == [CacheKeys -> [val : Seq(Nat), ttl : 0..KeyTTL]]

\* Every variable stays in the set of values the code can give it.
TypeOK ==
  /\ solutions \in [Ids -> SolutionRow \union {NoRow}]
  /\ codes \in [Ids -> Ids \union {NoRow}]
  /\ fullResults \in [Ids -> Seq(Nat) \union {NoRow}]
  /\ nextId \in 1..(MaxSolutions + 1)
  /\ cache \in Caches
  /\ handler \in [Handlers -> HandlerRecords]
  /\ reply \in [Handlers -> ReplyRecords]
  /\ stream \in [Ids -> RunRecords]
  /\ worker \in [Workers -> WorkerRecords]
  /\ age \in [Ids -> 0..KeyTTL]

\* A submission that has reached the cache or the judge server has its key to
\* itself: the primary keys of the tables that handleJudgeMsg fills before the
\* flag and the send stop a second submission under the same (truncated) id, so
\* no run is ever overwritten by another.
KeyFreshAtSend ==
  \A h \in Handlers : handler[h].pc \in {"flag", "send"} =>
    /\ stream[handler[h].key].phase = "idle"
    /\ \A g \in Handlers \ {h} :
         handler[g].pc \in {"flag", "send"} => handler[g].key # handler[h].key

\* Whatever update_solution updates is there: UPDATE ... WHERE id = ? says
\* nothing when no row matches, so rows missing here would be lost verdicts.
RowsBeforeVerdict ==
  \A w \in Workers : worker[w].pc # "idle" =>
    /\ solutions[worker[w].id] # NoRow
    /\ codes[worker[w].id] # NoRow
    /\ fullResults[worker[w].id] # NoRow

\* The judging flag, which expires on its own, is there as long as the run, and
\* /judge_result says so: only a run that takes longer than the 30 minutes the
\* flag was set for is taken for one that is over.
FlagCoversRun == \A s \in Ids : Running(s) /\ InTime(s) => Exists(cache, IsJudging(s))

\* Once a run has ended, /judge_result goes on announcing it for at most 30
\* seconds: the flag is set before the run is sent, never after its end.
FinishedFlagBounded ==
  \A s \in Ids : stream[s].phase = "ended" => cache[IsJudging(s)].ttl <= FinishTTL

\* What a list names, and that it names nothing twice.
Listed(l) == {l[i] : i \in DOMAIN l}
NoneTwice(l) == \A i, j \in DOMAIN l : l[i] = l[j] => i = j

\* A stored list of points has no point twice and none that was not counted,
\* although two threads append to it and a list that expires half way begins
\* again; and if the run was over before its keys expired, every point handled
\* before "all" is in it.
FullListsEachPointOnce ==
  \A s \in Ids : fullResults[s] \notin {NoRow, <<>>} =>
    /\ NoneTwice(fullResults[s])
    /\ Listed(fullResults[s]) \subseteq stream[s].counted
    /\ ~stream[s].late => Listed(fullResults[s]) = stream[s].counted

\* A row says "accepted" exactly when its score is full.  The scan of an empty
\* run finds result 0 and score 0; only the test of the cached list keeps that
\* out of the table.
AcceptedMeansFullScore ==
  \A s \in Ids : solutions[s] # NoRow =>
    (solutions[s].result = 0 <=> solutions[s].score = 100)

\* What the judge server runs under a key is the text that solution_codes holds
\* for it: of two submissions whose numbers have become equal, the one that could
\* not store its text is not judged.
JudgedAsStored ==
  \A s \in Ids : stream[s].phase # "idle" => codes[s] = stream[s].sub

\* What can become a row's result, and its score: that of a failed run is 0.
Verdicts == Results \union FailCodes
Scores == {0} \union {(100 * k) \div n : k \in 0..MaxPoints, n \in 1..MaxPoints}

\* The tables behave as SolutionLifecycle says: one verdict per submission,
\* never changed, and the detail after it.
Lifecycle ==
  INSTANCE SolutionLifecycle WITH
    Submissions <- SubmittedIds,
    row <- [s \in SubmittedIds |-> solutions[s]],
    detail <- [s \in SubmittedIds |->
                 IF fullResults[s] = NoRow THEN <<>> ELSE fullResults[s]]

ImplementsLifecycle == Lifecycle!Spec

Judged(s) == solutions[s] # NoRow /\ solutions[s].result # WAIT

\* A run that keeps its connection ends with a verdict in the table, unless "all"
\* was handled before any of its points (it may have none), or so late that the
\* cached list may have expired.
JudgedEventually ==
  \A s \in Ids :
    Running(s) ~>
      \/ Judged(s)
      \/ stream[s].phase = "gone"
      \/ stream[s].phase = "ended" /\ stream[s].counted = {}
      \/ ~InTime(s)

\* No client is sent to the WebSocket for ever: the flag goes, whatever became
\* of the run.
FlagEventuallyClears == \A s \in Ids : []<>~Exists(cache, IsJudging(s))

-----------------------------------------------------------------------------
(* What the repository says and the code does not do *)

\* CURD/judger_table.hpp:32 "store the judged result in the database", and the
\* case total_size == 0 of lib/judgeConnect.hpp:172: every run that is not lost
\* or late ends with a verdict in the table, also that of a problem without points.
EveryRunJudged ==
  \A s \in Ids :
    Running(s) ~> Judged(s) \/ stream[s].phase = "gone" \/ ~InTime(s)
=============================================================================
