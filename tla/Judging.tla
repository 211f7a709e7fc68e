------------------------------- MODULE Judging ------------------------------
(***************************************************************************)
(* The life of a submission: the HTTP handlers that create it and poll it  *)
(* (routes/judger.hpp), the statements they run (CURD/judger_table.hpp),   *)
(* the shared cache, the judge server's answers, and the threads of the    *)
(* judge client that turn those answers into rows (lib/judgeConnect.hpp).  *)
(*                                                                         *)
(* Every database statement is a step of its own: the code opens no        *)
(* transaction.  Time is counted in the units of the cache's expiries and  *)
(* passes in Tick, whatever a run is doing: no line of the code ends a run  *)
(* before its keys expire.  The judge server and the client library that   *)
(* calls the result handler are external: a run begins with "allSize:n";   *)
(* then come one message per test point, and "all" or a failure, with      *)
(* which the client's threads call the handler in any order.               *)
(***************************************************************************)
EXTENDS Cache, Integers, FiniteSets, ResultScan

CONSTANTS
  Handlers,        \* threads that serve HTTP requests (work_thread)
  Workers,         \* judge-client threads that call the result handler
  Users,
  MaxSolutions,    \* bound: submissions
  MaxPoints,       \* bound: test points of a problem
  AskedIds,        \* bound: ids that clients poll
  IdSpan,          \* number of values of the C++ type `unsigned`
  KeyTTL,          \* 30 minutes
  FinishTTL,       \* 30 seconds
  Results,         \* result codes of a test point
  FailCodes,       \* judgeResult_id codes other than SUCCESS
  SolutionColumns, \* columns of the deployed table `solutions`
  ForeignKeys,     \* does the deployed schema have its foreign keys?
  Faults,          \* may a statement or a send throw?
  NoRow            \* an absent row

\* The value the schema gives to solutions.result at insertion.
WAIT == -2

Ids == 0..MaxSolutions
SubmittedIds == 1..MaxSolutions

ASSUME BoundsAssumption ==
  /\ MaxSolutions \in Nat /\ MaxPoints \in Nat
  /\ IdSpan \in Nat \ {0}
  /\ KeyTTL \in Nat \ {0} /\ FinishTTL \in Nat \ {0}
  /\ FinishTTL <= KeyTTL
  /\ AskedIds \subseteq Ids
ASSUME CodesAssumption ==
  /\ Results \subseteq Int \ {WAIT}
  /\ FailCodes \subseteq Int \ {0, WAIT}
ASSUME FlagsAssumption == ForeignKeys \in BOOLEAN /\ Faults \in BOOLEAN
ASSUME NoRowAssumption ==
  /\ NoRow \notin Nat /\ NoRow \notin Seq(Nat)
  /\ NoRow \notin [owner : Users, result : Int, score : Nat]

VARIABLES
  solutions,   \* table solutions: owner, result and score of each row
  codes,       \* table solution_codes: the submission whose text the row holds
  fullResults, \* table solution_full_results: the stored list of points
  nextId,      \* AUTO_INCREMENT of solutions
  cache,
  handler,     \* what each HTTP thread is doing
  reply,       \* the last answer of each HTTP thread
  stream,      \* each key's run on the judge server
  worker,      \* what each judge-client thread is doing
  age          \* time since the judging flag of a key was set, until its run is over

dbVars == <<solutions, codes, fullResults, nextId>>
httpVars == <<handler, reply>>
vars == <<dbVars, cache, httpVars, stream, worker, age>>

-----------------------------------------------------------------------------
(* Rows, keys and records *)

Suffixes == {"is_judging", "point_size", "results", "cache_result"}
CacheKeys == Ids \X Suffixes

IsJudging(s) == <<s, "is_judging">>
PointSize(s) == <<s, "point_size">>
SharedList(s) == <<0, "results">>   \* mutant: one list for all submissions
PointList(s) == <<s, "results">>
CacheResult(s) == <<s, "cache_result">>

SolutionRow == [owner : Users, result : Int, score : Nat]

IdleHandler == [pc |-> "idle", sub |-> 0, key |-> 0]
NoReply == [kind |-> "none", id |-> 0]
NoRun == [phase |-> "idle", sub |-> 0, total |-> 0, sized |-> FALSE,
          arrived |-> {}, counted |-> {}, late |-> FALSE]
IdleWorker == [pc |-> "idle", id |-> 0, result |-> 0, score |-> 0, full |-> <<>>]

Running(s) == stream[s].phase = "running"

\* A submission between its judging flag and the end of its run.
Busy(s) ==
  \/ \E h \in Handlers : handler[h].pc = "send" /\ handler[h].key = s
  \/ Running(s)

\* The flag, were nobody to touch it, would not have expired yet.
InTime(s) == age[s] < KeyTTL

-----------------------------------------------------------------------------
Init ==
  /\ solutions = [s \in Ids |-> NoRow]
  /\ codes = [s \in Ids |-> NoRow]
  /\ fullResults = [s \in Ids |-> NoRow]
  /\ nextId = 1
  /\ cache = EmptyCache(CacheKeys)
  /\ handler = [h \in Handlers |-> IdleHandler]
  /\ reply = [h \in Handlers |-> NoReply]
  /\ stream = [s \in Ids |-> NoRun]
  /\ worker = [w \in Workers |-> IdleWorker]
  /\ age = [s \in Ids |-> 0]

-----------------------------------------------------------------------------
(* POST /handleJudge *)

\* add_solutions returns the row's id through a variable of type unsigned.
Truncated(id) == id % IdSpan

InsertSolution(h, u) ==
  /\ handler[h].pc = "idle"
  /\ nextId <= MaxSolutions
  /\ solutions' =
       [solutions EXCEPT ![nextId] = [owner |-> u, result |-> WAIT, score |-> 0]]
  /\ handler' = [handler EXCEPT
       ![h] = [pc |-> "codes", sub |-> nextId, key |-> Truncated(nextId)]]
  /\ nextId' = nextId + 1
  /\ reply' = [reply EXCEPT ![h] = NoReply]
  /\ UNCHANGED <<codes, fullResults, cache, stream, worker, age>>

\* Mutant: tables without keys.
AdmitsAnything(table, s) == TRUE

\* What the database demands of a new row of a table keyed by solution_id.
Admits(table, s) == table[s] = NoRow /\ (ForeignKeys => solutions[s] # NoRow)

InsertCode(h) ==
  /\ handler[h].pc = "codes"
  /\ Admits(codes, handler[h].key)
  /\ codes' = [codes EXCEPT ![handler[h].key] = handler[h].sub]
  /\ handler' = [handler EXCEPT ![h].pc = "full"]
  /\ UNCHANGED <<solutions, fullResults, nextId, cache, reply, stream, worker, age>>

InsertFullResult(h) ==
  /\ handler[h].pc = "full"
  /\ Admits(fullResults, handler[h].key)
  /\ fullResults' = [fullResults EXCEPT ![handler[h].key] = <<>>]
  /\ handler' = [handler EXCEPT ![h].pc = "flag"]
  /\ UNCHANGED <<solutions, codes, nextId, cache, reply, stream, worker, age>>

\* Mutant: the flag gets the short expiry.
SetJudgingBriefly(h) ==
  /\ handler[h].pc = "flag"
  /\ cache' = Put(cache, IsJudging(handler[h].key), <<>>, FinishTTL)
  /\ age' = [age EXCEPT ![handler[h].key] = 0]
  /\ handler' = [handler EXCEPT ![h].pc = "send"]
  /\ UNCHANGED <<dbVars, reply, stream, worker>>

\* Mutant: the expiry is in another unit.
SetJudgingInMilliseconds(h) ==
  /\ handler[h].pc = "flag"
  /\ cache' = Put(cache, IsJudging(handler[h].key), <<>>, 1000 * KeyTTL)
  /\ age' = [age EXCEPT ![handler[h].key] = 0]
  /\ handler' = [handler EXCEPT ![h].pc = "send"]
  /\ UNCHANGED <<dbVars, reply, stream, worker>>

\* 4.1: the flag, for 30 minutes.
SetJudging(h) ==
  /\ handler[h].pc = "flag"
  /\ cache' = Put(cache, IsJudging(handler[h].key), <<>>, KeyTTL)
  /\ age' = [age EXCEPT ![handler[h].key] = 0]
  /\ handler' = [handler EXCEPT ![h].pc = "send"]
  /\ UNCHANGED <<dbVars, reply, stream, worker>>

\* The run starts with the text this handler has, and as many points as the
\* problem has; the client gets the id.
Send(h) ==
  /\ handler[h].pc = "send"
  /\ \E n \in 0..MaxPoints :
       stream' = [stream EXCEPT
         ![handler[h].key] =
           [NoRun EXCEPT !.phase = "running", !.sub = handler[h].sub, !.total = n]]
  /\ reply' = [reply EXCEPT ![h] = [kind |-> "accepted", id |-> handler[h].key]]
  /\ handler' = [handler EXCEPT ![h] = IdleHandler]
  /\ UNCHANGED <<dbVars, cache, worker, age>>

\* A key is violated, or the connection breaks: before the statement of this
\* step, or when the one before it has taken effect.
StatementFails(h) ==
  \/ handler[h].pc = "codes" /\ ~Admits(codes, handler[h].key)
  \/ handler[h].pc = "full" /\ ~Admits(fullResults, handler[h].key)
  \/ handler[h].pc \in {"codes", "full", "flag", "send"} /\ Faults

\* Mutant: the exception is swallowed and the handler goes on.
HandlerSwallows(h) ==
  /\ StatementFails(h)
  /\ handler' = [handler EXCEPT ![h].pc = "flag"]
  /\ UNCHANGED <<dbVars, cache, reply, stream, worker, age>>

\* handleJudgeMsg catches nothing: an exception leaves what was done so far.
HandlerThrows(h) ==
  /\ StatementFails(h)
  /\ handler' = [handler EXCEPT ![h] = IdleHandler]
  /\ UNCHANGED <<dbVars, cache, reply, stream, worker, age>>

-----------------------------------------------------------------------------
(* GET /judge_result *)

\* Mutant: a poll renews the flag.
PollRenews(h, s) ==
  /\ handler[h].pc = "idle"
  /\ Exists(cache, IsJudging(s))
  /\ cache' = NewExpire(cache, IsJudging(s), KeyTTL)
  /\ reply' = [reply EXCEPT ![h] = [kind |-> "judging", id |-> s]]
  /\ UNCHANGED <<dbVars, handler, stream, worker, age>>

\* The flag is there: the client is told to connect by WebSocket.
PollJudging(h, s) ==
  /\ handler[h].pc = "idle"
  /\ Exists(cache, IsJudging(s))
  /\ reply' = [reply EXCEPT ![h] = [kind |-> "judging", id |-> s]]
  /\ UNCHANGED <<dbVars, cache, handler, stream, worker, age>>

\* Mutant: the flag is not looked at.
PollUnflagged(h, s) ==
  /\ handler[h].pc = "idle"
  /\ handler' = [handler EXCEPT ![h] = [pc |-> "cache_result", sub |-> 0, key |-> s]]
  /\ reply' = [reply EXCEPT ![h] = NoReply]
  /\ UNCHANGED <<dbVars, cache, stream, worker, age>>

PollNotJudging(h, s) ==
  /\ handler[h].pc = "idle"
  /\ ~Exists(cache, IsJudging(s))
  /\ handler' = [handler EXCEPT ![h] = [pc |-> "cache_result", sub |-> 0, key |-> s]]
  /\ reply' = [reply EXCEPT ![h] = NoReply]
  /\ UNCHANGED <<dbVars, cache, stream, worker, age>>

PollCacheResult(h) ==
  /\ handler[h].pc = "cache_result"
  /\ reply' = [reply EXCEPT ![h] =
       [kind |-> IF Exists(cache, CacheResult(handler[h].key))
                 THEN "result" ELSE "not_found",
        id |-> handler[h].key]]
  /\ handler' = [handler EXCEPT ![h] = IdleHandler]
  /\ UNCHANGED <<dbVars, cache, stream, worker, age>>

-----------------------------------------------------------------------------
(* Messages of the judge server, in the result handler *)

HandleAllSize(w, s) ==
  /\ Running(s) /\ ~stream[s].sized
  /\ worker[w].pc = "idle"
  /\ cache' = Put(cache, PointSize(s), <<stream[s].total>>, KeyTTL)
  /\ stream' = [stream EXCEPT ![s].sized = TRUE]
  /\ UNCHANGED <<dbVars, httpVars, worker, age>>

Points(s) == 1..stream[s].total

\* A point may be late: another thread has handled the last message already.
Answering(s) == stream[s].phase \in {"running", "ended"}

HandlePoint(w, s) ==
  /\ Answering(s) /\ stream[s].sized
  /\ worker[w].pc = "idle"
  /\ \E p \in Points(s) \ stream[s].arrived :
       /\ cache' = AppendTo(cache, PointList(s), p, KeyTTL)
       /\ stream' = [stream EXCEPT ![s].arrived = @ \union {p}]
  /\ UNCHANGED <<dbVars, httpVars, worker, age>>

\* Mutant: the flag keeps its 30 minutes.
FinishedButFlag(c, s) ==
  NewExpire(NewExpire(c, PointSize(s), FinishTTL), PointList(s), FinishTTL)

\* Every key of the run that is still there gets its last 30 seconds.
Finished(c, s) ==
  NewExpire(NewExpire(NewExpire(c, IsJudging(s), FinishTTL),
                      PointSize(s), FinishTTL),
            PointList(s), FinishTTL)

\* Mutant: the test is dropped.
ListAssumed(s) == TRUE

ListCached(s) == Exists(cache, PointList(s))

\* The message carries every point's result, the list only the points handled
\* before (`counted`).  The rows are updated only if the list is in the cache.
HandleAll(w, s) ==
  /\ Running(s) /\ stream[s].sized
  /\ worker[w].pc = "idle"
  /\ cache' = Finished(cache, s)
  /\ stream' = [stream EXCEPT ![s].phase = "ended", ![s].late = ~InTime(s),
                              ![s].counted = stream[s].arrived]
  /\ IF ListCached(s)
     THEN \E msg \in [Points(s) -> Results] :
            worker' = [worker EXCEPT ![w] =
              [pc |-> "solutions", id |-> s, result |-> FinalResult(msg),
               score |-> Score(msg), full |-> cache[PointList(s)].val]]
     ELSE UNCHANGED worker
  /\ UNCHANGED <<dbVars, httpVars, age>>

\* A run of which nothing more will come: its messages no longer matter.
Closed(s, phase) ==
  [stream[s] EXCEPT !.phase = phase, !.total = 0, !.sized = FALSE, !.arrived = {}]

\* The run failed: its code becomes the result, and the cache is left alone.
HandleFailed(w, s) ==
  /\ Running(s)
  /\ worker[w].pc = "idle"
  /\ stream' = [stream EXCEPT ![s] = Closed(s, "failed")]
  /\ \E code \in FailCodes :
       worker' = [worker EXCEPT ![w] =
         [pc |-> "solutions", id |-> s, result |-> code, score |-> 0, full |-> <<>>]]
  /\ UNCHANGED <<dbVars, cache, httpVars, age>>

-----------------------------------------------------------------------------
(* update_solution: two statements *)

\* Mutant: a column that the table has not got.
UpdateMoreColumns ==
  {"result", "time_used", "memory_used", "mini_result", "score", "judged_at"}

UpdateColumns == {"result", "time_used", "memory_used", "mini_result", "score"}
ColumnsExist == UpdateColumns \subseteq SolutionColumns

\* Mutant: the first statement is skipped.
UpdateSkipped(w) ==
  /\ worker[w].pc = "solutions"
  /\ worker' = [worker EXCEPT ![w].pc = "full_results"]
  /\ UNCHANGED <<dbVars, cache, httpVars, stream, age>>

UpdateSolutions(w) ==
  /\ worker[w].pc = "solutions"
  /\ ColumnsExist
  /\ LET s == worker[w].id IN
     solutions' = IF solutions[s] = NoRow THEN solutions
                  ELSE [solutions EXCEPT ![s].result = worker[w].result,
                                         ![s].score = worker[w].score]
  /\ worker' = [worker EXCEPT ![w].pc = "full_results"]
  /\ UNCHANGED <<codes, fullResults, nextId, cache, httpVars, stream, age>>

UpdateFullResults(w) ==
  /\ worker[w].pc = "full_results"
  /\ LET s == worker[w].id IN
     fullResults' = IF fullResults[s] = NoRow THEN fullResults
                    ELSE [fullResults EXCEPT ![s] = worker[w].full]
  /\ worker' = [worker EXCEPT ![w] = IdleWorker]
  /\ UNCHANGED <<solutions, codes, nextId, cache, httpVars, stream, age>>

\* The exception leaves the handler; the message is not delivered again.
StatementThrows(w) ==
  /\ worker[w].pc # "idle"
  /\ \/ Faults
     \/ worker[w].pc = "solutions" /\ ~ColumnsExist
  /\ worker' = [worker EXCEPT ![w] = IdleWorker]
  /\ UNCHANGED <<dbVars, cache, httpVars, stream, age>>

-----------------------------------------------------------------------------
(* The environment *)

\* The connection a run was sent on breaks; nothing more arrives for it.
ConnectionLost(s) ==
  /\ Running(s)
  /\ stream' = [stream EXCEPT ![s] = Closed(s, "gone")]
  /\ UNCHANGED <<dbVars, cache, httpVars, worker, age>>

\* Runs whose answers have not all been handled.
Unfinished(s) ==
  \/ Running(s)
  \/ Answering(s) /\ stream[s].arrived # Points(s)
  \/ \E w \in Workers : worker[w].pc # "idle" /\ worker[w].id = s

\* The process dies and starts again: only the tables survive.
Restart ==
  /\ cache' = EmptyCache(CacheKeys)
  /\ handler' = [h \in Handlers |-> IdleHandler]
  /\ reply' = [h \in Handlers |-> NoReply]
  /\ stream' = [s \in Ids |->
       IF Unfinished(s) THEN Closed(s, "gone") ELSE stream[s]]
  /\ worker' = [w \in Workers |-> IdleWorker]
  /\ age' = [s \in Ids |-> 0]
  /\ UNCHANGED dbVars

Tick ==
  /\ cache' = Aged(cache)
  /\ age' = [s \in Ids |-> IF ~Busy(s) THEN 0 ELSE IF InTime(s) THEN age[s] + 1 ELSE age[s]]
  /\ UNCHANGED <<dbVars, httpVars, stream, worker>>

-----------------------------------------------------------------------------
HandlerStep(h) ==
  \/ InsertCode(h) \/ InsertFullResult(h) \/ SetJudging(h) \/ Send(h)
  \/ HandlerThrows(h) \/ PollCacheResult(h)

Request(h) ==
  \/ \E u \in Users : InsertSolution(h, u)
  \/ \E s \in AskedIds : PollJudging(h, s) \/ PollNotJudging(h, s)

Message(s) ==
  \E w \in Workers :
    HandleAllSize(w, s) \/ HandlePoint(w, s) \/ HandleAll(w, s) \/ HandleFailed(w, s)

WorkerStep(w) == UpdateSolutions(w) \/ UpdateFullResults(w) \/ StatementThrows(w)

Next ==
  \/ \E h \in Handlers : Request(h) \/ HandlerStep(h)
  \/ \E s \in Ids : Message(s) \/ ConnectionLost(s)
  \/ \E w \in Workers : WorkerStep(w)
  \/ Restart
  \/ Tick

Spec == Init /\ [][Next]_vars

(***************************************************************************)
(* Threads that are not blocked run, time passes, and the judge server     *)
(* answers what it was sent.  New requests, restarts and lost connections  *)
(* need never happen.                                                      *)
(***************************************************************************)
Fairness ==
  /\ \A h \in Handlers : WF_vars(HandlerStep(h))
  /\ \A w \in Workers : WF_vars(WorkerStep(w))
  /\ \A s \in Ids : WF_vars(Message(s))
  /\ WF_vars(Tick)

FairSpec == Spec /\ Fairness
=============================================================================
