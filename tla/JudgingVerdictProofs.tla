------------------------- MODULE JudgingVerdictProofs -----------------------
(***************************************************************************)
(* What module Judging writes into the tables: a row is "accepted" exactly *)
(* when its score is full, a stored list of points names none twice and,   *)
(* if the run was in time, all that were handled before "all", and both    *)
(* come once: the tables implement SolutionLifecycle.                      *)
(***************************************************************************)
EXTENDS JudgingProofs

-----------------------------------------------------------------------------
(* Accepted means full score: the inductive invariant *)

\* A run that has no point yet has no list in the cache, so that the test of
\* the list is a test for points.
NoPointNoList ==
  \A s \in Ids :
    stream[s].phase \in {"idle", "running"} /\ stream[s].arrived = {}
      => cache[PointList(s)] = Absent

\* A message with a point is about a point of the problem.
PointsOfRun == \A s \in Ids : stream[s].arrived \subseteq Points(s)

\* What a worker is about to store.
WorkersAgree ==
  \A w \in Workers : worker[w].pc # "idle" =>
    (worker[w].result = 0 <=> worker[w].score = 100)

VerdictInv == NoPointNoList /\ PointsOfRun /\ WorkersAgree /\ AcceptedMeansFullScore

LEMMA InitVerdictInv == Init => VerdictInv
<1> SUFFICES ASSUME Init PROVE VerdictInv
  OBVIOUS
<1>1. NoPointNoList
  BY KeysAreKeys DEF Init, NoPointNoList, EmptyCache
<1>2. PointsOfRun /\ WorkersAgree /\ AcceptedMeansFullScore
  BY DEF Init, PointsOfRun, NoRun, WorkersAgree, AcceptedMeansFullScore, IdleWorker
<1> QED
  BY <1>1, <1>2 DEF VerdictInv

-----------------------------------------------------------------------------
(* Writes to other keys leave the lists alone *)

LEMMA FinishedLists ==
  ASSUME NEW c \in Caches, NEW s \in Ids, NEW r \in Ids \ {s}
  PROVE  Finished(c, s)[PointList(r)] = c[PointList(r)]
<1> DEFINE c1 == NewExpire(c, IsJudging(s), FinishTTL)
           c2 == NewExpire(c1, PointSize(s), FinishTTL)
<1>1. FinishTTL \in 0..KeyTTL
  BY BoundsAssumption
<1>2. c1 \in Caches /\ c2 \in Caches
  BY <1>1, KeysAreKeys, NewExpireType
<1>3. /\ PointList(r) # IsJudging(s) /\ PointList(r) # PointSize(s)
      /\ PointList(r) # PointList(s)
  BY DEF IsJudging, PointSize, PointList
<1>4. c1[PointList(r)] = c[PointList(r)]
  BY <1>3, KeysAreKeys DEF NewExpire, Caches
<1>5. c2[PointList(r)] = c1[PointList(r)]
  BY <1>2, <1>3, KeysAreKeys DEF NewExpire, Caches
<1>6. Finished(c, s)[PointList(r)] = c2[PointList(r)]
  <2> HIDE DEF c1, c2
  <2>1. NewExpire(c2, PointList(s), FinishTTL)[PointList(r)] = c2[PointList(r)]
    BY <1>2, <1>3, KeysAreKeys DEF NewExpire, Caches
  <2> QED
    BY <2>1 DEF Finished, c1, c2
<1> QED
  BY <1>4, <1>5, <1>6

\* The flag, the size and other submissions' lists are other keys.
LEMMA ListsElsewhere ==
  ASSUME NEW s, NEW r
  PROVE  /\ PointList(r) # IsJudging(s) /\ PointList(r) # PointSize(s)
         /\ PointList(r) = PointList(s) => r = s
BY DEF IsJudging, PointSize, PointList

-----------------------------------------------------------------------------
(* Each action preserves it *)

LEMMA HandlerVerdictInv ==
  ASSUME TypeOK, KeyInv, VerdictInv, NEW h \in Handlers, Request(h) \/ HandlerStep(h)
  PROVE  VerdictInv'
<1> USE DEF dbVars, httpVars
<1>t. /\ handler[h].key \in Ids
      /\ stream \in [Ids -> RunRecords] /\ cache \in Caches
      /\ solutions \in [Ids -> SolutionRow \union {NoRow}]
  BY DEF TypeOK, HandlerRecords
<1>1. ASSUME NEW u \in Users, InsertSolution(h, u) PROVE VerdictInv'
  <2>1. UNCHANGED <<cache, stream, worker>>
    BY <1>1 DEF InsertSolution
  <2>2. \A s \in Ids : solutions'[s] = solutions[s]
                         \/ solutions'[s] = [owner |-> u, result |-> WAIT, score |-> 0]
    BY <1>1, <1>t DEF InsertSolution
  <2>3. AcceptedMeansFullScore'
    BY <2>2 DEF VerdictInv, AcceptedMeansFullScore, WAIT
  <2> QED
    BY <2>1, <2>3 DEF VerdictInv, NoPointNoList, PointsOfRun, Points, WorkersAgree, PointList
<1>2. CASE SetJudging(h)
  <2>1. UNCHANGED <<solutions, stream, worker>>
    BY <1>2 DEF SetJudging
  <2>2. \A s \in Ids : cache'[PointList(s)] = cache[PointList(s)]
    BY <1>2, <1>t, KeysAreKeys, ListsElsewhere, PutElsewhere DEF SetJudging
  <2> QED
    BY <2>1, <2>2
       DEF VerdictInv, NoPointNoList, PointsOfRun, Points, WorkersAgree,
           AcceptedMeansFullScore, PointList
<1>3. CASE Send(h)
  <2> DEFINE k == handler[h].key
  <2>1. PICK n \in 0..MaxPoints :
          stream' = [stream EXCEPT ![k] =
            [NoRun EXCEPT !.phase = "running", !.sub = handler[h].sub, !.total = n]]
    BY <1>3 DEF Send
  <2>2. UNCHANGED <<solutions, cache, worker>>
    BY <1>3 DEF Send
  <2>3. stream[k] = NoRun
    BY <1>3 DEF Send, KeyInv, KeysOwned, Stored
  <2>4. NoPointNoList' /\ PointsOfRun'
    BY <1>t, <2>1, <2>2, <2>3
       DEF VerdictInv, NoPointNoList, PointsOfRun, Points, NoRun, PointList
  <2> QED
    BY <2>2, <2>4 DEF VerdictInv, WorkersAgree, AcceptedMeansFullScore
<1>4. ASSUME \/ InsertCode(h) \/ InsertFullResult(h) \/ HandlerThrows(h)
             \/ PollCacheResult(h)
             \/ \E s \in AskedIds : PollJudging(h, s) \/ PollNotJudging(h, s)
      PROVE  VerdictInv'
  <2>1. UNCHANGED <<solutions, cache, stream, worker>>
    BY <1>4 DEF InsertCode, InsertFullResult, HandlerThrows, PollCacheResult,
                PollJudging, PollNotJudging
  <2> QED
    BY <2>1
       DEF VerdictInv, NoPointNoList, PointsOfRun, Points, WorkersAgree,
           AcceptedMeansFullScore, PointList
<1> QED
  BY <1>1, <1>2, <1>3, <1>4 DEF Request, HandlerStep

\* The verdict and the score of a message that has points.
LEMMA ScanAgrees ==
  ASSUME NEW n \in Nat \ {0}, NEW msg \in [1..n -> Results]
  PROVE  FinalResult(msg) = 0 <=> Score(msg) = 100
BY MessageType, ScoreIsFullWhenAccepted

\* A closed run has no points any more.
LEMMA ClosedRun ==
  ASSUME TypeOK, NEW s \in Ids, NEW p \in Phases
  PROVE  /\ Closed(s, p).phase = p /\ Closed(s, p).arrived = {}
         /\ Closed(s, p).counted = stream[s].counted
         /\ Closed(s, p).late = stream[s].late
<1>1. stream[s] \in RunRecords
  BY DEF TypeOK
<1> QED
  BY <1>1 DEF Closed, RunRecords

\* The test of the cached list is a test for points.
LEMMA CachedHasPoints ==
  ASSUME VerdictInv, NEW s \in Ids, Running(s), ListCached(s), stream[s].total \in Nat
  PROVE  stream[s].total # 0
<1>1. stream[s].arrived # {}
  BY DEF ListCached, Exists, Absent, VerdictInv, NoPointNoList, Running
<1>2. Points(s) # {}
  BY <1>1 DEF VerdictInv, PointsOfRun
<1> QED
  BY <1>2 DEF Points

\* What a message leaves of the runs.
LEMMA MessageRuns ==
  ASSUME TypeOK, NEW s \in Ids, NEW w \in Workers,
         \/ HandleAllSize(w, s) \/ HandlePoint(w, s)
         \/ HandleAll(w, s) \/ HandleFailed(w, s)
  PROVE  /\ Answering(s) /\ UNCHANGED <<dbVars, httpVars, age>>
         /\ \A r \in Ids \ {s} : stream'[r] = stream[r]
         /\ HandlePoint(w, s) \/ Running(s)
         /\ HandleFailed(w, s) =>
              stream'[s] = Closed(s, "failed") /\ UNCHANGED cache
         /\ ~HandleFailed(w, s) => stream'[s].total = stream[s].total
         /\ HandleAllSize(w, s) =>
              /\ UNCHANGED worker
              /\ stream'[s].phase = stream[s].phase
              /\ stream'[s].arrived = stream[s].arrived
         /\ HandlePoint(w, s) =>
              /\ UNCHANGED worker
              /\ stream'[s].phase = stream[s].phase
              /\ stream'[s].counted = stream[s].counted
              /\ stream'[s].late = stream[s].late
         /\ HandleAll(w, s) =>
              /\ cache' = Finished(cache, s)
              /\ stream'[s].phase = "ended"
              /\ stream'[s].arrived = stream[s].arrived
              /\ stream'[s].counted = stream[s].arrived
              /\ stream'[s].late = ~InTime(s)
<1>t. stream \in [Ids -> RunRecords] /\ stream[s] \in RunRecords
  BY DEF TypeOK
<1>1. ASSUME HandleAllSize(w, s)
      PROVE  /\ UNCHANGED worker
             /\ stream'[s].phase = stream[s].phase
             /\ stream'[s].arrived = stream[s].arrived
             /\ stream'[s].total = stream[s].total
  BY <1>1, <1>t DEF HandleAllSize, RunRecords
<1>2. ASSUME HandlePoint(w, s)
      PROVE  /\ UNCHANGED worker
             /\ stream'[s].phase = stream[s].phase
             /\ stream'[s].total = stream[s].total
             /\ stream'[s].counted = stream[s].counted
             /\ stream'[s].late = stream[s].late
  <2>1. PICK a : stream' = [stream EXCEPT ![s].arrived = a]
    BY <1>2 DEF HandlePoint
  <2> QED
    BY <1>2, <1>t, <2>1 DEF HandlePoint, RunRecords
<1>3. ASSUME HandleAll(w, s)
      PROVE  /\ cache' = Finished(cache, s)
             /\ stream'[s].phase = "ended"
             /\ stream'[s].total = stream[s].total
             /\ stream'[s].arrived = stream[s].arrived
             /\ stream'[s].counted = stream[s].arrived
             /\ stream'[s].late = ~InTime(s)
  <2>1. PICK late : late = ~InTime(s)
    OBVIOUS
  <2>2. stream'[s] = [[[stream[s] EXCEPT !.phase = "ended"] EXCEPT !.late = late]
                        EXCEPT !.counted = stream[s].arrived]
    BY <1>3, <1>t, <2>1 DEF HandleAll
  <2> QED
    BY <1>3, <1>t, <2>1, <2>2 DEF HandleAll, RunRecords
<1>4. ASSUME HandleFailed(w, s)
      PROVE  stream'[s] = Closed(s, "failed") /\ UNCHANGED cache
  BY <1>4, <1>t DEF HandleFailed
<1>5. /\ Answering(s) /\ UNCHANGED <<dbVars, httpVars, age>>
      /\ \A r \in Ids \ {s} : stream'[r] = stream[r]
      /\ HandlePoint(w, s) \/ Running(s)
  BY <1>t DEF HandleAllSize, HandlePoint, HandleAll, HandleFailed, Answering, Running
<1> QED
  BY <1>1, <1>2, <1>3, <1>4, <1>5

LEMMA MessageVerdictInv ==
  ASSUME TypeOK, VerdictInv, NEW s \in Ids, Message(s)
  PROVE  VerdictInv'
<1> USE DEF dbVars, httpVars
<1>t. /\ stream \in [Ids -> RunRecords] /\ cache \in Caches
      /\ stream[s].total \in Nat
      /\ worker \in [Workers -> WorkerRecords]
  BY BoundsAssumption DEF TypeOK, RunRecords
<1>0. PICK w \in Workers : HandleAllSize(w, s) \/ HandlePoint(w, s)
                             \/ HandleAll(w, s) \/ HandleFailed(w, s)
  BY DEF Message
<1>1. UNCHANGED solutions /\ \A r \in Ids \ {s} : stream'[r] = stream[r]
  BY <1>0, MessageRuns
<1>2. AcceptedMeansFullScore'
  BY <1>1 DEF VerdictInv, AcceptedMeansFullScore
<1>p. ASSUME stream'[s].arrived \subseteq Points(s)' PROVE PointsOfRun'
  BY <1>1, <1>p DEF VerdictInv, PointsOfRun, Points
<1>3. CASE HandleAllSize(w, s)
  <2>1. /\ UNCHANGED worker /\ stream'[s].phase = stream[s].phase
        /\ stream'[s].arrived = stream[s].arrived /\ stream'[s].total = stream[s].total
    BY <1>3, <1>t DEF HandleAllSize, RunRecords
  <2>2. \A r \in Ids : cache'[PointList(r)] = cache[PointList(r)]
    BY <1>3, <1>t, KeysAreKeys, ListsElsewhere, PutElsewhere DEF HandleAllSize
  <2>3. PointsOfRun'
    BY <1>p, <2>1 DEF VerdictInv, PointsOfRun, Points
  <2> QED
    BY <1>1, <1>2, <2>1, <2>2, <2>3 DEF VerdictInv, NoPointNoList, WorkersAgree, PointList
<1>4. CASE HandlePoint(w, s)
  <2>1. PICK p \in Points(s) \ stream[s].arrived :
          /\ cache' = AppendTo(cache, PointList(s), p, KeyTTL)
          /\ stream' = [stream EXCEPT ![s].arrived = @ \union {p}]
    BY <1>4 DEF HandlePoint
  <2>2. UNCHANGED worker
    BY <1>4 DEF HandlePoint
  <2>3. /\ stream'[s].arrived = stream[s].arrived \union {p}
        /\ stream'[s].total = stream[s].total
    BY <1>t, <2>1 DEF RunRecords
  <2>4. \A r \in Ids \ {s} : cache'[PointList(r)] = cache[PointList(r)]
    BY <1>t, <2>1, KeysAreKeys, ListsElsewhere, AppendElsewhere
  <2>5. PointsOfRun'
    BY <1>p, <2>1, <2>3 DEF VerdictInv, PointsOfRun, Points
  <2> QED
    BY <1>1, <1>2, <2>2, <2>3, <2>4, <2>5
       DEF VerdictInv, NoPointNoList, WorkersAgree, PointList
<1>5. CASE HandleAll(w, s)
  <2>1. /\ cache' = Finished(cache, s) /\ Running(s)
        /\ stream'[s].phase = "ended" /\ stream'[s].arrived = stream[s].arrived
        /\ stream'[s].total = stream[s].total
    BY <1>5, <1>t DEF HandleAll, RunRecords
  <2>2. NoPointNoList'
    BY <1>1, <1>t, <2>1, FinishedLists DEF VerdictInv, NoPointNoList, PointList
  <2>5. PointsOfRun'
    BY <1>p, <2>1 DEF VerdictInv, PointsOfRun, Points
  <2>3. CASE ListCached(s)
    <3>1. PICK msg \in [Points(s) -> Results] :
            worker' = [worker EXCEPT ![w] =
              [pc |-> "solutions", id |-> s, result |-> FinalResult(msg),
               score |-> Score(msg), full |-> cache[PointList(s)].val]]
      BY <1>5, <2>3 DEF HandleAll
    <3>2. stream[s].total # 0
      BY <1>t, <2>1, <2>3, CachedHasPoints
    <3>3. FinalResult(msg) = 0 <=> Score(msg) = 100
      BY <1>t, <3>2, ScanAgrees DEF Points
    <3> QED
      BY <1>2, <1>t, <2>2, <2>5, <3>1, <3>3 DEF VerdictInv, WorkersAgree
  <2>4. CASE ~ListCached(s)
    BY <1>2, <1>5, <2>2, <2>4, <2>5 DEF HandleAll, VerdictInv, WorkersAgree
  <2> QED
    BY <2>3, <2>4
<1>6. CASE HandleFailed(w, s)
  <2>1. PICK code \in FailCodes :
          worker' = [worker EXCEPT ![w] =
            [pc |-> "solutions", id |-> s, result |-> code, score |-> 0, full |-> <<>>]]
    BY <1>6 DEF HandleFailed
  <2>2. UNCHANGED cache /\ stream'[s] = Closed(s, "failed")
    BY <1>6, MessageRuns
  <2>3. stream'[s].phase = "failed" /\ stream'[s].arrived = {}
    BY <1>t, <2>2, ClosedRun DEF Phases
  <2>4. WorkersAgree'
    BY <1>t, <2>1, CodesAssumption DEF VerdictInv, WorkersAgree
  <2>5. PointsOfRun'
    BY <1>p, <2>3
  <2> QED
    BY <1>1, <1>2, <2>2, <2>3, <2>4, <2>5 DEF VerdictInv, NoPointNoList, PointList
<1> QED
  BY <1>0, <1>3, <1>4, <1>5, <1>6

LEMMA OtherVerdictInv ==
  ASSUME TypeOK, VerdictInv,
         \/ \E w \in Workers : WorkerStep(w)
         \/ \E s \in Ids : ConnectionLost(s)
         \/ Restart \/ Tick
  PROVE  VerdictInv'
<1> USE DEF dbVars, httpVars
<1>t. /\ stream \in [Ids -> RunRecords] /\ cache \in Caches
      /\ worker \in [Workers -> WorkerRecords]
      /\ solutions \in [Ids -> SolutionRow \union {NoRow}]
  BY DEF TypeOK
<1>1. ASSUME NEW w \in Workers, WorkerStep(w) PROVE VerdictInv'
  <2>1. UNCHANGED <<cache, stream>>
    BY <1>1 DEF WorkerStep, UpdateSolutions, UpdateFullResults, StatementThrows
  <2>2. WorkersAgree'
    <3>1. /\ \A v \in Workers \ {w} : worker'[v] = worker[v]
          /\ \/ worker'[w].pc = "idle"
             \/ /\ worker[w].pc # "idle"
                /\ worker'[w].result = worker[w].result
                /\ worker'[w].score = worker[w].score
      BY <1>1, <1>t DEF WorkerStep, UpdateSolutions, UpdateFullResults, StatementThrows,
                        IdleWorker, WorkerRecords
    <3> QED
      BY <3>1 DEF VerdictInv, WorkersAgree
  <2>3. AcceptedMeansFullScore'
    <3>1. CASE UNCHANGED solutions
      BY <3>1 DEF VerdictInv, AcceptedMeansFullScore
    <3>2. CASE UpdateSolutions(w) /\ solutions[worker[w].id] # NoRow
      <4> DEFINE k == worker[w].id
      <4>1. /\ worker[w].pc # "idle"
            /\ solutions' = [solutions EXCEPT ![k].result = worker[w].result,
                                              ![k].score = worker[w].score]
        BY <3>2 DEF UpdateSolutions
      <4>2. k \in Ids /\ solutions[k] \in SolutionRow
        BY <1>t, <3>2 DEF WorkerRecords
      <4>3. /\ solutions'[k].result = worker[w].result
            /\ solutions'[k].score = worker[w].score
            /\ \A s \in Ids \ {k} : solutions'[s] = solutions[s]
        BY <1>t, <4>1, <4>2 DEF SolutionRow
      <4>4. solutions'[k].result = 0 <=> solutions'[k].score = 100
        BY <4>1, <4>3 DEF VerdictInv, WorkersAgree
      <4>5. \A s \in Ids \ {k} : solutions'[s] # NoRow =>
              (solutions'[s].result = 0 <=> solutions'[s].score = 100)
        BY <4>3 DEF VerdictInv, AcceptedMeansFullScore
      <4> HIDE DEF k
      <4> QED
        BY <4>4, <4>5 DEF AcceptedMeansFullScore
    <3> QED
      BY <1>1, <3>1, <3>2
         DEF WorkerStep, UpdateSolutions, UpdateFullResults, StatementThrows
  <2> QED
    BY <2>1, <2>2, <2>3 DEF VerdictInv, NoPointNoList, PointsOfRun, Points, PointList
<1>2. ASSUME NEW s \in Ids, ConnectionLost(s) PROVE VerdictInv'
  <2>1. /\ UNCHANGED <<solutions, cache, worker>>
        /\ stream'[s].phase = "gone"
        /\ \A r \in Ids \ {s} : stream'[r] = stream[r]
    BY <1>2, <1>t, ClosedRun DEF ConnectionLost, Phases
  <2>2. stream'[s].arrived = {}
    BY <1>2, <1>t, ClosedRun DEF ConnectionLost, Phases
  <2> QED
    BY <2>1, <2>2
       DEF VerdictInv, NoPointNoList, PointsOfRun, Points, WorkersAgree,
           AcceptedMeansFullScore, PointList
<1>3. CASE Restart
  <2>1. /\ \A w \in Workers : worker'[w].pc = "idle"
        /\ \A s \in Ids : cache'[PointList(s)] = Absent
        /\ UNCHANGED solutions
    BY <1>3, KeysAreKeys DEF Restart, IdleWorker, EmptyCache
  <2>2. \A s \in Ids : stream'[s] = stream[s] \/ stream'[s].arrived = {}
    BY <1>3, ClosedRun DEF Restart, Phases
  <2> QED
    BY <2>1, <2>2
       DEF VerdictInv, NoPointNoList, PointsOfRun, Points, WorkersAgree,
           AcceptedMeansFullScore, PointList
<1>4. CASE Tick
  <2>1. UNCHANGED <<solutions, stream, worker>>
    BY <1>4 DEF Tick
  <2>2. \A s \in Ids : cache[PointList(s)] = Absent => cache'[PointList(s)] = Absent
    BY <1>4, <1>t, KeysAreKeys DEF Tick, Aged, Absent, Caches
  <2> QED
    BY <2>1, <2>2
       DEF VerdictInv, NoPointNoList, PointsOfRun, Points, WorkersAgree,
           AcceptedMeansFullScore, PointList
<1> QED
  BY <1>1, <1>2, <1>3, <1>4

LEMMA StepVerdictInv == TypeOK /\ KeyInv /\ VerdictInv /\ [Next]_vars => VerdictInv'
<1> SUFFICES ASSUME TypeOK, KeyInv, VerdictInv, [Next]_vars PROVE VerdictInv'
  OBVIOUS
<1>1. CASE UNCHANGED vars
  BY <1>1 DEF vars, dbVars, httpVars, VerdictInv, NoPointNoList, PointsOfRun, Points,
              WorkersAgree, AcceptedMeansFullScore, PointList
<1>2. CASE Next
  BY <1>2, HandlerVerdictInv, MessageVerdictInv, OtherVerdictInv DEF Next
<1> QED
  BY <1>1, <1>2

\* The inductive invariant holds.
LEMMA VerdictsCorrect == Spec => []VerdictInv
BY TypeCorrect, KeysCorrect, InitVerdictInv, StepVerdictInv, PTL DEF Spec

\* No row is accepted without a full score or has a full score without being
\* accepted, not even that of a run without points.
THEOREM AcceptedCorrect == Spec => []AcceptedMeansFullScore
BY VerdictsCorrect, PTL DEF VerdictInv

-----------------------------------------------------------------------------
(* Stored lists name each counted point once: the inductive invariant *)

\* The list of a run in the cache names points that have arrived, none twice; it
\* names all of them, and has lost no more of its time than the flag, unless the
\* run has outlasted its flag.
RunsListed ==
  \A s \in Ids : Running(s) =>
    /\ NoneTwice(cache[PointList(s)].val)
    /\ Listed(cache[PointList(s)].val) \subseteq stream[s].arrived
    /\ InTime(s) => Listed(cache[PointList(s)].val) = stream[s].arrived
    /\ stream[s].arrived # {} => cache[PointList(s)].ttl >= KeyTTL - age[s]

\* A list of the points counted when run s ended.
ListOf(l, s) ==
  /\ NoneTwice(l)
  /\ Listed(l) \subseteq stream[s].counted
  /\ ~stream[s].late => Listed(l) = stream[s].counted

WorkersListed ==
  \A w \in Workers : worker[w].pc # "idle" /\ worker[w].full # <<>> =>
    ListOf(worker[w].full, worker[w].id)

RowsListed ==
  \A s \in Ids : fullResults[s] \notin {NoRow, <<>>} =>
    /\ stream[s].phase \notin {"idle", "running"}
    /\ ListOf(fullResults[s], s)

ListInv == RunsListed /\ WorkersListed /\ RowsListed

LEMMA InitListInv == Init => ListInv
BY DEF Init, ListInv, RunsListed, WorkersListed, RowsListed, Running, NoRun, IdleWorker

LEMMA EmptyList == NoneTwice(<<>>) /\ Listed(<<>>) = {}
BY DEF NoneTwice, Listed

LEMMA AppendList ==
  ASSUME NEW l \in Seq(Nat), NEW p \in Nat
  PROVE  /\ Listed(Append(l, p)) = Listed(l) \union {p}
         /\ NoneTwice(l) /\ p \notin Listed(l) => NoneTwice(Append(l, p))
<1> DEFINE m == Append(l, p)
<1>1. /\ m \in Seq(Nat) /\ Len(m) = Len(l) + 1 /\ Len(l) \in Nat
      /\ DOMAIN l = 1..Len(l) /\ DOMAIN m = 1..(Len(l) + 1)
      /\ \A i \in 1..Len(l) : m[i] = l[i]
      /\ m[Len(l) + 1] = p
  BY AppendProperties, LenProperties
<1> HIDE DEF m
<1>2. \A i \in DOMAIN m : (i \in DOMAIN l /\ m[i] = l[i]) \/ i = Len(l) + 1
  BY <1>1
<1>3. DOMAIN l \subseteq DOMAIN m /\ Len(l) + 1 \in DOMAIN m
  BY <1>1
<1>4. Listed(m) = Listed(l) \union {p}
  BY <1>1, <1>2, <1>3 DEF Listed
<1>5. ASSUME NoneTwice(l), p \notin Listed(l) PROVE NoneTwice(m)
  BY <1>1, <1>2, <1>5 DEF NoneTwice, Listed
<1> QED
  BY <1>4, <1>5 DEF m

-----------------------------------------------------------------------------
(* Each action preserves it *)

LEMMA HandlerListInv ==
  ASSUME TypeOK, KeyInv, VerdictInv, ListInv, NEW h \in Handlers,
         Request(h) \/ HandlerStep(h)
  PROVE  ListInv'
<1> USE DEF dbVars, httpVars
<1>t. /\ handler[h].key \in Ids
      /\ stream \in [Ids -> RunRecords] /\ cache \in Caches
      /\ fullResults \in [Ids -> Seq(Nat) \union {NoRow}]
      /\ age \in [Ids -> 0..KeyTTL]
  BY DEF TypeOK, HandlerRecords
<1>1. CASE InsertFullResult(h)
  <2>1. /\ UNCHANGED <<cache, stream, worker, age>>
        /\ \A s \in Ids : fullResults'[s] = fullResults[s] \/ fullResults'[s] = <<>>
    BY <1>1, <1>t DEF InsertFullResult
  <2>2. RowsListed'
    BY <2>1 DEF ListInv, RowsListed, ListOf
  <2> QED
    BY <2>1, <2>2
       DEF ListInv, RunsListed, WorkersListed, ListOf, Running, InTime, PointList
<1>2. CASE SetJudging(h)
  <2> DEFINE k == handler[h].key
  <2>1. UNCHANGED <<fullResults, stream, worker>>
    BY <1>2 DEF SetJudging
  <2>2. \A s \in Ids : cache'[PointList(s)] = cache[PointList(s)]
    BY <1>2, <1>t, KeysAreKeys, ListsElsewhere, PutElsewhere DEF SetJudging
  <2>3. \A s \in Ids \ {k} : age'[s] = age[s]
    BY <1>2, <1>t DEF SetJudging
  <2>4. ~Running(k)
    BY <1>2 DEF SetJudging, KeyInv, KeysOwned, Stored, Running, NoRun
  <2>5. RunsListed'
    BY <2>1, <2>2, <2>3, <2>4 DEF ListInv, RunsListed, Running, InTime, PointList
  <2> QED
    BY <2>1, <2>5 DEF ListInv, WorkersListed, RowsListed, ListOf
<1>3. CASE Send(h)
  <2> DEFINE k == handler[h].key
  <2>1. PICK n \in 0..MaxPoints :
          stream' = [stream EXCEPT ![k] =
            [NoRun EXCEPT !.phase = "running", !.sub = handler[h].sub, !.total = n]]
    BY <1>3 DEF Send
  <2>2. UNCHANGED <<fullResults, cache, worker, age>>
    BY <1>3 DEF Send
  <2>3. stream[k] = NoRun
    BY <1>3 DEF Send, KeyInv, KeysOwned, Stored
  <2>4. /\ stream'[k].arrived = {} /\ stream'[k].phase = "running"
        /\ \A s \in Ids \ {k} : stream'[s] = stream[s]
    BY <1>t, <2>1 DEF NoRun
  <2>5. cache[PointList(k)].val = <<>>
    BY <1>t, <2>3 DEF VerdictInv, NoPointNoList, NoRun, Absent
  <2>6. RunsListed'
    BY <2>2, <2>4, <2>5, EmptyList DEF ListInv, RunsListed, Running, InTime, PointList
  <2>7. WorkersListed'
    <3>1. \A w \in Workers : worker[w].pc # "idle" => worker[w].id \in Ids \ {k}
      <4>1. stream[k].phase = "idle"
        BY <2>3 DEF NoRun
      <4>2. \A w \in Workers : worker[w].id \in Ids
        BY DEF TypeOK, WorkerRecords
      <4> QED
        BY <4>1, <4>2 DEF KeyInv, WorkersFinish
    <3> QED
      BY <2>2, <2>4, <3>1 DEF ListInv, WorkersListed, ListOf
  <2>8. RowsListed'
    BY <2>2, <2>3, <2>4 DEF ListInv, RowsListed, ListOf, NoRun
  <2> QED
    BY <2>6, <2>7, <2>8 DEF ListInv
<1>4. ASSUME \/ \E u \in Users : InsertSolution(h, u)
             \/ InsertCode(h) \/ HandlerThrows(h) \/ PollCacheResult(h)
             \/ \E s \in AskedIds : PollJudging(h, s) \/ PollNotJudging(h, s)
      PROVE  ListInv'
  <2>1. UNCHANGED <<fullResults, cache, stream, worker, age>>
    BY <1>4 DEF InsertSolution, InsertCode, HandlerThrows, PollCacheResult,
                PollJudging, PollNotJudging
  <2> QED
    BY <2>1 DEF ListInv, RunsListed, WorkersListed, RowsListed, ListOf, Running, InTime,
                PointList
<1> QED
  BY <1>1, <1>2, <1>3, <1>4 DEF Request, HandlerStep

\* A point of a run is appended to the list of that run.
LEMMA PointListInv ==
  ASSUME TypeOK, VerdictInv, ListInv, NEW s \in Ids, NEW w \in Workers,
         HandlePoint(w, s)
  PROVE  RunsListed'
<1> USE DEF dbVars, httpVars
<1> DEFINE k == PointList(s)
<1>t. /\ stream \in [Ids -> RunRecords] /\ cache \in Caches
      /\ age[s] \in 0..KeyTTL /\ KeyTTL \in Nat /\ MaxPoints \in Nat
      /\ cache[k].val \in Seq(Nat) /\ cache[k].ttl \in 0..KeyTTL
  BY KeysAreKeys, BoundsAssumption DEF TypeOK, Caches
<1>1. PICK p \in Points(s) \ stream[s].arrived :
        /\ cache' = AppendTo(cache, k, p, KeyTTL)
        /\ stream' = [stream EXCEPT ![s].arrived = @ \union {p}]
  BY DEF HandlePoint
<1>2. UNCHANGED age
  BY DEF HandlePoint
<1>3. /\ stream'[s].arrived = stream[s].arrived \union {p}
      /\ stream'[s].phase = stream[s].phase /\ p \in Nat
      /\ \A r \in Ids \ {s} : stream'[r] = stream[r]
  BY <1>t, <1>1 DEF RunRecords, Points
<1>4. \A r \in Ids \ {s} : cache'[PointList(r)] = cache[PointList(r)]
  BY <1>t, <1>1, KeysAreKeys, ListsElsewhere, AppendElsewhere
<1>5. /\ cache'[k].val = Append(cache[k].val, p)
      /\ cache'[k].ttl = IF AppendRenews \/ ~Exists(cache, k) THEN KeyTTL ELSE cache[k].ttl
  BY <1>t, <1>1, KeysAreKeys DEF AppendTo, Put, Caches
<1>6. ASSUME Running(s)
      PROVE  /\ NoneTwice(cache'[k].val)
             /\ Listed(cache'[k].val) \subseteq stream'[s].arrived
             /\ InTime(s) => Listed(cache'[k].val) = stream'[s].arrived
             /\ cache'[k].ttl >= KeyTTL - age[s]
  <2>1. /\ NoneTwice(cache[k].val)
        /\ Listed(cache[k].val) \subseteq stream[s].arrived
        /\ InTime(s) => Listed(cache[k].val) = stream[s].arrived
        /\ stream[s].arrived # {} => cache[k].ttl >= KeyTTL - age[s]
    BY <1>6 DEF ListInv, RunsListed
  <2>2. /\ Listed(cache'[k].val) = Listed(cache[k].val) \union {p}
        /\ NoneTwice(cache'[k].val)
    BY <1>t, <1>1, <1>3, <1>5, <2>1, AppendList
  <2>3. CASE stream[s].arrived = {}
    <3>1. ~Exists(cache, k)
      BY <1>6, <2>3 DEF VerdictInv, NoPointNoList, Running, Absent, Exists
    <3>2. cache'[k].ttl >= KeyTTL - age[s]
      BY <1>t, <1>5, <3>1
    <3> QED
      BY <1>3, <2>1, <2>2, <3>2
  <2>4. CASE stream[s].arrived # {}
    <3>1. cache'[k].ttl >= KeyTTL - age[s]
      BY <1>t, <1>5, <2>1, <2>4
    <3> QED
      BY <1>3, <2>1, <2>2, <3>1
  <2> QED
    BY <2>3, <2>4
<1> QED
  BY <1>2, <1>3, <1>4, <1>6 DEF ListInv, RunsListed, Running, InTime, PointList

LEMMA MessageListInv ==
  ASSUME TypeOK, KeyInv, VerdictInv, ListInv, NEW s \in Ids, Message(s)
  PROVE  ListInv'
<1> USE DEF dbVars, httpVars
<1>t. /\ stream \in [Ids -> RunRecords] /\ cache \in Caches
      /\ worker \in [Workers -> WorkerRecords]
  BY DEF TypeOK
<1>0. PICK w \in Workers : HandleAllSize(w, s) \/ HandlePoint(w, s)
                             \/ HandleAll(w, s) \/ HandleFailed(w, s)
  BY DEF Message
<1>1. /\ UNCHANGED <<fullResults, age>>
      /\ \A r \in Ids \ {s} : stream'[r] = stream[r]
  BY <1>0, MessageRuns
\* A worker has nothing of a run that is not over.
<1>2. ASSUME Running(s), NEW v \in Workers, worker[v].pc # "idle"
      PROVE  worker[v].id \in Ids \ {s}
  BY <1>t, <1>2 DEF KeyInv, WorkersFinish, WorkerRecords, Running
\* Only the other submissions can have a list in their row.
<1>3. ASSUME Running(s) PROVE RowsListed'
  BY <1>1, <1>3 DEF ListInv, RowsListed, ListOf, Running
<1>4. ASSUME Running(s), UNCHANGED worker PROVE WorkersListed'
  BY <1>1, <1>2, <1>4 DEF ListInv, WorkersListed, ListOf
<1>5. CASE HandleAllSize(w, s)
  <2>1. /\ Running(s) /\ UNCHANGED worker
        /\ stream'[s].phase = stream[s].phase
        /\ stream'[s].arrived = stream[s].arrived
    BY <1>5, MessageRuns DEF HandleAllSize
  <2>2. \A r \in Ids : cache'[PointList(r)] = cache[PointList(r)]
    BY <1>5, <1>t, KeysAreKeys, ListsElsewhere, PutElsewhere DEF HandleAllSize
  <2>3. RunsListed'
    BY <1>1, <2>1, <2>2 DEF ListInv, RunsListed, Running, InTime, PointList
  <2> QED
    BY <1>3, <1>4, <2>1, <2>3 DEF ListInv
<1>6. CASE HandlePoint(w, s)
  <2>1. /\ UNCHANGED worker /\ stream'[s].phase = stream[s].phase
        /\ stream'[s].counted = stream[s].counted /\ stream'[s].late = stream[s].late
    BY <1>6, MessageRuns
  <2>2. \A r \in Ids : /\ stream'[r].phase = stream[r].phase
                       /\ stream'[r].counted = stream[r].counted
                       /\ stream'[r].late = stream[r].late
    BY <1>1, <2>1
  <2>3. WorkersListed'
    BY <1>t, <2>1, <2>2 DEF ListInv, WorkersListed, ListOf, WorkerRecords
  <2>4. RowsListed'
    BY <1>1, <2>2 DEF ListInv, RowsListed, ListOf
  <2> QED
    BY <1>6, <2>3, <2>4, PointListInv DEF ListInv
<1>7. CASE HandleAll(w, s)
  <2>1. /\ Running(s) /\ cache' = Finished(cache, s)
        /\ stream'[s].phase = "ended"
        /\ stream'[s].counted = stream[s].arrived
        /\ stream'[s].late = ~InTime(s)
    BY <1>7, MessageRuns DEF HandleAll
  <2>2. RunsListed'
    BY <1>1, <1>t, <2>1, FinishedLists
       DEF ListInv, RunsListed, Running, InTime, PointList
  <2>3. WorkersListed'
    <3>1. CASE ListCached(s)
      <4>1. PICK msg \in [Points(s) -> Results] :
              worker' = [worker EXCEPT ![w] =
                [pc |-> "solutions", id |-> s, result |-> FinalResult(msg),
                 score |-> Score(msg), full |-> cache[PointList(s)].val]]
        BY <1>7, <3>1 DEF HandleAll
      <4>2. /\ worker'[w].id = s /\ worker'[w].full = cache[PointList(s)].val
            /\ \A v \in Workers \ {w} : worker'[v] = worker[v]
        BY <1>t, <4>1
      <4>3. /\ NoneTwice(worker'[w].full)
            /\ Listed(worker'[w].full) \subseteq stream'[s].counted
            /\ ~stream'[s].late => Listed(worker'[w].full) = stream'[s].counted
        BY <2>1, <4>2 DEF ListInv, RunsListed
      <4> QED
        BY <1>1, <1>2, <2>1, <4>2, <4>3 DEF ListInv, WorkersListed, ListOf
    <3>2. CASE ~ListCached(s)
      BY <1>4, <1>7, <2>1, <3>2 DEF HandleAll
    <3> QED
      BY <3>1, <3>2
  <2> QED
    BY <1>3, <2>1, <2>2, <2>3 DEF ListInv
<1>8. CASE HandleFailed(w, s)
  <2>1. PICK code \in FailCodes :
          worker' = [worker EXCEPT ![w] =
            [pc |-> "solutions", id |-> s, result |-> code, score |-> 0, full |-> <<>>]]
    BY <1>8 DEF HandleFailed
  <2>2. Running(s) /\ UNCHANGED cache /\ stream'[s].phase = "failed"
    <3>1. Running(s) /\ UNCHANGED cache
      BY <1>8 DEF HandleFailed
    <3>2. stream'[s] = Closed(s, "failed")
      BY <1>8, MessageRuns
    <3> QED
      BY <3>1, <3>2, ClosedRun DEF Phases
  <2>3. RunsListed'
    BY <1>1, <2>2 DEF ListInv, RunsListed, Running, InTime, PointList
  <2>4. /\ worker'[w].full = <<>>
        /\ \A v \in Workers \ {w} : worker'[v] = worker[v]
    BY <1>t, <2>1
  <2>5. WorkersListed'
    BY <1>1, <1>2, <2>2, <2>4 DEF ListInv, WorkersListed, ListOf
  <2> QED
    BY <1>3, <2>2, <2>3, <2>5 DEF ListInv
<1> QED
  BY <1>0, <1>5, <1>6, <1>7, <1>8

LEMMA WorkerListInv ==
  ASSUME TypeOK, KeyInv, ListInv, NEW w \in Workers, WorkerStep(w)
  PROVE  ListInv'
<1> USE DEF dbVars, httpVars
<1>t. /\ worker \in [Workers -> WorkerRecords]
      /\ worker[w].id \in Ids
      /\ fullResults \in [Ids -> Seq(Nat) \union {NoRow}]
  BY DEF TypeOK, WorkerRecords
<1>1. /\ worker[w].pc # "idle" /\ UNCHANGED <<cache, stream, age>>
      /\ \A v \in Workers \ {w} : worker'[v] = worker[v]
      /\ \/ worker'[w].pc = "idle"
         \/ worker'[w].id = worker[w].id /\ worker'[w].full = worker[w].full
  BY <1>t DEF WorkerStep, UpdateSolutions, UpdateFullResults, StatementThrows,
              IdleWorker, WorkerRecords
<1>2. /\ \A s \in Ids \ {worker[w].id} : fullResults'[s] = fullResults[s]
      /\ fullResults'[worker[w].id] \in {fullResults[worker[w].id], worker[w].full}
  BY <1>t DEF WorkerStep, UpdateSolutions, UpdateFullResults, StatementThrows
<1>3. stream[worker[w].id].phase \notin {"idle", "running"}
  BY <1>1 DEF KeyInv, WorkersFinish
<1>5. RunsListed'
  BY <1>1 DEF ListInv, RunsListed, Running, InTime, PointList
<1>6. WorkersListed'
  BY <1>1 DEF ListInv, WorkersListed, ListOf
<1>7. RowsListed'
  <2>1. ASSUME NEW s \in Ids \ {worker[w].id}, fullResults'[s] \notin {NoRow, <<>>}
        PROVE  stream[s].phase \notin {"idle", "running"} /\ ListOf(fullResults'[s], s)
    BY <1>2, <2>1 DEF ListInv, RowsListed
  <2>2. ASSUME fullResults'[worker[w].id] \notin {NoRow, <<>>}
        PROVE  ListOf(fullResults'[worker[w].id], worker[w].id)
    BY <1>1, <1>2, <1>t, <2>2 DEF ListInv, RowsListed, WorkersListed
  <2>3. \A s \in Ids : fullResults'[s] \notin {NoRow, <<>>} =>
          stream[s].phase \notin {"idle", "running"} /\ ListOf(fullResults'[s], s)
    BY <1>3, <2>1, <2>2
  <2> QED
    BY <1>1, <2>3 DEF RowsListed, ListOf
<1> QED
  BY <1>5, <1>6, <1>7 DEF ListInv

\* Time passes: a list that is dropped is that of a run that outlasts its flag.
LEMMA TickListInv ==
  ASSUME TypeOK, VerdictInv, ListInv, Tick
  PROVE  ListInv'
<1> USE DEF dbVars, httpVars
<1>t. /\ stream \in [Ids -> RunRecords] /\ cache \in Caches
      /\ age \in [Ids -> 0..KeyTTL] /\ KeyTTL \in Nat
  BY BoundsAssumption DEF TypeOK
<1>1. UNCHANGED <<fullResults, stream, worker>>
  BY DEF Tick
<1>2. ASSUME NEW s \in Ids, Running(s)
      PROVE  /\ NoneTwice(cache'[PointList(s)].val)
             /\ Listed(cache'[PointList(s)].val) \subseteq stream[s].arrived
             /\ age'[s] < KeyTTL => Listed(cache'[PointList(s)].val) = stream[s].arrived
             /\ stream[s].arrived # {} => cache'[PointList(s)].ttl >= KeyTTL - age'[s]
  <2> DEFINE k == PointList(s)
  <2>1. /\ age[s] \in 0..KeyTTL
        /\ age'[s] = IF age[s] < KeyTTL THEN age[s] + 1 ELSE age[s]
    BY <1>t, <1>2 DEF Tick, Busy, InTime
  <2>2. cache[k] \in [val : Seq(Nat), ttl : 0..KeyTTL] /\ cache' = Aged(cache)
    BY <1>t, KeysAreKeys DEF Tick, Caches
  <2>3. /\ NoneTwice(cache[k].val)
        /\ Listed(cache[k].val) \subseteq stream[s].arrived
        /\ age[s] < KeyTTL => Listed(cache[k].val) = stream[s].arrived
        /\ stream[s].arrived # {} => cache[k].ttl >= KeyTTL - age[s]
    BY <1>2 DEF ListInv, RunsListed, InTime
  <2>4. CASE cache[k].ttl > 1
    <3>1. cache'[k] = [cache[k] EXCEPT !.ttl = @ - 1]
      BY <1>t, <2>2, <2>4, KeysAreKeys DEF Aged, Caches
    <3>2. cache'[k].val = cache[k].val /\ cache'[k].ttl = cache[k].ttl - 1
      BY <2>2, <3>1
    <3>3. /\ age'[s] < KeyTTL => age[s] < KeyTTL
          /\ cache[k].ttl >= KeyTTL - age[s] => cache[k].ttl - 1 >= KeyTTL - age'[s]
      BY <1>t, <2>1, <2>2, <2>4
    <3> QED
      BY <2>3, <3>2, <3>3
  <2>5. CASE ~(cache[k].ttl > 1)
    <3>1. cache'[k].val = <<>> /\ cache'[k].ttl = 0
      BY <1>t, <2>2, <2>5, KeysAreKeys DEF Aged, Absent, Caches
    <3>2. CASE stream[s].arrived = {}
      BY <3>1, <3>2, EmptyList
    <3>3. CASE stream[s].arrived # {}
      <4>1. ~(age'[s] < KeyTTL) /\ 0 >= KeyTTL - age'[s]
        BY <1>t, <2>1, <2>2, <2>3, <2>5, <3>3
      <4> QED
        BY <3>1, <4>1, EmptyList
    <3> QED
      BY <3>2, <3>3
  <2> QED
    BY <2>2, <2>4, <2>5
<1>3. RunsListed'
  BY <1>1, <1>2 DEF RunsListed, Running, InTime, PointList
<1> QED
  BY <1>1, <1>3 DEF ListInv, WorkersListed, RowsListed, ListOf

LEMMA EnvironmentListInv ==
  ASSUME TypeOK, VerdictInv, ListInv,
         (\E s \in Ids : ConnectionLost(s)) \/ Restart \/ Tick
  PROVE  ListInv'
<1> USE DEF dbVars, httpVars
<1>t. stream \in [Ids -> RunRecords] /\ worker \in [Workers -> WorkerRecords]
  BY DEF TypeOK
<1>1. ASSUME NEW s \in Ids, ConnectionLost(s) PROVE ListInv'
  <2>1. /\ UNCHANGED <<fullResults, cache, worker, age>>
        /\ stream'[s] = Closed(s, "gone") /\ Running(s)
        /\ \A r \in Ids \ {s} : stream'[r] = stream[r]
    BY <1>1, <1>t DEF ConnectionLost
  <2>2. /\ stream'[s].phase = "gone"
        /\ \A r \in Ids : /\ stream'[r].counted = stream[r].counted
                          /\ stream'[r].late = stream[r].late
    BY <2>1, ClosedRun DEF Phases
  <2>3. RunsListed'
    BY <2>1, <2>2 DEF ListInv, RunsListed, Running, InTime, PointList
  <2>4. WorkersListed'
    BY <1>t, <2>1, <2>2 DEF ListInv, WorkersListed, ListOf, WorkerRecords
  <2>5. RowsListed'
    BY <2>1, <2>2 DEF ListInv, RowsListed, ListOf
  <2> QED
    BY <2>3, <2>4, <2>5 DEF ListInv
<1>2. CASE Restart
  <2>1. /\ \A w \in Workers : worker'[w].pc = "idle"
        /\ UNCHANGED fullResults
    BY <1>2 DEF Restart, IdleWorker
  <2>2. \A s \in Ids : /\ stream'[s].phase \in {stream[s].phase, "gone"}
                       /\ stream'[s].phase # "running"
                       /\ stream'[s].counted = stream[s].counted
                       /\ stream'[s].late = stream[s].late
    BY <1>2, <1>t, ClosedRun DEF Restart, Unfinished, Running, Phases
  <2>3. RowsListed'
    BY <2>1, <2>2 DEF ListInv, RowsListed, ListOf
  <2> QED
    BY <2>1, <2>2, <2>3 DEF ListInv, RunsListed, WorkersListed, Running
<1> QED
  BY <1>1, <1>2, TickListInv

LEMMA StepListInv ==
  TypeOK /\ KeyInv /\ VerdictInv /\ ListInv /\ [Next]_vars => ListInv'
<1> SUFFICES ASSUME TypeOK, KeyInv, VerdictInv, ListInv, [Next]_vars PROVE ListInv'
  OBVIOUS
<1>1. CASE UNCHANGED vars
  BY <1>1 DEF vars, dbVars, httpVars, ListInv, RunsListed, WorkersListed, RowsListed,
              ListOf, Running, InTime, PointList
<1>2. CASE Next
  BY <1>2, HandlerListInv, MessageListInv, WorkerListInv, EnvironmentListInv DEF Next
<1> QED
  BY <1>1, <1>2

\* A list of points in the table names none twice, none that was handled after
\* "all", and every other one unless the run outlasted its keys.
THEOREM ListsCorrect == Spec => []FullListsEachPointOnce
<1>1. ListInv => FullListsEachPointOnce
  BY DEF ListInv, RowsListed, ListOf, FullListsEachPointOnce
<1> QED
  BY <1>1, TypeCorrect, KeysCorrect, VerdictsCorrect, InitListInv, StepListInv, PTL DEF Spec

-----------------------------------------------------------------------------
(* The tables implement SolutionLifecycle: the inductive invariant *)

\* Rows of solutions are filled in the order of their numbers, from 1.
RowsInOrder == \A s \in Ids : solutions[s] # NoRow => s \in SubmittedIds /\ s < nextId

\* A verdict is there only when its run is over.
VerdictsAfterRuns ==
  \A s \in Ids : solutions[s] # NoRow /\ solutions[s].result # WAIT =>
    stream[s].phase \notin {"idle", "running"}

\* A busy worker has the only verdict its row will get, and knows whether the
\* row has it yet; the row's detail is still to come.
VerdictsOnce ==
  \A w \in Workers : worker[w].pc # "idle" =>
    /\ solutions[worker[w].id].result = WAIT <=> worker[w].pc = "solutions"
    /\ fullResults[worker[w].id] \in {NoRow, <<>>}
    /\ worker[w].result \in Verdicts /\ worker[w].score \in Scores

LifeInv == RowsInOrder /\ VerdictsAfterRuns /\ VerdictsOnce

LEMMA InitLifeInv == Init => LifeInv
BY DEF Init, LifeInv, RowsInOrder, VerdictsAfterRuns, VerdictsOnce, IdleWorker

LEMMA VerdictIsNotWait == \A r \in Verdicts : r # WAIT
BY CodesAssumption DEF Verdicts

\* What a scan stores.
LEMMA ScanStores ==
  ASSUME NEW n \in 1..MaxPoints, NEW msg \in [1..n -> Results]
  PROVE  FinalResult(msg) \in Verdicts /\ Score(msg) \in Scores
<1>t. n \in Nat /\ n # 0 /\ MaxPoints \in Nat
  BY BoundsAssumption
<1>1. msg \in Seq(Int) /\ Len(msg) = n
  BY <1>t, MessageType
<1>2. FinalResult(msg) \in Results
  <2>1. CASE Failures(msg) = {}
    <3>1. FinalResult(msg) = 0
      BY <2>1 DEF FinalResult
    <3>2. msg[1] = 0 /\ msg[1] \in Results
      BY <1>t, <2>1 DEF Failures
    <3> QED
      BY <3>1, <3>2
  <2>2. CASE Failures(msg) # {}
    <3>1. PICK i \in Failures(msg) : FinalResult(msg) = msg[i]
      BY <1>1, <2>2, FinalResultMeaning
    <3> QED
      BY <3>1 DEF Failures
  <2> QED
    BY <2>1, <2>2
<1>3. RightSize(msg) \in 0..MaxPoints
  BY <1>t, <1>1, RightSizeBounds
<1>4. Score(msg) = (100 * RightSize(msg)) \div n
  BY <1>t, <1>1 DEF Score
<1> QED
  BY <1>2, <1>3, <1>4 DEF Verdicts, Scores

\* The row of a run that is over, or of a worker.
LEMMA RowsOfRuns ==
  ASSUME TypeOK, KeyInv, SolutionsThere
  PROVE  /\ \A w \in Workers : worker[w].pc # "idle" =>
              /\ worker[w].id \in Ids /\ solutions[worker[w].id] # NoRow
              /\ stream[worker[w].id].phase \in {"ended", "failed"}
         /\ \A s \in Ids : Running(s) => solutions[s] # NoRow
BY DEF TypeOK, WorkerRecords, KeyInv, WorkersFinish, SolutionsThere, Running

-----------------------------------------------------------------------------
(* Each action preserves it *)

LEMMA HandlerLifeInv ==
  ASSUME TypeOK, KeyInv, SolutionsThere, LifeInv, NEW h \in Handlers,
         Request(h) \/ HandlerStep(h)
  PROVE  LifeInv'
<1> USE DEF dbVars, httpVars
<1>t. /\ handler[h].key \in Ids /\ stream \in [Ids -> RunRecords]
      /\ solutions \in [Ids -> SolutionRow \union {NoRow}]
      /\ fullResults \in [Ids -> Seq(Nat) \union {NoRow}]
      /\ nextId \in Nat \ {0} /\ \A s \in Ids : s \in Nat
  BY BoundsAssumption DEF TypeOK, HandlerRecords, Ids
<1>1. ASSUME NEW u \in Users, InsertSolution(h, u) PROVE LifeInv'
  <2>1. /\ nextId \in SubmittedIds /\ nextId' = nextId + 1
        /\ solutions' = [solutions EXCEPT ![nextId] =
             [owner |-> u, result |-> WAIT, score |-> 0]]
        /\ UNCHANGED <<fullResults, stream, worker>>
    BY <1>1, <1>t, BoundsAssumption DEF InsertSolution, SubmittedIds
  <2>2. /\ nextId \in Ids /\ solutions[nextId] = NoRow
        /\ \A s \in SubmittedIds : s \in Ids
    BY <1>t, <2>1, BoundsAssumption DEF LifeInv, RowsInOrder, Ids, SubmittedIds
  <2>3. /\ solutions'[nextId].result = WAIT
        /\ \A s \in Ids \ {nextId} : solutions'[s] = solutions[s]
    BY <1>t, <2>1, <2>2
  <2>4. RowsInOrder'
    BY <1>t, <2>1, <2>3 DEF LifeInv, RowsInOrder
  <2>5. VerdictsAfterRuns'
    BY <2>1, <2>3 DEF LifeInv, VerdictsAfterRuns
  <2>6. VerdictsOnce'
    BY <2>1, <2>2, <2>3, RowsOfRuns DEF LifeInv, VerdictsOnce
  <2> QED
    BY <2>4, <2>5, <2>6 DEF LifeInv
<1>2. CASE InsertFullResult(h)
  <2>1. /\ UNCHANGED <<solutions, nextId, stream, worker>>
        /\ \A s \in Ids : fullResults'[s] = fullResults[s] \/ fullResults'[s] = <<>>
    BY <1>2, <1>t DEF InsertFullResult
  <2> QED
    BY <2>1, RowsOfRuns DEF LifeInv, RowsInOrder, VerdictsAfterRuns, VerdictsOnce
<1>3. CASE Send(h)
  <2> DEFINE k == handler[h].key
  <2>1. /\ UNCHANGED <<solutions, fullResults, nextId, worker>>
        /\ \A s \in Ids \ {k} : stream'[s] = stream[s]
    BY <1>3, <1>t DEF Send
  <2>2. stream[k].phase = "idle"
    BY <1>3 DEF Send, KeyInv, KeysOwned, Stored, NoRun
  <2>3. VerdictsAfterRuns'
    BY <1>t, <2>1, <2>2 DEF LifeInv, VerdictsAfterRuns
  <2> QED
    BY <2>1, <2>3 DEF LifeInv, RowsInOrder, VerdictsOnce
<1>4. ASSUME \/ InsertCode(h) \/ SetJudging(h) \/ HandlerThrows(h) \/ PollCacheResult(h)
             \/ \E s \in AskedIds : PollJudging(h, s) \/ PollNotJudging(h, s)
      PROVE  LifeInv'
  <2>1. UNCHANGED <<solutions, fullResults, nextId, stream, worker>>
    BY <1>4 DEF InsertCode, SetJudging, HandlerThrows, PollCacheResult,
                PollJudging, PollNotJudging
  <2> QED
    BY <2>1 DEF LifeInv, RowsInOrder, VerdictsAfterRuns, VerdictsOnce
<1> QED
  BY <1>1, <1>2, <1>3, <1>4 DEF Request, HandlerStep

LEMMA MessageLifeInv ==
  ASSUME TypeOK, KeyInv, SolutionsThere, VerdictInv, ListInv, LifeInv,
         NEW s \in Ids, Message(s)
  PROVE  LifeInv'
<1> USE DEF dbVars, httpVars
<1>t. /\ stream \in [Ids -> RunRecords] /\ stream[s].total \in 0..MaxPoints
      /\ worker \in [Workers -> WorkerRecords]
  BY DEF TypeOK, RunRecords
<1>0. PICK w \in Workers : HandleAllSize(w, s) \/ HandlePoint(w, s)
                             \/ HandleAll(w, s) \/ HandleFailed(w, s)
  BY DEF Message
<1>1. /\ UNCHANGED <<solutions, fullResults, nextId>>
      /\ \A r \in Ids \ {s} : stream'[r] = stream[r]
  BY <1>0, MessageRuns
<1>2. ASSUME Running(s)
      PROVE  /\ solutions[s] # NoRow /\ solutions[s].result = WAIT
             /\ fullResults[s] \in {NoRow, <<>>}
  BY <1>2, RowsOfRuns DEF LifeInv, VerdictsAfterRuns, ListInv, RowsListed, Running
\* A run that is over stays over.
<1>3. RowsInOrder' /\ VerdictsAfterRuns'
  <2>1. Running(s) \/ stream'[s].phase = stream[s].phase
    BY <1>0, MessageRuns
  <2> QED
    BY <1>1, <1>2, <2>1 DEF LifeInv, RowsInOrder, VerdictsAfterRuns
<1>4. ASSUME UNCHANGED worker PROVE LifeInv'
  BY <1>1, <1>3, <1>4 DEF LifeInv, VerdictsOnce
<1>5. ASSUME Running(s), NEW r \in Verdicts, NEW v \in Scores, NEW full,
             worker' = [worker EXCEPT ![w] =
               [pc |-> "solutions", id |-> s, result |-> r, score |-> v, full |-> full]]
      PROVE  LifeInv'
  <2>1. /\ worker'[w].pc = "solutions" /\ worker'[w].id = s
        /\ worker'[w].result = r /\ worker'[w].score = v
        /\ \A x \in Workers \ {w} : worker'[x] = worker[x]
    BY <1>t, <1>5
  <2> QED
    BY <1>1, <1>2, <1>3, <1>5, <2>1 DEF LifeInv, VerdictsOnce
<1>6. CASE HandleAllSize(w, s) \/ HandlePoint(w, s)
  BY <1>4, <1>6 DEF HandleAllSize, HandlePoint
<1>7. CASE HandleAll(w, s)
  <2>1. CASE ListCached(s)
    <3>1. PICK msg \in [Points(s) -> Results] :
            worker' = [worker EXCEPT ![w] =
              [pc |-> "solutions", id |-> s, result |-> FinalResult(msg),
               score |-> Score(msg), full |-> cache[PointList(s)].val]]
      BY <1>7, <2>1 DEF HandleAll
    <3>2. Running(s)
      BY <1>7 DEF HandleAll
    <3>3. stream[s].total \in 1..MaxPoints
      BY <1>t, <2>1, <3>2, CachedHasPoints, BoundsAssumption
    <3>4. FinalResult(msg) \in Verdicts /\ Score(msg) \in Scores
      BY <3>3, ScanStores DEF Points
    <3> QED
      BY <1>5, <3>1, <3>2, <3>4
  <2>2. CASE ~ListCached(s)
    BY <1>4, <1>7, <2>2 DEF HandleAll
  <2> QED
    BY <2>1, <2>2
<1>8. CASE HandleFailed(w, s)
  <2>1. PICK code \in FailCodes :
          worker' = [worker EXCEPT ![w] =
            [pc |-> "solutions", id |-> s, result |-> code, score |-> 0, full |-> <<>>]]
    BY <1>8 DEF HandleFailed
  <2>2. code \in Verdicts /\ 0 \in Scores /\ Running(s)
    BY <1>8 DEF Verdicts, Scores, HandleFailed
  <2> QED
    BY <1>5, <2>1, <2>2
<1> QED
  BY <1>0, <1>6, <1>7, <1>8

LEMMA OtherLifeInv ==
  ASSUME TypeOK, KeyInv, SolutionsThere, LifeInv,
         \/ \E w \in Workers : WorkerStep(w)
         \/ \E s \in Ids : ConnectionLost(s)
         \/ Restart \/ Tick
  PROVE  LifeInv'
<1> USE DEF dbVars, httpVars
<1>t. /\ stream \in [Ids -> RunRecords] /\ worker \in [Workers -> WorkerRecords]
      /\ solutions \in [Ids -> SolutionRow \union {NoRow}]
      /\ fullResults \in [Ids -> Seq(Nat) \union {NoRow}]
      /\ NoRow \notin SolutionRow
  BY NoRowAssumption DEF TypeOK, SolutionRow
<1>1. ASSUME NEW w \in Workers, UpdateSolutions(w) PROVE LifeInv'
  <2>1. PICK s \in Ids : s = worker[w].id
    BY <1>t DEF WorkerRecords
  <2>2. /\ worker[w].pc = "solutions" /\ solutions[s] # NoRow
        /\ stream[s].phase \in {"ended", "failed"}
        /\ worker[w].result # WAIT
    BY <1>1, <2>1, RowsOfRuns, VerdictIsNotWait DEF UpdateSolutions, LifeInv, VerdictsOnce
  <2>3. /\ solutions' = [solutions EXCEPT ![s].result = worker[w].result,
                                          ![s].score = worker[w].score]
        /\ UNCHANGED <<fullResults, nextId, stream>>
        /\ worker' = [worker EXCEPT ![w].pc = "full_results"]
    BY <1>1, <2>1, <2>2 DEF UpdateSolutions
  <2>4. /\ solutions'[s].result = worker[w].result
        /\ \A r \in Ids \ {s} : solutions'[r] = solutions[r]
    BY <1>t, <2>2, <2>3 DEF SolutionRow
  <2>5. /\ worker'[w].pc = "full_results" /\ worker'[w].id = s
        /\ worker'[w].result = worker[w].result /\ worker'[w].score = worker[w].score
        /\ \A v \in Workers \ {w} : worker'[v] = worker[v]
    BY <1>t, <2>1, <2>3 DEF WorkerRecords
  <2>6. RowsInOrder' /\ VerdictsAfterRuns'
    BY <2>2, <2>3, <2>4 DEF LifeInv, RowsInOrder, VerdictsAfterRuns
  <2>7. ASSUME NEW v \in Workers, worker'[v].pc # "idle"
        PROVE  /\ solutions'[worker'[v].id].result = WAIT <=> worker'[v].pc = "solutions"
               /\ fullResults[worker'[v].id] \in {NoRow, <<>>}
               /\ worker'[v].result \in Verdicts /\ worker'[v].score \in Scores
    <3>1. CASE v = w
      BY <2>1, <2>2, <2>4, <2>5, <3>1 DEF LifeInv, VerdictsOnce
    <3>2. CASE v # w
      <4>1. worker[v].id \in Ids \ {s} /\ worker[v].pc # "idle"
        BY <2>1, <2>2, <2>5, <2>7, <3>2, <1>t DEF KeyInv, WorkersFinish, WorkerRecords
      <4> QED
        BY <2>4, <2>5, <3>2, <4>1 DEF LifeInv, VerdictsOnce
    <3> QED
      BY <3>1, <3>2
  <2> QED
    BY <2>3, <2>6, <2>7 DEF LifeInv, VerdictsOnce
<1>2. ASSUME NEW w \in Workers, UpdateFullResults(w) \/ StatementThrows(w) PROVE LifeInv'
  <2>1. PICK s \in Ids : s = worker[w].id
    BY <1>t DEF WorkerRecords
  <2>2. /\ worker[w].pc # "idle" /\ UNCHANGED <<solutions, nextId, stream>>
        /\ worker' = [worker EXCEPT ![w] = IdleWorker]
        /\ \A r \in Ids \ {s} : fullResults'[r] = fullResults[r]
    BY <1>2, <1>t, <2>1 DEF UpdateFullResults, StatementThrows
  <2>3. /\ worker'[w].pc = "idle"
        /\ \A v \in Workers \ {w} : worker'[v] = worker[v]
    BY <1>t, <2>2 DEF IdleWorker
  <2>4. ASSUME NEW v \in Workers, worker'[v].pc # "idle"
        PROVE  v # w /\ worker'[v] = worker[v] /\ worker[v].id \in Ids \ {s}
    BY <1>t, <2>1, <2>2, <2>3, <2>4 DEF KeyInv, WorkersFinish, WorkerRecords
  <2>5. VerdictsOnce'
    BY <2>2, <2>4 DEF LifeInv, VerdictsOnce
  <2> QED
    BY <2>2, <2>5 DEF LifeInv, RowsInOrder, VerdictsAfterRuns
<1>3. ASSUME NEW s \in Ids, ConnectionLost(s) PROVE LifeInv'
  <2>1. /\ UNCHANGED <<solutions, fullResults, nextId, worker>>
        /\ stream'[s].phase = "gone" /\ \A r \in Ids \ {s} : stream'[r] = stream[r]
    BY <1>3, <1>t, ClosedRun DEF ConnectionLost, Phases
  <2> QED
    BY <2>1 DEF LifeInv, RowsInOrder, VerdictsAfterRuns, VerdictsOnce
<1>4. CASE Restart
  <2>1. /\ UNCHANGED <<solutions, fullResults, nextId>>
        /\ \A w \in Workers : worker'[w].pc = "idle"
        /\ \A s \in Ids : stream'[s].phase \in {stream[s].phase, "gone"}
    BY <1>4, <1>t, ClosedRun DEF Restart, Phases, IdleWorker
  <2> QED
    BY <2>1 DEF LifeInv, RowsInOrder, VerdictsAfterRuns, VerdictsOnce
<1>5. CASE Tick
  BY <1>5 DEF Tick, LifeInv, RowsInOrder, VerdictsAfterRuns, VerdictsOnce
<1> QED
  BY <1>1, <1>2, <1>3, <1>4, <1>5 DEF WorkerStep

LEMMA StepLifeInv ==
  TypeOK /\ KeyInv /\ SolutionsThere /\ VerdictInv /\ ListInv /\ LifeInv /\ [Next]_vars
    => LifeInv'
<1> SUFFICES ASSUME TypeOK, KeyInv, SolutionsThere, VerdictInv, ListInv, LifeInv,
                    [Next]_vars
             PROVE  LifeInv'
  OBVIOUS
<1>1. CASE UNCHANGED vars
  BY <1>1 DEF vars, dbVars, LifeInv, RowsInOrder, VerdictsAfterRuns, VerdictsOnce
<1>2. CASE Next
  BY <1>2, HandlerLifeInv, MessageLifeInv, OtherLifeInv DEF Next
<1> QED
  BY <1>1, <1>2

-----------------------------------------------------------------------------
(* Every step is one of SolutionLifecycle's, or none *)

\* What SolutionLifecycle sees of the tables.
Row == [s \in SubmittedIds |-> solutions[s]]
Detail == [s \in SubmittedIds |-> IF fullResults[s] = NoRow THEN <<>> ELSE fullResults[s]]

LEMMA SubmittedAreIds == SubmittedIds \subseteq Ids
BY BoundsAssumption DEF SubmittedIds, Ids

LEMMA InitIsInit == Init => Lifecycle!Init
BY SubmittedAreIds DEF Init, Lifecycle!Init

LEMMA TablesKept ==
  ASSUME \A s \in SubmittedIds : solutions'[s] = solutions[s],
         \A s \in SubmittedIds : Detail[s]' = Detail[s]
  PROVE  UNCHANGED Lifecycle!vars
<1>1. Row' = Row /\ Detail' = Detail
  BY DEF Row, Detail
<1> QED
  BY <1>1 DEF Row, Detail, Lifecycle!vars

LEMMA InsertIsSubmit ==
  ASSUME TypeOK, LifeInv, NEW h \in Handlers, NEW u \in Users, InsertSolution(h, u)
  PROVE  Lifecycle!Next
<1>1. PICK n \in SubmittedIds : n = nextId
  BY BoundsAssumption DEF TypeOK, InsertSolution, SubmittedIds
<1>2. /\ solutions \in [Ids -> SolutionRow \union {NoRow}]
      /\ n \in Ids /\ ~(n < nextId)
  BY <1>1, SubmittedAreIds, BoundsAssumption DEF TypeOK, SubmittedIds
<1>8. /\ solutions' = [solutions EXCEPT ![n] = [owner |-> u, result |-> WAIT, score |-> 0]]
      /\ UNCHANGED fullResults
  BY <1>1 DEF InsertSolution
<1>3. solutions[n] = NoRow
  BY <1>1, <1>2 DEF LifeInv, RowsInOrder
<1>4. Row[n] = NoRow
  BY <1>3 DEF Row
<1>5. Row' = [Row EXCEPT ![n] = [owner |-> u, result |-> WAIT, score |-> 0]]
  BY <1>1, <1>2, <1>8, SubmittedAreIds DEF Row
<1>6. Detail' = Detail
  BY <1>8 DEF Detail
<1>7. Lifecycle!Submit(n)
  BY <1>4, <1>5, <1>6 DEF Row, Detail, Lifecycle!Submit
<1> QED
  BY <1>7 DEF Lifecycle!Next

LEMMA UpdateIsJudge ==
  ASSUME TypeOK, KeyInv, SolutionsThere, VerdictInv, LifeInv,
         NEW w \in Workers, UpdateSolutions(w)
  PROVE  Lifecycle!Next
<1>1. PICK s \in Ids, r \in Verdicts, v \in Scores :
        s = worker[w].id /\ r = worker[w].result /\ v = worker[w].score
  BY DEF TypeOK, WorkerRecords, LifeInv, VerdictsOnce, UpdateSolutions
<1>2. /\ solutions[s] # NoRow /\ solutions[s].result = WAIT
      /\ r # WAIT /\ (r = 0 <=> v = 100) /\ s \in SubmittedIds
  BY <1>1, RowsOfRuns, VerdictIsNotWait
     DEF UpdateSolutions, LifeInv, VerdictsOnce, RowsInOrder, VerdictInv, WorkersAgree
<1>3. /\ solutions' = [solutions EXCEPT ![s].result = r, ![s].score = v]
      /\ UNCHANGED fullResults
      /\ solutions \in [Ids -> SolutionRow \union {NoRow}]
  BY <1>1, <1>2 DEF UpdateSolutions, TypeOK
<1>4. Row[s] # NoRow /\ Row[s].result = WAIT
  BY <1>2 DEF Row
<1>5. Row' = [Row EXCEPT ![s] = [owner |-> Row[s].owner, result |-> r, score |-> v]]
  <2>1. PICK q : q = solutions'[s]
    OBVIOUS
  <2>6. solutions[s] \in SolutionRow /\ r \in Int /\ v \in Nat
    BY <1>1, <1>2, <1>3 DEF TypeOK, WorkerRecords
  <2>7. q = [[solutions[s] EXCEPT !.result = r] EXCEPT !.score = v]
    BY <1>1, <1>2, <1>3, <2>1
  <2>2. /\ q \in SolutionRow /\ q.owner = solutions[s].owner
        /\ q.result = r /\ q.score = v
    BY <2>6, <2>7 DEF SolutionRow
  <2>3. q = [owner |-> Row[s].owner, result |-> r, score |-> v]
    BY <1>2, <2>2 DEF SolutionRow, Row
  <2>4. \A x \in Ids \ {s} : solutions'[x] = solutions[x]
    BY <1>3
  <2>5. \A x \in SubmittedIds : solutions'[x] = IF x = s THEN q ELSE Row[x]
    BY <2>1, <2>4, SubmittedAreIds DEF Row
  <2> QED
    BY <1>2, <2>3, <2>5 DEF Row
<1>6. Detail' = Detail
  BY <1>3 DEF Detail
<1>7. Lifecycle!Judge(s)
  BY <1>2, <1>4, <1>5, <1>6 DEF Row, Detail, Lifecycle!Judge
<1> QED
  BY <1>2, <1>7 DEF Lifecycle!Next

\* A list that names counted points, none twice, is one that SolutionLifecycle knows.
LEMMA ListIsPointList ==
  ASSUME TypeOK, NEW s \in Ids, NEW l \in Seq(Nat), l # <<>>, ListOf(l, s)
  PROVE  l \in Lifecycle!PointLists
<1> DEFINE n == Len(l)
<1>1. MaxPoints \in Nat /\ IsFiniteSet(1..MaxPoints) /\ Cardinality(1..MaxPoints) = MaxPoints
  BY BoundsAssumption, FS_Interval
<1>2. n \in Nat /\ DOMAIN l = 1..n /\ l \in [1..n -> Nat]
  BY LenProperties
<1>3. Listed(l) \subseteq 1..MaxPoints
  BY DEF TypeOK, RunRecords, ListOf
<1>4. l \in [1..n -> 1..MaxPoints] /\ \A i, j \in 1..n : l[i] = l[j] => i = j
  BY <1>2, <1>3 DEF Listed, ListOf, NoneTwice
<1>5. l \in Injection(1..n, 1..MaxPoints)
  BY <1>4 DEF Injection, IsInjective
<1>6. Cardinality(1..n) = n /\ IsFiniteSet(1..n)
  BY <1>2, FS_Interval
<1>7. n <= MaxPoints
  BY <1>1, <1>5, <1>6, FS_Injection
<1>8. n \in 1..MaxPoints
  BY <1>1, <1>2, <1>7, EmptySeq
<1> HIDE DEF n
<1> DEFINE Lists(m) ==
      {f \in [1..m -> 1..MaxPoints] : \A i, j \in 1..m : f[i] = f[j] => i = j}
<1>9. l \in Lists(n)
  BY <1>4
<1>10. Lifecycle!PointLists = UNION {Lists(m) : m \in 1..MaxPoints}
  BY DEF Lifecycle!PointLists
<1> HIDE DEF Lists
<1> QED
  BY <1>8, <1>9, <1>10

LEMMA UpdateIsPublish ==
  ASSUME TypeOK, KeyInv, SolutionsThere, ListInv, LifeInv,
         NEW w \in Workers, UpdateFullResults(w)
  PROVE  [Lifecycle!Next]_(Lifecycle!vars)
<1>1. PICK s \in Ids, full \in Seq(Nat) : s = worker[w].id /\ full = worker[w].full
  BY DEF TypeOK, WorkerRecords
<1>2. /\ solutions[s] # NoRow /\ solutions[s].result # WAIT
      /\ fullResults[s] \in {NoRow, <<>>} /\ s \in SubmittedIds
  BY <1>1, RowsOfRuns DEF UpdateFullResults, LifeInv, VerdictsOnce, RowsInOrder
<1>3. /\ fullResults[s] # NoRow => fullResults' = [fullResults EXCEPT ![s] = full]
      /\ fullResults[s] = NoRow => UNCHANGED fullResults
      /\ UNCHANGED solutions
      /\ fullResults \in [Ids -> Seq(Nat) \union {NoRow}]
      /\ full # NoRow
  BY <1>1, NoRowAssumption DEF UpdateFullResults, TypeOK
<1>4. CASE fullResults[s] = NoRow \/ full = <<>>
  <2>1. \A r \in SubmittedIds : Detail[r]' = Detail[r]
    BY <1>2, <1>3, <1>4, SubmittedAreIds DEF Detail
  <2> QED
    BY <1>3, <2>1, TablesKept
<1>5. CASE fullResults[s] = <<>> /\ full # <<>>
  <2>1. Row[s] # NoRow /\ Row[s].result # WAIT /\ Detail[s] = <<>> /\ Row' = Row
    BY <1>2, <1>3, <1>5 DEF Row, Detail
  <2>2. fullResults' = [fullResults EXCEPT ![s] = full]
    BY <1>2, <1>3, <1>5, NoRowAssumption, EmptySeq
  <2>3. Detail' = [Detail EXCEPT ![s] = full]
    BY <1>2, <1>3, <2>2, SubmittedAreIds DEF Detail
  <2>4. full \in Lifecycle!PointLists
    <3>1. ListOf(full, s)
      BY <1>1, <1>5 DEF ListInv, WorkersListed, UpdateFullResults
    <3> QED
      BY <1>1, <1>5, <3>1, ListIsPointList
  <2>5. Lifecycle!Publish(s)
    BY <2>1, <2>3, <2>4 DEF Row, Detail, Lifecycle!Publish
  <2> QED
    BY <1>2, <2>5 DEF Lifecycle!Next
<1> QED
  BY <1>2, <1>4, <1>5

LEMMA StepIsStep ==
  TypeOK /\ KeyInv /\ SolutionsThere /\ VerdictInv /\ ListInv /\ LifeInv /\ [Next]_vars
    => [Lifecycle!Next]_(Lifecycle!vars)
<1> SUFFICES ASSUME TypeOK, KeyInv, SolutionsThere, VerdictInv, ListInv, LifeInv,
                    [Next]_vars
             PROVE  [Lifecycle!Next]_(Lifecycle!vars)
  OBVIOUS
<1> USE DEF dbVars, httpVars
<1>1. ASSUME UNCHANGED <<solutions, fullResults>>
      PROVE  UNCHANGED Lifecycle!vars
  BY <1>1, TablesKept DEF Detail
<1>2. ASSUME NEW h \in Handlers, InsertFullResult(h)
      PROVE  UNCHANGED Lifecycle!vars
  <2>1. /\ UNCHANGED solutions
        /\ \A s \in Ids : \/ fullResults'[s] = fullResults[s]
                          \/ (fullResults[s] = NoRow /\ fullResults'[s] = <<>>)
    BY <1>2 DEF InsertFullResult, Admits, TypeOK, HandlerRecords
  <2>2. \A s \in SubmittedIds : Detail[s]' = Detail[s]
    BY <2>1, SubmittedAreIds DEF Detail
  <2> QED
    BY <2>1, <2>2, TablesKept
<1>3. ASSUME NEW h \in Handlers,
             \/ InsertCode(h) \/ SetJudging(h) \/ Send(h) \/ HandlerThrows(h)
             \/ PollCacheResult(h)
             \/ \E s \in AskedIds : PollJudging(h, s) \/ PollNotJudging(h, s)
      PROVE  UNCHANGED Lifecycle!vars
  BY <1>1, <1>3 DEF InsertCode, SetJudging, Send, HandlerThrows, PollCacheResult,
                    PollJudging, PollNotJudging
<1>4. ASSUME NEW s \in Ids, Message(s) \/ ConnectionLost(s)
      PROVE  UNCHANGED Lifecycle!vars
  BY <1>1, <1>4 DEF Message, HandleAllSize, HandlePoint, HandleAll, HandleFailed,
                    ConnectionLost
<1>5. ASSUME (\E w \in Workers : StatementThrows(w)) \/ Restart \/ Tick \/ UNCHANGED vars
      PROVE  UNCHANGED Lifecycle!vars
  BY <1>1, <1>5 DEF StatementThrows, Restart, Tick, vars
<1> QED
  BY <1>2, <1>3, <1>4, <1>5, InsertIsSubmit, UpdateIsJudge, UpdateIsPublish
     DEF Next, Request, HandlerStep, WorkerStep

\* The invariants of this module and the ones before it, together, for a schema
\* in which a truncated number is the number of a row.
THEOREM LifeCorrect ==
  ASSUME ForeignKeys \/ NoWrap
  PROVE  Spec => [](TypeOK /\ KeyInv /\ SolutionsThere /\ VerdictInv /\ ListInv /\ LifeInv)
BY TypeCorrect, KeysCorrect, InitSolutionsThere, StepSolutionsThere, VerdictsCorrect,
   InitListInv, StepListInv, InitLifeInv, StepLifeInv, PTL DEF Spec

\* The tables behave as SolutionLifecycle: a submission gets one verdict that
\* never changes, and after it a list of its points that names none twice, once,
\* however long its run takes and in whatever order its messages are handled.
THEOREM TablesImplementLifecycle ==
  ASSUME ForeignKeys \/ NoWrap
  PROVE  Spec => ImplementsLifecycle
BY LifeCorrect, InitIsInit, StepIsStep, PTL DEF Spec, ImplementsLifecycle, Lifecycle!Spec
=============================================================================
