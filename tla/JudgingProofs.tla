---------------------------- MODULE JudgingProofs ---------------------------
(***************************************************************************)
(* What holds of module Judging for any number of threads, submissions and *)
(* test points and any expiries: its types; that ids, rows and runs belong *)
(* together: no two submissions ever share a key from the moment their     *)
(* rows are in, and every verdict finds the rows it is for; that the       *)
(* judging flag covers its run until the run outlasts it, and a poll that  *)
(* finds no flag is right to say so.                                       *)
(***************************************************************************)
EXTENDS JudgingPolls, ResultScanProofs

-----------------------------------------------------------------------------
(* The cache *)

LEMMA KeysAreKeys ==
  ASSUME NEW s \in Ids
  PROVE  /\ IsJudging(s) \in CacheKeys /\ PointSize(s) \in CacheKeys
         /\ PointList(s) \in CacheKeys /\ CacheResult(s) \in CacheKeys
BY DEF IsJudging, PointSize, PointList, CacheResult, CacheKeys, Suffixes

LEMMA EmptyCacheType == EmptyCache(CacheKeys) \in Caches
BY BoundsAssumption, EmptySeq DEF EmptyCache, Absent, Caches

LEMMA PutType ==
  ASSUME NEW c \in Caches, NEW k \in CacheKeys,
         NEW v \in Seq(Nat), NEW t \in 0..KeyTTL
  PROVE  Put(c, k, v, t) \in Caches
BY DEF Put, Caches

LEMMA AppendToType ==
  ASSUME NEW c \in Caches, NEW k \in CacheKeys, NEW n \in Nat, NEW t \in 0..KeyTTL
  PROVE  AppendTo(c, k, n, t) \in Caches
<1>1. c[k].val \in Seq(Nat) /\ c[k].ttl \in 0..KeyTTL
  BY DEF Caches
<1>2. Append(c[k].val, n) \in Seq(Nat)
  BY <1>1, AppendProperties
<1> QED
  BY <1>1, <1>2, PutType DEF AppendTo

LEMMA NewExpireType ==
  ASSUME NEW c \in Caches, NEW k \in CacheKeys, NEW t \in 0..KeyTTL
  PROVE  NewExpire(c, k, t) \in Caches
BY DEF NewExpire, Caches

LEMMA AgedType ==
  ASSUME NEW c \in Caches
  PROVE  /\ Aged(c) \in Caches
         /\ \A k \in CacheKeys :
              Aged(c)[k].ttl = IF c[k].ttl > 1 THEN c[k].ttl - 1 ELSE 0
<1> DEFINE one(k) == IF c[k].ttl > 1 THEN [c[k] EXCEPT !.ttl = @ - 1] ELSE Absent
<1>1. KeyTTL \in Nat /\ <<>> \in Seq(Nat)
  BY BoundsAssumption, EmptySeq
<1>2. ASSUME NEW k \in CacheKeys
      PROVE  /\ one(k) \in [val : Seq(Nat), ttl : 0..KeyTTL]
             /\ one(k).ttl = IF c[k].ttl > 1 THEN c[k].ttl - 1 ELSE 0
  <2>1. c[k] \in [val : Seq(Nat), ttl : 0..KeyTTL]
    BY DEF Caches
  <2>2. CASE c[k].ttl > 1
    <3>1. one(k) = [c[k] EXCEPT !.ttl = @ - 1] /\ c[k].ttl - 1 \in 0..KeyTTL
      BY <1>1, <2>1, <2>2
    <3> HIDE DEF one
    <3> QED
      BY <2>1, <2>2, <3>1
  <2>3. CASE ~(c[k].ttl > 1)
    BY <1>1, <2>3 DEF Absent
  <2> QED
    BY <2>2, <2>3
<1>3. Aged(c) = [k \in CacheKeys |-> one(k)]
  BY DEF Aged, Caches
<1> HIDE DEF one
<1> QED
  BY <1>2, <1>3 DEF Caches

LEMMA FinishedType ==
  ASSUME NEW c \in Caches, NEW s \in Ids
  PROVE  Finished(c, s) \in Caches
<1>1. FinishTTL \in 0..KeyTTL
  BY BoundsAssumption
<1> QED
  BY <1>1, KeysAreKeys, NewExpireType DEF Finished

-----------------------------------------------------------------------------
(* The values of a step *)

\* The id that the handler works with is an id the tables can have.
LEMMA TruncatedType ==
  ASSUME NEW n \in SubmittedIds
  PROVE  Truncated(n) \in Ids
<1>1. n \in Nat /\ IdSpan \in Nat \ {0} /\ n <= MaxSolutions /\ MaxSolutions \in Nat
  BY BoundsAssumption DEF SubmittedIds
<1>2. n % IdSpan \in 0..n
  BY <1>1
<1> QED
  BY <1>1, <1>2 DEF Truncated, Ids

\* A message's points are a sequence of integers as long as the run is.
LEMMA MessageType ==
  ASSUME NEW n \in Nat, NEW msg \in [1..n -> Results]
  PROVE  msg \in Seq(Int) /\ Len(msg) = n
<1>1. msg \in [1..n -> Int]
  BY CodesAssumption
<1>2. msg \in Seq(Int)
  BY <1>1, SeqDef
<1> QED
  BY <1>1, <1>2, LenProperties

LEMMA ScanType ==
  ASSUME NEW n \in Nat, NEW msg \in [1..n -> Results]
  PROVE  FinalResult(msg) \in Int /\ Score(msg) \in Nat
<1>1. msg \in Seq(Int)
  BY MessageType
<1>2. FinalResult(msg) \in Int
  BY <1>1, FinalResultMeaning
<1>3. Score(msg) \in Nat
  BY <1>1, ScoreIsFullWhenAccepted
<1> QED
  BY <1>2, <1>3

-----------------------------------------------------------------------------
(* Type correctness *)

LEMMA IdleTypes ==
  /\ IdleHandler \in HandlerRecords
  /\ NoReply \in ReplyRecords
  /\ NoRun \in RunRecords
  /\ IdleWorker \in WorkerRecords
<1>1. 0 \in Ids /\ 0 \in 0..MaxPoints /\ <<>> \in Seq(Nat)
  BY BoundsAssumption, EmptySeq DEF Ids
<1> QED
  BY <1>1 DEF IdleHandler, NoReply, NoRun, IdleWorker, HandlerRecords, ReplyRecords,
     RunRecords, WorkerRecords, HandlerPCs, ReplyKinds, Phases

LEMMA InitTypeOK == Init => TypeOK
<1> SUFFICES ASSUME Init PROVE TypeOK
  OBVIOUS
<1>1. 1 \in 1..(MaxSolutions + 1) /\ 0 \in 0..KeyTTL
  BY BoundsAssumption
<1> QED
  BY <1>1, IdleTypes, EmptyCacheType DEF Init, TypeOK

\* Moving a record to another phase or place in the code.
LEMMA MoveTypes ==
  /\ \A r \in HandlerRecords, p \in HandlerPCs :
       [r EXCEPT !.pc = p] \in HandlerRecords
  /\ \A r \in RunRecords, i \in Ids, n \in 0..MaxPoints :
       [r EXCEPT !.phase = "running", !.sub = i, !.total = n] \in RunRecords
  /\ \A r \in WorkerRecords : [r EXCEPT !.pc = "full_results"] \in WorkerRecords
BY DEF HandlerRecords, RunRecords, WorkerRecords, Phases

LEMMA ClosedType ==
  ASSUME TypeOK, NEW s \in Ids, NEW p \in Phases
  PROVE  /\ Closed(s, p) \in RunRecords
         /\ Closed(s, p).phase = p
         /\ Closed(s, p).sub = stream[s].sub
         /\ Closed(s, p).counted = stream[s].counted
         /\ Closed(s, p).late = stream[s].late
<1>1. stream[s] \in RunRecords /\ 0 \in 0..MaxPoints /\ {} \in SUBSET (1..MaxPoints)
  BY BoundsAssumption DEF TypeOK
<1> QED
  BY <1>1 DEF Closed, RunRecords

\* A request or a further step of an HTTP thread.
LEMMA HandlerTypeOK ==
  ASSUME TypeOK, NEW h \in Handlers, Request(h) \/ HandlerStep(h)
  PROVE  TypeOK'
<1> USE DEF TypeOK, dbVars, httpVars
<1>h. /\ handler[h].key \in Ids /\ handler[h].sub \in Ids
      /\ \A p \in HandlerPCs : [handler[h] EXCEPT !.pc = p] \in HandlerRecords
  BY MoveTypes DEF HandlerRecords
<1>1. ASSUME NEW u \in Users, InsertSolution(h, u) PROVE TypeOK'
  <2>1. nextId \in SubmittedIds /\ nextId + 1 \in 1..(MaxSolutions + 1)
    BY <1>1, BoundsAssumption DEF InsertSolution, SubmittedIds
  <2>2. nextId \in Ids /\ Truncated(nextId) \in Ids
    BY <2>1, TruncatedType, BoundsAssumption DEF SubmittedIds, Ids
  <2>3. [owner |-> u, result |-> WAIT, score |-> 0] \in SolutionRow
    BY DEF SolutionRow, WAIT
  <2>4. [pc |-> "codes", sub |-> nextId, key |-> Truncated(nextId)] \in HandlerRecords
    BY <2>2 DEF HandlerRecords, HandlerPCs
  <2> QED
    BY <1>1, <2>1, <2>2, <2>3, <2>4, IdleTypes DEF InsertSolution
<1>2. CASE InsertCode(h)
  <2>1. "full" \in HandlerPCs
    BY DEF HandlerPCs
  <2> QED
    BY <1>h, <1>2, <2>1 DEF InsertCode
<1>3. CASE InsertFullResult(h)
  <2>1. "flag" \in HandlerPCs /\ <<>> \in Seq(Nat)
    BY EmptySeq DEF HandlerPCs
  <2> QED
    BY <1>h, <1>3, <2>1 DEF InsertFullResult
<1>4. CASE SetJudging(h)
  <2>1. KeyTTL \in 0..KeyTTL /\ 0 \in 0..KeyTTL /\ <<>> \in Seq(Nat)
    BY BoundsAssumption, EmptySeq
  <2>2. cache' \in Caches
    BY <1>h, <1>4, <2>1, KeysAreKeys, PutType DEF SetJudging
  <2>3. "send" \in HandlerPCs
    BY DEF HandlerPCs
  <2> QED
    BY <1>h, <1>4, <2>1, <2>2, <2>3 DEF SetJudging
<1>5. CASE Send(h)
  <2>1. PICK n \in 0..MaxPoints :
          stream' = [stream EXCEPT
            ![handler[h].key] =
              [NoRun EXCEPT !.phase = "running", !.sub = handler[h].sub, !.total = n]]
    BY <1>5 DEF Send
  <2>2. [NoRun EXCEPT !.phase = "running", !.sub = handler[h].sub, !.total = n]
          \in RunRecords
    BY <1>h, IdleTypes, MoveTypes
  <2>3. [kind |-> "accepted", id |-> handler[h].key] \in ReplyRecords
    BY <1>h DEF ReplyRecords, ReplyKinds
  <2> QED
    BY <1>h, <1>5, <2>1, <2>2, <2>3, IdleTypes DEF Send
<1>6. CASE HandlerThrows(h)
  BY <1>6, IdleTypes DEF HandlerThrows
<1>7. CASE PollCacheResult(h)
  <2>1. [kind |-> IF Exists(cache, CacheResult(handler[h].key))
                  THEN "result" ELSE "not_found",
         id |-> handler[h].key] \in ReplyRecords
    BY <1>h DEF ReplyRecords, ReplyKinds
  <2> QED
    BY <1>7, <2>1, IdleTypes DEF PollCacheResult
<1>8. ASSUME NEW s \in Ids, PollJudging(h, s) PROVE TypeOK'
  <2>1. [kind |-> "judging", id |-> s] \in ReplyRecords
    BY DEF ReplyRecords, ReplyKinds
  <2> QED
    BY <1>8, <2>1 DEF PollJudging
<1>9. ASSUME NEW s \in Ids, PollNotJudging(h, s) PROVE TypeOK'
  <2>1. [pc |-> "cache_result", sub |-> 0, key |-> s] \in HandlerRecords
    BY BoundsAssumption DEF HandlerRecords, HandlerPCs, Ids
  <2> QED
    BY <1>9, <2>1, IdleTypes DEF PollNotJudging
<1> QED
  BY <1>1, <1>2, <1>3, <1>4, <1>5, <1>6, <1>7, <1>8, <1>9, BoundsAssumption
     DEF Request, HandlerStep

\* A message of the judge server for the run of submission s.
LEMMA MessageTypeOK ==
  ASSUME TypeOK, NEW s \in Ids, Message(s)
  PROVE  TypeOK'
<1> USE DEF TypeOK, dbVars, httpVars
<1>0. PICK w \in Workers : HandleAllSize(w, s) \/ HandlePoint(w, s)
                             \/ HandleAll(w, s) \/ HandleFailed(w, s)
  BY DEF Message
<1>a. KeyTTL \in 0..KeyTTL /\ MaxPoints \in Nat
  BY BoundsAssumption
<1>b. /\ stream[s] \in RunRecords /\ stream[s].total \in 0..MaxPoints
      /\ stream[s].total \in Nat /\ stream[s].arrived \subseteq 1..MaxPoints
  BY <1>a DEF RunRecords
<1>1. CASE HandleAllSize(w, s)
  <2>1. <<stream[s].total>> \in Seq(Nat)
    BY <1>b
  <2>2. cache' \in Caches
    BY <1>1, <1>a, <2>1, KeysAreKeys, PutType DEF HandleAllSize
  <2>3. [stream[s] EXCEPT !.sized = TRUE] \in RunRecords
    BY <1>b DEF RunRecords
  <2> QED
    BY <1>1, <2>2, <2>3 DEF HandleAllSize
<1>2. CASE HandlePoint(w, s)
  <2>1. PICK p \in Points(s) \ stream[s].arrived :
          /\ cache' = AppendTo(cache, PointList(s), p, KeyTTL)
          /\ stream' = [stream EXCEPT ![s].arrived = @ \union {p}]
    BY <1>2 DEF HandlePoint
  <2>2. p \in Nat /\ p \in 1..MaxPoints
    BY <1>a, <1>b DEF Points
  <2>3. cache' \in Caches
    BY <1>a, <2>1, <2>2, KeysAreKeys, AppendToType
  <2>4. [stream[s] EXCEPT !.arrived = @ \union {p}] \in RunRecords
    BY <1>b, <2>2 DEF RunRecords
  <2> QED
    BY <1>2, <2>1, <2>3, <2>4 DEF HandlePoint
<1>3. CASE HandleAll(w, s)
  <2>1. cache' \in Caches
    BY <1>3, FinishedType DEF HandleAll
  <2>2. [stream[s] EXCEPT !.phase = "ended", !.late = ~InTime(s),
                          !.counted = stream[s].arrived] \in RunRecords
    BY <1>b DEF RunRecords, Phases, InTime
  <2>3. worker' \in [Workers -> WorkerRecords]
    <3>1. CASE ~ListCached(s)
      BY <1>3, <3>1 DEF HandleAll
    <3>2. CASE ListCached(s)
      <4>1. PICK msg \in [Points(s) -> Results] :
              worker' = [worker EXCEPT ![w] =
                [pc |-> "solutions", id |-> s, result |-> FinalResult(msg),
                 score |-> Score(msg), full |-> cache[PointList(s)].val]]
        BY <1>3, <3>2 DEF HandleAll
      <4>2. FinalResult(msg) \in Int /\ Score(msg) \in Nat
        BY <1>b, ScanType DEF Points
      <4>3. cache[PointList(s)].val \in Seq(Nat)
        BY KeysAreKeys DEF Caches
      <4>4. [pc |-> "solutions", id |-> s, result |-> FinalResult(msg),
             score |-> Score(msg), full |-> cache[PointList(s)].val] \in WorkerRecords
        <5> DEFINE r == FinalResult(msg)
                   v == Score(msg)
                   l == cache[PointList(s)].val
        <5>1. r \in Int /\ v \in Nat /\ l \in Seq(Nat)
          BY <4>2, <4>3
        <5> HIDE DEF r, v, l
        <5>2. [pc |-> "solutions", id |-> s, result |-> r, score |-> v, full |-> l]
                \in WorkerRecords
          BY <5>1 DEF WorkerRecords
        <5> QED
          BY <5>2 DEF r, v, l
      <4> QED
        BY <4>1, <4>4
    <3> QED
      BY <3>1, <3>2
  <2> QED
    BY <1>3, <2>1, <2>2, <2>3 DEF HandleAll
<1>4. CASE HandleFailed(w, s)
  <2>1. PICK code \in FailCodes : worker' = [worker EXCEPT ![w] =
          [pc |-> "solutions", id |-> s, result |-> code, score |-> 0, full |-> <<>>]]
    BY <1>4 DEF HandleFailed
  <2>2. [pc |-> "solutions", id |-> s, result |-> code, score |-> 0, full |-> <<>>]
          \in WorkerRecords
    BY CodesAssumption, EmptySeq DEF WorkerRecords
  <2>3. Closed(s, "failed") \in RunRecords
    BY ClosedType DEF Phases
  <2> QED
    BY <1>4, <2>1, <2>2, <2>3 DEF HandleFailed
<1> QED
  BY <1>0, <1>1, <1>2, <1>3, <1>4

\* A statement of update_solution.
LEMMA WorkerTypeOK ==
  ASSUME TypeOK, NEW w \in Workers, WorkerStep(w)
  PROVE  TypeOK'
<1> USE DEF TypeOK, dbVars, httpVars
<1>a. /\ worker[w].id \in Ids /\ worker[w].result \in Int
      /\ worker[w].score \in Nat /\ worker[w].full \in Seq(Nat)
      /\ [worker[w] EXCEPT !.pc = "full_results"] \in WorkerRecords
  BY MoveTypes DEF WorkerRecords
<1>1. CASE UpdateSolutions(w)
  <2> DEFINE s == worker[w].id
             row == [solutions[s] EXCEPT !.result = worker[w].result,
                                         !.score = worker[w].score]
  <2>1. solutions[s] # NoRow => row \in SolutionRow
    BY <1>a DEF SolutionRow
  <2>2. solutions' = IF solutions[s] = NoRow THEN solutions
                     ELSE [solutions EXCEPT ![s] = row]
    BY <1>1, <1>a DEF UpdateSolutions
  <2>3. solutions' \in [Ids -> SolutionRow \union {NoRow}]
    <3> HIDE DEF row
    <3> QED
      BY <1>a, <2>1, <2>2
  <2> QED
    BY <1>1, <1>a, <2>3 DEF UpdateSolutions
<1>2. CASE UpdateFullResults(w)
  BY <1>2, <1>a, IdleTypes DEF UpdateFullResults
<1>3. CASE StatementThrows(w)
  BY <1>3, IdleTypes DEF StatementThrows
<1> QED
  BY <1>1, <1>2, <1>3 DEF WorkerStep

\* A lost connection, a restart, or time.
LEMMA EnvironmentTypeOK ==
  ASSUME TypeOK, (\E s \in Ids : ConnectionLost(s)) \/ Restart \/ Tick
  PROVE  TypeOK'
<1> USE DEF TypeOK, dbVars, httpVars
<1>a. \A s \in Ids : Closed(s, "gone") \in RunRecords
  BY ClosedType DEF Phases
<1>1. ASSUME NEW s \in Ids, ConnectionLost(s) PROVE TypeOK'
  BY <1>1, <1>a DEF ConnectionLost
<1>2. CASE Restart
  <2>1. 0 \in 0..KeyTTL
    BY BoundsAssumption
  <2> QED
    BY <1>2, <1>a, <2>1, EmptyCacheType, IdleTypes DEF Restart
<1>3. CASE Tick
  <2>1. cache' \in Caches
    BY <1>3, AgedType DEF Tick
  <2>2. age' \in [Ids -> 0..KeyTTL]
    BY <1>3, BoundsAssumption DEF Tick, InTime
  <2> QED
    BY <1>3, <2>1, <2>2 DEF Tick
<1> QED
  BY <1>1, <1>2, <1>3

LEMMA StepTypeOK == TypeOK /\ [Next]_vars => TypeOK'
<1> SUFFICES ASSUME TypeOK, [Next]_vars PROVE TypeOK'
  OBVIOUS
<1>1. CASE UNCHANGED vars
  BY <1>1 DEF vars, dbVars, httpVars, TypeOK
<1>2. CASE Next
  BY <1>2, HandlerTypeOK, MessageTypeOK, WorkerTypeOK, EnvironmentTypeOK DEF Next
<1> QED
  BY <1>1, <1>2

\* Every variable of the judging path keeps its type, for any instance.
THEOREM TypeCorrect == Spec => []TypeOK
BY InitTypeOK, StepTypeOK, PTL DEF Spec

-----------------------------------------------------------------------------
(* The inductive invariant *)

\* A thread inside handleJudgeMsg, and one that has inserted its code row.
Submitting(h) == handler[h].pc \in {"codes", "full", "flag", "send"}
Stored(h) == handler[h].pc \in {"full", "flag", "send"}

\* Each submission in progress has a number of its own, which no row of
\* solution_codes holds before its thread inserts one.
NumbersUnique ==
  /\ \A h \in Handlers : Submitting(h) =>
       handler[h].sub \in Nat /\ handler[h].sub < nextId
  /\ \A g, h \in Handlers :
       g # h /\ Submitting(g) /\ Submitting(h) => handler[g].sub # handler[h].sub
  /\ \A s \in Ids : codes[s] # NoRow => codes[s] \in Nat /\ codes[s] < nextId
  /\ \A h \in Handlers, s \in Ids :
       handler[h].pc = "codes" => codes[s] # handler[h].sub

\* From its code row on, a thread owns its key: the row is its own, and no run
\* was ever sent under that key.
KeysOwned ==
  /\ \A h \in Handlers : Stored(h) =>
       /\ codes[handler[h].key] = handler[h].sub
       /\ stream[handler[h].key] = NoRun
  /\ \A h \in Handlers : handler[h].pc \in {"flag", "send"} =>
       fullResults[handler[h].key] # NoRow

\* Runs exist only for keys whose rows do, and run the text of the row.
RunsHaveRows ==
  \A s \in Ids :
    /\ stream[s].phase = "idle" => stream[s] = NoRun
    /\ stream[s].phase # "idle" =>
         codes[s] # NoRow /\ codes[s] = stream[s].sub /\ fullResults[s] # NoRow

\* A busy worker belongs to a run that is over, and to no other worker's.
WorkersFinish ==
  /\ \A w \in Workers : worker[w].pc # "idle" =>
       stream[worker[w].id].phase \in {"ended", "failed"}
  /\ \A v, w \in Workers :
       v # w /\ worker[v].pc # "idle" /\ worker[w].pc # "idle"
         => worker[v].id # worker[w].id

KeyInv == NumbersUnique /\ KeysOwned /\ RunsHaveRows /\ WorkersFinish

LEMMA InitKeyInv == Init => KeyInv
BY DEF Init, KeyInv, NumbersUnique, KeysOwned, RunsHaveRows, WorkersFinish,
       Submitting, Stored, IdleHandler, IdleWorker, NoRun

-----------------------------------------------------------------------------
(* Each action preserves it *)

LEMMA HandlerKeyInv ==
  ASSUME TypeOK, KeyInv, NEW h \in Handlers, Request(h) \/ HandlerStep(h)
  PROVE  KeyInv'
<1> USE DEF dbVars, httpVars, KeyInv
<1>t. /\ handler \in [Handlers -> HandlerRecords] /\ handler[h] \in HandlerRecords
      /\ handler[h].key \in Ids /\ handler[h].sub \in Ids
      /\ codes \in [Ids -> Ids \union {NoRow}]
      /\ fullResults \in [Ids -> Seq(Nat) \union {NoRow}]
      /\ stream \in [Ids -> RunRecords]
      /\ nextId \in Nat
      /\ NoRow \notin Nat /\ NoRow \notin Seq(Nat)
      /\ \A n \in Ids : n \in Nat
  BY NoRowAssumption, BoundsAssumption DEF TypeOK, HandlerRecords, Ids
<1>1. ASSUME NEW u \in Users, InsertSolution(h, u) PROVE KeyInv'
  <2>1. /\ handler' = [handler EXCEPT
             ![h] = [pc |-> "codes", sub |-> nextId, key |-> Truncated(nextId)]]
        /\ nextId' = nextId + 1
        /\ UNCHANGED <<codes, fullResults, stream, worker>>
    BY <1>1 DEF InsertSolution
  <2>2. NumbersUnique'
    BY <1>t, <2>1 DEF NumbersUnique, Submitting
  <2>3. KeysOwned'
    BY <1>t, <2>1 DEF KeysOwned, Stored
  <2>4. RunsHaveRows' /\ WorkersFinish'
    BY <2>1 DEF RunsHaveRows, WorkersFinish
  <2> QED
    BY <2>2, <2>3, <2>4
<1>2. CASE InsertCode(h)
  <2>1. /\ handler[h].pc = "codes" /\ codes[handler[h].key] = NoRow
        /\ codes' = [codes EXCEPT ![handler[h].key] = handler[h].sub]
        /\ handler' = [handler EXCEPT ![h].pc = "full"]
        /\ UNCHANGED <<fullResults, nextId, stream, worker>>
    BY <1>2 DEF InsertCode, Admits
  <2>2. /\ handler'[h].pc = "full" /\ handler'[h].key = handler[h].key
        /\ handler'[h].sub = handler[h].sub
        /\ \A g \in Handlers \ {h} : handler'[g] = handler[g]
    BY <1>t, <2>1 DEF HandlerRecords
  <2>3. \A s \in Ids : codes'[s] = IF s = handler[h].key THEN handler[h].sub ELSE codes[s]
    BY <1>t, <2>1
  <2>4. stream[handler[h].key] = NoRun
    BY <1>t, <2>1 DEF RunsHaveRows
  <2>5. NumbersUnique'
    BY <1>t, <2>1, <2>2, <2>3 DEF NumbersUnique, Submitting
  <2>6. KeysOwned'
    BY <1>t, <2>1, <2>2, <2>3, <2>4 DEF KeysOwned, Stored, NumbersUnique, Submitting
  <2>7. RunsHaveRows' /\ WorkersFinish'
    BY <1>t, <2>1, <2>3 DEF RunsHaveRows, WorkersFinish
  <2> QED
    BY <2>5, <2>6, <2>7
<1>3. CASE InsertFullResult(h)
  <2>1. /\ handler[h].pc = "full"
        /\ fullResults' = [fullResults EXCEPT ![handler[h].key] = <<>>]
        /\ handler' = [handler EXCEPT ![h].pc = "flag"]
        /\ UNCHANGED <<codes, nextId, stream, worker>>
    BY <1>3 DEF InsertFullResult
  <2>2. /\ handler'[h].pc = "flag" /\ handler'[h].key = handler[h].key
        /\ handler'[h].sub = handler[h].sub
        /\ \A g \in Handlers \ {h} : handler'[g] = handler[g]
    BY <1>t, <2>1 DEF HandlerRecords
  <2>3. /\ <<>> # NoRow
        /\ \A s \in Ids : fullResults'[s] = IF s = handler[h].key THEN <<>> ELSE fullResults[s]
    BY <1>t, <2>1, EmptySeq
  <2>4. NumbersUnique'
    BY <1>t, <2>1, <2>2 DEF NumbersUnique, Submitting
  <2>5. KeysOwned'
    BY <1>t, <2>1, <2>2, <2>3 DEF KeysOwned, Stored
  <2>6. RunsHaveRows' /\ WorkersFinish'
    BY <2>1, <2>3 DEF RunsHaveRows, WorkersFinish
  <2> QED
    BY <2>4, <2>5, <2>6
<1>4. CASE SetJudging(h)
  <2>1. /\ handler[h].pc = "flag"
        /\ handler' = [handler EXCEPT ![h].pc = "send"]
        /\ UNCHANGED <<codes, fullResults, nextId, stream, worker>>
    BY <1>4 DEF SetJudging
  <2>2. /\ handler'[h].pc = "send" /\ handler'[h].key = handler[h].key
        /\ handler'[h].sub = handler[h].sub
        /\ \A g \in Handlers \ {h} : handler'[g] = handler[g]
    BY <1>t, <2>1 DEF HandlerRecords
  <2>3. NumbersUnique'
    BY <1>t, <2>1, <2>2 DEF NumbersUnique, Submitting
  <2>4. KeysOwned'
    BY <1>t, <2>1, <2>2 DEF KeysOwned, Stored
  <2>5. RunsHaveRows' /\ WorkersFinish'
    BY <2>1 DEF RunsHaveRows, WorkersFinish
  <2> QED
    BY <2>3, <2>4, <2>5
<1>5. CASE Send(h)
  <2> DEFINE k == handler[h].key
  <2>1. /\ handler[h].pc = "send"
        /\ handler' = [handler EXCEPT ![h] = IdleHandler]
        /\ UNCHANGED <<codes, fullResults, nextId, worker>>
    BY <1>5 DEF Send
  <2>2. PICK n \in 0..MaxPoints :
          stream' = [stream EXCEPT ![k] =
            [NoRun EXCEPT !.phase = "running", !.sub = handler[h].sub, !.total = n]]
    BY <1>5 DEF Send
  <2>3. /\ stream'[k].phase = "running" /\ stream'[k].sub = handler[h].sub
        /\ \A s \in Ids \ {k} : stream'[s] = stream[s]
    BY <1>t, <2>2 DEF NoRun
  <2>4. /\ handler'[h].pc = "idle"
        /\ \A g \in Handlers \ {h} : handler'[g] = handler[g]
    BY <1>t, <2>1 DEF IdleHandler
  <2>5. codes[k] = handler[h].sub /\ fullResults[k] # NoRow /\ stream[k] = NoRun
    BY <2>1 DEF KeysOwned, Stored
  <2>6. \A g \in Handlers \ {h} : Stored(g) => handler[g].key # k
    BY <2>1, <2>5 DEF KeysOwned, NumbersUnique, Stored, Submitting
  <2>7. NumbersUnique'
    BY <1>t, <2>1, <2>4 DEF NumbersUnique, Submitting
  <2>8. KeysOwned'
    <3>1. \A g \in Handlers \ {h} : handler[g].key \in Ids
      BY <1>t DEF HandlerRecords
    <3> QED
      BY <2>1, <2>3, <2>4, <2>6, <3>1 DEF KeysOwned, Stored
  <2>9. RunsHaveRows'
    BY <1>t, <2>1, <2>3, <2>5 DEF RunsHaveRows
  <2>10. WorkersFinish'
    <3>1. \A w \in Workers : worker[w].pc # "idle" => worker[w].id # k
      BY <2>5 DEF WorkersFinish, NoRun
    <3>2. \A w \in Workers : worker[w].id \in Ids
      BY DEF TypeOK, WorkerRecords
    <3> QED
      BY <2>1, <2>3, <3>1, <3>2 DEF WorkersFinish
  <2> QED
    BY <2>7, <2>8, <2>9, <2>10
<1>6. ASSUME \/ HandlerThrows(h) \/ PollCacheResult(h)
             \/ \E s \in AskedIds : PollJudging(h, s) \/ PollNotJudging(h, s)
      PROVE  KeyInv'
  <2>1. /\ \/ handler' = handler
           \/ handler' = [handler EXCEPT ![h] = IdleHandler]
           \/ \E s \in AskedIds : handler' = [handler EXCEPT
                ![h] = [pc |-> "cache_result", sub |-> 0, key |-> s]]
        /\ UNCHANGED <<codes, fullResults, nextId, stream, worker>>
    BY <1>6 DEF HandlerThrows, PollCacheResult, PollJudging, PollNotJudging
  <2>2. \/ handler' = handler
        \/ /\ handler'[h].pc \in {"idle", "cache_result"}
           /\ \A g \in Handlers \ {h} : handler'[g] = handler[g]
    BY <1>t, <2>1 DEF IdleHandler
  <2>3. NumbersUnique'
    BY <2>1, <2>2 DEF NumbersUnique, Submitting
  <2>4. KeysOwned'
    BY <2>1, <2>2 DEF KeysOwned, Stored
  <2>5. RunsHaveRows' /\ WorkersFinish'
    BY <2>1 DEF RunsHaveRows, WorkersFinish
  <2> QED
    BY <2>3, <2>4, <2>5
<1> QED
  BY <1>1, <1>2, <1>3, <1>4, <1>5, <1>6 DEF Request, HandlerStep

LEMMA MessageKeyInv ==
  ASSUME TypeOK, KeyInv, NEW s \in Ids, Message(s)
  PROVE  KeyInv'
<1> USE DEF dbVars, httpVars, KeyInv
<1>t. stream \in [Ids -> RunRecords] /\ worker \in [Workers -> WorkerRecords]
  BY DEF TypeOK
<1>0. PICK w \in Workers : HandleAllSize(w, s) \/ HandlePoint(w, s)
                             \/ HandleAll(w, s) \/ HandleFailed(w, s)
  BY DEF Message
<1>c. /\ Closed(s, "failed").phase = "failed" /\ Closed(s, "failed").sub = stream[s].sub
  BY ClosedType DEF Phases
\* The run of s had been sent, and what it becomes is not a run never sent.
<1>1. /\ stream[s].phase \in {"running", "ended"} /\ worker[w].pc = "idle"
      /\ stream'[s].phase \in {"running", "ended", "failed"}
      /\ stream[s].phase = "ended" => stream'[s].phase = "ended"
      /\ stream'[s].sub = stream[s].sub
      /\ \A r \in Ids \ {s} : stream'[r] = stream[r]
      /\ UNCHANGED <<codes, fullResults, nextId, handler>>
  BY <1>0, <1>t, <1>c DEF HandleAllSize, HandlePoint, HandleAll, HandleFailed, Running,
                          Answering, RunRecords
<1>2. \/ worker' = worker
      \/ /\ stream[s].phase = "running" /\ stream'[s].phase \in {"ended", "failed"}
         /\ worker'[w].id = s
         /\ \A v \in Workers \ {w} : worker'[v] = worker[v]
  BY <1>0, <1>t, <1>c DEF HandleAllSize, HandlePoint, HandleAll, HandleFailed, Running,
                          RunRecords
<1>3. \A v \in Workers : worker[v].pc # "idle" =>
        /\ worker[v].id \in Ids
        /\ stream[s].phase = "running" => worker[v].id # s
  BY DEF WorkersFinish, TypeOK, WorkerRecords
<1>4. NumbersUnique'
  BY <1>1 DEF NumbersUnique, Submitting
<1>5. KeysOwned'
  <2>1. \A h \in Handlers : Stored(h) => handler[h].key \in Ids \ {s}
    BY <1>1 DEF KeysOwned, NoRun, TypeOK, HandlerRecords
  <2> QED
    BY <1>1, <2>1 DEF KeysOwned, Stored
<1>6. RunsHaveRows'
  BY <1>1 DEF RunsHaveRows
<1>7. WorkersFinish'
  BY <1>1, <1>2, <1>3 DEF WorkersFinish
<1> QED
  BY <1>4, <1>5, <1>6, <1>7

LEMMA WorkerKeyInv ==
  ASSUME TypeOK, KeyInv, NEW w \in Workers, WorkerStep(w)
  PROVE  KeyInv'
<1> USE DEF dbVars, httpVars, KeyInv
<1>t. /\ fullResults \in [Ids -> Seq(Nat) \union {NoRow}]
      /\ worker \in [Workers -> WorkerRecords]
      /\ worker[w].id \in Ids /\ worker[w].full \in Seq(Nat)
      /\ NoRow \notin Seq(Nat)
  BY NoRowAssumption DEF TypeOK, WorkerRecords
<1>1. /\ worker[w].pc # "idle"
      /\ UNCHANGED <<codes, nextId, handler, stream>>
      /\ \A v \in Workers \ {w} : worker'[v] = worker[v]
      /\ worker'[w].pc = "idle" \/ worker'[w].id = worker[w].id
  BY <1>t DEF WorkerStep, UpdateSolutions, UpdateFullResults, StatementThrows,
              IdleWorker, WorkerRecords
<1>2. \A s \in Ids : fullResults'[s] # NoRow <=> fullResults[s] # NoRow
  BY <1>t DEF WorkerStep, UpdateSolutions, UpdateFullResults, StatementThrows
<1>3. NumbersUnique'
  BY <1>1 DEF NumbersUnique, Submitting
<1>4. KeysOwned'
  <2>1. \A h \in Handlers : handler[h].key \in Ids
    BY DEF TypeOK, HandlerRecords
  <2> QED
    BY <1>1, <1>2, <2>1 DEF KeysOwned, Stored
<1>5. RunsHaveRows'
  BY <1>1, <1>2 DEF RunsHaveRows
<1>6. WorkersFinish'
  BY <1>1 DEF WorkersFinish
<1> QED
  BY <1>3, <1>4, <1>5, <1>6

LEMMA EnvironmentKeyInv ==
  ASSUME TypeOK, KeyInv, (\E s \in Ids : ConnectionLost(s)) \/ Restart \/ Tick
  PROVE  KeyInv'
<1> USE DEF dbVars, httpVars, KeyInv
<1>t. stream \in [Ids -> RunRecords] /\ \A h \in Handlers : handler[h].key \in Ids
  BY DEF TypeOK, HandlerRecords
<1>1. ASSUME NEW s \in Ids, ConnectionLost(s) PROVE KeyInv'
  <2>1. /\ stream[s].phase = "running" /\ stream'[s].phase = "gone"
        /\ stream'[s].sub = stream[s].sub
        /\ \A r \in Ids \ {s} : stream'[r] = stream[r]
        /\ UNCHANGED <<codes, fullResults, nextId, handler, worker>>
    BY <1>1, <1>t, ClosedType DEF ConnectionLost, Running, Phases
  <2>2. NumbersUnique'
    BY <2>1 DEF NumbersUnique, Submitting
  <2>3. KeysOwned'
    BY <1>t, <2>1 DEF KeysOwned, Stored, NoRun
  <2>4. RunsHaveRows'
    BY <2>1 DEF RunsHaveRows
  <2>5. WorkersFinish'
    BY <2>1 DEF WorkersFinish, TypeOK, WorkerRecords
  <2> QED
    BY <2>2, <2>3, <2>4, <2>5
<1>2. CASE Restart
  <2>1. /\ \A h \in Handlers : handler'[h].pc = "idle"
        /\ \A w \in Workers : worker'[w].pc = "idle"
        /\ UNCHANGED <<codes, fullResults, nextId>>
    BY <1>2 DEF Restart, IdleHandler, IdleWorker
  <2>2. \A s \in Ids : \/ stream'[s] = stream[s]
                       \/ /\ stream[s].phase # "idle" /\ stream'[s].phase = "gone"
                          /\ stream'[s].sub = stream[s].sub
    <3>1. \A s \in Ids : Unfinished(s) => stream[s].phase # "idle"
      BY DEF Unfinished, Running, Answering, WorkersFinish
    <3> QED
      BY <1>2, <1>t, <3>1, ClosedType DEF Restart, Phases
  <2>3. NumbersUnique'
    BY <2>1 DEF NumbersUnique, Submitting
  <2>4. KeysOwned'
    BY <2>1 DEF KeysOwned, Stored
  <2>5. RunsHaveRows'
    BY <2>1, <2>2 DEF RunsHaveRows
  <2>6. WorkersFinish'
    BY <2>1 DEF WorkersFinish
  <2> QED
    BY <2>3, <2>4, <2>5, <2>6
<1>3. CASE Tick
  <2>1. UNCHANGED <<codes, fullResults, nextId, handler, stream, worker>>
    BY <1>3 DEF Tick
  <2> QED
    BY <2>1 DEF NumbersUnique, KeysOwned, RunsHaveRows, WorkersFinish, Submitting, Stored
<1> QED
  BY <1>1, <1>2, <1>3

LEMMA StepKeyInv == TypeOK /\ KeyInv /\ [Next]_vars => KeyInv'
<1> SUFFICES ASSUME TypeOK, KeyInv, [Next]_vars PROVE KeyInv'
  OBVIOUS
<1>1. CASE UNCHANGED vars
  BY <1>1 DEF vars, dbVars, httpVars, KeyInv, NumbersUnique, KeysOwned, RunsHaveRows,
              WorkersFinish, Submitting, Stored
<1>2. CASE Next
  BY <1>2, HandlerKeyInv, MessageKeyInv, WorkerKeyInv, EnvironmentKeyInv DEF Next
<1> QED
  BY <1>1, <1>2

THEOREM KeysCorrect == Spec => []KeyInv
BY TypeCorrect, InitKeyInv, StepKeyInv, PTL DEF Spec

-----------------------------------------------------------------------------
(* What follows *)

\* The text that is judged under an id is the text stored under it, even when
\* numbers are truncated and statements fail.
THEOREM StoredIsJudged == Spec => []JudgedAsStored
<1>1. KeyInv => JudgedAsStored
  BY DEF KeyInv, RunsHaveRows, JudgedAsStored
<1> QED
  BY KeysCorrect, <1>1, PTL

\* No run is ever overwritten by another submission's, even when numbers are
\* truncated to fewer ids than there are submissions and threads race.
THEOREM KeysFresh == Spec => []KeyFreshAtSend
<1>1. KeyInv => KeyFreshAtSend
  BY DEF KeyInv, KeyFreshAtSend, KeysOwned, NumbersUnique, Stored, Submitting, NoRun
<1> QED
  BY KeysCorrect, <1>1, PTL

-----------------------------------------------------------------------------
(* Rows of solutions *)

\* Ids are never truncated: there are fewer submissions than values of the
\* type that carries them.
NoWrap == MaxSolutions < IdSpan

\* Every submission in progress and every run that was sent has its row in
\* solutions, if the schema checks foreign keys or ids are not truncated.
SolutionsThere ==
  /\ \A h \in Handlers : Submitting(h) =>
       /\ handler[h].sub \in SubmittedIds
       /\ solutions[handler[h].sub] # NoRow
       /\ NoWrap => handler[h].key = handler[h].sub
  /\ \A h \in Handlers : Stored(h) => solutions[handler[h].key] # NoRow
  /\ \A s \in Ids : stream[s].phase # "idle" => solutions[s] # NoRow

LEMMA NotTruncated ==
  ASSUME NoWrap, NEW n \in SubmittedIds
  PROVE  Truncated(n) = n
<1>1. n \in Nat /\ n < IdSpan /\ IdSpan \in Nat \ {0}
  BY BoundsAssumption DEF NoWrap, SubmittedIds
<1>2. n % IdSpan = n
  BY <1>1
<1> QED
  BY <1>2 DEF Truncated

LEMMA InitSolutionsThere == Init => SolutionsThere
BY DEF Init, SolutionsThere, Submitting, Stored, IdleHandler, NoRun

\* A row of solutions is never taken away.
LEMMA RowsStay ==
  ASSUME TypeOK, Next
  PROVE  \A s \in Ids : solutions[s] # NoRow => solutions'[s] # NoRow
<1>t. solutions \in [Ids -> SolutionRow \union {NoRow}] /\ NoRow \notin SolutionRow
  BY NoRowAssumption DEF TypeOK, SolutionRow
<1>1. ASSUME NEW h \in Handlers, NEW u \in Users, InsertSolution(h, u)
      PROVE  \A s \in Ids : solutions[s] # NoRow => solutions'[s] # NoRow
  <2>1. [owner |-> u, result |-> WAIT, score |-> 0] \in SolutionRow
    BY DEF SolutionRow, WAIT
  <2> QED
    BY <1>t, <1>1, <2>1 DEF InsertSolution
<1>2. ASSUME NEW w \in Workers, UpdateSolutions(w)
      PROVE  \A s \in Ids : solutions[s] # NoRow => solutions'[s] # NoRow
  <2> DEFINE k == worker[w].id
             row == [solutions[k] EXCEPT !.result = worker[w].result,
                                         !.score = worker[w].score]
  <2>1. k \in Ids /\ worker[w].result \in Int /\ worker[w].score \in Nat
    BY DEF TypeOK, WorkerRecords
  <2>2. solutions[k] # NoRow => row \in SolutionRow
    BY <1>t, <2>1 DEF SolutionRow
  <2>3. solutions' = IF solutions[k] = NoRow THEN solutions
                     ELSE [solutions EXCEPT ![k] = row]
    BY <1>2 DEF UpdateSolutions
  <2> HIDE DEF row
  <2> QED
    BY <1>t, <2>1, <2>2, <2>3
<1>3. ASSUME solutions' = solutions
      PROVE  \A s \in Ids : solutions[s] # NoRow => solutions'[s] # NoRow
  BY <1>3
<1> QED
  BY <1>1, <1>2, <1>3 DEF Next, Request, HandlerStep, Message, WorkerStep, dbVars,
     InsertCode, InsertFullResult, SetJudging, Send, HandlerThrows, PollJudging,
     PollNotJudging, PollCacheResult, HandleAllSize, HandlePoint, HandleAll,
     HandleFailed, UpdateFullResults, StatementThrows, ConnectionLost, Restart, Tick

LEMMA StepSolutionsThere ==
  ASSUME ForeignKeys \/ NoWrap
  PROVE  TypeOK /\ KeyInv /\ SolutionsThere /\ [Next]_vars => SolutionsThere'
<1> SUFFICES ASSUME TypeOK, KeyInv, SolutionsThere, [Next]_vars
             PROVE  SolutionsThere'
  OBVIOUS
<1> USE DEF dbVars, httpVars
<1>t. /\ handler \in [Handlers -> HandlerRecords]
      /\ codes \in [Ids -> Ids \union {NoRow}]
      /\ solutions \in [Ids -> SolutionRow \union {NoRow}]
      /\ stream \in [Ids -> RunRecords]
      /\ NoRow \notin Nat /\ NoRow \notin SolutionRow
      /\ SubmittedIds \subseteq Ids /\ Ids \subseteq Nat
      /\ \A h \in Handlers : handler[h].key \in Ids /\ handler[h].sub \in Ids
  BY NoRowAssumption, BoundsAssumption
     DEF TypeOK, HandlerRecords, SolutionRow, SubmittedIds, Ids
<1>1. CASE UNCHANGED vars
  BY <1>1 DEF vars, SolutionsThere, Submitting, Stored
<1>2. CASE Next
  <2>r. \A s \in Ids : solutions[s] # NoRow => solutions'[s] # NoRow
    BY <1>2, RowsStay
  \* Steps that move no thread into handleJudgeMsg, insert no code and start no run.
  <2>1. ASSUME /\ \A h \in Handlers :
                    \/ ~Submitting(h)'
                    \/ /\ Submitting(h) /\ (Stored(h)' => Stored(h))
                       /\ handler'[h].key = handler[h].key
                       /\ handler'[h].sub = handler[h].sub
               /\ \A s \in Ids : stream'[s].phase # "idle" => stream[s].phase # "idle"
        PROVE  SolutionsThere'
    <3>1. \A h \in Handlers : Stored(h)' => Submitting(h)'
      BY DEF Stored, Submitting
    <3> QED
      BY <1>t, <2>1, <2>r, <3>1 DEF SolutionsThere
  <2>2. ASSUME NEW h \in Handlers, NEW u \in Users, InsertSolution(h, u)
        PROVE  SolutionsThere'
    <3>1. /\ handler' = [handler EXCEPT
               ![h] = [pc |-> "codes", sub |-> nextId, key |-> Truncated(nextId)]]
          /\ solutions' = [solutions EXCEPT
               ![nextId] = [owner |-> u, result |-> WAIT, score |-> 0]]
          /\ UNCHANGED <<codes, stream>>
      BY <2>2 DEF InsertSolution
    <3>2. nextId \in SubmittedIds
      BY <2>2, BoundsAssumption DEF InsertSolution, SubmittedIds, TypeOK
    <3>3. [owner |-> u, result |-> WAIT, score |-> 0] \in SolutionRow
      BY DEF SolutionRow, WAIT
    <3>4. solutions'[nextId] # NoRow
      BY <1>t, <3>1, <3>2, <3>3
    <3>5. NoWrap => Truncated(nextId) = nextId
      BY <3>2, NotTruncated
    <3> QED
      BY <1>t, <2>r, <3>1, <3>2, <3>4, <3>5
         DEF SolutionsThere, Submitting, Stored
  <2>3. ASSUME NEW h \in Handlers, InsertCode(h) PROVE SolutionsThere'
    <3> DEFINE k == handler[h].key
    <3>1. /\ handler[h].pc = "codes" /\ (ForeignKeys => solutions[k] # NoRow)
          /\ codes' = [codes EXCEPT ![k] = handler[h].sub]
          /\ handler' = [handler EXCEPT ![h].pc = "full"]
          /\ UNCHANGED <<solutions, stream>>
      BY <2>3 DEF InsertCode, Admits
    <3>2. /\ handler'[h].pc = "full" /\ handler'[h].key = k
          /\ handler'[h].sub = handler[h].sub
          /\ \A g \in Handlers \ {h} : handler'[g] = handler[g]
      BY <1>t, <3>1 DEF HandlerRecords
    <3>3. solutions[k] # NoRow
      BY <3>1 DEF SolutionsThere, Submitting
    <3> QED
      BY <1>t, <3>1, <3>2, <3>3 DEF SolutionsThere, Submitting, Stored
  <2>4. ASSUME NEW h \in Handlers, Send(h) PROVE SolutionsThere'
    <3> DEFINE k == handler[h].key
    <3>1. /\ handler[h].pc = "send"
          /\ handler' = [handler EXCEPT ![h] = IdleHandler]
          /\ UNCHANGED <<solutions, codes>>
          /\ \A s \in Ids \ {k} : stream'[s] = stream[s]
      BY <1>t, <2>4 DEF Send
    <3>2. solutions[k] # NoRow
      BY <3>1 DEF SolutionsThere, Stored
    <3>3. /\ handler'[h].pc = "idle"
          /\ \A g \in Handlers \ {h} : handler'[g] = handler[g]
      BY <1>t, <3>1 DEF IdleHandler
    <3> QED
      BY <1>t, <3>1, <3>2, <3>3
         DEF SolutionsThere, Submitting, Stored
  <2>5. ASSUME NEW h \in Handlers, InsertFullResult(h) \/ SetJudging(h)
        PROVE  SolutionsThere'
    <3>1. /\ \/ handler[h].pc = "full" /\ handler'[h].pc = "flag"
             \/ handler[h].pc = "flag" /\ handler'[h].pc = "send"
          /\ handler'[h].key = handler[h].key /\ handler'[h].sub = handler[h].sub
          /\ \A g \in Handlers \ {h} : handler'[g] = handler[g]
          /\ UNCHANGED <<codes, stream>>
      BY <1>t, <2>5 DEF InsertFullResult, SetJudging, HandlerRecords
    <3> QED
      BY <2>1, <3>1 DEF Submitting, Stored
  <2>6. ASSUME NEW h \in Handlers,
               \/ HandlerThrows(h) \/ PollCacheResult(h)
               \/ \E s \in AskedIds : PollJudging(h, s) \/ PollNotJudging(h, s)
        PROVE  SolutionsThere'
    <3>1. /\ \/ handler' = handler
             \/ /\ handler'[h].pc \in {"idle", "cache_result"}
                /\ \A g \in Handlers \ {h} : handler'[g] = handler[g]
          /\ UNCHANGED <<codes, stream>>
      BY <1>t, <2>6 DEF HandlerThrows, PollCacheResult, PollJudging, PollNotJudging,
         IdleHandler
    <3> QED
      BY <2>1, <3>1 DEF Submitting, Stored
  <2>7. ASSUME NEW s \in Ids, Message(s) \/ ConnectionLost(s)
        PROVE  SolutionsThere'
    <3>1. /\ stream[s].phase # "idle"
          /\ \A r \in Ids \ {s} : stream'[r] = stream[r]
          /\ UNCHANGED handler
      BY <1>t, <2>7 DEF Message, ConnectionLost, HandleAllSize, HandlePoint, HandleAll,
         HandleFailed, Running, Answering
    <3> QED
      BY <2>1, <3>1 DEF Submitting, Stored
  <2>8. ASSUME NEW w \in Workers, WorkerStep(w) PROVE SolutionsThere'
    <3>1. UNCHANGED <<codes, handler, stream>>
      BY <2>8 DEF WorkerStep, UpdateSolutions, UpdateFullResults, StatementThrows
    <3> QED
      BY <2>1, <3>1 DEF Submitting, Stored
  <2>9. CASE Restart
    <3>1. /\ \A h \in Handlers : handler'[h].pc = "idle"
          /\ UNCHANGED codes
      BY <2>9 DEF Restart, IdleHandler
    <3>2. \A s \in Ids : Unfinished(s) => stream[s].phase # "idle"
      BY DEF Unfinished, Running, Answering, KeyInv, WorkersFinish
    <3>3. \A s \in Ids : stream'[s].phase # "idle" => stream[s].phase # "idle"
      BY <1>t, <2>9, <3>2 DEF Restart
    <3> QED
      BY <2>1, <3>1, <3>3 DEF Submitting
  <2>10. CASE Tick
    <3>1. UNCHANGED <<codes, handler, stream>>
      BY <2>10 DEF Tick
    <3> QED
      BY <2>1, <3>1 DEF Submitting, Stored
  <2> QED
    BY <1>2, <2>2, <2>3, <2>4, <2>5, <2>6, <2>7, <2>8, <2>9, <2>10
       DEF Next, Request, HandlerStep
<1> QED
  BY <1>1, <1>2

\* update_solution never misses: whenever a worker is about to run one of its
\* statements, the rows the statements address exist.
THEOREM VerdictsHaveRows ==
  ASSUME ForeignKeys \/ NoWrap
  PROVE  Spec => []RowsBeforeVerdict
<1>1. TypeOK /\ KeyInv /\ SolutionsThere => RowsBeforeVerdict
  BY DEF RowsBeforeVerdict, TypeOK, WorkerRecords, KeyInv, WorkersFinish, RunsHaveRows,
         SolutionsThere
<1> QED
  BY TypeCorrect, KeysCorrect, InitSolutionsThere, StepSolutionsThere, <1>1, PTL DEF Spec

-----------------------------------------------------------------------------
(* The judging flag expires on its own, is set by one thread and shortened  *)
(* by another; it is there as long as the run, and FinishTTL longer at most. *)

\* Nobody shortens the flag of a busy submission: what its expiry
\* has lost is time that has passed.
FlagClock ==
  \A s \in Ids : Busy(s) => cache[IsJudging(s)].ttl >= KeyTTL - age[s]

FlagInv == FlagClock /\ FinishedFlagBounded

LEMMA InitFlagInv == Init => FlagInv
BY BoundsAssumption
   DEF Init, FlagInv, FlagClock, FinishedFlagBounded, Busy, Running, NoRun, IdleHandler

-----------------------------------------------------------------------------
(* Writes to other keys leave the flags alone *)

LEMMA KeysDiffer ==
  ASSUME NEW s, NEW r
  PROVE  /\ IsJudging(s) = IsJudging(r) => s = r
         /\ IsJudging(s) # PointSize(r) /\ IsJudging(s) # PointList(r)
         /\ PointSize(s) # PointList(r)
BY DEF IsJudging, PointSize, PointList

LEMMA PutElsewhere ==
  ASSUME NEW c \in Caches, NEW k, NEW j \in CacheKeys, j # k, NEW v, NEW t
  PROVE  Put(c, k, v, t)[j] = c[j]
BY DEF Put, Caches

LEMMA AppendElsewhere ==
  ASSUME NEW c \in Caches, NEW k, NEW j \in CacheKeys, j # k, NEW v, NEW t
  PROVE  AppendTo(c, k, v, t)[j] = c[j]
BY PutElsewhere DEF AppendTo

\* "all" gives the flag its last FinishTTL, or finds it gone, and touches no
\* other submission's flag.
LEMMA FinishedFlags ==
  ASSUME NEW c \in Caches, NEW s \in Ids
  PROVE  /\ Finished(c, s)[IsJudging(s)].ttl <= FinishTTL
         /\ \A r \in Ids \ {s} : Finished(c, s)[IsJudging(r)] = c[IsJudging(r)]
<1> DEFINE c1 == NewExpire(c, IsJudging(s), FinishTTL)
           c2 == NewExpire(c1, PointSize(s), FinishTTL)
<1>1. FinishTTL \in 0..KeyTTL /\ FinishTTL \in Nat
  BY BoundsAssumption
<1>2. c1 \in Caches /\ c2 \in Caches
  BY <1>1, KeysAreKeys, NewExpireType
<1>3. c1[IsJudging(s)].ttl <= FinishTTL
  <2>1. c[IsJudging(s)] \in [val : Seq(Nat), ttl : 0..KeyTTL]
    BY KeysAreKeys DEF Caches
  <2>2. CASE c[IsJudging(s)].ttl > 0
    BY <1>1, <2>1, <2>2, KeysAreKeys DEF NewExpire, Exists, Caches
  <2>3. CASE ~(c[IsJudging(s)].ttl > 0)
    BY <1>1, <2>1, <2>3, BoundsAssumption DEF NewExpire, Exists
  <2> QED
    BY <2>2, <2>3
<1>4. \A r \in Ids \ {s} : c1[IsJudging(r)] = c[IsJudging(r)]
  BY KeysDiffer, KeysAreKeys DEF NewExpire, Caches
<1>5. \A r \in Ids : c2[IsJudging(r)] = c1[IsJudging(r)]
  BY <1>2, KeysDiffer, KeysAreKeys DEF NewExpire, Caches
<1>6. \A r \in Ids : Finished(c, s)[IsJudging(r)] = c2[IsJudging(r)]
  <2> HIDE DEF c1, c2
  <2>1. \A r \in Ids : NewExpire(c2, PointList(s), FinishTTL)[IsJudging(r)] = c2[IsJudging(r)]
    BY <1>2, KeysDiffer, KeysAreKeys DEF NewExpire, Caches
  <2> QED
    BY <2>1 DEF Finished, c1, c2
<1> QED
  BY <1>3, <1>4, <1>5, <1>6

-----------------------------------------------------------------------------
(* Each action preserves it *)

\* A step that starts nothing, ends no run, and leaves the flags and their
\* clocks alone.
LEMMA FlagsUntouched ==
  ASSUME TypeOK, FlagInv,
         \A s \in Ids : Busy(s)' => Busy(s),
         \A s \in Ids : stream'[s].phase = "ended" => stream[s].phase = "ended",
         \A s \in Ids : cache'[IsJudging(s)] = cache[IsJudging(s)],
         UNCHANGED age
  PROVE  FlagInv'
BY DEF FlagInv, FlagClock, FinishedFlagBounded, IsJudging

LEMMA HandlerFlagInv ==
  ASSUME TypeOK, KeyInv, FlagInv, NEW h \in Handlers, Request(h) \/ HandlerStep(h)
  PROVE  FlagInv'
<1> USE DEF dbVars, httpVars
<1>t. /\ handler \in [Handlers -> HandlerRecords] /\ handler[h] \in HandlerRecords
      /\ handler[h].key \in Ids
      /\ stream \in [Ids -> RunRecords] /\ cache \in Caches
      /\ age \in [Ids -> 0..KeyTTL]
  BY DEF TypeOK, HandlerRecords
<1>1. CASE SetJudging(h)
  <2> DEFINE k == handler[h].key
  <2>1. /\ handler[h].pc = "flag"
        /\ cache' = Put(cache, IsJudging(k), <<>>, KeyTTL)
        /\ age' = [age EXCEPT ![k] = 0]
        /\ handler' = [handler EXCEPT ![h].pc = "send"]
        /\ UNCHANGED stream
    BY <1>1 DEF SetJudging
  <2>2. /\ cache'[IsJudging(k)].ttl = KeyTTL /\ age'[k] = 0
        /\ \A s \in Ids \ {k} : cache'[IsJudging(s)] = cache[IsJudging(s)]
        /\ \A s \in Ids \ {k} : age'[s] = age[s]
    BY <1>t, <2>1, KeysDiffer, KeysAreKeys DEF Put, Caches
  <2>3. \A s \in Ids \ {k} : Busy(s)' => Busy(s)
    BY <1>t, <2>1 DEF Busy, Running, HandlerRecords
  <2>4. stream[k] = NoRun
    BY <2>1 DEF KeyInv, KeysOwned, Stored
  <2>5. FlagClock'
    BY <2>2, <2>3, BoundsAssumption DEF FlagInv, FlagClock, IsJudging
  <2>6. FinishedFlagBounded'
    BY <2>1, <2>2, <2>4 DEF FlagInv, FinishedFlagBounded, NoRun, IsJudging
  <2> QED
    BY <2>5, <2>6 DEF FlagInv
<1>2. CASE Send(h)
  <2> DEFINE k == handler[h].key
  <2>1. PICK n \in 0..MaxPoints :
          stream' = [stream EXCEPT ![k] =
            [NoRun EXCEPT !.phase = "running", !.sub = handler[h].sub, !.total = n]]
    BY <1>2 DEF Send
  <2>2. /\ handler[h].pc = "send"
        /\ handler' = [handler EXCEPT ![h] = IdleHandler]
        /\ UNCHANGED <<cache, age>>
    BY <1>2 DEF Send
  <2>3. /\ stream'[k].phase = "running"
        /\ \A s \in Ids \ {k} : stream'[s] = stream[s]
    BY <1>t, <2>1 DEF NoRun
  <2>4. \A s \in Ids : Busy(s)' => Busy(s)
    BY <1>t, <2>2, <2>3 DEF Busy, Running, IdleHandler
  <2> QED
    BY <2>2, <2>3, <2>4, FlagsUntouched DEF IsJudging
<1>3. ASSUME \/ \E u \in Users : InsertSolution(h, u)
             \/ InsertCode(h) \/ InsertFullResult(h) \/ HandlerThrows(h)
             \/ PollCacheResult(h)
             \/ \E s \in AskedIds : PollJudging(h, s) \/ PollNotJudging(h, s)
      PROVE  FlagInv'
  <2>1. UNCHANGED <<cache, stream, age>>
    BY <1>3 DEF InsertSolution, InsertCode, InsertFullResult, HandlerThrows,
                PollCacheResult, PollJudging, PollNotJudging
  <2>2. \A g \in Handlers : handler'[g].pc = "send" => handler'[g] = handler[g]
    BY <1>3, <1>t DEF InsertSolution, InsertCode, InsertFullResult, HandlerThrows,
                PollCacheResult, PollJudging, PollNotJudging, IdleHandler, HandlerRecords
  <2>3. \A s \in Ids : Busy(s)' => Busy(s)
    BY <2>1, <2>2 DEF Busy, Running
  <2> QED
    BY <2>1, <2>3, FlagsUntouched DEF IsJudging
<1> QED
  BY <1>1, <1>2, <1>3 DEF Request, HandlerStep

LEMMA MessageFlagInv ==
  ASSUME TypeOK, KeyInv, FlagInv, NEW s \in Ids, Message(s)
  PROVE  FlagInv'
<1> USE DEF dbVars, httpVars
<1>t. stream \in [Ids -> RunRecords] /\ cache \in Caches
  BY DEF TypeOK
<1>0. PICK w \in Workers : HandleAllSize(w, s) \/ HandlePoint(w, s)
                             \/ HandleAll(w, s) \/ HandleFailed(w, s)
  BY DEF Message
<1>1. /\ stream[s].phase \in {"running", "ended"}
      /\ \A r \in Ids \ {s} : stream'[r] = stream[r]
      /\ UNCHANGED <<handler, age>>
  BY <1>0, <1>t DEF HandleAllSize, HandlePoint, HandleAll, HandleFailed, Running,
                    Answering
\* Only a late point is handled of a run that has ended.
<1>p. ASSUME HandlePoint(w, s) PROVE stream'[s].phase = stream[s].phase
  <2>1. PICK a : stream' = [stream EXCEPT ![s].arrived = a]
    BY <1>p DEF HandlePoint
  <2> QED
    BY <1>t, <2>1 DEF RunRecords
<1>2. \A r \in Ids : Busy(r)' => Busy(r)
  <2>1. stream'[s].phase = "running" => stream[s].phase = "running"
    BY <1>0, <1>p DEF HandleAllSize, HandleAll, HandleFailed, Running
  <2> QED
    BY <1>1, <2>1 DEF Busy, Running
<1>3. CASE HandleAll(w, s)
  <2>1. cache' = Finished(cache, s) /\ stream'[s].phase = "ended"
    BY <1>3, <1>t DEF HandleAll, RunRecords
  \* No thread is about to send under the key of a run that has been sent.
  <2>2. ~Busy(s)'
    <3>1. \A h \in Handlers : handler[h].pc = "send" => handler[h].key # s
      BY <1>1 DEF KeyInv, KeysOwned, Stored, NoRun
    <3> QED
      BY <1>1, <2>1, <3>1 DEF Busy, Running
  <2>3. /\ cache'[IsJudging(s)].ttl <= FinishTTL
        /\ \A r \in Ids \ {s} : cache'[IsJudging(r)] = cache[IsJudging(r)]
    BY <1>t, <2>1, FinishedFlags
  <2>4. FlagClock'
    BY <1>1, <1>2, <2>2, <2>3 DEF FlagInv, FlagClock, IsJudging
  <2>5. FinishedFlagBounded'
    BY <1>1, <2>3 DEF FlagInv, FinishedFlagBounded, IsJudging
  <2> QED
    BY <2>4, <2>5 DEF FlagInv
<1>4. CASE HandleAllSize(w, s) \/ HandlePoint(w, s) \/ HandleFailed(w, s)
  <2>1. \A r \in Ids : cache'[IsJudging(r)] = cache[IsJudging(r)]
    BY <1>4, <1>t, KeysDiffer, KeysAreKeys, PutElsewhere, AppendElsewhere
       DEF HandleAllSize, HandlePoint, HandleFailed
  <2>2. stream'[s].phase = "ended" => stream[s].phase = "ended"
    <3>1. CASE HandlePoint(w, s)
      BY <1>p, <3>1
    <3>2. CASE HandleAllSize(w, s)
      BY <1>t, <3>2 DEF HandleAllSize, RunRecords, Running
    <3>3. CASE HandleFailed(w, s)
      BY <1>t, <3>3, ClosedType DEF HandleFailed, Phases
    <3> QED
      BY <1>4, <3>1, <3>2, <3>3
  <2> QED
    BY <1>1, <1>2, <2>1, <2>2, FlagsUntouched
<1> QED
  BY <1>0, <1>3, <1>4

LEMMA OtherFlagInv ==
  ASSUME TypeOK, KeyInv, FlagInv,
         \/ \E w \in Workers : WorkerStep(w)
         \/ \E s \in Ids : ConnectionLost(s)
         \/ Restart \/ Tick
  PROVE  FlagInv'
<1> USE DEF dbVars, httpVars
<1>t. /\ stream \in [Ids -> RunRecords] /\ cache \in Caches
      /\ age \in [Ids -> 0..KeyTTL]
      /\ KeyTTL \in Nat \ {0} /\ FinishTTL \in Nat
  BY BoundsAssumption DEF TypeOK
<1>1. ASSUME NEW w \in Workers, WorkerStep(w) PROVE FlagInv'
  <2>1. UNCHANGED <<cache, handler, stream, age>>
    BY <1>1 DEF WorkerStep, UpdateSolutions, UpdateFullResults, StatementThrows
  <2> QED
    BY <2>1 DEF FlagInv, FlagClock, FinishedFlagBounded, Busy, Running, IsJudging
<1>2. ASSUME NEW s \in Ids, ConnectionLost(s) PROVE FlagInv'
  <2>1. /\ UNCHANGED <<cache, handler, age>>
        /\ stream'[s].phase = "gone"
        /\ \A r \in Ids \ {s} : stream'[r] = stream[r]
    BY <1>2, <1>t, ClosedType DEF ConnectionLost, Phases
  <2>2. \A r \in Ids : Busy(r)' => Busy(r)
    BY <2>1 DEF Busy, Running
  <2> QED
    BY <2>1, <2>2, FlagsUntouched DEF IsJudging
<1>3. CASE Restart
  <2>1. /\ \A h \in Handlers : handler'[h].pc = "idle"
        /\ \A s \in Ids : cache'[IsJudging(s)].ttl = 0
    BY <1>3, KeysAreKeys DEF Restart, IdleHandler, EmptyCache, Absent
  <2>2. \A s \in Ids : stream'[s].phase # "running"
    BY <1>3, <1>t, ClosedType DEF Restart, Unfinished, Running, Phases
  <2> QED
    BY <1>t, <2>1, <2>2 DEF FlagInv, FlagClock, FinishedFlagBounded, Busy, Running, IsJudging
<1>4. CASE Tick
  <2>1. UNCHANGED <<handler, stream>>
    BY <1>4 DEF Tick
  <2>2. \A s \in Ids :
          /\ cache[IsJudging(s)].ttl \in 0..KeyTTL
          /\ cache'[IsJudging(s)].ttl = IF cache[IsJudging(s)].ttl > 1
                                        THEN cache[IsJudging(s)].ttl - 1 ELSE 0
    BY <1>4, <1>t, AgedType, KeysAreKeys DEF Tick, Caches
  <2>3. \A s \in Ids : Busy(s)' <=> Busy(s)
    BY <2>1 DEF Busy, Running
  <2>4. \A s \in Ids : Busy(s) =>
          /\ age[s] \in 0..KeyTTL
          /\ age'[s] = IF age[s] < KeyTTL THEN age[s] + 1 ELSE age[s]
    BY <1>4, <1>t DEF Tick, InTime
  <2>5. FinishedFlagBounded'
    BY <1>t, <2>1, <2>2 DEF FlagInv, FinishedFlagBounded, IsJudging
  <2>6. FlagClock'
    BY <1>t, <2>2, <2>3, <2>4 DEF FlagInv, FlagClock, IsJudging
  <2> QED
    BY <2>5, <2>6 DEF FlagInv
<1> QED
  BY <1>1, <1>2, <1>3, <1>4

LEMMA StepFlagInv == TypeOK /\ KeyInv /\ FlagInv /\ [Next]_vars => FlagInv'
<1> SUFFICES ASSUME TypeOK, KeyInv, FlagInv, [Next]_vars PROVE FlagInv'
  OBVIOUS
<1>1. CASE UNCHANGED vars
  BY <1>1 DEF vars, dbVars, httpVars, FlagInv, FlagClock, FinishedFlagBounded,
              Busy, Running, IsJudging
<1>2. CASE Next
  BY <1>2, HandlerFlagInv, MessageFlagInv, OtherFlagInv DEF Next
<1> QED
  BY <1>1, <1>2

\* The inductive invariant holds, however long a run takes.
THEOREM FlagsCorrect == Spec => []FlagInv
BY TypeCorrect, KeysCorrect, InitFlagInv, StepFlagInv, PTL DEF Spec

-----------------------------------------------------------------------------
(* What follows *)

\* /judge_result announces an ended run for at most FinishTTL.
THEOREM FinishedFlagsExpire == Spec => []FinishedFlagBounded
BY FlagsCorrect, PTL DEF FlagInv

\* /judge_result announces every run for as long as the flag was set for.
THEOREM FlagsCoverRuns == Spec => []FlagCoversRun
<1>1. TypeOK /\ FlagInv => FlagCoversRun
  <2> SUFFICES ASSUME TypeOK, FlagInv, NEW s \in Ids, Running(s), InTime(s)
               PROVE  Exists(cache, IsJudging(s))
    BY DEF FlagCoversRun
  <2>1. age[s] \in 0..KeyTTL /\ cache[IsJudging(s)].ttl \in Nat /\ age[s] < KeyTTL
    BY KeysAreKeys, BoundsAssumption DEF TypeOK, Caches, InTime
  <2>2. cache[IsJudging(s)].ttl >= KeyTTL - age[s]
    BY DEF FlagInv, FlagClock, Busy
  <2> QED
    BY <2>1, <2>2, BoundsAssumption DEF Exists
<1> QED
  BY <1>1, TypeCorrect, FlagsCorrect, PTL

-----------------------------------------------------------------------------
(* Two looks at the cache *)

\* What a poll that found no flag may not find running at its second look.
Overlooked(s) == Running(s) /\ InTime(s)

\* Only a submission that was sent between the two looks.
PollsCurrent ==
  \A h \in Handlers : BetweenLooks(h) /\ Overlooked(handler[h].key) =>
    handler[h].key \in overtaken[h]

LEMMA InitPollsCurrent == PollInit => PollsCurrent
BY DEF PollInit, Init, PollsCurrent, BetweenLooks, IdleHandler

\* A submission comes to be overlooked by being sent, and in no other way: the
\* clock of a running one does not go back.
LEMMA OverlookedOrSent ==
  ASSUME TypeOK, KeyInv, Next, NEW s \in Ids, Overlooked(s)'
  PROVE  Overlooked(s) \/ s \in Sent
<1> SUFFICES ASSUME Running(s) PROVE InTime(s)
  BY DEF Overlooked, Sent
<1> USE DEF dbVars, httpVars
<1>t. /\ stream \in [Ids -> RunRecords] /\ age \in [Ids -> 0..KeyTTL]
      /\ age'[s] < KeyTTL /\ stream'[s].phase = "running"
  BY DEF TypeOK, Overlooked, InTime, Running
<1>1. ASSUME NEW h \in Handlers, SetJudging(h) PROVE InTime(s)
  <2>1. handler[h].key # s
    BY <1>1 DEF SetJudging, KeyInv, KeysOwned, Stored, NoRun, Running
  <2>2. age'[s] = age[s]
    BY <1>1, <1>t, <2>1 DEF SetJudging
  <2> QED
    BY <1>t, <2>2 DEF InTime
<1>2. CASE Tick
  <2>1. age'[s] = IF ~Busy(s) THEN 0 ELSE IF InTime(s) THEN age[s] + 1 ELSE age[s]
    BY <1>2 DEF Tick
  <2> QED
    BY <1>t, <2>1 DEF Busy, InTime
<1>3. CASE Restart
  BY <1>3, <1>t, ClosedType DEF Restart, Unfinished, Running, Phases
<1>4. CASE UNCHANGED age
  BY <1>t, <1>4 DEF InTime
<1>5. ASSUME NEW h \in Handlers, Request(h) \/ HandlerStep(h), ~SetJudging(h)
      PROVE  UNCHANGED age
  BY <1>5 DEF Request, HandlerStep, InsertSolution, InsertCode, InsertFullResult, Send,
              HandlerThrows, PollCacheResult, PollJudging, PollNotJudging
<1>6. ASSUME \/ \E r \in Ids : Message(r) \/ ConnectionLost(r)
             \/ \E w \in Workers : WorkerStep(w)
      PROVE  UNCHANGED age
  BY <1>6 DEF Message, HandleAllSize, HandlePoint, HandleAll, HandleFailed,
              ConnectionLost, WorkerStep, UpdateSolutions, UpdateFullResults,
              StatementThrows
<1> QED
  BY <1>1, <1>2, <1>3, <1>4, <1>5, <1>6 DEF Next

\* A thread is between its looks because it was, or because it finds no flag now.
LEMMA FirstLook ==
  ASSUME TypeOK, Next, NEW h \in Handlers, BetweenLooks(h)'
  PROVE  \/ BetweenLooks(h) /\ handler'[h] = handler[h]
         \/ ~BetweenLooks(h) /\ \E s \in AskedIds : PollNotJudging(h, s)
<1> USE DEF dbVars, httpVars
<1>t. /\ handler \in [Handlers -> HandlerRecords]
      /\ handler'[h].pc = "cache_result"
  BY DEF TypeOK, BetweenLooks
<1>1. CASE handler'[h] = handler[h]
  BY <1>t, <1>1 DEF BetweenLooks
<1>2. ASSUME NEW g \in Handlers, Request(g) \/ HandlerStep(g),
             ~\E s \in AskedIds : PollNotJudging(h, s)
      PROVE  handler'[h] = handler[h]
  <2>1. ASSUME NEW p, p # "cache_result", handler' = [handler EXCEPT ![g].pc = p]
        PROVE  handler'[h] = handler[h]
    BY <1>t, <2>1 DEF HandlerRecords
  <2>2. ASSUME NEW r, r.pc # "cache_result", handler' = [handler EXCEPT ![g] = r]
        PROVE  handler'[h] = handler[h]
    BY <1>t, <2>2
  <2>3. ASSUME NEW s \in AskedIds, PollNotJudging(g, s)
        PROVE  handler'[h] = handler[h]
    <3>1. g # h
      BY <1>2, <2>3
    <3> QED
      BY <1>t, <2>3, <3>1 DEF PollNotJudging
  <2>4. CASE InsertCode(g) \/ InsertFullResult(g) \/ SetJudging(g)
    BY <2>1, <2>4 DEF InsertCode, InsertFullResult, SetJudging
  <2>5. CASE \/ Send(g) \/ HandlerThrows(g) \/ PollCacheResult(g)
             \/ \E u \in Users : InsertSolution(g, u)
    BY <2>2, <2>5 DEF Send, HandlerThrows, PollCacheResult, InsertSolution, IdleHandler
  <2>6. CASE \E s \in AskedIds : PollJudging(g, s)
    BY <2>6 DEF PollJudging
  <2> QED
    BY <1>2, <2>3, <2>4, <2>5, <2>6 DEF Request, HandlerStep
<1>3. ASSUME \/ \E s \in Ids : Message(s) \/ ConnectionLost(s)
             \/ \E w \in Workers : WorkerStep(w)
             \/ Tick
      PROVE  handler'[h] = handler[h]
  BY <1>3 DEF Message, HandleAllSize, HandlePoint, HandleAll, HandleFailed,
              ConnectionLost, WorkerStep, UpdateSolutions, UpdateFullResults,
              StatementThrows, Tick
<1>4. ~Restart
  BY <1>t DEF Restart, IdleHandler
<1>5. ASSUME NEW s \in AskedIds, PollNotJudging(h, s) PROVE ~BetweenLooks(h)
  BY <1>5 DEF PollNotJudging, BetweenLooks
<1> QED
  BY <1>1, <1>2, <1>3, <1>4, <1>5 DEF Next

LEMMA StepPollsCurrent ==
  TypeOK /\ KeyInv /\ FlagCoversRun /\ PollsCurrent /\ [Next /\ Watch]_pollVars
    => PollsCurrent'
<1> SUFFICES ASSUME TypeOK, KeyInv, FlagCoversRun, PollsCurrent,
                    [Next /\ Watch]_pollVars
             PROVE  PollsCurrent'
  OBVIOUS
<1>1. CASE UNCHANGED pollVars
  BY <1>1 DEF pollVars, vars, dbVars, httpVars, PollsCurrent, BetweenLooks, Overlooked,
              Running, InTime
<1>2. ASSUME Next, Watch, NEW h \in Handlers, BetweenLooks(h)',
             Overlooked(handler[h].key)'
      PROVE  handler'[h].key \in overtaken'[h]
  <2>k. PICK k : k = handler'[h].key
    OBVIOUS
  <2>0. stream'[k].phase = "running" /\ age'[k] < KeyTTL
    BY <1>2, <2>k DEF Overlooked, Running, InTime
  <2>1. CASE BetweenLooks(h) /\ handler'[h] = handler[h]
    <3>1. k \in Ids /\ k = handler[h].key
      BY <2>1, <2>k DEF TypeOK, HandlerRecords
    <3>2. overtaken'[h] = overtaken[h] \union Sent
      BY <1>2, <2>1 DEF Watch
    <3>3. Overlooked(k)'
      BY <2>0 DEF Overlooked, Running, InTime
    <3>4. Overlooked(k) \/ k \in Sent
      BY <1>2, <3>1, <3>3, OverlookedOrSent
    <3> QED
      BY <2>1, <2>k, <3>1, <3>2, <3>4 DEF PollsCurrent
  <2>2. ASSUME NEW s \in AskedIds, PollNotJudging(h, s) PROVE FALSE
    <3>1. s \in Ids /\ k = s /\ UNCHANGED <<stream, age>>
      BY <2>2, <2>k, BoundsAssumption DEF PollNotJudging, TypeOK
    <3>2. ~(Running(s) /\ InTime(s))
      BY <2>2, <3>1 DEF PollNotJudging, FlagCoversRun
    <3> QED
      BY <2>0, <3>1, <3>2 DEF Running, InTime
  <2> QED
    BY <1>2, <2>1, <2>2, FirstLook
<1> QED
  BY <1>1, <1>2 DEF PollsCurrent

\* Only the second look of a poll says that a submission was not found.
LEMMA StepNotFound ==
  ASSUME TypeOK, Next, NEW h \in Handlers,
         reply'[h].kind = "not_found", reply[h].kind # "not_found"
  PROVE  PollCacheResult(h)
<1> USE DEF dbVars, httpVars
<1>t. reply \in [Handlers -> ReplyRecords]
  BY DEF TypeOK
<1>1. ASSUME NEW g \in Handlers, Request(g) \/ HandlerStep(g)
      PROVE  PollCacheResult(h)
  <2>1. CASE PollCacheResult(g)
    BY <2>1, <1>t DEF PollCacheResult
  <2>2. CASE InsertCode(g) \/ InsertFullResult(g) \/ SetJudging(g) \/ HandlerThrows(g)
    <3>1. UNCHANGED reply
      BY <2>2 DEF InsertCode, InsertFullResult, SetJudging, HandlerThrows
    <3> QED
      BY <3>1
  <2>3. CASE \/ Send(g) \/ \E u \in Users : InsertSolution(g, u)
             \/ \E s \in AskedIds : PollJudging(g, s) \/ PollNotJudging(g, s)
    <3>1. PICK a : a.kind # "not_found" /\ reply' = [reply EXCEPT ![g] = a]
      BY <2>3 DEF Send, InsertSolution, NoReply, PollJudging, PollNotJudging
    <3> QED
      BY <1>t, <3>1
  <2> QED
    BY <1>1, <2>1, <2>2, <2>3 DEF Request, HandlerStep
<1>2. CASE \/ \E s \in Ids : Message(s) \/ ConnectionLost(s)
           \/ \E w \in Workers : WorkerStep(w)
           \/ Tick
  <2>1. UNCHANGED reply
    BY <1>2 DEF Message, HandleAllSize, HandlePoint, HandleAll, HandleFailed,
                ConnectionLost, WorkerStep, UpdateSolutions, UpdateFullResults,
                StatementThrows, Tick
  <2> QED
    BY <2>1
<1>3. CASE Restart
  BY <1>3 DEF Restart, NoReply
<1> QED
  BY <1>1, <1>2, <1>3 DEF Next

LEMMA PollsAreSteps == PollSpec => Spec
<1>1. PollInit => Init
  BY DEF PollInit
<1>2. [Next /\ Watch]_pollVars => [Next]_vars
  BY DEF pollVars
<1> QED
  BY <1>1, <1>2, PTL DEF PollSpec, Spec

\* With any number of HTTP threads, NOT_FOUND is said of a running submission only
\* if it was sent between the two looks of the poll, or has outlasted its flag: the
\* flag of any other one is seen, and does not go while it runs.
THEOREM NotFoundIsOver == PollSpec => NotFoundMeansNotRunning
<1>1. TypeOK /\ PollsCurrent /\ [Next /\ Watch]_pollVars
        => [\A h \in Handlers :
              reply'[h].kind = "not_found" /\ reply[h].kind # "not_found"
                => LET s == reply'[h].id IN
                   ~Running(s) \/ ~InTime(s) \/ s \in overtaken[h]]_pollVars
  <2> SUFFICES ASSUME TypeOK, PollsCurrent, Next, NEW h \in Handlers,
                      reply'[h].kind = "not_found", reply[h].kind # "not_found"
               PROVE  LET s == reply'[h].id IN
                      ~Running(s) \/ ~InTime(s) \/ s \in overtaken[h]
    OBVIOUS
  <2>1. PollCacheResult(h)
    BY StepNotFound
  <2>2. reply'[h].id = handler[h].key /\ BetweenLooks(h)
    BY <2>1 DEF PollCacheResult, BetweenLooks, TypeOK
  <2> QED
    BY <2>2 DEF PollsCurrent, Overlooked
<1> QED
  BY PollsAreSteps, TypeCorrect, KeysCorrect, FlagsCoverRuns, InitPollsCurrent,
     StepPollsCurrent, <1>1, PTL DEF PollSpec, NotFoundMeansNotRunning
=============================================================================
