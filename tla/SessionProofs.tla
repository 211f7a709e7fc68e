--------------------------- MODULE SessionProofs ----------------------------
(***************************************************************************)
(* What holds of module Session for any number of threads, users and       *)
(* logins, any two lives of a session and any length of a request.         *)
(***************************************************************************)
EXTENDS SessionLogout, SequenceTheorems, TLAPS

-----------------------------------------------------------------------------
(* The inductive invariant *)

RowRecords == [user : Users, left : 0..LogLife]
HandlerRecords ==
  [pc : PCs, op : Ops, sess : LogIds \union {NoCookie},
   user : Users \union {NoRow}, left : 0..LogLife, late : 0..RequestDelay]
ReplyRecords ==
  [kind : Kinds, sess : LogIds \union {NoCookie}, user : Users \union {NoRow}]
Caches == [LogIds -> [val : Seq(Users), ttl : Nat]]

Logged(s) == s \in LogIds /\ logs[s] # NoRow

\* The row of a session that an answer may name.
Known(s) == s = NoCookie \/ Logged(s)

\* Rows are filled in the order of their numbers, and never twice.
RowsCounted == \A s \in LogIds : logs[s] # NoRow <=> s < nextLog

SessionsLogged == \A s \in handedOut : Logged(s)

\* What is cached for a session is its row's user, and not for much longer.
EntryFits(c, s) ==
  Exists(c, s) => /\ Logged(s)
                  /\ c[s].val = <<logs[s].user>>
                  /\ c[s].ttl <= logs[s].left + RequestDelay + Overhang

\* A thread about to fill the cache has the row's user, and the time it will
\* give the entry was the row's `late` units ago.
ThreadFits(t) ==
  /\ t.pc = "query" => Logged(t.sess)
  /\ t.pc = "add_log" => t.user \in Users
  /\ t.pc \in {"recache", "cache_session"} =>
       /\ Logged(t.sess)
       /\ t.user = logs[t.sess].user
       /\ (IF t.pc = "recache" THEN t.left ELSE LogLife) <= logs[t.sess].left + t.late

AnswerFits(a) ==
  /\ Known(a.sess)
  /\ a.kind \in {"ok", "already_logined"} => Logged(a.sess) /\ a.user = logs[a.sess].user
  /\ a.kind = "need_login" /\ a.sess # NoCookie => logs[a.sess].left = 0

SessionInv ==
  /\ RowsCounted
  /\ SessionsLogged
  /\ \A s \in LogIds : EntryFits(cache, s)
  /\ \A h \in Handlers : ThreadFits(handler[h]) /\ AnswerFits(reply[h])

LEMMA TypeUnfolded ==
  TypeOK <=> /\ logs \in [LogIds -> RowRecords \union {NoRow}]
             /\ nextLog \in 1..(MaxLogins + 1)
             /\ cache \in Caches
             /\ handler \in [Handlers -> HandlerRecords]
             /\ reply \in [Handlers -> ReplyRecords]
             /\ handedOut \subseteq LogIds
BY DEF TypeOK, RowRecords, HandlerRecords, ReplyRecords, Caches

LEMMA ConstantFacts ==
  /\ MaxLogins \in Nat /\ RequestDelay \in Nat /\ LogLife \in Nat /\ LogLife > 0
  /\ SessionExpire \in Nat /\ SessionExpire > 0
  /\ Overhang \in Nat /\ SessionExpire <= LogLife + Overhang
  /\ NoRow \notin RowRecords
  /\ NoCookie \notin LogIds
BY SessionBounds, NoRowAssumption DEF Overhang, RowRecords, NoCookie, LogIds

LEMMA IdleTypes ==
  /\ Idle \in HandlerRecords /\ NoReply \in ReplyRecords
  /\ ThreadFits(Idle) /\ AnswerFits(NoReply)
BY ConstantFacts DEF Idle, NoReply, Answer, HandlerRecords, ReplyRecords, PCs, Ops, Kinds,
   ThreadFits, AnswerFits, Known

LEMMA EmptyCacheFits ==
  /\ EmptyCache(LogIds) \in Caches
  /\ \A s \in LogIds : ~Exists(EmptyCache(LogIds), s)
BY EmptySeq DEF EmptyCache, Absent, Caches, Exists

LEMMA InitInv == Init => TypeOK /\ SessionInv
<1> SUFFICES ASSUME Init PROVE TypeOK /\ SessionInv
  OBVIOUS
<1>1. TypeOK
  BY ConstantFacts, IdleTypes, EmptyCacheFits, TypeUnfolded DEF Init
<1>2. \A h \in Handlers : ThreadFits(handler[h]) /\ AnswerFits(reply[h])
  BY IdleTypes DEF Init
<1>3. RowsCounted /\ SessionsLogged /\ \A s \in LogIds : EntryFits(cache, s)
  BY EmptyCacheFits DEF Init, RowsCounted, SessionsLogged, EntryFits, LogIds
<1> QED
  BY <1>1, <1>2, <1>3 DEF SessionInv

-----------------------------------------------------------------------------
(* Steps of a thread that write no row: what the thread becomes, what it    *)
(* answers and what it leaves in the cache must each fit the rows.          *)

LEMMA ThreadMoves ==
  ASSUME TypeOK, SessionInv, NEW h \in Handlers,
         NEW t \in HandlerRecords, ThreadFits(t),
         NEW a \in ReplyRecords, AnswerFits(a),
         handler' = [handler EXCEPT ![h] = t],
         reply' = [reply EXCEPT ![h] = a],
         cache' \in Caches, \A s \in LogIds : EntryFits(cache', s),
         \A s \in handedOut' : Logged(s),
         UNCHANGED <<logs, nextLog>>
  PROVE  TypeOK' /\ SessionInv'
<1>t. /\ handler \in [Handlers -> HandlerRecords] /\ reply \in [Handlers -> ReplyRecords]
      /\ logs \in [LogIds -> RowRecords \union {NoRow}] /\ nextLog \in 1..(MaxLogins + 1)
  BY TypeUnfolded
<1>1. /\ handler' \in [Handlers -> HandlerRecords] /\ reply' \in [Handlers -> ReplyRecords]
      /\ handedOut' \subseteq LogIds
  BY <1>t DEF Logged
<1>2. TypeOK'
  BY <1>t, <1>1 DEF TypeOK, RowRecords, HandlerRecords, ReplyRecords, Caches
<1>3. ASSUME NEW g \in Handlers
      PROVE  ThreadFits(handler'[g]) /\ AnswerFits(reply'[g])
  BY <1>t DEF SessionInv
<1>4. \A g \in Handlers : ThreadFits(handler[g])' /\ AnswerFits(reply[g])'
  BY <1>3 DEF ThreadFits, AnswerFits, Known, Logged
<1>5. \A s \in LogIds : EntryFits(cache, s)'
  BY DEF EntryFits, Exists, Logged
<1>6. RowsCounted' /\ SessionsLogged'
  BY DEF SessionInv, RowsCounted, SessionsLogged, Logged
<1> QED
  BY <1>2, <1>4, <1>5, <1>6 DEF SessionInv

LEMMA CacheKept ==
  ASSUME TypeOK, SessionInv
  PROVE  cache \in Caches /\ \A s \in LogIds : EntryFits(cache, s)
BY TypeUnfolded DEF SessionInv

LEMMA PutFits ==
  ASSUME TypeOK, SessionInv, NEW s, Logged(s), NEW ttl \in Nat,
         ttl <= logs[s].left + RequestDelay + Overhang
  PROVE  /\ Put(cache, s, <<logs[s].user>>, ttl) \in Caches
         /\ \A r \in LogIds : EntryFits(Put(cache, s, <<logs[s].user>>, ttl), r)
<1> DEFINE c == Put(cache, s, <<logs[s].user>>, ttl)
           entry == [val |-> <<logs[s].user>>, ttl |-> ttl]
<1>1. s \in LogIds /\ logs[s].user \in Users
  BY TypeUnfolded DEF Logged, RowRecords
<1>2. entry \in [val : Seq(Users), ttl : Nat]
  BY <1>1
<1>3. c = [cache EXCEPT ![s] = entry] /\ cache \in Caches
  BY CacheKept DEF Put
<1>4. c \in Caches /\ c[s] = entry /\ \A r \in LogIds \ {s} : c[r] = cache[r]
  BY <1>1, <1>2, <1>3 DEF Caches
<1>5. ASSUME NEW r \in LogIds PROVE EntryFits(c, r)
  <2> HIDE DEF c
  <2> QED
    BY <1>4, CacheKept DEF EntryFits, Exists
<1> QED
  BY <1>4, <1>5

LEMMA DelFits ==
  ASSUME TypeOK, SessionInv, NEW s \in LogIds
  PROVE  /\ Del(cache, s) \in Caches
         /\ \A r \in LogIds : EntryFits(Del(cache, s), r)
<1>1. Absent \in [val : Seq(Users), ttl : Nat] /\ ~(Absent.ttl > 0)
  BY EmptySeq DEF Absent
<1>2. cache \in Caches
  BY CacheKept
<1>3. /\ Del(cache, s) \in Caches /\ Del(cache, s)[s] = Absent
      /\ \A r \in LogIds \ {s} : Del(cache, s)[r] = cache[r]
  BY <1>1, <1>2 DEF Del, Caches
<1> QED
  BY <1>1, <1>3, CacheKept DEF EntryFits, Exists

\* Admit, Refuse: what the check before a route answers.
LEMMA AdmitMoves ==
  ASSUME TypeOK, SessionInv, NEW h \in Handlers, NEW op \in Ops,
         NEW s, Logged(s), Admit(h, op, s, logs[s].user),
         cache' \in Caches, \A r \in LogIds : EntryFits(cache', r),
         UNCHANGED <<logs, nextLog, handedOut>>
  PROVE  TypeOK' /\ SessionInv'
<1> DEFINE a == Answer(IF op = "use" THEN "ok" ELSE "already_logined", s, logs[s].user)
<1>1. s \in LogIds /\ logs[s].user \in Users
  BY TypeUnfolded DEF Logged, RowRecords
<1>2. a \in ReplyRecords
  BY <1>1 DEF Answer, ReplyRecords, Kinds
<1>3. AnswerFits(a)
  BY DEF Answer, AnswerFits, Known
<1>4. handler' = [handler EXCEPT ![h] = Idle] /\ reply' = [reply EXCEPT ![h] = a]
  BY DEF Admit
<1>5. \A r \in handedOut' : Logged(r)
  BY DEF SessionInv, SessionsLogged
<1> HIDE DEF a
<1> QED
  BY <1>2, <1>3, <1>4, <1>5, IdleTypes, ThreadMoves

LEMMA RefuseMoves ==
  ASSUME TypeOK, SessionInv, NEW h \in Handlers, NEW op \in Ops,
         NEW s, Known(s), s # NoCookie => logs[s].left = 0, Refuse(h, op, s),
         UNCHANGED <<logs, nextLog, cache, handedOut>>
  PROVE  TypeOK' /\ SessionInv'
<1> DEFINE a == Answer("need_login", s, NoRow)
           t == [Idle EXCEPT !.pc = "credentials", !.op = "login"]
<1>1. a \in ReplyRecords /\ AnswerFits(a)
  BY DEF Answer, ReplyRecords, Kinds, AnswerFits, Known, Logged
<1>2. t \in HandlerRecords /\ ThreadFits(t)
  BY IdleTypes DEF HandlerRecords, PCs, Ops, ThreadFits, Idle
<1>3. \/ handler' = [handler EXCEPT ![h] = Idle] /\ reply' = [reply EXCEPT ![h] = a]
      \/ handler' = [handler EXCEPT ![h] = t] /\ reply' = [reply EXCEPT ![h] = NoReply]
  BY DEF Refuse
<1>4. \A r \in handedOut' : Logged(r)
  BY DEF SessionInv, SessionsLogged
<1>5. cache' \in Caches /\ \A r \in LogIds : EntryFits(cache', r)
  BY CacheKept
<1> HIDE DEF a, t
<1> QED
  BY <1>1, <1>2, <1>3, <1>4, <1>5, IdleTypes, ThreadMoves

-----------------------------------------------------------------------------
(* Each action preserves the invariant *)

LEMMA RequestInv ==
  ASSUME TypeOK, SessionInv, NEW h \in Handlers, Request(h)
  PROVE  TypeOK' /\ SessionInv'
<1>t. /\ handler \in [Handlers -> HandlerRecords] /\ reply \in [Handlers -> ReplyRecords]
      /\ cache \in Caches
  BY TypeUnfolded
<1>h. handler[h] \in HandlerRecords /\ ThreadFits(handler[h])
  BY <1>t DEF SessionInv
<1>o. \A s \in handedOut : Logged(s)
  BY DEF SessionInv, SessionsLogged
<1>1. ASSUME NEW op \in Ops, RequestWithoutCookie(h, op)
      PROVE  TypeOK' /\ SessionInv'
  BY <1>1, RefuseMoves DEF RequestWithoutCookie, Known
<1>2. ASSUME NEW op \in Ops, NEW s \in handedOut, CacheHit(h, op, s)
      PROVE  TypeOK' /\ SessionInv'
  <2>1. Logged(s) /\ cache[s].val = <<logs[s].user>>
    BY <1>2, <1>o, CacheKept DEF CacheHit, EntryFits, Logged
  <2>2. cache[s].val[1] = logs[s].user
    BY <2>1
  <2> QED
    BY <1>2, <2>1, <2>2, CacheKept, AdmitMoves DEF CacheHit
<1>3. ASSUME NEW op \in Ops, NEW s \in handedOut, CacheMiss(h, op, s)
      PROVE  TypeOK' /\ SessionInv'
  <2> DEFINE q == [Idle EXCEPT !.pc = "query", !.op = op, !.sess = s]
  <2>1. q \in HandlerRecords /\ q.pc = "query" /\ q.sess = s
    BY <1>o, IdleTypes DEF HandlerRecords, PCs, Logged
  <2>2. ThreadFits(q)
    <3> HIDE DEF q
    <3> QED
      BY <1>o, <2>1 DEF ThreadFits
  <2>3. handler' = [handler EXCEPT ![h] = q] /\ reply' = [reply EXCEPT ![h] = NoReply]
    BY <1>3 DEF CacheMiss
  <2>4. UNCHANGED <<logs, nextLog, cache, handedOut>>
    BY <1>3 DEF CacheMiss
  <2> HIDE DEF q
  <2> QED
    BY <1>o, <2>1, <2>2, <2>3, <2>4, IdleTypes, CacheKept, ThreadMoves
<1>4. ASSUME LogoutWithoutCookie(h)
      PROVE  TypeOK' /\ SessionInv'
  <2> DEFINE a == Answer("not_logined", NoCookie, NoRow)
  <2>1. a \in ReplyRecords /\ AnswerFits(a)
    BY DEF Answer, ReplyRecords, Kinds, AnswerFits, Known
  <2>2. handler' = [handler EXCEPT ![h] = handler[h]] /\ reply' = [reply EXCEPT ![h] = a]
    BY <1>t, <1>4 DEF LogoutWithoutCookie
  <2>3. UNCHANGED <<logs, nextLog, cache, handedOut>>
    BY <1>4 DEF LogoutWithoutCookie
  <2> HIDE DEF a
  <2> QED
    BY <1>h, <1>o, <2>1, <2>2, <2>3, CacheKept, ThreadMoves
<1>5. ASSUME NEW s \in handedOut, Logout(h, s)
      PROVE  TypeOK' /\ SessionInv'
  <2> DEFINE a == Answer("logged_out", s, NoRow)
  <2>1. Logged(s) /\ s \in LogIds
    BY <1>o DEF Logged
  <2>2. a \in ReplyRecords /\ AnswerFits(a)
    BY <2>1 DEF Answer, ReplyRecords, Kinds, AnswerFits, Known
  <2>3. handler' = [handler EXCEPT ![h] = handler[h]] /\ reply' = [reply EXCEPT ![h] = a]
    BY <1>t, <1>5 DEF Logout
  <2>4. cache' = Del(cache, s) /\ UNCHANGED <<logs, nextLog, handedOut>>
    BY <1>5 DEF Logout
  <2>5. cache' \in Caches /\ \A r \in LogIds : EntryFits(cache', r)
    BY <2>1, <2>4, DelFits
  <2> HIDE DEF a
  <2> QED
    BY <1>h, <1>o, <2>2, <2>3, <2>4, <2>5, ThreadMoves
<1> QED
  BY <1>1, <1>2, <1>3, <1>4, <1>5 DEF Request, Ops

\* What exist_and_NoExpired has found goes into the thread.
Found(r, u, n) == [r EXCEPT !.pc = "recache", !.user = u, !.left = n, !.late = 0]

LEMMA FoundFields ==
  ASSUME NEW r \in HandlerRecords, NEW u \in Users, NEW n \in 0..LogLife
  PROVE  /\ Found(r, u, n) \in HandlerRecords /\ Found(r, u, n).pc = "recache"
         /\ Found(r, u, n).sess = r.sess /\ Found(r, u, n).user = u
         /\ Found(r, u, n).left = n /\ Found(r, u, n).late = 0
<1>1. 0 \in 0..RequestDelay
  BY ConstantFacts
<1> QED
  BY <1>1 DEF Found, HandlerRecords, PCs

LEMMA CheckInv ==
  ASSUME TypeOK, SessionInv, NEW h \in Handlers, QueryLog(h) \/ Recache(h)
  PROVE  TypeOK' /\ SessionInv'
<1> DEFINE r == handler[h]
<1>t. /\ handler \in [Handlers -> HandlerRecords] /\ reply \in [Handlers -> ReplyRecords]
      /\ logs \in [LogIds -> RowRecords \union {NoRow}]
  BY TypeUnfolded
<1>h. r \in HandlerRecords /\ ThreadFits(r)
  BY <1>t DEF SessionInv
<1>o. \A s \in handedOut : Logged(s)
  BY DEF SessionInv, SessionsLogged
<1>1. CASE QueryLog(h)
  <2>1. r.pc = "query" /\ UNCHANGED <<logs, nextLog, cache, handedOut>>
    BY <1>1 DEF QueryLog
  <2>2. Logged(r.sess) /\ logs[r.sess] \in RowRecords
    BY <1>t, <1>h, <2>1 DEF ThreadFits, Logged
  <2>3. CASE logs[r.sess].left > 0
    <3> DEFINE q == Found(r, logs[r.sess].user, logs[r.sess].left)
    <3>1. logs[r.sess].user \in Users /\ logs[r.sess].left \in 0..LogLife
      BY <2>2 DEF RowRecords
    <3>2. /\ q \in HandlerRecords /\ q.pc = "recache" /\ q.sess = r.sess
          /\ q.user = logs[r.sess].user /\ q.left = logs[r.sess].left /\ q.late = 0
      BY <1>h, <3>1, FoundFields
    <3>3. ThreadFits(q)
      <4> HIDE DEF q
      <4> QED
        BY <2>2, <3>1, <3>2, ConstantFacts DEF ThreadFits
    <3>4. handler' = [handler EXCEPT ![h] = q] /\ reply' = [reply EXCEPT ![h] = reply[h]]
      BY <1>t, <1>1, <2>3 DEF QueryLog, Found
    <3>5. reply[h] \in ReplyRecords /\ AnswerFits(reply[h])
      BY <1>t DEF SessionInv
    <3> HIDE DEF q, r
    <3> QED
      BY <1>o, <2>1, <3>2, <3>3, <3>4, <3>5, CacheKept, ThreadMoves
  <2>4. CASE ~(logs[r.sess].left > 0)
    <3>1. Refuse(h, r.op, r.sess)
      BY <1>1, <2>4 DEF QueryLog
    <3>2. r.op \in Ops
      BY <1>h DEF HandlerRecords
    <3>3. logs[r.sess].left = 0
      BY <2>2, <2>4, ConstantFacts DEF RowRecords
    <3> HIDE DEF r
    <3> QED
      BY <2>1, <2>2, <3>1, <3>2, <3>3, RefuseMoves DEF Known
  <2> QED
    BY <2>3, <2>4
<1>2. CASE Recache(h)
  <2>1. /\ r.pc = "recache" /\ UNCHANGED <<logs, nextLog, handedOut>>
        /\ cache' = Put(cache, r.sess, <<r.user>>, r.left)
        /\ Admit(h, r.op, r.sess, r.user)
    BY <1>2 DEF Recache, SessionOf, TimeLeft
  <2>2. /\ Logged(r.sess) /\ r.user = logs[r.sess].user
        /\ r.left <= logs[r.sess].left + r.late
    BY <1>h, <2>1 DEF ThreadFits
  <2>3. /\ r.left \in Nat /\ r.late \in 0..RequestDelay /\ r.op \in Ops
        /\ logs[r.sess].left \in Nat
    BY <1>t, <1>h, <2>2, ConstantFacts DEF HandlerRecords, Logged, RowRecords
  <2>4. r.left <= logs[r.sess].left + RequestDelay + Overhang
    BY <2>2, <2>3, ConstantFacts
  <2>5. cache' \in Caches /\ \A s \in LogIds : EntryFits(cache', s)
    BY <2>1, <2>2, <2>3, <2>4, PutFits
  <2> HIDE DEF r
  <2> QED
    BY <2>1, <2>2, <2>3, <2>5, AdmitMoves
<1> QED
  BY <1>1, <1>2

\* The steps of a login that write no row.
LEMMA LoginInv ==
  ASSUME TypeOK, SessionInv, NEW h \in Handlers,
         CheckCredentials(h) \/ CacheSession(h) \/ StatementThrows(h)
  PROVE  TypeOK' /\ SessionInv'
<1> DEFINE r == handler[h]
<1>t. /\ handler \in [Handlers -> HandlerRecords] /\ reply \in [Handlers -> ReplyRecords]
      /\ logs \in [LogIds -> RowRecords \union {NoRow}]
  BY TypeUnfolded
<1>h. r \in HandlerRecords /\ ThreadFits(r)
  BY <1>t DEF SessionInv
<1>r. reply[h] \in ReplyRecords /\ AnswerFits(reply[h]) /\ reply = [reply EXCEPT ![h] = reply[h]]
  BY <1>t DEF SessionInv
<1>o. \A s \in handedOut : Logged(s)
  BY DEF SessionInv, SessionsLogged
<1>1. CASE CheckCredentials(h)
  <2>1. r.pc = "credentials" /\ UNCHANGED <<logs, nextLog, cache, handedOut>>
    BY <1>1 DEF CheckCredentials
  <2>2. ASSUME NEW u \in Users, UNCHANGED reply,
               handler' = [handler EXCEPT ![h].pc = "add_log", ![h].user = u]
        PROVE  TypeOK' /\ SessionInv'
    <3> DEFINE q == [r EXCEPT !.pc = "add_log", !.user = u]
    <3>1. q \in HandlerRecords /\ q.pc = "add_log" /\ q.user = u
      BY <1>h DEF HandlerRecords, PCs
    <3>2. handler' = [handler EXCEPT ![h] = q]
      BY <1>t, <2>2
    <3> HIDE DEF q
    <3>3. ThreadFits(q)
      BY <3>1 DEF ThreadFits
    <3>4. reply' = [reply EXCEPT ![h] = reply[h]]
      BY <1>r, <2>2
    <3> QED
      BY <1>r, <1>o, <2>1, <3>1, <3>2, <3>3, <3>4, CacheKept, ThreadMoves
  <2>3. ASSUME handler' = [handler EXCEPT ![h] = Idle],
               reply' = [reply EXCEPT ![h] = Answer("wrong_password", NoCookie, NoRow)]
        PROVE  TypeOK' /\ SessionInv'
    <3> DEFINE a == Answer("wrong_password", NoCookie, NoRow)
    <3>1. a \in ReplyRecords /\ AnswerFits(a)
      BY DEF Answer, ReplyRecords, Kinds, AnswerFits, Known
    <3>2. reply' = [reply EXCEPT ![h] = a]
      BY <2>3
    <3> HIDE DEF a
    <3> QED
      BY <1>o, <2>1, <2>3, <3>1, <3>2, IdleTypes, CacheKept, ThreadMoves
  <2> QED
    BY <1>1, <2>2, <2>3 DEF CheckCredentials
<1>2. CASE CacheSession(h)
  <2> DEFINE a == Answer("logged_in", r.sess, r.user)
  <2>1. /\ r.pc = "cache_session" /\ UNCHANGED <<logs, nextLog>>
        /\ cache' = Put(cache, r.sess, <<r.user>>, SessionExpire)
        /\ handedOut' = handedOut \union {r.sess}
        /\ handler' = [handler EXCEPT ![h] = Idle] /\ reply' = [reply EXCEPT ![h] = a]
    BY <1>2 DEF CacheSession, SessionOf
  <2>2. /\ Logged(r.sess) /\ r.user = logs[r.sess].user
        /\ LogLife <= logs[r.sess].left + r.late
    BY <1>h, <2>1 DEF ThreadFits
  <2>3. r.late \in 0..RequestDelay /\ logs[r.sess].left \in Nat
    BY <1>t, <1>h, <2>2, ConstantFacts DEF HandlerRecords, Logged, RowRecords
  <2>4. SessionExpire <= logs[r.sess].left + RequestDelay + Overhang
    BY <2>2, <2>3, ConstantFacts
  <2>5. cache' \in Caches /\ \A s \in LogIds : EntryFits(cache', s)
    BY <2>1, <2>2, <2>4, PutFits, ConstantFacts
  <2>6. a \in ReplyRecords /\ AnswerFits(a)
    BY <1>h, <2>2 DEF Answer, ReplyRecords, HandlerRecords, Kinds, AnswerFits, Known
  <2>7. \A s \in handedOut' : Logged(s)
    BY <1>o, <2>1, <2>2
  <2> HIDE DEF a, r
  <2> QED
    BY <2>1, <2>5, <2>6, <2>7, IdleTypes, ThreadMoves
<1>3. CASE StatementThrows(h)
  <2>1. /\ handler' = [handler EXCEPT ![h] = Idle]
        /\ UNCHANGED <<logs, nextLog, cache, reply, handedOut>>
    BY <1>3 DEF StatementThrows
  <2>2. reply' = [reply EXCEPT ![h] = reply[h]]
    BY <1>r, <2>1
  <2> QED
    BY <1>r, <1>o, <2>1, <2>2, IdleTypes, CacheKept, ThreadMoves
<1> QED
  BY <1>1, <1>2, <1>3

LEMMA AddLogInv ==
  ASSUME TypeOK, SessionInv, NEW h \in Handlers, AddLog(h)
  PROVE  TypeOK' /\ SessionInv'
<1> DEFINE r == handler[h]
           n == nextLog
           row == [user |-> r.user, left |-> LogLife]
           q == [r EXCEPT !.pc = "cache_session", !.sess = n, !.late = 0]
<1>t. /\ handler \in [Handlers -> HandlerRecords] /\ reply \in [Handlers -> ReplyRecords]
      /\ logs \in [LogIds -> RowRecords \union {NoRow}] /\ cache \in Caches
      /\ nextLog \in 1..(MaxLogins + 1) /\ handedOut \subseteq LogIds
  BY TypeUnfolded
<1>1. /\ r.pc = "add_log" /\ n \in LogIds /\ n + 1 \in 1..(MaxLogins + 1)
      /\ logs' = [logs EXCEPT ![n] = row] /\ nextLog' = n + 1
      /\ UNCHANGED <<cache, reply, handedOut>>
  BY <1>t, ConstantFacts DEF AddLog, LogIds
<1>2. handler' = [handler EXCEPT ![h] = q]
  BY <1>t DEF AddLog
<1>3. r \in HandlerRecords /\ r.user \in Users
  BY <1>t, <1>1 DEF SessionInv, ThreadFits
<1>4. row \in RowRecords
  BY <1>3, ConstantFacts DEF RowRecords
<1>5. /\ q \in HandlerRecords /\ q.pc = "cache_session"
      /\ q.sess = n /\ q.user = r.user /\ q.late = 0
  <2>1. n \in LogIds \union {NoCookie} /\ 0 \in 0..RequestDelay
    BY <1>1, ConstantFacts
  <2> HIDE DEF r, n
  <2> QED
    BY <1>3, <2>1 DEF HandlerRecords, PCs
<1>6. logs[n] = NoRow
  BY <1>t, <1>1 DEF SessionInv, RowsCounted
<1>7. /\ logs' \in [LogIds -> RowRecords \union {NoRow}]
      /\ logs'[n] = row /\ row # NoRow
      /\ \A s \in LogIds \ {n} : logs'[s] = logs[s]
  <2> HIDE DEF row, n
  <2> QED
    BY <1>t, <1>1, <1>4, ConstantFacts
<1>8. \A s : Logged(s) => Logged(s)' /\ logs'[s] = logs[s]
  BY <1>6, <1>7 DEF Logged
<1>9. handler' \in [Handlers -> HandlerRecords]
  <2> HIDE DEF q
  <2> QED
    BY <1>t, <1>2, <1>5
<1>10. TypeOK'
  BY <1>t, <1>1, <1>7, <1>9 DEF TypeOK, RowRecords, HandlerRecords, ReplyRecords, Caches
<1>11. RowsCounted'
  <2>1. ASSUME NEW s \in LogIds PROVE logs'[s] # NoRow <=> s < n + 1
    BY <1>t, <1>1, <1>7, ConstantFacts DEF SessionInv, RowsCounted, LogIds
  <2> QED
    BY <1>1, <2>1 DEF RowsCounted
<1>12. SessionsLogged' /\ \A s \in LogIds : EntryFits(cache, s)'
  BY <1>1, <1>8 DEF SessionInv, SessionsLogged, EntryFits, Exists
<1>13. \A g \in Handlers : AnswerFits(reply[g])'
  <2>1. \A a : AnswerFits(a) => AnswerFits(a)'
    BY <1>8 DEF AnswerFits, Known
  <2> QED
    BY <1>1, <2>1 DEF SessionInv
<1>14. \A g \in Handlers : ThreadFits(handler[g])'
  <2>1. \A t : ThreadFits(t) => ThreadFits(t)'
    BY <1>8 DEF ThreadFits
  <2>2. PICK m \in LogIds, u \in Users : m = n /\ u = r.user
    BY <1>1, <1>3
  <2>3. logs'[m] # NoRow /\ logs'[m].user = u /\ logs'[m].left = LogLife
    BY <1>7, <2>2
  <2>6. \A t : t.pc = "cache_session" /\ t.sess = m /\ t.user = u /\ t.late = 0
          => ThreadFits(t)'
    BY <2>2, <2>3, ConstantFacts DEF ThreadFits, Logged
  <2> HIDE DEF q
  <2>4. \A g \in Handlers : handler'[g] = IF g = h THEN q ELSE handler[g]
    BY <1>t, <1>2
  <2>5. ASSUME NEW g \in Handlers PROVE ThreadFits(handler[g])'
    <3>1. CASE g = h
      BY <1>5, <2>2, <2>6, <2>4, <3>1
    <3>2. CASE g # h
      BY <2>1, <2>4, <3>2 DEF SessionInv
    <3> QED
      BY <3>1, <3>2
  <2> QED
    BY <2>5
<1> HIDE DEF r, n, row, q
<1> QED
  BY <1>10, <1>11, <1>12, <1>13, <1>14 DEF SessionInv

LEMMA RestartInv ==
  ASSUME TypeOK, SessionInv, Restart
  PROVE  TypeOK' /\ SessionInv'
<1>1. UNCHANGED <<logs, nextLog, handedOut>>
  BY DEF Restart
<1>2. cache' \in Caches /\ \A s \in LogIds : ~Exists(cache', s)
  BY EmptyCacheFits DEF Restart
<1>3. /\ handler' \in [Handlers -> HandlerRecords] /\ reply' \in [Handlers -> ReplyRecords]
      /\ \A h \in Handlers : ThreadFits(handler'[h]) /\ AnswerFits(reply'[h])
  BY IdleTypes DEF Restart
<1>4. \A h \in Handlers : ThreadFits(handler[h])' /\ AnswerFits(reply[h])'
  BY <1>1, <1>3 DEF ThreadFits, AnswerFits, Known, Logged
<1>5. TypeOK'
  BY <1>1, <1>2, <1>3 DEF TypeOK, HandlerRecords, ReplyRecords, Caches
<1>6. RowsCounted' /\ SessionsLogged' /\ \A s \in LogIds : EntryFits(cache, s)'
  BY <1>1, <1>2 DEF SessionInv, RowsCounted, SessionsLogged, EntryFits, Exists, Logged
<1> QED
  BY <1>4, <1>5, <1>6 DEF SessionInv

\* A row keeps its user and loses at most one unit of time.
LEMMA RowsAge ==
  ASSUME TypeOK, Tick
  PROVE  /\ logs' \in [LogIds -> RowRecords \union {NoRow}]
         /\ \A s \in LogIds :
              /\ logs'[s] = NoRow <=> logs[s] = NoRow
              /\ logs[s] # NoRow =>
                   /\ logs'[s].user = logs[s].user
                   /\ logs'[s].left = IF logs[s].left = 0 THEN 0 ELSE logs[s].left - 1
<1> DEFINE aged(s) == IF logs[s] = NoRow \/ logs[s].left = 0 THEN logs[s]
                      ELSE [logs[s] EXCEPT !.left = @ - 1]
<1>1. logs' = [s \in LogIds |-> aged(s)]
  BY DEF Tick
<1>2. ASSUME NEW s \in LogIds, logs[s] # NoRow
      PROVE  /\ aged(s) \in RowRecords /\ aged(s).user = logs[s].user
             /\ aged(s).left = IF logs[s].left = 0 THEN 0 ELSE logs[s].left - 1
  <2>1. logs[s] \in RowRecords
    BY <1>2, TypeUnfolded
  <2>2. logs[s].left # 0 => logs[s].left - 1 \in 0..LogLife
    BY <2>1, ConstantFacts DEF RowRecords
  <2>3. CASE logs[s].left # 0
    <3>1. aged(s) = [logs[s] EXCEPT !.left = logs[s].left - 1]
      BY <1>2, <2>3
    <3> HIDE DEF aged
    <3> QED
      BY <2>1, <2>2, <2>3, <3>1 DEF RowRecords
  <2> QED
    BY <2>1, <2>3
<1>3. \A s \in LogIds : logs[s] = NoRow => aged(s) = NoRow
  OBVIOUS
<1> HIDE DEF aged
<1> QED
  BY <1>1, <1>2, <1>3, ConstantFacts

LEMMA AgedEntry ==
  ASSUME TypeOK, SessionInv
  PROVE  /\ Aged(cache) \in Caches
         /\ \A s \in LogIds : Exists(Aged(cache), s) =>
              /\ Exists(cache, s) /\ Aged(cache)[s].val = cache[s].val
              /\ Aged(cache)[s].ttl = cache[s].ttl - 1
<1> DEFINE one(s) == IF cache[s].ttl > 1 THEN [cache[s] EXCEPT !.ttl = @ - 1] ELSE Absent
<1>1. Aged(cache) = [s \in LogIds |-> one(s)]
  BY CacheKept DEF Aged, Caches
<1>2. ASSUME NEW s \in LogIds
      PROVE  /\ one(s) \in [val : Seq(Users), ttl : Nat]
             /\ one(s).ttl > 0 => /\ cache[s].ttl > 0 /\ one(s).val = cache[s].val
                                  /\ one(s).ttl = cache[s].ttl - 1
  <2>1. cache[s] \in [val : Seq(Users), ttl : Nat]
    BY CacheKept DEF Caches
  <2>2. CASE cache[s].ttl > 1
    <3>1. one(s) = [cache[s] EXCEPT !.ttl = cache[s].ttl - 1] /\ cache[s].ttl - 1 \in Nat
      BY <2>1, <2>2
    <3> HIDE DEF one
    <3> QED
      BY <2>1, <2>2, <3>1
  <2>3. CASE ~(cache[s].ttl > 1)
    BY <2>3, EmptySeq DEF Absent
  <2> QED
    BY <2>2, <2>3
<1> HIDE DEF one
<1> QED
  BY <1>1, <1>2 DEF Caches, Exists

LEMMA TickInv ==
  ASSUME TypeOK, SessionInv, Tick
  PROVE  TypeOK' /\ SessionInv'
<1> DEFINE moved(h) == IF Pending(h) THEN [handler[h] EXCEPT !.late = @ + 1] ELSE handler[h]
<1>t. /\ handler \in [Handlers -> HandlerRecords] /\ reply \in [Handlers -> ReplyRecords]
      /\ logs \in [LogIds -> RowRecords \union {NoRow}] /\ cache \in Caches
      /\ nextLog \in 1..(MaxLogins + 1) /\ handedOut \subseteq LogIds
  BY TypeUnfolded
<1>1. /\ cache' = Aged(cache) /\ handler' = [h \in Handlers |-> moved(h)]
      /\ UNCHANGED <<nextLog, reply, handedOut>>
      /\ \A h \in Handlers : Pending(h) => handler[h].late < RequestDelay
  BY DEF Tick
<1>2. \A s : /\ Logged(s)' <=> Logged(s)
             /\ Logged(s) => /\ logs'[s].user = logs[s].user
                             /\ logs'[s].left \in Nat /\ logs[s].left \in Nat
                             /\ logs[s].left <= logs'[s].left + 1
                             /\ logs[s].left = 0 => logs'[s].left = 0
  BY <1>t, RowsAge, ConstantFacts DEF Logged, RowRecords
<1>3. ASSUME NEW h \in Handlers
      PROVE  /\ moved(h) \in HandlerRecords
             /\ moved(h).pc = handler[h].pc /\ moved(h).sess = handler[h].sess
             /\ moved(h).user = handler[h].user /\ moved(h).left = handler[h].left
             /\ Pending(h) => moved(h).late = handler[h].late + 1
  <2>1. handler[h] \in HandlerRecords
    BY <1>t
  <2>2. CASE Pending(h)
    <3>1. handler[h].late + 1 \in 0..RequestDelay
      BY <1>1, <2>1, <2>2, ConstantFacts DEF HandlerRecords
    <3>2. moved(h) = [handler[h] EXCEPT !.late = handler[h].late + 1]
      BY <2>2
    <3> HIDE DEF moved
    <3> QED
      BY <2>1, <3>1, <3>2 DEF HandlerRecords
  <2>3. CASE ~Pending(h)
    BY <2>1, <2>3
  <2> QED
    BY <2>2, <2>3
<1>4. ASSUME NEW h \in Handlers PROVE ThreadFits(handler[h])'
  <2> HIDE DEF moved
  <2>1. ThreadFits(handler[h]) /\ handler[h] \in HandlerRecords
    BY <1>t DEF SessionInv
  <2>2. handler'[h] = moved(h)
    BY <1>1
  <2>3. handler[h].left \in Nat /\ handler[h].late \in Nat
    BY <2>1, ConstantFacts DEF HandlerRecords
  <2> QED
    BY <1>2, <1>3, <2>1, <2>2, <2>3, ConstantFacts DEF ThreadFits, Pending
<1>5. \A h \in Handlers : AnswerFits(reply[h])'
  <2>1. \A a : AnswerFits(a) => AnswerFits(a)'
    BY <1>2 DEF AnswerFits, Known
  <2> QED
    BY <1>1, <2>1 DEF SessionInv
<1>6. ASSUME NEW s \in LogIds PROVE EntryFits(cache, s)'
  <2>1. CASE ~Exists(cache', s)
    BY <2>1 DEF EntryFits, Exists
  <2>2. CASE Exists(cache', s)
    <3>1. /\ EntryFits(cache, s) /\ Exists(cache, s) /\ cache'[s].val = cache[s].val
          /\ cache'[s].ttl = cache[s].ttl - 1 /\ cache[s].ttl \in Nat
      BY <1>1, <2>2, AgedEntry, CacheKept DEF Caches
    <3>2. /\ Logged(s) /\ cache[s].val = <<logs[s].user>>
          /\ cache[s].ttl <= logs[s].left + RequestDelay + Overhang
      BY <3>1 DEF EntryFits
    <3>3. cache[s].ttl - 1 <= logs'[s].left + RequestDelay + Overhang
      BY <1>2, <3>1, <3>2, ConstantFacts
    <3> QED
      BY <1>2, <3>1, <3>2, <3>3 DEF EntryFits
  <2> QED
    BY <2>1, <2>2
<1>7. RowsCounted' /\ SessionsLogged'
  BY <1>1, <1>2 DEF SessionInv, RowsCounted, SessionsLogged, Logged
<1>8. handler' \in [Handlers -> HandlerRecords] /\ cache' \in Caches
  <2> HIDE DEF moved
  <2> QED
    BY <1>1, <1>3, AgedEntry
<1>9. TypeOK'
  BY <1>t, <1>1, <1>8, RowsAge DEF TypeOK, RowRecords, HandlerRecords, ReplyRecords, Caches
<1> HIDE DEF moved
<1> QED
  BY <1>4, <1>5, <1>6, <1>7, <1>9 DEF SessionInv

LEMMA StepInv == TypeOK /\ SessionInv /\ [Next]_vars => TypeOK' /\ SessionInv'
<1> SUFFICES ASSUME TypeOK, SessionInv, [Next]_vars PROVE TypeOK' /\ SessionInv'
  OBVIOUS
<1>1. CASE UNCHANGED vars
  BY <1>1 DEF vars, TypeOK, SessionInv, RowsCounted, SessionsLogged, EntryFits, Exists,
     ThreadFits, AnswerFits, Known, Logged
<1>2. CASE Next
  BY <1>2, RequestInv, CheckInv, LoginInv, AddLogInv, RestartInv, TickInv
     DEF Next, HandlerStep
<1> QED
  BY <1>1, <1>2

-----------------------------------------------------------------------------
(* Sessions that were logged out *)

Caching(h) == handler[h].pc = "cache_session"

\* A logged-out session was handed out before, and the answer is on record.
EndedKnown == ended \subseteq handedOut /\ Ended(reply) \subseteq ended

\* Nobody has the session yet that a login is about to put into the cache with
\* the full session_expire: it cannot have been logged out.
CachingFresh ==
  /\ \A h \in Handlers : Caching(h) => handler[h].sess \notin handedOut
  /\ \A g, h \in Handlers :
       g # h /\ Caching(g) /\ Caching(h) => handler[g].sess # handler[h].sess

LogoutInv == EndedKnown /\ CachingFresh /\ EndedWithinLog

\* The entry of s is no longer there than the row and one request.
Restored(c, s) == Exists(c, s) => c[s].ttl <= logs[s].left + RequestDelay

LEMMA EndedAsRestored == EndedWithinLog <=> \A s \in ended : Restored(cache, s)
BY DEF EndedWithinLog, Restored

\* A step of one thread that leaves rows and sessions alone: it must not begin to
\* cache a login, answer LOGOUT for an entry that is there, or put in an entry
\* with more than its row's time.
LEMMA ThreadKeepsLogouts ==
  ASSUME TypeOK, LogoutInv, NEW h \in Handlers, ended' = ended \union Ended(reply'),
         \A g \in Handlers \ {h} : handler'[g] = handler[g] /\ reply'[g] = reply[g],
         handler'[h].pc # "cache_session",
         reply'[h] # reply[h] /\ reply'[h].kind = "logged_out" =>
           reply'[h].sess \in handedOut /\ ~Exists(cache', reply'[h].sess),
         \A s \in handedOut : cache'[s] = cache[s] \/ Restored(cache', s),
         UNCHANGED <<logs, handedOut>>
  PROVE  LogoutInv'
<1>1. \A s \in Ended(reply') : s \in ended \/ (s \in handedOut /\ ~Exists(cache', s))
  <2> SUFFICES ASSUME NEW g \in Handlers, reply'[g].kind = "logged_out",
                      reply'[g].sess \notin ended
               PROVE  reply'[g].sess \in handedOut /\ ~Exists(cache', reply'[g].sess)
    BY DEF Ended
  <2>1. reply'[g] # reply[g]
    BY DEF LogoutInv, EndedKnown, Ended
  <2> QED BY <2>1
<1>2. EndedKnown'
  BY <1>1 DEF LogoutInv, EndedKnown
<1>3. CachingFresh'
  BY DEF LogoutInv, CachingFresh, Caching
<1>4. EndedWithinLog'
  <2> SUFFICES ASSUME NEW s \in ended', Exists(cache', s)
               PROVE  cache'[s].ttl <= logs[s].left + RequestDelay
    BY DEF EndedWithinLog, Exists
  <2>1. s \in ended /\ s \in handedOut
    BY <1>1 DEF LogoutInv, EndedKnown
  <2>2. CASE cache'[s] = cache[s]
    BY <2>1, <2>2 DEF LogoutInv, EndedWithinLog, Exists
  <2>3. CASE Restored(cache', s)
    BY <2>3 DEF Restored
  <2> QED BY <2>1, <2>2, <2>3
<1> QED BY <1>2, <1>3, <1>4 DEF LogoutInv

\* Steps that leave the cache alone, answer no LOGOUT and cache no login.
LEMMA QuietKeepsLogouts ==
  ASSUME TypeOK, LogoutInv, NEW h \in Handlers, ended' = ended \union Ended(reply'),
         NEW t, t.pc # "cache_session", handler' = [handler EXCEPT ![h] = t],
         NEW a, a = reply[h] \/ a.kind # "logged_out", reply' = [reply EXCEPT ![h] = a],
         UNCHANGED <<logs, cache, handedOut>>
  PROVE  LogoutInv'
<1>1. handler \in [Handlers -> HandlerRecords] /\ reply \in [Handlers -> ReplyRecords]
  BY TypeUnfolded
<1>2. /\ \A g \in Handlers \ {h} : handler'[g] = handler[g] /\ reply'[g] = reply[g]
      /\ handler'[h] = t /\ reply'[h] = a
  BY <1>1
<1> QED BY <1>2, ThreadKeepsLogouts

\* The check before a route answers neither LOGOUT nor begins to cache a login.
LEMMA AnswersQuiet ==
  ASSUME NEW h \in Handlers, NEW op, NEW s, NEW u
  PROVE  /\ Admit(h, op, s, u) =>
              \E a : /\ handler' = [handler EXCEPT ![h] = Idle] /\ Idle.pc # "cache_session"
                     /\ reply' = [reply EXCEPT ![h] = a] /\ a.kind # "logged_out"
         /\ Refuse(h, op, s) =>
              \E t, a : /\ handler' = [handler EXCEPT ![h] = t] /\ t.pc # "cache_session"
                        /\ reply' = [reply EXCEPT ![h] = a] /\ a.kind # "logged_out"
<1>1. Idle.pc # "cache_session" /\ NoReply.kind # "logged_out"
  BY DEF Idle, NoReply, Answer
<1>2. ASSUME Admit(h, op, s, u)
      PROVE  \E a : /\ handler' = [handler EXCEPT ![h] = Idle] /\ Idle.pc # "cache_session"
                    /\ reply' = [reply EXCEPT ![h] = a] /\ a.kind # "logged_out"
  <2> DEFINE a == Answer(IF op = "use" THEN "ok" ELSE "already_logined", s, u)
  <2>1. handler' = [handler EXCEPT ![h] = Idle] /\ reply' = [reply EXCEPT ![h] = a]
    BY <1>2 DEF Admit
  <2>2. a.kind # "logged_out"
    BY DEF Answer
  <2> HIDE DEF a
  <2> QED BY <1>1, <2>1, <2>2
<1>3. ASSUME Refuse(h, op, s)
      PROVE  \E t, a : /\ handler' = [handler EXCEPT ![h] = t] /\ t.pc # "cache_session"
                       /\ reply' = [reply EXCEPT ![h] = a] /\ a.kind # "logged_out"
  <2>1. CASE op = "use"
    <3> DEFINE a == Answer("need_login", s, NoRow)
    <3>1. handler' = [handler EXCEPT ![h] = Idle] /\ reply' = [reply EXCEPT ![h] = a]
      BY <1>3, <2>1 DEF Refuse
    <3>2. a.kind # "logged_out"
      BY DEF Answer
    <3> HIDE DEF a
    <3> QED BY <1>1, <3>1, <3>2
  <2>2. CASE op # "use"
    <3> DEFINE t == [Idle EXCEPT !.pc = "credentials", !.op = "login"]
    <3>1. handler' = [handler EXCEPT ![h] = t] /\ reply' = [reply EXCEPT ![h] = NoReply]
      BY <1>3, <2>2 DEF Refuse
    <3>2. t.pc # "cache_session"
      BY DEF Idle
    <3> HIDE DEF t
    <3> QED BY <1>1, <3>1, <3>2
  <2> QED BY <2>1, <2>2
<1> QED BY <1>2, <1>3

\* Requests: a logout takes the entry of its session out; the others take none in.
LEMMA RequestKeepsLogouts ==
  ASSUME TypeOK, SessionInv, LogoutInv, NEW h \in Handlers, Request(h),
         ended' = ended \union Ended(reply')
  PROVE  LogoutInv'
<1>t. /\ handler \in [Handlers -> HandlerRecords] /\ reply \in [Handlers -> ReplyRecords]
      /\ cache \in Caches /\ handedOut \subseteq LogIds
  BY TypeUnfolded
<1>1. ASSUME NEW op, NEW s, Refuse(h, op, s), UNCHANGED <<logs, cache, handedOut>>
      PROVE  LogoutInv'
  BY <1>1, AnswersQuiet, QuietKeepsLogouts
<1>2. ASSUME NEW op, RequestWithoutCookie(h, op) PROVE LogoutInv'
  BY <1>1, <1>2 DEF RequestWithoutCookie
<1>3. ASSUME NEW op, NEW s \in handedOut, CacheHit(h, op, s) PROVE LogoutInv'
  BY <1>3, AnswersQuiet, QuietKeepsLogouts DEF CacheHit
<1>4. ASSUME NEW op, NEW s \in handedOut, CacheMiss(h, op, s) PROVE LogoutInv'
  <2> DEFINE t == [Idle EXCEPT !.pc = "query", !.op = op, !.sess = s]
  <2>1. t.pc # "cache_session" /\ NoReply.kind # "logged_out"
    BY DEF Idle, NoReply, Answer
  <2>2. /\ handler' = [handler EXCEPT ![h] = t] /\ reply' = [reply EXCEPT ![h] = NoReply]
        /\ UNCHANGED <<logs, cache, handedOut>>
    BY <1>4 DEF CacheMiss
  <2> HIDE DEF t
  <2> QED BY <2>1, <2>2, QuietKeepsLogouts
<1>5. ASSUME LogoutWithoutCookie(h) PROVE LogoutInv'
  <2> DEFINE a == Answer("not_logined", NoCookie, NoRow)
  <2>1. /\ handler' = handler /\ reply' = [reply EXCEPT ![h] = a]
        /\ handler[h].pc = "idle" /\ UNCHANGED <<logs, cache, handedOut>>
    BY <1>5 DEF LogoutWithoutCookie
  <2>2. a.kind # "logged_out"
    BY DEF Answer
  <2>3. handler' = [handler EXCEPT ![h] = handler[h]]
    BY <1>t, <2>1
  <2> HIDE DEF a
  <2> QED BY <2>1, <2>2, <2>3, QuietKeepsLogouts
<1>6. ASSUME NEW s \in handedOut, Logout(h, s) PROVE LogoutInv'
  <2> DEFINE a == Answer("logged_out", s, NoRow)
  <2>1. /\ handler[h].pc = "idle" /\ handler' = handler /\ cache' = Del(cache, s)
        /\ reply' = [reply EXCEPT ![h] = a] /\ UNCHANGED <<logs, handedOut>>
    BY <1>6 DEF Logout
  <2>2. a.sess = s
    BY DEF Answer
  <2> HIDE DEF a
  <2>3. /\ reply'[h] = a /\ handler'[h].pc # "cache_session"
        /\ \A g \in Handlers \ {h} : handler'[g] = handler[g] /\ reply'[g] = reply[g]
    BY <1>t, <2>1
  <2>4. cache'[s] = Absent /\ \A r \in handedOut \ {s} : cache'[r] = cache[r]
    BY <1>t, <2>1 DEF Del, Caches
  <2>5. ~Exists(cache', s)
    BY <2>4 DEF Exists, Absent
  <2> QED BY <2>1, <2>2, <2>3, <2>4, <2>5, ThreadKeepsLogouts DEF Restored
<1> QED BY <1>2, <1>3, <1>4, <1>5, <1>6 DEF Request

\* The steps of before() after a miss: the entry they put in has the row's time.
LEMMA CheckKeepsLogouts ==
  ASSUME TypeOK, SessionInv, LogoutInv, NEW h \in Handlers, QueryLog(h) \/ Recache(h),
         ended' = ended \union Ended(reply')
  PROVE  LogoutInv'
<1> DEFINE r == handler[h]
<1>t. /\ handler \in [Handlers -> HandlerRecords] /\ reply \in [Handlers -> ReplyRecords]
      /\ logs \in [LogIds -> RowRecords \union {NoRow}]
      /\ cache \in Caches /\ handedOut \subseteq LogIds
  BY TypeUnfolded
<1>1. CASE QueryLog(h)
  <2>1. UNCHANGED <<logs, cache, handedOut>>
    BY <1>1 DEF QueryLog
  <2>2. CASE logs[r.sess].left > 0
    <3> DEFINE q == Found(r, logs[r.sess].user, logs[r.sess].left)
    <3>1. handler' = [handler EXCEPT ![h] = q] /\ reply' = reply
      BY <1>1, <2>2 DEF QueryLog, Found
    <3>2. q.pc = "recache"
      BY <1>t DEF Found, HandlerRecords
    <3>3. reply' = [reply EXCEPT ![h] = reply[h]]
      BY <1>t, <3>1
    <3> HIDE DEF q
    <3> QED BY <2>1, <3>1, <3>2, <3>3, QuietKeepsLogouts
  <2>3. CASE ~(logs[r.sess].left > 0)
    <3>1. Refuse(h, r.op, r.sess)
      BY <1>1, <2>3 DEF QueryLog
    <3> QED BY <2>1, <3>1, AnswersQuiet, QuietKeepsLogouts
  <2> QED BY <2>2, <2>3
<1>2. CASE Recache(h)
  <2>1. /\ r.pc = "recache" /\ UNCHANGED <<logs, handedOut>>
        /\ cache' = Put(cache, r.sess, <<r.user>>, r.left)
        /\ Admit(h, r.op, r.sess, r.user)
    BY <1>2 DEF Recache, SessionOf, TimeLeft
  <2>2. r \in HandlerRecords /\ ThreadFits(r)
    BY <1>t DEF SessionInv
  <2>3. Logged(r.sess) /\ r.left <= logs[r.sess].left + r.late
    BY <2>1, <2>2 DEF ThreadFits
  <2>4. /\ r.left \in Nat /\ r.late \in 0..RequestDelay /\ logs[r.sess].left \in Nat
    BY <1>t, <2>2, <2>3, ConstantFacts DEF HandlerRecords, Logged, RowRecords
  <2>5. r.left <= logs[r.sess].left + RequestDelay
    BY <2>3, <2>4, ConstantFacts
  <2>6. /\ cache'[r.sess].ttl = r.left
        /\ \A s \in handedOut \ {r.sess} : cache'[s] = cache[s]
    <3> HIDE DEF r
    <3> QED BY <1>t, <2>1, <2>3 DEF Put, Logged, Caches
  <2>7. Restored(cache', r.sess)
    BY <2>5, <2>6 DEF Restored
  <2>8. PICK a : /\ handler' = [handler EXCEPT ![h] = Idle] /\ Idle.pc # "cache_session"
                 /\ reply' = [reply EXCEPT ![h] = a] /\ a.kind # "logged_out"
    BY <2>1, AnswersQuiet
  <2>9. /\ reply'[h] = a /\ handler'[h] = Idle
        /\ \A g \in Handlers \ {h} : handler'[g] = handler[g] /\ reply'[g] = reply[g]
    BY <1>t, <2>8
  <2>10. \A s \in handedOut : cache'[s] = cache[s] \/ Restored(cache', s)
    BY <2>6, <2>7
  <2> HIDE DEF r
  <2> QED BY <2>1, <2>8, <2>9, <2>10, ThreadKeepsLogouts
<1> QED BY <1>1, <1>2

\* The steps of a login: the number it takes is nobody's session yet.
LEMMA LoginKeepsLogouts ==
  ASSUME TypeOK, SessionInv, LogoutInv, NEW h \in Handlers,
         CheckCredentials(h) \/ StatementThrows(h) \/ AddLog(h) \/ CacheSession(h),
         ended' = ended \union Ended(reply')
  PROVE  LogoutInv'
<1> DEFINE r == handler[h]
<1>t. /\ handler \in [Handlers -> HandlerRecords] /\ reply \in [Handlers -> ReplyRecords]
      /\ logs \in [LogIds -> RowRecords \union {NoRow}]
      /\ cache \in Caches /\ handedOut \subseteq LogIds /\ nextLog \in Nat
  BY TypeUnfolded
<1>r. r \in HandlerRecords /\ ThreadFits(r) /\ reply = [reply EXCEPT ![h] = reply[h]]
  BY <1>t DEF SessionInv
<1>1. CASE CheckCredentials(h)
  <2>1. UNCHANGED <<logs, cache, handedOut>>
    BY <1>1 DEF CheckCredentials
  <2>2. ASSUME NEW u \in Users, UNCHANGED reply,
               handler' = [handler EXCEPT ![h].pc = "add_log", ![h].user = u]
        PROVE  LogoutInv'
    <3> DEFINE q == [r EXCEPT !.pc = "add_log", !.user = u]
    <3>1. q.pc = "add_log"
      BY <1>r DEF HandlerRecords
    <3>2. handler' = [handler EXCEPT ![h] = q]
      BY <1>t, <2>2
    <3> HIDE DEF q
    <3>3. reply' = [reply EXCEPT ![h] = reply[h]]
      BY <1>r, <2>2
    <3> QED BY <2>1, <3>1, <3>2, <3>3, QuietKeepsLogouts
  <2>3. ASSUME handler' = [handler EXCEPT ![h] = Idle],
               reply' = [reply EXCEPT ![h] = Answer("wrong_password", NoCookie, NoRow)]
        PROVE  LogoutInv'
    <3> DEFINE a == Answer("wrong_password", NoCookie, NoRow)
    <3>1. a.kind # "logged_out" /\ Idle.pc # "cache_session"
      BY DEF Answer, Idle
    <3>2. reply' = [reply EXCEPT ![h] = a]
      BY <2>3
    <3> HIDE DEF a
    <3> QED BY <2>1, <2>3, <3>1, <3>2, QuietKeepsLogouts
  <2> QED BY <1>1, <2>2, <2>3 DEF CheckCredentials
<1>2. CASE StatementThrows(h)
  <2>1. /\ handler' = [handler EXCEPT ![h] = Idle]
        /\ UNCHANGED <<logs, cache, reply, handedOut>>
    BY <1>2 DEF StatementThrows
  <2>2. reply' = [reply EXCEPT ![h] = reply[h]] /\ Idle.pc # "cache_session"
    BY <1>r, <2>1 DEF Idle
  <2> QED BY <2>1, <2>2, QuietKeepsLogouts
<1>3. CASE AddLog(h)
  <2> DEFINE row == [user |-> r.user, left |-> LogLife]
  <2>1. /\ nextLog \in LogIds /\ logs' = [logs EXCEPT ![nextLog] = row]
        /\ UNCHANGED <<cache, reply, handedOut>>
    BY <1>t, <1>3, ConstantFacts, TypeUnfolded DEF AddLog, LogIds
  <2>2. /\ handler'[h].sess = nextLog
        /\ \A g \in Handlers \ {h} : handler'[g] = handler[g]
    <3> DEFINE q == [r EXCEPT !.pc = "cache_session", !.sess = nextLog, !.late = 0]
    <3>1. handler' = [handler EXCEPT ![h] = q]
      BY <1>3, <1>t DEF AddLog
    <3>2. q.sess = nextLog
      BY <1>r DEF HandlerRecords
    <3> HIDE DEF q
    <3> QED BY <1>t, <3>1, <3>2
  <2>3. \A s : Logged(s) => s # nextLog
    BY <1>t, <2>1 DEF SessionInv, RowsCounted, Logged, LogIds
  <2>4. nextLog \notin handedOut
    BY <2>3 DEF SessionInv, SessionsLogged
  <2>5. \A g \in Handlers : Caching(g) => handler[g].sess # nextLog
    BY <2>3 DEF SessionInv, ThreadFits, Caching
  <2>6. CachingFresh'
    <3> SUFFICES ASSUME NEW g \in Handlers, Caching(g)'
                 PROVE  /\ handler'[g].sess \notin handedOut
                        /\ \A f \in Handlers : g # f /\ Caching(f)' =>
                             handler'[g].sess # handler'[f].sess
      BY <2>1 DEF CachingFresh
    <3> QED BY <2>2, <2>4, <2>5 DEF LogoutInv, CachingFresh, Caching
  <2>7. ended' = ended
    BY <2>1 DEF LogoutInv, EndedKnown, Ended
  <2>8. \A s \in ended : logs'[s] = logs[s]
    BY <1>t, <2>1, <2>4 DEF LogoutInv, EndedKnown
  <2>9. EndedKnown' /\ EndedWithinLog'
    BY <2>1, <2>7, <2>8 DEF LogoutInv, EndedKnown, Ended, EndedWithinLog, Exists
  <2> QED BY <2>6, <2>9 DEF LogoutInv
<1>4. CASE CacheSession(h)
  <2> DEFINE a == Answer("logged_in", r.sess, r.user)
  <2>1. /\ Caching(h) /\ UNCHANGED logs
        /\ cache' = Put(cache, r.sess, <<r.user>>, SessionExpire)
        /\ handedOut' = handedOut \union {r.sess}
        /\ handler' = [handler EXCEPT ![h] = Idle] /\ reply' = [reply EXCEPT ![h] = a]
    BY <1>4 DEF CacheSession, SessionOf, Caching
  <2>2. a.kind # "logged_out" /\ Idle.pc # "cache_session"
    BY DEF Answer, Idle
  <2> HIDE DEF a
  <2>3. /\ reply'[h] = a /\ handler'[h] = Idle
        /\ \A g \in Handlers \ {h} : handler'[g] = handler[g] /\ reply'[g] = reply[g]
    BY <1>t, <2>1
  <2>4. r.sess \notin handedOut /\ r.sess \notin ended
    BY <2>1 DEF LogoutInv, CachingFresh, EndedKnown
  <2>5. \A s \in ended : cache'[s] = cache[s]
    <3> HIDE DEF r
    <3> QED BY <1>t, <2>1, <2>4 DEF LogoutInv, EndedKnown, Put, Caches
  <2>6. ended' = ended
    BY <2>2, <2>3 DEF LogoutInv, EndedKnown, Ended
  <2>7. EndedKnown'
    BY <2>1, <2>2, <2>3, <2>6 DEF LogoutInv, EndedKnown, Ended
  <2>8. CachingFresh'
    <3> SUFFICES ASSUME NEW g \in Handlers, Caching(g)'
                 PROVE  /\ handler'[g].sess \notin handedOut'
                        /\ \A f \in Handlers : g # f /\ Caching(f)' =>
                             handler'[g].sess # handler'[f].sess
      BY DEF CachingFresh
    <3>1. g # h /\ Caching(g) /\ handler'[g] = handler[g]
      BY <2>2, <2>3 DEF Caching
    <3>2. handler[g].sess # r.sess /\ handler[g].sess \notin handedOut
      BY <2>1, <3>1 DEF LogoutInv, CachingFresh
    <3>3. ASSUME NEW f \in Handlers, g # f, Caching(f)'
          PROVE  handler'[g].sess # handler'[f].sess
      <4>1. f # h /\ Caching(f) /\ handler'[f] = handler[f]
        BY <2>2, <2>3, <3>3 DEF Caching
      <4> QED BY <3>1, <3>3, <4>1 DEF LogoutInv, CachingFresh
    <3> QED BY <2>1, <3>1, <3>2, <3>3
  <2>9. EndedWithinLog'
    BY <2>1, <2>5, <2>6 DEF LogoutInv, EndedWithinLog, Exists
  <2> QED BY <2>7, <2>8, <2>9 DEF LogoutInv
<1> QED BY <1>1, <1>2, <1>3, <1>4

\* A restart empties the cache; time takes as much from an entry as from its row.
LEMMA EnvironmentKeepsLogouts ==
  ASSUME TypeOK, SessionInv, LogoutInv, Restart \/ Tick, ended' = ended \union Ended(reply')
  PROVE  LogoutInv'
<1>1. CASE Restart
  <2>1. /\ handedOut' = handedOut /\ \A s \in LogIds : ~Exists(cache', s)
        /\ \A h \in Handlers : reply'[h] = NoReply /\ handler'[h] = Idle
    BY <1>1, EmptyCacheFits DEF Restart
  <2>2. NoReply.kind # "logged_out" /\ Idle.pc # "cache_session"
    BY DEF NoReply, Answer, Idle
  <2>3. Ended(reply') = {}
    BY <2>1, <2>2 DEF Ended
  <2>4. EndedKnown' /\ ended' = ended
    BY <2>1, <2>3 DEF LogoutInv, EndedKnown
  <2>5. CachingFresh'
    BY <2>1, <2>2 DEF CachingFresh, Caching
  <2>6. EndedWithinLog'
    BY <2>1, <2>4, TypeUnfolded DEF LogoutInv, EndedKnown, EndedWithinLog, Exists
  <2> QED BY <2>4, <2>5, <2>6 DEF LogoutInv
<1>2. CASE Tick
  <2>1. /\ cache' = Aged(cache) /\ UNCHANGED <<reply, handedOut>>
        /\ \A h \in Handlers : handler'[h] =
             IF Pending(h) THEN [handler[h] EXCEPT !.late = @ + 1] ELSE handler[h]
    BY <1>2 DEF Tick
  <2>2. ASSUME NEW h \in Handlers
        PROVE  handler'[h].pc = handler[h].pc /\ handler'[h].sess = handler[h].sess
    <3>1. handler[h] \in HandlerRecords
      BY TypeUnfolded
    <3> QED BY <2>1, <3>1 DEF HandlerRecords
  <2>3. EndedKnown' /\ ended' = ended
    BY <2>1 DEF LogoutInv, EndedKnown, Ended
  <2>4. CachingFresh'
    BY <2>1, <2>2 DEF LogoutInv, CachingFresh, Caching
  <2>5. ASSUME NEW s \in ended, Exists(cache', s)
        PROVE  cache'[s].ttl <= logs'[s].left + RequestDelay
    <3>1. s \in LogIds /\ Logged(s)
      BY TypeUnfolded DEF LogoutInv, EndedKnown, SessionInv, SessionsLogged
    <3>2. Exists(cache, s) /\ cache'[s].ttl = cache[s].ttl - 1
      BY <2>1, <2>5, <3>1, AgedEntry
    <3>3. cache[s].ttl <= logs[s].left + RequestDelay
      BY <3>2 DEF LogoutInv, EndedWithinLog
    <3>4. /\ cache[s].ttl \in Nat /\ logs[s].left \in Nat
          /\ logs'[s].left \in Nat /\ logs[s].left <= logs'[s].left + 1
      <4>1. cache[s].ttl \in Nat /\ logs[s] \in RowRecords /\ logs[s] # NoRow
        BY <3>1, TypeUnfolded DEF Logged, Caches
      <4>2. logs[s].left \in Nat
        BY <4>1, ConstantFacts DEF RowRecords
      <4>3. logs'[s].left = IF logs[s].left = 0 THEN 0 ELSE logs[s].left - 1
        BY <1>2, <3>1, <4>1, RowsAge
      <4> QED BY <4>1, <4>2, <4>3
    <3> QED BY <3>2, <3>3, <3>4, ConstantFacts
  <2>6. EndedWithinLog'
    BY <2>3, <2>5 DEF EndedWithinLog, Exists
  <2> QED BY <2>3, <2>4, <2>6 DEF LogoutInv
<1> QED BY <1>1, <1>2

\* Every step of SessionLogout is one of Session, with what it adds to ended.
LEMMA LogoutStepInv ==
  TypeOK /\ SessionInv /\ LogoutInv /\ [LogoutNext]_<<vars, ended>> =>
    TypeOK' /\ SessionInv' /\ LogoutInv'
<1> SUFFICES ASSUME TypeOK, SessionInv, LogoutInv, [LogoutNext]_<<vars, ended>>
             PROVE  TypeOK' /\ SessionInv' /\ LogoutInv'
  OBVIOUS
<1>1. TypeOK' /\ SessionInv'
  BY StepInv DEF LogoutNext
<1>2. CASE UNCHANGED <<vars, ended>>
  <2>1. UNCHANGED <<logs, cache, handler, reply, handedOut, ended>>
    BY <1>2 DEF vars
  <2>2. EndedKnown' /\ CachingFresh' /\ EndedWithinLog'
    BY <2>1 DEF LogoutInv, EndedKnown, Ended, CachingFresh, Caching, EndedWithinLog, Exists
  <2> QED BY <1>1, <2>2 DEF LogoutInv
<1>3. CASE LogoutNext
  <2>1. Next /\ ended' = ended \union Ended(reply')
    BY <1>3 DEF LogoutNext
  <2>2. ASSUME NEW h \in Handlers, Request(h) PROVE LogoutInv'
    BY <2>1, <2>2, RequestKeepsLogouts
  <2>3. ASSUME NEW h \in Handlers, QueryLog(h) \/ Recache(h) PROVE LogoutInv'
    BY <2>1, <2>3, CheckKeepsLogouts
  <2>4. ASSUME NEW h \in Handlers,
               CheckCredentials(h) \/ AddLog(h) \/ CacheSession(h) \/ StatementThrows(h)
        PROVE  LogoutInv'
    BY <2>1, <2>4, LoginKeepsLogouts
  <2>5. Restart \/ Tick => LogoutInv'
    BY <2>1, EnvironmentKeepsLogouts
  <2> QED BY <1>1, <2>1, <2>2, <2>3, <2>4, <2>5 DEF Next, HandlerStep
<1> QED BY <1>1, <1>2, <1>3

-----------------------------------------------------------------------------
(* Sessions whose row has expired *)

RunsDown(s) == Expired(s)' /\ cache'[s].ttl <= cache[s].ttl

\* The step of one thread, when it writes no row of s and does not get hold of s.
LEMMA ThreadRunsDown ==
  ASSUME TypeOK, NEW s \in LogIds, Expired(s), NEW h \in Handlers,
         logs'[s] = logs[s], cache'[s].ttl <= cache[s].ttl,
         \A g \in Handlers \ {h} : handler'[g] = handler[g],
         handler'[h].pc \in {"recache", "cache_session"} => handler'[h].sess # s
  PROVE  RunsDown(s)
BY DEF RunsDown, Expired, Pending

\* An entry that is left alone, taken out or put in for another session.
LEMMA OtherEntries ==
  ASSUME TypeOK, NEW s \in LogIds, NEW r \in LogIds, NEW v, NEW ttl
  PROVE  /\ cache[s].ttl <= cache[s].ttl
         /\ Del(cache, r)[s].ttl <= cache[s].ttl
         /\ r # s => Put(cache, r, v, ttl)[s].ttl <= cache[s].ttl
<1>1. cache \in Caches
  BY TypeUnfolded
<1>2. cache[s].ttl \in Nat
  BY <1>1 DEF Caches
<1>3. Del(cache, r)[s] = cache[s] \/ Del(cache, r)[s] = Absent
  BY <1>1 DEF Del, Caches
<1>4. Absent.ttl = 0
  BY DEF Absent
<1>5. r # s => Put(cache, r, v, ttl)[s] = cache[s]
  BY <1>1 DEF Put, Caches
<1> QED BY <1>2, <1>3, <1>4, <1>5

\* Where the check before a route leaves its thread.
LEMMA AnswersIdle ==
  ASSUME TypeOK, NEW h \in Handlers, NEW op, NEW s, NEW u,
         Admit(h, op, s, u) \/ Refuse(h, op, s)
  PROVE  /\ \A g \in Handlers \ {h} : handler'[g] = handler[g]
         /\ handler'[h].pc \notin {"recache", "cache_session"}
<1> DEFINE t == [Idle EXCEPT !.pc = "credentials", !.op = "login"]
<1>1. handler \in [Handlers -> HandlerRecords]
  BY TypeUnfolded
<1>2. handler' = [handler EXCEPT ![h] = Idle] \/ handler' = [handler EXCEPT ![h] = t]
  BY DEF Admit, Refuse
<1>3. Idle.pc = "idle" /\ t.pc = "credentials"
  BY DEF Idle
<1> HIDE DEF t
<1> QED BY <1>1, <1>2, <1>3

LEMMA RequestRunsDown ==
  ASSUME TypeOK, SessionInv, NEW s \in LogIds, Expired(s), NEW h \in Handlers, Request(h)
  PROVE  RunsDown(s)
<1>t. /\ handler \in [Handlers -> HandlerRecords] /\ handedOut \subseteq LogIds
      /\ cache[s].ttl <= cache[s].ttl
  BY TypeUnfolded, OtherEntries
<1>1. ASSUME NEW op, RequestWithoutCookie(h, op) PROVE RunsDown(s)
  BY <1>t, <1>1, AnswersIdle, ThreadRunsDown DEF RequestWithoutCookie
<1>2. ASSUME NEW op, NEW r \in handedOut, CacheHit(h, op, r) PROVE RunsDown(s)
  BY <1>t, <1>2, AnswersIdle, ThreadRunsDown DEF CacheHit
<1>3. ASSUME NEW op, NEW r \in handedOut, CacheMiss(h, op, r) PROVE RunsDown(s)
  <2> DEFINE q == [Idle EXCEPT !.pc = "query", !.op = op, !.sess = r]
  <2>1. handler' = [handler EXCEPT ![h] = q] /\ UNCHANGED <<logs, cache>>
    BY <1>3 DEF CacheMiss
  <2>2. q.pc = "query"
    BY DEF Idle
  <2> HIDE DEF q
  <2> QED BY <1>t, <2>1, <2>2, ThreadRunsDown
<1>4. ASSUME LogoutWithoutCookie(h) PROVE RunsDown(s)
  BY <1>t, <1>4, ThreadRunsDown DEF LogoutWithoutCookie
<1>5. ASSUME NEW r \in handedOut, Logout(h, r) PROVE RunsDown(s)
  <2>1. /\ handler[h].pc = "idle" /\ handler' = handler
        /\ cache' = Del(cache, r) /\ UNCHANGED logs
    BY <1>5 DEF Logout
  <2>2. cache'[s].ttl <= cache[s].ttl
    BY <1>t, <2>1, OtherEntries
  <2> QED BY <2>1, <2>2, ThreadRunsDown
<1> QED BY <1>1, <1>2, <1>3, <1>4, <1>5 DEF Request

\* The steps after a miss, and of a login.  Only QueryLog and AddLog take hold of a
\* session: of one with time left, and of one without a row so far.
LEMMA HandlerRunsDown ==
  ASSUME TypeOK, SessionInv, NEW s \in LogIds, Expired(s), NEW h \in Handlers, HandlerStep(h)
  PROVE  RunsDown(s)
<1> DEFINE r == handler[h]
<1>t. /\ handler \in [Handlers -> HandlerRecords] /\ cache[s].ttl <= cache[s].ttl
      /\ logs \in [LogIds -> RowRecords \union {NoRow}] /\ nextLog \in Nat
  BY TypeUnfolded, OtherEntries
<1>h. r \in HandlerRecords /\ ThreadFits(r) /\ logs[s] # NoRow /\ logs[s].left = 0
  BY <1>t DEF SessionInv, Expired
<1>1. CASE QueryLog(h)
  <2>1. r.pc = "query" /\ UNCHANGED <<logs, cache>>
    BY <1>1 DEF QueryLog
  <2>2. CASE logs[r.sess].left > 0
    <3> DEFINE q == Found(r, logs[r.sess].user, logs[r.sess].left)
    <3>1. handler' = [handler EXCEPT ![h] = q]
      BY <1>1, <2>2 DEF QueryLog, Found
    <3>2. q.sess = r.sess
      BY <1>h DEF Found, HandlerRecords
    <3>3. r.sess # s
      BY <1>h, <2>2
    <3> HIDE DEF q, r
    <3> QED BY <1>t, <2>1, <3>1, <3>2, <3>3, ThreadRunsDown
  <2>3. CASE ~(logs[r.sess].left > 0)
    <3>1. Refuse(h, r.op, r.sess)
      BY <1>1, <2>3 DEF QueryLog
    <3> QED BY <1>t, <2>1, <3>1, AnswersIdle, ThreadRunsDown
  <2> QED BY <2>2, <2>3
<1>2. CASE Recache(h)
  <2>1. /\ r.pc = "recache" /\ UNCHANGED logs
        /\ cache' = Put(cache, r.sess, <<r.user>>, r.left)
        /\ Admit(h, r.op, r.sess, r.user)
    BY <1>2 DEF Recache, SessionOf, TimeLeft
  <2>2. r.sess # s /\ r.sess \in LogIds
    BY <1>h, <2>1 DEF Expired, Pending, ThreadFits, Logged
  <2>3. cache'[s].ttl <= cache[s].ttl
    BY <2>1, <2>2, OtherEntries
  <2> QED BY <2>1, <2>3, AnswersIdle, ThreadRunsDown
<1>3. CASE CheckCredentials(h)
  <2>1. /\ UNCHANGED <<logs, cache>>
        /\ \/ \E u \in Users :
                handler' = [handler EXCEPT ![h].pc = "add_log", ![h].user = u]
           \/ handler' = [handler EXCEPT ![h] = Idle]
    BY <1>3 DEF CheckCredentials
  <2>2. CASE handler' = [handler EXCEPT ![h] = Idle]
    BY <1>t, <2>1, <2>2, ThreadRunsDown DEF Idle
  <2>3. ASSUME NEW u, handler' = [handler EXCEPT ![h].pc = "add_log", ![h].user = u]
        PROVE  RunsDown(s)
    <3>1. handler'[h].pc = "add_log" /\ \A g \in Handlers \ {h} : handler'[g] = handler[g]
      BY <1>t, <2>3 DEF HandlerRecords
    <3> QED BY <1>t, <2>1, <3>1, ThreadRunsDown
  <2> QED BY <2>1, <2>2, <2>3
<1>4. CASE AddLog(h)
  <2> DEFINE row == [user |-> r.user, left |-> LogLife]
             q == [r EXCEPT !.pc = "cache_session", !.sess = nextLog, !.late = 0]
  <2>1. /\ logs' = [logs EXCEPT ![nextLog] = row] /\ UNCHANGED cache
        /\ handler' = [handler EXCEPT ![h] = q]
    BY <1>t, <1>4 DEF AddLog
  <2>2. q.sess = nextLog
    BY <1>h DEF HandlerRecords
  <2>3. s # nextLog
    BY <1>h, <1>t DEF SessionInv, RowsCounted, LogIds
  <2> HIDE DEF row, q
  <2> QED BY <1>t, <2>1, <2>2, <2>3, ThreadRunsDown
<1>5. CASE CacheSession(h)
  <2>1. /\ r.pc = "cache_session" /\ UNCHANGED logs
        /\ cache' = Put(cache, r.sess, <<r.user>>, SessionExpire)
        /\ handler' = [handler EXCEPT ![h] = Idle]
    BY <1>5 DEF CacheSession, SessionOf
  <2>2. r.sess # s /\ r.sess \in LogIds
    BY <1>h, <2>1 DEF Expired, Pending, ThreadFits, Logged
  <2>3. cache'[s].ttl <= cache[s].ttl
    BY <2>1, <2>2, OtherEntries
  <2> QED BY <1>t, <2>1, <2>3, ThreadRunsDown DEF Idle
<1>6. CASE StatementThrows(h)
  <2>1. handler' = [handler EXCEPT ![h] = Idle] /\ UNCHANGED <<logs, cache>>
    BY <1>6 DEF StatementThrows
  <2> QED BY <1>t, <2>1, ThreadRunsDown DEF Idle
<1> QED BY <1>1, <1>2, <1>3, <1>4, <1>5, <1>6 DEF HandlerStep

LEMMA EnvironmentRunsDown ==
  ASSUME TypeOK, SessionInv, NEW s \in LogIds, Expired(s), Restart \/ Tick
  PROVE  RunsDown(s)
<1>t. cache \in Caches /\ cache[s].ttl \in Nat /\ logs[s] # NoRow /\ logs[s].left = 0
  BY TypeUnfolded DEF Caches, Expired
<1>1. CASE Restart
  <2>1. cache'[s].ttl = 0 /\ logs' = logs /\ \A h \in Handlers : handler'[h] = Idle
    BY <1>1 DEF Restart, EmptyCache, Absent
  <2>2. Expired(s)'
    BY <1>t, <2>1 DEF Expired, Pending, Idle
  <2> QED BY <1>t, <2>1, <2>2 DEF RunsDown
<1>2. CASE Tick
  <2>1. /\ cache' = Aged(cache)
        /\ \A h \in Handlers : handler'[h] =
             IF Pending(h) THEN [handler[h] EXCEPT !.late = @ + 1] ELSE handler[h]
    BY <1>2 DEF Tick
  <2>2. ASSUME NEW h \in Handlers
        PROVE  handler'[h].pc = handler[h].pc /\ handler'[h].sess = handler[h].sess
    <3>1. handler[h] \in HandlerRecords
      BY TypeUnfolded
    <3> QED BY <2>1, <3>1 DEF HandlerRecords
  <2>3. logs'[s] # NoRow /\ logs'[s].left = 0
    BY <1>t, <1>2, RowsAge
  <2>4. Expired(s)'
    BY <2>2, <2>3 DEF Expired, Pending
  <2>5. CASE Exists(cache', s)
    <3>1. cache'[s].ttl = cache[s].ttl - 1
      BY <2>1, <2>5, AgedEntry
    <3> QED BY <1>t, <2>4, <3>1 DEF RunsDown
  <2>6. CASE ~Exists(cache', s)
    <3>1. cache'[s].ttl \in Nat
      BY <2>1, AgedEntry DEF Caches
    <3>2. cache'[s].ttl = 0
      BY <2>6, <3>1 DEF Exists
    <3> QED BY <1>t, <2>4, <3>2 DEF RunsDown
  <2> QED BY <2>5, <2>6
<1> QED BY <1>1, <1>2

LEMMA StepRunsDown ==
  TypeOK /\ SessionInv /\ [Next]_vars => \A s \in LogIds : Expired(s) => RunsDown(s)
<1> SUFFICES ASSUME TypeOK, SessionInv, [Next]_vars, NEW s \in LogIds, Expired(s)
             PROVE  RunsDown(s)
  OBVIOUS
<1>1. CASE UNCHANGED vars
  <2>1. UNCHANGED <<logs, cache, handler>> /\ cache[s].ttl <= cache[s].ttl
    BY <1>1, OtherEntries DEF vars
  <2> QED BY <2>1 DEF RunsDown, Expired, Pending
<1>2. CASE Next
  BY <1>2, RequestRunsDown, HandlerRunsDown, EnvironmentRunsDown DEF Next
<1> QED BY <1>1, <1>2

-----------------------------------------------------------------------------
(* What follows *)

\* Types, and the invariant above: a cached session names its row's user, and a
\* thread that will fill the cache knows the row as it was `late` units ago.
THEOREM SessionsCorrect == Spec => [](TypeOK /\ SessionInv)
BY InitInv, StepInv, PTL DEF Spec

\* Every variable of the login path keeps its type.
THEOREM SessionTypes == Spec => []TypeOK
BY SessionsCorrect, PTL

\* A session stands for the user who logged in with it, on every thread and
\* after any expiry, restart or logout.
THEOREM SessionsBelong == Spec => []ServedAsOwner
<1>1. SessionInv => ServedAsOwner
  BY DEF SessionInv, AnswerFits, ServedAsOwner
<1> QED
  BY SessionsCorrect, <1>1, PTL

\* A cached session outlives its row by no more than the two lives differ and a
\* request takes.
THEOREM SessionsRunDry == Spec => []CacheWithinLog
<1>1. SessionInv => CacheWithinLog
  BY DEF SessionInv, EntryFits, CacheWithinLog
<1> QED
  BY SessionsCorrect, <1>1, PTL

\* No session is refused before its row has expired, whatever the cache lost.
THEOREM SessionsSurvive == Spec => []OnlyExpiredRefused
<1>1. SessionInv => OnlyExpiredRefused
  BY DEF SessionInv, AnswerFits, OnlyExpiredRefused
<1> QED
  BY SessionsCorrect, <1>1, PTL

\* The step behind SessionsRunOut, for all bounds: an expired session that no
\* thread holds stays so, and its cache entry gets no more time from any step.
THEOREM ExpiredStayExpired == Spec => ExpiredRunsDown
<1>1. TypeOK /\ SessionInv /\ [Next]_vars =>
        [\A s \in LogIds : Expired(s) => Expired(s)' /\ cache'[s].ttl <= cache[s].ttl]_vars
  BY StepRunsDown DEF RunsDown
<1> QED BY <1>1, SessionsCorrect, PTL DEF Spec, ExpiredRunsDown

\* A session that was logged out is served no longer than its row lasts and one
\* request takes: the logout has taken away what the login's cache entry had over
\* the row, and no request brings that back.
THEOREM LogoutsTakeEffect == LogoutSpec => []EndedWithinLog
<1>1. LogoutInit => TypeOK /\ SessionInv /\ LogoutInv
  <2> SUFFICES ASSUME LogoutInit PROVE TypeOK /\ SessionInv /\ LogoutInv
    OBVIOUS
  <2>1. TypeOK /\ SessionInv
    BY InitInv DEF LogoutInit
  <2>2. NoReply.kind # "logged_out" /\ Idle.pc # "cache_session"
    BY DEF NoReply, Answer, Idle
  <2>3. \A h \in Handlers : reply[h] = NoReply /\ handler[h] = Idle
    BY DEF LogoutInit, Init
  <2>4. EndedKnown /\ CachingFresh
    BY <2>2, <2>3 DEF LogoutInit, EndedKnown, Ended, CachingFresh, Caching
  <2>5. EndedWithinLog
    BY DEF LogoutInit, EndedWithinLog
  <2> QED BY <2>1, <2>4, <2>5 DEF LogoutInv
<1>2. LogoutInv => EndedWithinLog
  BY DEF LogoutInv
<1> QED BY <1>1, <1>2, LogoutStepInv, PTL DEF LogoutSpec
=============================================================================
