------------------------------- MODULE Session ------------------------------
(***************************************************************************)
(* Login sessions: the rows of login_logs (CURD/login_logs.hpp), which     *)
(* survive a restart and carry an expiry date, and the cache in front of   *)
(* them, consulted before every protected request (routes/user_ap.hpp) and *)
(* written by login and logout (routes/user.hpp).  A session id is the     *)
(* encryption of the number of its row; here it is that number.  Requests  *)
(* carry no cookie or one that a login has handed out, at any later time:  *)
(* a client may have several in flight.                                    *)
(***************************************************************************)
EXTENDS Cache, Integers

CONSTANTS
  Handlers,      \* threads that serve HTTP requests
  Users,
  MaxLogins,     \* bound: rows of login_logs
  LogLife,       \* from now() to the default of login_logs.expireat
  SessionExpire, \* __config__::session_expire
  RequestDelay,  \* longest time between two steps of a request
  Faults,        \* may a statement throw?
  NoRow          \* an absent row

LogIds == 1..MaxLogins
NoCookie == 0

ASSUME SessionBounds ==
  /\ MaxLogins \in Nat /\ RequestDelay \in Nat
  /\ LogLife \in Nat \ {0} /\ SessionExpire \in Nat \ {0}
  /\ Faults \in BOOLEAN
ASSUME NoRowAssumption == NoRow \notin [user : Users, left : Nat]

VARIABLES
  logs,     \* table login_logs: user, and time left until expireat
  nextLog,  \* its AUTO_INCREMENT
  cache,    \* session id -> user
  handler,  \* what each HTTP thread is doing
  reply,    \* the last answer of each HTTP thread
  handedOut \* sessions some client has got

vars == <<logs, nextLog, cache, handler, reply, handedOut>>

Idle == [pc |-> "idle", op |-> "use", sess |-> NoCookie, user |-> NoRow,
         left |-> 0, late |-> 0]
Answer(kind, s, u) == [kind |-> kind, sess |-> s, user |-> u]
NoReply == Answer("none", NoCookie, NoRow)

Init ==
  /\ logs = [s \in LogIds |-> NoRow]
  /\ nextLog = 1
  /\ cache = EmptyCache(LogIds)
  /\ handler = [h \in Handlers |-> Idle]
  /\ reply = [h \in Handlers |-> NoReply]
  /\ handedOut = {}

-----------------------------------------------------------------------------
(* UserAP_is_logined::before, in front of a handler ("use") or inside login *)

\* before() has said yes: the handler runs, or login has nothing to do.
Admit(h, op, s, u) ==
  /\ handler' = [handler EXCEPT ![h] = Idle]
  /\ reply' = [reply EXCEPT
       ![h] = Answer(IF op = "use" THEN "ok" ELSE "already_logined", s, u)]

\* before() has said no: NEED_LOGIN, or login goes on.
Refuse(h, op, s) ==
  IF op = "use"
  THEN /\ handler' = [handler EXCEPT ![h] = Idle]
       /\ reply' = [reply EXCEPT ![h] = Answer("need_login", s, NoRow)]
  ELSE /\ handler' = [handler EXCEPT ![h] =
            [Idle EXCEPT !.pc = "credentials", !.op = "login"]]
       /\ reply' = [reply EXCEPT ![h] = NoReply]

RequestWithoutCookie(h, op) ==
  /\ handler[h].pc = "idle"
  /\ Refuse(h, op, NoCookie)
  /\ UNCHANGED <<logs, nextLog, cache, handedOut>>

\* Mutant: every hit renews the session.
CacheHitRenews(h, op, s) ==
  /\ handler[h].pc = "idle"
  /\ Exists(cache, s)
  /\ cache' = NewExpire(cache, s, SessionExpire)
  /\ Admit(h, op, s, cache[s].val[1])
  /\ UNCHANGED <<logs, nextLog, handedOut>>

CacheHit(h, op, s) ==
  /\ handler[h].pc = "idle"
  /\ Exists(cache, s)
  /\ Admit(h, op, s, cache[s].val[1])
  /\ UNCHANGED <<logs, nextLog, cache, handedOut>>

\* Mutant: only the cache is consulted.
CacheMissRefused(h, op, s) ==
  /\ handler[h].pc = "idle"
  /\ ~Exists(cache, s)
  /\ Refuse(h, op, s)
  /\ UNCHANGED <<logs, nextLog, cache, handedOut>>

CacheMiss(h, op, s) ==
  /\ handler[h].pc = "idle"
  /\ ~Exists(cache, s)
  /\ handler' = [handler EXCEPT ![h] =
       [Idle EXCEPT !.pc = "query", !.op = op, !.sess = s]]
  /\ reply' = [reply EXCEPT ![h] = NoReply]
  /\ UNCHANGED <<logs, nextLog, cache, handedOut>>

\* exist_and_NoExpired: the row's user and the time it has left.
QueryLog(h) ==
  /\ handler[h].pc = "query"
  /\ LET s == handler[h].sess IN
     IF logs[s].left > 0
     THEN /\ handler' = [handler EXCEPT ![h] =
               [@ EXCEPT !.pc = "recache", !.user = logs[s].user,
                         !.left = logs[s].left, !.late = 0]]
          /\ UNCHANGED reply
     ELSE Refuse(h, handler[h].op, s)
  /\ UNCHANGED <<logs, nextLog, cache, handedOut>>

\* Mutants: the restored entry gets a full session; it goes to a fixed key.
FullSession(r) == SessionExpire
TimeLeft(r) == r.left

FirstSession(r) == 1
SessionOf(r) == r.sess

Recache(h) ==
  /\ handler[h].pc = "recache"
  /\ cache' = Put(cache, SessionOf(handler[h]), <<handler[h].user>>,
                  TimeLeft(handler[h]))
  /\ Admit(h, handler[h].op, handler[h].sess, handler[h].user)
  /\ UNCHANGED <<logs, nextLog, handedOut>>

-----------------------------------------------------------------------------
(* POST /user/login, once before(false) has refused *)

\* Mutant: a wrong password is not told from a right one.
CredentialsUnchecked(h) ==
  /\ handler[h].pc = "credentials"
  /\ handler' = [handler EXCEPT ![h].pc = "add_log"]
  /\ UNCHANGED <<logs, nextLog, cache, reply, handedOut>>

CheckCredentials(h) ==
  /\ handler[h].pc = "credentials"
  /\ \/ /\ \E u \in Users :
             handler' = [handler EXCEPT ![h].pc = "add_log", ![h].user = u]
        /\ UNCHANGED reply
     \/ /\ handler' = [handler EXCEPT ![h] = Idle]
        /\ reply' = [reply EXCEPT ![h] = Answer("wrong_password", NoCookie, NoRow)]
  /\ UNCHANGED <<logs, nextLog, cache, handedOut>>

AddLog(h) ==
  /\ handler[h].pc = "add_log"
  /\ nextLog <= MaxLogins
  /\ logs' = [logs EXCEPT ![nextLog] = [user |-> handler[h].user, left |-> LogLife]]
  /\ nextLog' = nextLog + 1
  /\ handler' = [handler EXCEPT
       ![h].pc = "cache_session", ![h].sess = nextLog, ![h].late = 0]
  /\ UNCHANGED <<cache, reply, handedOut>>

\* The session id goes into the response, and into the cache.
CacheSession(h) ==
  /\ handler[h].pc = "cache_session"
  /\ cache' = Put(cache, SessionOf(handler[h]), <<handler[h].user>>, SessionExpire)
  /\ handedOut' = handedOut \union {handler[h].sess}
  /\ reply' = [reply EXCEPT
       ![h] = Answer("logged_in", handler[h].sess, handler[h].user)]
  /\ handler' = [handler EXCEPT ![h] = Idle]
  /\ UNCHANGED <<logs, nextLog>>

\* Only "no result" is caught: any other exception ends the request, that of the
\* insert also when the row is stored ("cache_session").
StatementThrows(h) ==
  /\ Faults
  /\ handler[h].pc \in {"query", "credentials", "add_log", "cache_session"}
  /\ handler' = [handler EXCEPT ![h] = Idle]
  /\ UNCHANGED <<logs, nextLog, cache, reply, handedOut>>

\* Mutant: only the cookie is taken back.
LogoutOfBrowser(h, s) ==
  /\ handler[h].pc = "idle"
  /\ reply' = [reply EXCEPT ![h] = Answer("logged_out", s, NoRow)]
  /\ UNCHANGED <<logs, nextLog, cache, handler, handedOut>>

\* GET /user/logout: the cache forgets the session; its row stays.
Logout(h, s) ==
  /\ handler[h].pc = "idle"
  /\ cache' = Del(cache, s)
  /\ reply' = [reply EXCEPT ![h] = Answer("logged_out", s, NoRow)]
  /\ UNCHANGED <<logs, nextLog, handler, handedOut>>

LogoutWithoutCookie(h) ==
  /\ handler[h].pc = "idle"
  /\ reply' = [reply EXCEPT ![h] = Answer("not_logined", NoCookie, NoRow)]
  /\ UNCHANGED <<logs, nextLog, cache, handler, handedOut>>

-----------------------------------------------------------------------------
(* The environment *)

Restart ==
  /\ cache' = EmptyCache(LogIds)
  /\ handler' = [h \in Handlers |-> Idle]
  /\ reply' = [h \in Handlers |-> NoReply]
  /\ UNCHANGED <<logs, nextLog, handedOut>>

\* Threads that have taken a time and not used it yet.
Pending(h) == handler[h].pc \in {"recache", "cache_session"}

Tick ==
  /\ \A h \in Handlers : Pending(h) => handler[h].late < RequestDelay
  /\ cache' = Aged(cache)
  /\ logs' = [s \in LogIds |->
       IF logs[s] = NoRow \/ logs[s].left = 0 THEN logs[s]
       ELSE [logs[s] EXCEPT !.left = @ - 1]]
  /\ handler' = [h \in Handlers |->
       IF Pending(h) THEN [handler[h] EXCEPT !.late = @ + 1] ELSE handler[h]]
  /\ UNCHANGED <<nextLog, reply, handedOut>>

-----------------------------------------------------------------------------
Request(h) ==
  \/ \E op \in {"use", "login"} :
       \/ RequestWithoutCookie(h, op)
       \/ \E s \in handedOut : CacheHit(h, op, s) \/ CacheMiss(h, op, s)
  \/ LogoutWithoutCookie(h) \/ \E s \in handedOut : Logout(h, s)

HandlerStep(h) ==
  \/ QueryLog(h) \/ Recache(h) \/ CheckCredentials(h) \/ AddLog(h)
  \/ CacheSession(h) \/ StatementThrows(h)

Next == (\E h \in Handlers : Request(h) \/ HandlerStep(h)) \/ Restart \/ Tick

Spec == Init /\ [][Next]_vars

\* Threads run on and time passes; nobody need send a request.
Fairness == (\A h \in Handlers : WF_vars(HandlerStep(h))) /\ WF_vars(Tick)

-----------------------------------------------------------------------------
(* Properties *)

Ops == {"use", "login"}
PCs == {"idle", "query", "recache", "credentials", "add_log", "cache_session"}
Kinds == {"none", "ok", "already_logined", "need_login", "wrong_password",
          "logged_in", "logged_out", "not_logined"}

\* Every variable stays in the set of values the code can give it.
TypeOK ==
  /\ logs \in [LogIds -> [user : Users, left : 0..LogLife] \union {NoRow}]
  /\ nextLog \in 1..(MaxLogins + 1)
  /\ cache \in [LogIds -> [val : Seq(Users), ttl : Nat]]
  /\ handler \in [Handlers ->
       [pc : PCs, op : Ops, sess : LogIds \union {NoCookie},
        user : Users \union {NoRow}, left : 0..LogLife, late : 0..RequestDelay]]
  /\ reply \in [Handlers ->
       [kind : Kinds, sess : LogIds \union {NoCookie}, user : Users \union {NoRow}]]
  /\ handedOut \subseteq LogIds

\* Whoever presents a session is taken for the user who logged in with it,
\* through every expiry, restart and logout of this and other sessions.
ServedAsOwner ==
  \A h \in Handlers : reply[h].kind \in {"ok", "already_logined"} =>
    reply[h].user = logs[reply[h].sess].user

\* What session_expire has over the row's own life: 2.5 days, in the code.
Overhang == IF SessionExpire > LogLife THEN SessionExpire - LogLife ELSE 0

\* A cached session outlives its row by no more than the difference of the two
\* lives and the time a request takes between reading the row's expiry and
\* filling the cache; a cached answer is never asked of the database again, so
\* nothing else would stop it.
CacheWithinLog ==
  \A s \in LogIds :
    Exists(cache, s) => cache[s].ttl <= logs[s].left + RequestDelay + Overhang

\* NEED_LOGIN is said to a request with a cookie only when the row has expired:
\* a restart, which loses the cache, loses no session.
OnlyExpiredRefused ==
  \A h \in Handlers :
    reply[h].kind = "need_login" /\ reply[h].sess # NoCookie =>
      logs[reply[h].sess].left = 0

\* The row has expired, and no thread still holds what the row once said.
Expired(s) ==
  /\ logs[s] # NoRow /\ logs[s].left = 0
  /\ \A h \in Handlers : Pending(h) => handler[h].sess # s

\* Nothing brings an expired session back: no login, no late answer of the
\* database, no request however often it is sent.  What its cache entry has left
\* can only run down.
ExpiredRunsDown ==
  [][\A s \in LogIds : Expired(s) => Expired(s)' /\ cache'[s].ttl <= cache[s].ttl]_vars

\* Every session is out of the cache for good some day, however often it is
\* used: using it never extends it beyond the row's date.
SessionsRunOut == \A s \in LogIds : <>[]~Exists(cache, s)

-----------------------------------------------------------------------------
(* What the repository says and the code does not do *)

\* __user_config.hpp:26 "15 days": a session is answered for as long as its row
\* in login_logs is good, which is 15 days, and no longer.
ServedWithinLog ==
  [][\A h \in Handlers : reply'[h] # reply[h] /\ reply'[h].kind = "ok"
       => logs[reply'[h].sess].left > 0]_vars
=============================================================================
