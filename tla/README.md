# rojcpp: a verification project

rojcpp is the HTTP server of an online judge. Users log in and submit programs;
the server stores each submission in a SQL database, sends it to a judge server,
turns the judge server's answers into rows, and tells polling clients how far
their submission is. This directory models that in TLA+, checks it with TLC and
proves part of it with TLAPS.

## 1. The system

| component | code | state | operations |
|---|---|---|---|
| submission and polling handlers | `routes/judger.hpp` | local variables of a request | `handleJudgeMsg`, `handleResult` |
| judging tables | `CURD/judger_table.hpp`, `SQL/*.sql` | `solutions`, `solution_codes`, `solution_full_results` | three inserts, `update_solution` (two statements) |
| result handler | `lib/judgeConnect.hpp` | local variables of a message | `allSize`, test point, `all`, failure |
| cache | netcore `fastCache.hpp` (external) | key -> value, expiry | `set`, `get`, `exists`, `append`, `del`, `new_expire` |
| key factory | `lib/rojcppUtils.hpp` 130-162 | - | `get_is_judging_key`, ... |
| login sessions | `routes/user.hpp`, `routes/user_ap.hpp`, `CURD/login_logs.hpp` | `login_logs`, cache entries | `user_login`, `user_logout`, `before` |
| session token | `__encrypt`, `__decrypt`, `lib/plusaes.hpp` | - | number -> padding -> AES, block by block -> hexadecimal, and back |
| user registration | `routes/user.hpp`, `CURD/user_table.hpp`, `jsonEntity/userEntity.hpp` | `users` | `user_register`, the lookup in `user_login` |
| WebSocket registry | `handleResultWS`, netcore `WS_manager` (external) | id -> connections; callbacks per connection | `ws_conn_check`, `regist`, `unregist`, echo |
| text conversions | `lib/rojcppUtils.hpp` 17-126, `jsonEntity/` | - | `unescape_newline`, `str2int`, JSON writers |
| server, configuration | `main.cpp`, `__user_config.hpp` | - | start, routes, thread counts, expiries |

How they interact. An HTTP thread (`work_thread`, 1 as shipped) runs `before` and
then the handler. `handleJudgeMsg` makes three inserts, sets the key
`<id>_is_judging` for 30 minutes and sends the program. From then on the judge
client's threads (4 connections) call the result handler: `allSize:n` stores the
number of points under `<id>_point_size`; each test point is appended to
`<id>_results`; `all` gives the three keys 30 more seconds, scans the results and,
if the list was cached, runs `update_solution`; a failure runs `update_solution`
with its code and leaves the cache alone. `handleResult` looks for
`<id>_is_judging`, then for `<id>_cache_result`, and says NOT_FOUND otherwise. A
client that was sent to the WebSocket gives the submission's id in the query; its
connection is listed under that id until it fails or closes. Who may do any of
this is decided by a cookie: the number of a row of `login_logs`, encrypted, which
a login wrote for a row of `users`. The
database and the cache are all the two sides share, and no code takes a lock or
opens a transaction over more than one access.

What is hard here: two families of threads over a cache whose keys expire on
their own; sequences of statements any of which may throw, uncaught; a restart,
which empties the cache, loses every run and keeps the tables; two clocks for one
session; an id that is narrowed on the way; a registration that may have been
stored although its answer was an error; descriptors that are another connection's
when a callback comes; a conversion with three sizes that have to agree at block boundaries. `PROJECT.json` lists these hazards
line by line.

What makes the components correct: a run has its rows and its key to itself; the
flag is there as long as the run, unless that takes longer than the flag's 30 minutes, and not
much longer; rows get one verdict, and
verdict, score, letters and list agree; a session is its user's, survives a
restart and ends with its row; its token is read back as its number; who was
told OK, or told an error although his form was stored, can log in; whoever waits for a verdict gets one, and is listed while his
connection is open unless a late callback takes his entry out.

## 2. The modules

| module | models | kind |
|---|---|---|
| `Cache` | the cache, as operators on a function from keys to entries | operators |
| `ResultScan` | verdict and score of an `all` message, declaratively | operators |
| `ScanLoop` | the loop that computes them, one iteration per step | state machine |
| `Judging` | submission, polling, messages, rows, faults, time | state machine |
| `JudgingProperties` | what must hold of `Judging` | properties |
| `JudgingPolls` | `Judging` with a history variable: what was sent while a poll was between its two looks | state machine |
| `SolutionLifecycle` | what the two tables promise: one verdict, then its detail | abstract specification |
| `Session` | login, logout, the check of a session, its row and its cache entry | state machine |
| `SessionLogout` | `Session` with a history variable: the sessions logged out; what TLC runs | state machine |
| `SessionToken` | `__encrypt` and `__decrypt`: padding, ECB mode, hexadecimal; the cipher is a constant | functions |
| `AesState` | the cipher on a block and its key expansion; tables and arithmetic of bytes are constants | functions |
| `Aes` | tables, arithmetic, whole blocks with a key | functions, evaluated by TLC |
| `Codec` | the program text, the judge server's messages and the tokens, as texts | functions, checked over bounded texts |
| `Accounts` | the table `users`: registration and the lookup of a login | state machine (actions, no `Spec` of its own) |
| `WsRegistry` | WebSocket connections and the registry they are listed in | state machine (actions, no `Spec` of its own) |
| `OJServer` | `Accounts` and `WsRegistry` joined by logins, with restarts | composition |
| `MCJudging`, `MCOJServer` | values of constants for TLC | instances |
| `MCCodec` | the same for `Codec`, `Aes` and `ScanLoop`, which have no state in common: one run does either the one or the other | instance |
| `ResultScanProofs`, `ScanLoopProofs` | theorems about the scan | proofs |
| `JudgingProofs`, `JudgingVerdictProofs` | theorems about `Judging` and `JudgingPolls`: types, keys, rows, flags and polls; then verdicts, lists and the refinement of `SolutionLifecycle` | proofs |
| `SessionProofs` | theorems about `Session` and `SessionLogout` | proofs |
| `OJServerProofs` | theorems about `Accounts`, `WsRegistry` and their composition `OJServer` | proofs |
| `CodecProofs` | theorems about `Codec` | proofs |
| `TokenProofs` | theorems about `SessionToken`, `AesState` and the tokens of `Codec` | proofs |

### Judging

`solutions`, `codes` and `fullResults` are the tables, reduced to what the
properties tell apart: owner, verdict and score; whose text is stored; the list of
points. `handler[h]` is the program counter of an HTTP thread with the number of
the row (`sub`) and the number it knows (`key`): `add_solutions` passes the 64-bit
id through a variable of type `unsigned`, hence `Truncated`. `stream[s]` is the run
under key `s` on the judge server, `worker[w]` a thread inside `update_solution`,
and `age[s]` the time since the flag was set, as long as the run is not over. Time passes whatever a run
does: nothing in the code ends a run before its keys expire, and nothing does here. `InTime(s)` says that
it has not come to that; properties that speak of the flag or the list use it.

| action | code |
|---|---|
| `InsertSolution`, `InsertCode`, `InsertFullResult` | the inserts, `judger_table.hpp` 18-29, 64-79 |
| `SetJudging`, `Send` | `judger.hpp` 63-84 |
| `HandlerThrows` | any exception in `handleJudgeMsg`: a key violated, a fault |
| `PollJudging`, `PollNotJudging`, `PollCacheResult` | `handleResult`, one action per cache read |
| `HandleAllSize`, `HandlePoint`, `HandleAll`, `HandleFailed` | the branches of the result handler |
| `UpdateSolutions`, `UpdateFullResults`, `StatementThrows` | `update_solution` |
| `ConnectionLost`, `Restart`, `Tick` | the environment |

Every database statement is a step, because nothing groups them. `HandleAll`
takes the three `new_expire` calls and the `get` that follows in one step: they
are a few instructions apart and time is counted in units of 30 seconds and more.
The judge server is external. What is assumed of it: for one submission it sends
`allSize`, one message per point, then `all`, or a failure at any moment. After `allSize`
has been handled, the client may call the handler for the rest in any order and on different
threads: a point may be handled after `all`. `counted` keeps the points that were handled
before, and `late` that `all` came when the keys could have expired.

### Session

A session id is the encryption of its row's number; here it is that number, which two
theorems justify: `TokensCorrect`, an id is read back as its number, and `TokensApart`, two
numbers never have the same id.
`logs[s].left` is the time until the row's `expireat`. `before` is four actions
(`RequestWithoutCookie`, `CacheHit`, `CacheMiss` and, after the statement,
`QueryLog` then `Recache`), shared by protected routes (`op = "use"`) and by login
(`op = "login"`), which goes on when `before` says no. `handler[h].late` measures
the time between a time being read and being used.

### Codec

A text is a sequence of characters. `Unescape`, `Str2int`, `StrBeginWith`,
`GetAllSizeSize` and `GetSinglePointInfo` are the functions of `rojcppUtils.hpp`
with their quirks: only the backslash of an unknown escape is taken, `str2int`
notes a sign and does not use it. `Kind` is the order of tests in the result
handler. `Escaped`, `SizeMessage` and `PointMessage` are the other side, external:
what a client and the judge server write. The state machine only enumerates texts
and numbers; the properties are round trips.

### Session token and cipher

A text is a sequence of bytes, a block a function from the places 0 to 15 to bytes,
in the order of memory: the code keeps four little-endian words, byte `r` of word
`c` is place `4c + r`. `encrypt_ecb` and `decrypt_ecb` return what they leave in the
buffer together with the error code, because `__encrypt` and `__decrypt` use the
buffer without looking at the code; `ReadBack` says that there was nothing to look
at. The conditions of `check_encrypt_cond` and `check_decrypt_cond` are those for
padded data, which is all the repository asks for; a number stands for its digits.

`SessionToken` takes the cipher as a constant, and `AesState` (`expand_key`, `encrypt_state`,
`decrypt_state`) takes the tables and the arithmetic of bytes as constants, so that
theorems can be proved about them. `Aes` supplies what they leave open: `kSbox`,
`kInvSbox`, `mul2`, `mul` and exclusive or, with tables where TLC would compute the same product again and
again. `mul` has eight passes; the four that a factor below 16 can make a difference
in are written. Exclusive or is the community module `Bitwise`'s.

### Accounts, WsRegistry and OJServer

`Columns` is the statement of `UserTable::add`, which binds e-mail and school in the
other order than it names them. `Register`, `RegisterRefused` and `RegisterThrows`
are the three ways `user_register` ends; an error may be reported for a row that
is there. `welcomed` and `forms` are history variables. Nothing changes or deletes
an account, in the code as in the model.

`conn[fd]` is what a descriptor is used for, `registry` the sets of descriptors under
each text. `Connect` is `ws_conn_check`, `Regist` and `NeedLogin` the two ways
`handleResultWS` ends, `WsError` and `WsClose` its callbacks: they take the
descriptor out under the query's own text, `Regist` puts it in under
`std::to_string` of the parsed number. The history variable `odd` remembers where
the two differ. The library decides when a callback runs, and nothing in the repository
says that it does before the descriptor is another connection's: `Drop` frees the
descriptor with its callbacks still `due`, and `LateCallback` runs one of them. `late` in
`conn[fd]` notes that a connection was listed where such a callback would take it out.
`OJServer` adds live sessions: a login needs an account, an open
connection needed a session when it was opened, and keeps it when the session ends.

### Cache

A key without time left is an absent key. `append` to a present key may or may not
restart its expiry: the library's source is not in the repository, so
`AppendRenews` is a constant and no theorem depends on its value.

## 3. The runs

| run | expects | question |
|---|---|---|
| `Judging` | pass | are flags, rows, lists and verdicts consistent under faults, restarts and two workers? |
| `JudgingKeys` | pass | do the primary keys keep submissions apart when ids wrap, so that what is judged is what was stored? do polls tell the truth about running submissions, with two HTTP threads? |
| `JudgingLive` | pass | does every run get its verdict, and does the flag go? |
| `Session` | pass | whose are sessions, when do they end, what does a restart lose, and what does a logout achieve? |
| `Codec` | pass | do a program, a point, a number of points and a session's number arrive as they were sent? does the cipher give the published results? does the loop over the points compute verdict, score and letters? |
| `OJServer` | pass | can everyone log in whose form was stored, whatever he was told? is the registry right while descriptors are reused, before and after their callbacks? |
| `JudgingNoPoints` | violation | does a run without test points get a verdict? |
| `JudgingColumns` | violation | does the update fit the shipped schema? |
| `SessionLogout` | violation | does logging out end a session? |
| `SessionExpiry` | violation | does a session end when its row expires? |
| `CodecUnescape` | violation | does unescaping touch line ends only? |
| `OJServerSchool` | violation | is a registration refused only if the name or the e-mail is taken? |

### Bounds

- `Judging`: two submissions, up to two test points each, two worker threads, one
  HTTP thread. Two submissions are what it takes to confuse keys, two points what
  it takes to order and interleave them, two workers what it takes to have two
  verdicts under way. `IdSpan = 10` is larger than any id: ids do not wrap. Nobody polls here
  (`AskedIds` is empty): a poll changes nothing that the properties of this run speak of.
- `JudgingKeys`: three submissions, two HTTP threads, `IdSpan = 2` and no foreign
  keys: the third submission wraps onto the first. The threads also poll: one may poll an id
  between any two steps of the other's submission. Runs have no points here; `Judging` has them.
- `JudgingLive`: one worker, one point, two submissions; no faulty statements
  (a verdict whose statement failed is lost, as the code has it), but failures of
  runs, lost connections and restarts at any moment.
- Time: `KeyTTL = 2`, `FinishTTL = 1`: one unit may pass between any two steps while the keys
  are good, and a second one makes them expire under a run that goes on. A restored list, a flag that
  is gone and a poll that does not see a run all occur in the runs.
- The scan in `Codec`: all messages of up to four points over -1, 0, 1, 2 and 9 (a code
  without a letter). The codes' values are those of the external `judger.h`; any
  distinct non-zero values give the same model.
- `Session`: two users, two logins, two threads; rows live two units and cache
  entries four, because `session_expire` is longer than the row's life; a
  request takes at most one unit between reading a time and using it. Four is one more than
  a row's two and a request's one, so that the entry of a login is told from one that was
  restored (`EndedWithinLog`). `SessionExpiry` has the configured lives, 15 and 17.5 days, in half days.
- `Codec`: all texts of up to three characters over nine that the conversions tell
  apart (the letters n and r, a digit, a sign, a quote, a comma, a backslash and
  the two line ends), and the numbers 0 to 12, so that one and two digits occur.
  An escape is two characters long: three put one before, after and across
  another. No text is long enough for `str2int` to overflow (`IsShort`; numbers are
  at most `INT_MAX` by `CodecBounds`), and the model does not say what happens then.
- Tokens (run `Codec`): the numbers 1 to 12 with 0, 14, 15 and 18 zeros after them:
  1, 2, 15, 16, 17, 19 and 20 digits, which are a short block, a block that misses
  one byte, a full one (and a block of padding), one byte more, and the longest
  numbers of 64 bits; with the key of `__user_config.hpp`. The published results are those of FIPS 197,
  appendix C, one for each size of key. `TablesFit` goes through all 256 bytes, all
  65536 pairs and all triples of half bytes, and expands the server's key and the three
  published ones.
- `OJServer`: two names, passwords, schools and descriptors, one e-mail, two rows;
  the queries are `07`, which is listed under 7, `8`, which is listed under itself, and a text that is
  no number. Two rows are what it takes to collide, one odd and one plain text what it takes to leave an
  entry behind and to lose one to a late callback, two descriptors to have that happen while another
  connection is listed. `OJServerSchool` has one school and two e-mails.
- `OJServerSchool` and `Codec` may stop (all rows and numbers used): deadlock is not
  checked there.
- `AskedIds` bounds what clients poll, `MaxSolutions`, `MaxPoints`, `MaxLogins` the
  counters. Symmetry (of threads; in `OJServer` of forms and descriptors) is used only where no liveness is checked.

### Fairness

`Fairness` is weak fairness of each thread's own steps, of the delivery of each
run's messages and of time. Requests, restarts and lost connections are never
owed. Weak fairness of a thread is what the operating system gives; nothing in
the code blocks a thread on another. The delivery of messages is the assumption
made of the judge server; a run whose connection breaks is `gone` and the property
says so. `JudgedEventually` excludes runs of which no point was handled before `all`, among them those
without points, which `JudgingNoPoints` shows to wait for ever, and runs that outlast their keys: their
list may be gone when `all` arrives.

### What the violations show

1. `JudgingNoPoints`: a run without test points skips `update_solution`.
2. `JudgingColumns`: `update_solution` names `mini_result` and `score`, which the
   table `solutions` of either SQL file does not have.
3. `SessionLogout`: logout deletes the cache entry and leaves the row, so the
   session comes back with the next request that carries it. It comes back for the
   row's time only: `EndedWithinLog` (run `Session`) says what is left of a logout.
4. `CodecUnescape`: `unescape_newline`, which says it unescapes `\n` and `\r`, takes
   the backslash of every other pair away, so a program with `\t` in a string is
   judged without it.
5. `OJServerSchool`: the insert into `users` binds e-mail and school in the wrong
   order. The unique index for e-mails guards schools: one user for each school,
   and any number of users for one e-mail. `StoredCanLogin` holds all the same,
   because names are still unique.
6. `SessionExpiry`: `session_expire` is `15*24*60*70` seconds, 17.5 days and not the "15 days" of its
   comment and of the row in `login_logs`. A session that stays in the cache since its login is
   answered after its row has expired. The run `Session` has this difference (4 units and 2), and
   `CacheWithinLog` counts it as `Overhang`: nothing outlives its row by more.

One thing was seen and has no run: nothing ever sets `<id>_cache_result`, so that a
poll after the end of a run is always answered NOT_FOUND (the lookup in the
database is a TODO in the code).

## 4. What is proved

The theorems hold for every number of submissions, points, threads, users,
descriptors and rows, every set of codes and every time-out, within the named
assumptions on constants: naturals where the code has naturals, `FinishTTL` no
more than `KeyTTL`, no test result equal to the code for "waiting", no failure
with the code for "accepted" (`BoundsAssumption`, `CodesAssumption`, `FlagsAssumption`,
`AppendRenewsIsBoolean`, `SessionBounds`, `AccountBounds`, `CodecBounds`), and a model value for "no row"
that is no row (`NoRowAssumption` of `Judging` and of `Session`, `NoUserAssumption`). TLC evaluates
each of them in some passing run.

| theorem | says | needs |
|---|---|---|
| `TypeCorrect` | `TypeOK` | - |
| `KeysCorrect` | the invariant `KeyInv` | - |
| `KeysFresh` | `KeyFreshAtSend`: no run is overwritten by another submission, even when ids wrap | - |
| `VerdictsHaveRows` | `RowsBeforeVerdict`: `update_solution` always finds its rows | foreign keys, or ids that fit |
| `StoredIsJudged` | `JudgedAsStored`: what runs under an id is what `solution_codes` holds for it, even when ids wrap | - |
| `FlagsCorrect` | the invariant `FlagInv` | - |
| `FinishedFlagsExpire` | `FinishedFlagBounded` | - |
| `FlagsCoverRuns` | `FlagCoversRun` | - |
| `AcceptedCorrect` | `AcceptedMeansFullScore` | - |
| `ListsCorrect` | `FullListsEachPointOnce` | - |
| `NotFoundIsOver` | `NotFoundMeansNotRunning`, of `JudgingPolls`, for any number of HTTP threads | - |
| `LifeCorrect` | `TypeOK`, `KeyInv`, `SolutionsThere`, `VerdictInv`, `ListInv` and `LifeInv` together | foreign keys, or ids that fit |
| `TablesImplementLifecycle` | `ImplementsLifecycle`: the tables behave as `SolutionLifecycle` | the same |
| `SessionsCorrect` | the invariant `SessionInv` | - |
| `SessionTypes`, `SessionsBelong` | `TypeOK`, `ServedAsOwner` | - |
| `SessionsRunDry` | `CacheWithinLog` | - |
| `SessionsSurvive` | `OnlyExpiredRefused` | - |
| `ExpiredStayExpired` | `ExpiredRunsDown`: nothing brings an expired session back | - |
| `LogoutsTakeEffect` | `EndedWithinLog`, of `SessionLogout` | - |
| `ServerCorrect` | the invariant `ServerInv` of `OJServer` | - |
| `ServerTypes`, `StoredLogIn` | `TypeOK`, `StoredCanLogin` | - |
| `OnlyLateCallbacksLose`, `StaleRecorded` | `LostOnlyToLateCallback`, `StaleOnlyIfOddlyWritten` | - |
| `ScoreIsFullWhenAccepted` | score 100 means verdict 0 and at least one point | - |
| `ScanTypes`, `ScanCorrect`, `ScanColumnsAgree` | the loop computes what `ResultScan` declares; verdict, score and letters agree | - |
| `SizesArrive`, `PointsArrive` | `SizeArrives`, `PointArrives` | - |
| `ProgramsArrive` | `ProgramArrives` | - |
| `CodecTypes` | `TypeOK` of `Codec` | - |
| `TokenReadsBack` | a number is read back from its token without an error, whatever its length | a valid key size, a cipher that decrypts what it encrypts |
| `PassesUndone` | each pass of decryption undoes the pass of encryption with the same round key | `TablesFit` |
| `BlocksReadBack` | decryption undoes encryption, for any number of rounds and any round keys | `TablesFit` |
| `KeysExpand` | `expand_key` gives a block for every round, whatever the key | `TablesFit`, a key of a valid size |
| `SessionNumbersReadBack` | `TokenReadsBack` with the cipher of `plusaes.hpp` and any key | the same |
| `TokensApart` | two numbers never have the same token | the same |
| `TokensCorrect` | `TokensReadBack` in every state of `Codec` | the same |

The assumptions of the last column are hypotheses of the theorems, not of the
model. No theorem assumes that a run ends in time. "Foreign keys, or ids that fit" is the one a maintainer should
know of: `create-sql-without-fk.sql` has no foreign keys, and after 2^32 submissions a truncated number may be that of
another row, or of none. `TablesFit` is checked by TLC in the run `Codec`, for the
tables and the arithmetic of `Aes`. `KeysExpand` uses two parts of it only: the tables hold
bytes (`TablesInvert`), and so do sums of bytes (`XorFits`).

### The argument

None of the properties of `Judging` is inductive. What makes them so:

- `KeyInv` (`JudgingProofs`). That a worker finds its rows says nothing of how
  they came there. `NumbersUnique`: a number handed out by the table
  `solutions` is in use by one thread, and no row of `solution_codes` holds it
  before its thread inserts one. `KeysOwned`: from that row on, the key is the
  thread's, and nothing has run under it. `RunsHaveRows`, and `WorkersFinish`: a busy
  worker belongs to a run that is over, and no two to the same. The step that
  matters is `InsertCode`: the primary key is the only thing that separates
  two submissions whose numbers have become equal.
- `SolutionsThere` (same module) adds the rows of `solutions`. It is inductive only if
  a truncated number is the number of a row: by the foreign key, or because
  nothing is truncated.
- `FlagInv` (same module). `FlagClock`: while a submission is about to be sent
  or running, its flag has lost no more time than has passed. `all` shortens a
  flag in the same step as it ends the run, and `KeyInv` says that the flag is
  not set afterwards.
- `StoredIsJudged` is `RunsHaveRows`: a run's text is the one its thread stored, because whoever could not store
  his text does not get to the send.
- `PollsCurrent` (same module), for `NotFoundMeansNotRunning`. A poll that found no flag may
  answer NOT_FOUND much later, when a run has started. The invariant says of every thread between its two looks:
  if the submission it asks for is running, that was sent since the first look (`overtaken`) or has
  outlasted its flag. `FirstLook` is its beginning: the look found no flag, and a running submission in time has one
  (`FlagCoversRun`). `OverlookedOrSent` keeps it: a run that is not in time does not become so.
  The history variable is what makes the statement one about one step (`StepNotFound`).
- `VerdictInv` (`JudgingVerdictProofs`). A run without points has result 0 and score
  0. It stays out of the table because the handler asks for the cached list:
  `NoPointNoList` says that there is none before the first point has arrived,
  `WorkersAgree` carries the agreement of verdict and score from the scan (theorem
  `ScoreIsFullWhenAccepted`) to the statement.
- `ListInv` (same module). `RunsListed`: the cached list of a running submission names points that have arrived, once
  each; as long as the run is in time it names all of them and has lost no more time than the flag, hence
  is not gone before `all`. A list that expires half way begins again, and a point that is handled after `all`
  extends a list nobody reads any more. `WorkersListed` and `RowsListed` carry it into the row; `ListOf` is
  what the three say of a list and a run.
- `LifeInv` (same module) is what the refinement needs besides: `RowsInOrder`,
  `VerdictsAfterRuns` (a verdict is stored only when the run is over) and `VerdictsOnce` (a
  worker between the two statements of `update_solution` holds the verdict that the
  row got, or waits for, and the row's detail is still empty). The map takes `solutions` and
  `fullResults` to `row` and `detail`. The insert into `solutions` and the two statements are the
  steps `Submit`, `Judge` and `Publish`, unless the statement throws or stores nothing; every other
  action stutters. `ListInv`'s lists, which name no point twice, are the abstract specification's.
- `SessionInv` (`SessionProofs`). A row may expire, and its cache entry be dropped, between
  the statement of `before` and the `set` that restores the session. `ThreadFits` says
  what such a thread knows: the row's user, and the time the row had left `late`
  units ago, `late` at most `RequestDelay`. `EntryFits` is the same for cache entries, with
  `Overhang` for the two configured lives. `AnswerFits` carries both into the reply.
- `LogoutInv` (same module), for `LogoutsTakeEffect`. `CacheWithinLog` allows an entry `Overhang` beyond its
  row; that a logged-out session has none of it depends on who may still write the long
  entry. `CachingFresh`: only the thread of the login itself, and until it has, no client has the
  session, so nobody can have ended it. A thread that had asked for the row before the
  logout writes what the row had left (`ThreadFits`), late by a request at most.
- `ExpiredStayExpired` (same module) is a statement about steps. `Expired` asks that the row has no time left and
  that no thread still holds an earlier answer; the lemmas go through the steps by
  what they write: requests read the cache or delete from it (`AnswersIdle`, `RequestRunsDown`), only
  `AddLog` writes a row and it writes a new one, a thread that asks for the expired row
  is refused (`ThreadRunsDown`), time and restarts only take away (`EnvironmentRunsDown`). `SessionsRunOut` is this
  and fairness: in that state an entry that runs down is never filled again.
- `ServerInv` (`OJServerProofs`). `NamesUnique` is the unique index on user names, kept by every
  insert; `RowsStay` says that no step changes a row, so that what was stored
  once stays true (`WelcomedRows`, `SessionsHaveRows`). For the registry, `FdInv` is what must be known of one
  descriptor: `StaleOnlyIfOddlyWritten` and `LostOnlyToLateCallback` do not survive a step without each other's
  reasons, that an entry under another text is on record as soon as it is made, and that a callback which is due where
  the open connection is listed was due when it was listed. `OneConnection` lets every step be looked at for its own
  descriptor only; `EndsInv`, `DropInv` and `LateCallbackInv` are the steps that take entries out, or should have.
- In `ScanLoopProofs`, the loop's variables are what `ResultScan` declares for the
  prefix read so far; `FinalResultStep` and `RightSizeStep` are that, for one more
  point. In `ResultScanProofs`, `LeastElement` gives the first failure.

- In `TokenProofs`, `HexReadBack` and `DecryptedBlocks` reduce a token to its blocks, and
  the rest is the arithmetic of sizes: with `n` digits and `pad = 16 - n % 16`, the
  last block ends in `pad` bytes `pad`, and `n + pad` is a multiple of 16. The cipher's
  passes are undone one by one; the hard one is `mix_columns`. `XorGroup` lifts
  the laws of exclusive or from half bytes, of which TLC checks all triples, to
  bytes; `RowsAndColumns` reorders a sum of sixteen; `ByteUnmixed` is then the product
  of the two matrices, entry by entry. Its hypothesis `TablesFit` is about single
  bytes and pairs, and the run `Codec` checks every one of them for the tables and
  the arithmetic of `Aes`: theorem and run together cover all blocks and keys.
- `BlocksReadBack` (same module) is an induction over the rounds. The library's induction theorems
  cannot be instantiated, so `UpTo` (`CodecProofs`) derives induction over an interval, for sets, from
  `LeastElement` of `ResultScanProofs`.
- `KeysExpand` (same module). The words of a key are a recursive function of sequences that grow by a word; `WordsType`
  shows that it exists (`Recursion`) and that after `i` steps it has `Nk + i` words. `KeySizes` is why a step reads
  neither behind the last entry of `rcon` nor before the first word: for the three sizes,
  at most ten steps are multiples of the key's length.
  `EncryptionStates` shows that the recursive function of states exists (`TLAPS` knows it as a
  CHOOSE) and `DecryptionStates` that decryption goes through the same states. `NumeralReadBack` does the
  same for the digits of a number, whence `TokensCorrect`.
- In `CodecProofs`, every conversion is a recursive function over a text, and its proof has two
  halves. `Recursion` (towards the end of a text) and `Rewriting` (from its end, with steps of one or two
  characters) show that the function exists, so that its equation may be used. Then an
  induction follows the text: `FieldRead` says that a field without commas is in `tmp` when it has
  been read, and changes nothing else; `ReadAs` says that wherever the text still to be read is
  what a client wrote of the rest of a program, the rest of the program is read, and `OneEscape`
  carries it over one character, escaped or not. `NineDigits` bounds a number one digit at a time.

### Only model-checked

- `JudgedEventually`, `FlagEventuallyClears`, `SessionsRunOut`: liveness under fairness is
  out of the prover's reach.
- `PublishedAnswers` and `TablesFit` are about particular numbers: TLC evaluates all of them.
- `SessionLogout`, `SessionExpiry` and the other runs that expect a violation: one counterexample is
  all there is to show.

No module declares a RECURSIVE operator.

## 5. What is not modelled

- The pushes to registered connections are commented out in the result handler: being
  listed has no effect yet, and no message to a client is modelled. The echo of
  WebSocket messages changes no state.
- The JSON writers (`to_json` of the entities, `single_judge_result_info`, whose text
  has no closing brace): what they write goes to the commented-out pushes or to
  clients that are not in the repository.
- Overflow of `str2int` (its `int` is undefined behaviour on overflow): the numbers
  come from the judge server.
- Cookies the server did not write: a text of odd length makes `__decrypt` read and
  write one byte too far, one whose padding is wrong leaves the padding's size to
  chance, and `stoull` throws on what is no number. Tokens are modelled for what
  `__encrypt` wrote.
- The modes CBC, CTR and GCM of `lib/plusaes.hpp`, and its functions without padding:
  nothing calls them.
- `users`: nickname, role and time stamps, and the gaps refused rows leave in the numbers.
- `CURD/solutions.hpp`, `problems.hpp`, `redisLib.hpp`, `appException.hpp`: no
  route uses them.
- Columns no property is about: time and memory used, language, problem, hashes.

## 6. What is left

Every component that carries logic of the program is modelled, and every safety and action property
of the state machines that a passing run checks is proved. What remains open, and why:

1. liveness (`JudgedEventually`, `FlagEventuallyClears`, `SessionsRunOut`): out of the prover's reach. Its safety part is proved
   where it has one: `FinishedFlagsExpire` bounds the time a flag has left, `ExpiredStayExpired` says that an
   expired session is never cached anew;
2. `PublishedAnswers` and `TablesFit`: statements about the tables of `Aes`, made with bitwise operators that the
   prover cannot use. They are finite, and TLC evaluates them completely;
3. `handleResult`'s lookup in the database, the pushes to registered connections: the code has not got them
   yet. When it does, `PollCacheResult` and `WsRegistry` are where they belong.
