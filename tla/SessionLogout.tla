---------------------------- MODULE SessionLogout ---------------------------
(* Session with a history variable: the sessions a client has ended. *)
EXTENDS Session

VARIABLE ended

Ended(answers) ==
  {answers[h].sess : h \in {g \in Handlers : answers[g].kind = "logged_out"}}

LogoutInit == Init /\ ended = {}
LogoutNext == Next /\ ended' = ended \union Ended(reply')
LogoutSpec == LogoutInit /\ [][LogoutNext]_<<vars, ended>>
FairLogoutSpec == LogoutSpec /\ Fairness

\* routes/user.hpp:101 "log out": a session that has been logged out is not
\* answered for from then on.  The handler deletes the cache entry and leaves
\* the row, from which the next request fills the cache again.
LogoutEndsSession ==
  [][\A h \in Handlers : reply'[h] # reply[h] /\ reply'[h].kind = "ok"
       => reply'[h].sess \notin ended]_<<vars, ended>>

\* What a logout does achieve: the entry the login made is gone, and with it
\* the days it would have outlived the row.  An entry that a request restores
\* afterwards, even one that had asked for the row before the logout, has no more
\* than the row's time and the time of that request (routes/user.hpp:114).
EndedWithinLog ==
  \A s \in ended : Exists(cache, s) => cache[s].ttl <= logs[s].left + RequestDelay
=============================================================================
