------------------------------ MODULE OJServer ------------------------------
(***************************************************************************)
(* Accounts and WebSocket connections together, joined by the logins: a     *)
(* client registers, logs in with a name and a password, and opens a        *)
(* connection with the cookie he got.  Module Session has what a session    *)
(* goes through; here it is there or has ended.                             *)
(***************************************************************************)
EXTENDS Accounts, WsRegistry

VARIABLE sessions   \* the users with live sessions

vars == <<users, nextUser, notice, welcomed, forms, conn, registry, due, odd, sessions>>

Init == AccountsInit /\ WsInit /\ sessions = {}

Registration ==
  /\ \E form \in Forms : Register(form) \/ RegisterRefused(form) \/ RegisterThrows(form)
  /\ UNCHANGED <<wsVars, sessions>>

Login ==
  /\ \E username \in Names, password \in Passwords :
       \E id \in Matching(username, password) : sessions' = sessions \union {id}
  /\ notice' = NoNotice
  /\ UNCHANGED <<users, nextUser, welcomed, forms, wsVars>>

\* By logout or expiry
SessionEnds ==
  /\ \E id \in sessions : sessions' = sessions \ {id}
  /\ notice' = NoNotice
  /\ UNCHANGED <<users, nextUser, welcomed, forms, wsVars>>

\* Only who is logged in is listed; connections stay when the session ends that
\* opened them, and callbacks come whenever they come.
WsStep ==
  /\ \E fd \in Fds :
       \/ \E query \in Queries : Connect(fd, query) \/ LateCallback(query, fd)
       \/ sessions # {} /\ Regist(fd)
       \/ NeedLogin(fd) \/ WsError(fd) \/ WsClose(fd) \/ Drop(fd)
  /\ notice' = NoNotice
  /\ UNCHANGED <<users, nextUser, welcomed, forms, sessions>>

\* The tables survive, and with them the sessions (see Session).
Restart ==
  /\ conn' = [fd \in Fds |-> Closed]
  /\ registry' = [list \in Lists |-> {}]
  /\ due' = {}
  /\ odd' = {}
  /\ notice' = NoNotice
  /\ UNCHANGED <<users, nextUser, welcomed, forms, sessions>>

Next == Registration \/ Login \/ SessionEnds \/ WsStep \/ Restart

Spec == Init /\ [][Next]_vars

-----------------------------------------------------------------------------
(* Properties *)

TypeOK ==
  /\ AccountsTypeOK
  /\ WsTypeOK
  /\ sessions \subseteq {id \in UserIds : users[id] # NoUser}
=============================================================================
