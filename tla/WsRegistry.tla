----------------------------- MODULE WsRegistry -----------------------------
(***************************************************************************)
(* The WebSocket connections of /judgews (routes/judger.hpp) and the        *)
(* WS_manager they are listed in, one set of file descriptors per text: a   *)
(* connection is listed under std::to_string of the number in its query and *)
(* taken out under the query's own text, which may write the number         *)
(* differently.  The listed connections are to be told a run's results; the *)
(* calls that would do it are commented out, so nothing is sent here.  The  *)
(* manager and the sockets are external: of them the model takes that every *)
(* connection that was opened ends with ws_error, ws_close or both.  A      *)
(* callback may come when the connection's descriptor is another's already. *)
(***************************************************************************)
EXTENDS Integers

CONSTANTS
  Fds,         \* file descriptors
  Queries,     \* texts of the query value "id"
  Number(_),   \* get_query_value<uint64_t>, or NoNumber
  to_string(_),
  NoNumber

NoQuery == "no query"
Lists == {to_string(Number(q)) : q \in {r \in Queries : Number(r) # NoNumber}} \union Queries

VARIABLES
  conn,     \* what each descriptor is used for; late: is the connection listed
            \* where a callback that is still due will take it out?
  registry, \* WS_manager: descriptors listed under each text
  due,      \* <<query, fd>> of ended connections whose callback is to come
  odd       \* history: <<text, fd>> of connections that were listed under
            \* another text than their query's

wsVars == <<conn, registry, due, odd>>

Closed == [state |-> "closed", query |-> NoQuery, late |-> FALSE]

WsInit ==
  /\ conn = [fd \in Fds |-> Closed]
  /\ registry = [list \in Lists |-> {}]
  /\ due = {}
  /\ odd = {}

ListOf(fd) == to_string(Number(conn[fd].query))

-----------------------------------------------------------------------------
\* ws_conn_check: the id must be a number; the TODOs of the code (one
\* connection per id) are not done.
Connect(fd, query) ==
  /\ conn[fd].state = "closed"
  /\ Number(query) # NoNumber
  /\ conn' = [conn EXCEPT ![fd] = [state |-> "checked", query |-> query, late |-> FALSE]]
  /\ UNCHANGED <<registry, due, odd>>

\* handleResultWS, logged in: the connection is listed and gets its callbacks.
Regist(fd) ==
  /\ conn[fd].state = "checked"
  /\ conn' = [conn EXCEPT ![fd] = [state |-> "open", query |-> conn[fd].query,
                                   late |-> <<ListOf(fd), fd>> \in due]]
  /\ registry' = [registry EXCEPT ![ListOf(fd)] = @ \union {fd}]
  /\ odd' = IF ListOf(fd) = conn[fd].query THEN odd
            ELSE odd \union {<<ListOf(fd), fd>>}
  /\ UNCHANGED due

\* before() says no, and NEED_LOGIN is sent and the connection closed; or it
\* throws, or the client is gone: in each case there are no callbacks.
NeedLogin(fd) ==
  /\ conn[fd].state = "checked"
  /\ conn' = [conn EXCEPT ![fd] = Closed]
  /\ UNCHANGED <<registry, due, odd>>

Unregist(list, fd) == registry' = [registry EXCEPT ![list] = @ \ {fd}]

\* The callback of ws_error; ws_close may follow.
WsError(fd) ==
  /\ conn[fd].state = "open"
  /\ Unregist(conn[fd].query, fd)
  /\ conn' = [conn EXCEPT ![fd] = [state |-> "failed", query |-> conn[fd].query,
                                   late |-> FALSE]]
  /\ UNCHANGED <<due, odd>>

\* Mutant: the callback of ws_close takes nothing out.
WsCloseForgets(fd) ==
  /\ conn[fd].state \in {"open", "failed"}
  /\ conn' = [conn EXCEPT ![fd] = Closed]
  /\ UNCHANGED <<registry, due, odd>>

WsClose(fd) ==
  /\ conn[fd].state \in {"open", "failed"}
  /\ Unregist(conn[fd].query, fd)
  /\ conn' = [conn EXCEPT ![fd] = Closed]
  /\ UNCHANGED <<due, odd>>

\* The connection is over and its descriptor free before its callback ran.
Drop(fd) ==
  /\ conn[fd].state \in {"open", "failed"}
  /\ due' = due \union {<<conn[fd].query, fd>>}
  /\ conn' = [conn EXCEPT ![fd] = Closed]
  /\ UNCHANGED <<registry, odd>>

\* Mutant: the callback parses the query as handleResultWS does.
LateCallbackParses(query, fd) ==
  /\ <<query, fd>> \in due
  /\ Unregist(to_string(Number(query)), fd)
  /\ due' = due \/ due' = due \ {<<query, fd>>}
  /\ UNCHANGED <<conn, odd>>

\* Such a callback runs, ws_error or ws_close; the other may be still to come.
LateCallback(query, fd) ==
  /\ <<query, fd>> \in due
  /\ Unregist(query, fd)
  /\ due' = due \/ due' = due \ {<<query, fd>>}
  /\ UNCHANGED <<conn, odd>>

-----------------------------------------------------------------------------
(* Properties *)

States == {"closed", "checked", "open", "failed"}

WsTypeOK ==
  /\ conn \in [Fds -> [state : States, query : Queries \union {NoQuery}, late : BOOLEAN]]
  /\ registry \in [Lists -> SUBSET Fds]
  /\ due \subseteq Queries \X Fds
  /\ odd \subseteq Lists \X Fds

\* An open connection is listed under its submission, whatever other
\* connections end and however they wrote its id, unless its descriptor was
\* listed there before and the callback that takes that entry out is late.
LostOnlyToLateCallback ==
  \A fd \in Fds :
    conn[fd].state = "open" /\ fd \notin registry[ListOf(fd)] => conn[fd].late

\* A descriptor is listed under a submission nobody waits for there only until
\* a callback that is still due, or because a connection wrote the submission's
\* number in another way than std::to_string does: that entry nothing takes out.
StaleOnlyIfOddlyWritten ==
  \A list \in Lists : \A fd \in registry[list] :
    \/ conn[fd].state = "open" /\ ListOf(fd) = list
    \/ <<list, fd>> \in due
    \/ <<list, fd>> \in odd
=============================================================================
