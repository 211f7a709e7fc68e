--------------------------- MODULE OJServerProofs ---------------------------
(***************************************************************************)
(* Accounts, logins and WebSocket connections of module OJServer, for any  *)
(* forms, names, numbers of users and descriptors, and whatever ways there *)
(* are of writing a number.                                                *)
(***************************************************************************)
EXTENDS OJServer, TLAPS

-----------------------------------------------------------------------------
(* The accounts: the inductive invariant *)

Rows == {Columns(form) : form \in Forms}

\* Rows are filled in the order of their numbers, each from one form.
TableFilled ==
  /\ nextUser \in 1..(MaxUsers + 1)
  /\ users \in [UserIds -> Rows \union {NoUser}]
  /\ forms \in [UserIds -> Forms \union {NoUser}]
  /\ \A id \in UserIds :
       IF id < nextUser THEN forms[id] \in Forms /\ users[id] = Columns(forms[id])
                        ELSE forms[id] = NoUser /\ users[id] = NoUser

\* What uq_username is for.
NamesUnique ==
  \A i, j \in UserIds :
    /\ users[i] # NoUser /\ users[j] # NoUser
    /\ users[i].username = users[j].username
    => i = j

\* Number id is a row that was made from the form.
MadeFrom(id, form) == id \in UserIds /\ id < nextUser /\ form \in Forms /\ forms[id] = form

WelcomedRows == \A w \in welcomed : MadeFrom(w.id, w.form)

NoticeKinds == notice.kind \in {"none", "ok", "duplicate", "error"}

AccountsInv == TableFilled /\ NamesUnique /\ WelcomedRows /\ NoticeKinds

\* No step changes or removes a row.
RowsStay ==
  /\ nextUser <= nextUser'
  /\ \A id \in UserIds :
       id < nextUser => users'[id] = users[id] /\ forms'[id] = forms[id]

LEMMA RowFields ==
  ASSUME NEW form \in Forms
  PROVE  /\ Columns(form).username = form.username
         /\ Columns(form).password = form.password
         /\ Columns(form) # NoUser /\ form # NoUser /\ Columns(form) \in Rows
BY NoUserAssumption DEF Columns, Rows

LEMMA InitAccountsInv == Init => AccountsInv
BY AccountBounds
   DEF Init, AccountsInit, AccountsInv, TableFilled, NamesUnique, WelcomedRows,
       NoticeKinds, NoNotice, UserIds

LEMMA AccountsTyped == AccountsInv => AccountsTypeOK
BY RowFields DEF AccountsInv, TableFilled, NoticeKinds, AccountsTypeOK

LEMMA InsertFills ==
  ASSUME AccountsInv, NEW form \in Forms, Insert(form)
  PROVE  TableFilled' /\ NamesUnique' /\ RowsStay
         /\ nextUser \in UserIds /\ nextUser < nextUser' /\ forms'[nextUser] = form
<1> DEFINE row == Columns(form)
<1>1. row \in Rows /\ row # NoUser /\ form # NoUser
  BY RowFields
<1>t. /\ users \in [UserIds -> Rows \union {NoUser}]
      /\ forms \in [UserIds -> Forms \union {NoUser}]
      /\ nextUser \in UserIds /\ MaxUsers \in Nat
  BY AccountBounds DEF AccountsInv, TableFilled, Insert
<1>2. /\ users' = [users EXCEPT ![nextUser] = row]
      /\ forms' = [forms EXCEPT ![nextUser] = form]
      /\ nextUser' = nextUser + 1
      /\ ~Duplicate(row)
  BY DEF Insert
<1> HIDE DEF row
<1>3. /\ users' \in [UserIds -> Rows \union {NoUser}] /\ users'[nextUser] = row
      /\ forms' \in [UserIds -> Forms \union {NoUser}] /\ forms'[nextUser] = form
      /\ \A id \in UserIds \ {nextUser} : users'[id] = users[id] /\ forms'[id] = forms[id]
  BY <1>t, <1>1, <1>2
<1>4. TableFilled'
  <2>1. ASSUME NEW id \in UserIds
        PROVE  IF id < nextUser' THEN forms'[id] \in Forms /\ users'[id] = Columns(forms'[id])
                                 ELSE forms'[id] = NoUser /\ users'[id] = NoUser
    <3>1. CASE id = nextUser
      BY <1>t, <1>2, <1>3, <3>1 DEF row, UserIds
    <3>2. CASE id # nextUser
      BY <1>t, <1>2, <1>3, <3>2 DEF AccountsInv, TableFilled, UserIds
    <3> QED
      BY <3>1, <3>2
  <2> QED
    BY <1>t, <1>2, <1>3, <2>1 DEF TableFilled, UserIds
<1>5. NamesUnique'
  BY <1>2, <1>3 DEF AccountsInv, NamesUnique, Duplicate
<1>6. RowsStay
  BY <1>t, <1>2, <1>3 DEF RowsStay, UserIds
<1> QED
  BY <1>t, <1>2, <1>3, <1>4, <1>5, <1>6 DEF UserIds

LEMMA RowsStayMade ==
  ASSUME AccountsInv, RowsStay, TableFilled', NEW id, NEW form, MadeFrom(id, form)
  PROVE  MadeFrom(id, form)'
BY DEF AccountsInv, TableFilled, RowsStay, MadeFrom, UserIds

LEMMA RegistrationInv ==
  ASSUME AccountsInv, Registration
  PROVE  AccountsInv' /\ RowsStay
<1>1. PICK form \in Forms : Register(form) \/ RegisterRefused(form) \/ RegisterThrows(form)
  BY DEF Registration
<1>2. CASE UNCHANGED <<users, nextUser, welcomed, forms>> /\ NoticeKinds'
  BY <1>2
     DEF AccountsInv, TableFilled, NamesUnique, WelcomedRows, MadeFrom, RowsStay, UserIds
<1>3. CASE Insert(form) /\ NoticeKinds'
           /\ welcomed' \subseteq welcomed \union {[id |-> nextUser, form |-> form]}
  <2>1. TableFilled' /\ NamesUnique' /\ RowsStay
        /\ nextUser \in UserIds /\ nextUser < nextUser' /\ forms'[nextUser] = form
    BY <1>3, InsertFills
  <2>2. ASSUME NEW w \in welcomed' PROVE MadeFrom(w.id, w.form)'
    <3>1. CASE w \in welcomed
      BY <2>1, <3>1, RowsStayMade DEF AccountsInv, WelcomedRows
    <3>2. CASE w = [id |-> nextUser, form |-> form]
      BY <2>1, <3>2 DEF MadeFrom
    <3> QED
      BY <1>3, <3>1, <3>2
  <2> QED
    BY <1>3, <2>1, <2>2 DEF AccountsInv, WelcomedRows
<1>4. NoticeKinds'
  BY <1>1 DEF Register, RegisterRefused, RegisterThrows, NoticeKinds
<1> QED
  BY <1>1, <1>2, <1>3, <1>4 DEF Register, RegisterRefused, RegisterThrows

LEMMA OtherStepsLeaveAccounts ==
  ASSUME AccountsInv, UNCHANGED <<users, nextUser, welcomed, forms>>,
         notice' = NoNotice \/ UNCHANGED notice
  PROVE  AccountsInv' /\ RowsStay
BY DEF AccountsInv, TableFilled, NamesUnique, WelcomedRows, MadeFrom, RowsStay, UserIds,
       NoticeKinds, NoNotice

\* Of all rows, only the form's own has its name.
LEMMA StoredMatch == AccountsInv => StoredCanLogin
<1> SUFFICES ASSUME AccountsInv PROVE StoredCanLogin
  OBVIOUS
<1>1. ASSUME NEW id \in UserIds, forms[id] # NoUser
      PROVE  Matching(forms[id].username, forms[id].password) = {id}
  <2>1. forms[id] \in Forms /\ users[id] = Columns(forms[id])
    BY <1>1 DEF AccountsInv, TableFilled
  <2>2. /\ users[id] # NoUser
        /\ users[id].username = forms[id].username
        /\ users[id].password = forms[id].password
    BY <2>1, RowFields
  <2> QED
    BY <2>2 DEF AccountsInv, NamesUnique, Matching
<1>2. \A w \in welcomed : forms[w.id] = w.form
  BY DEF AccountsInv, WelcomedRows, MadeFrom
<1> QED
  BY <1>1, <1>2 DEF StoredCanLogin

-----------------------------------------------------------------------------
(* The connections: the inductive invariant *)

ConnRecords == [state : States, query : Queries \union {NoQuery}, late : BOOLEAN]

\* Of one descriptor: its connection passed ws_conn_check with a number; once
\* listed where it will not be taken out it is on record; a callback that will
\* take it out is noted, and so is that it did; and where it is listed without
\* need it is on record or a callback is due.
FdInv(fd) ==
  /\ conn[fd].state # "closed" =>
       conn[fd].query \in Queries /\ Number(conn[fd].query) # NoNumber
  /\ conn[fd].state = "open" =>
       /\ ListOf(fd) # conn[fd].query => <<ListOf(fd), fd>> \in odd
       /\ <<ListOf(fd), fd>> \in due => conn[fd].late
       /\ fd \notin registry[ListOf(fd)] => conn[fd].late
  /\ \A list \in Lists : fd \in registry[list] =>
       \/ conn[fd].state = "open" /\ ListOf(fd) = list
       \/ <<list, fd>> \in due
       \/ <<list, fd>> \in odd

WsInv == WsTypeOK /\ \A fd \in Fds : FdInv(fd)

LEMMA ClosedFits == Closed \in ConnRecords /\ Closed.state = "closed"
BY DEF Closed, ConnRecords, States

LEMMA InitWsInv == WsInit => WsInv
BY ClosedFits DEF WsInit, WsInv, WsTypeOK, FdInv, ConnRecords

LEMMA WsTypes ==
  ASSUME WsInv
  PROVE  /\ conn \in [Fds -> ConnRecords] /\ registry \in [Lists -> SUBSET Fds]
         /\ due \subseteq Queries \X Fds /\ odd \subseteq Lists \X Fds
BY DEF WsInv, WsTypeOK, ConnRecords

\* Both texts a connection is listed and taken out under are lists.
LEMMA ListsKnown ==
  ASSUME WsInv, NEW fd \in Fds, conn[fd].state # "closed"
  PROVE  ListOf(fd) \in Lists /\ conn[fd].query \in Lists
BY DEF WsInv, FdInv, Lists, ListOf

\* A step that concerns one descriptor only has to be looked at there.
LEMMA OneConnection ==
  ASSUME WsInv, NEW fd \in Fds, NEW c \in ConnRecords,
         conn' = [conn EXCEPT ![fd] = c],
         registry' \in [Lists -> SUBSET Fds],
         due' \subseteq Queries \X Fds, odd' \subseteq Lists \X Fds,
         \A list \in Lists : \A g \in Fds \ {fd} :
           /\ g \in registry'[list] <=> g \in registry[list]
           /\ <<list, g>> \in due' <=> <<list, g>> \in due
           /\ <<list, g>> \in odd' <=> <<list, g>> \in odd,
         conn'[fd] = c => FdInv(fd)'
  PROVE  WsInv'
<1>1. /\ conn' \in [Fds -> ConnRecords] /\ conn'[fd] = c
      /\ \A g \in Fds \ {fd} : conn'[g] = conn[g]
  BY WsTypes
<1>2. WsTypeOK'
  BY <1>1 DEF WsTypeOK, ConnRecords
<1>3. ASSUME NEW g \in Fds, g # fd
      PROVE  FdInv(g)'
  <2>1. FdInv(g) /\ conn'[g] = conn[g] /\ ListOf(g)' = ListOf(g)
    BY <1>1, <1>3 DEF WsInv, ListOf
  <2>2. conn[g].state # "closed" => ListOf(g) \in Lists
    BY ListsKnown
  <2>3. \A list \in Lists :
          /\ g \in registry'[list] <=> g \in registry[list]
          /\ <<list, g>> \in due' <=> <<list, g>> \in due
          /\ <<list, g>> \in odd' <=> <<list, g>> \in odd
    BY <1>3
  <2> QED
    BY <2>1, <2>2, <2>3 DEF FdInv
<1> QED
  BY <1>1, <1>2, <1>3 DEF WsInv

\* A connection that is not open is as good as none.
LEMMA NotOpenInv ==
  ASSUME WsInv, NEW fd \in Fds, conn[fd].state \in {"closed", "checked"},
         NEW c \in ConnRecords, conn' = [conn EXCEPT ![fd] = c], c.state # "open",
         c.state # "closed" => c.query \in Queries /\ Number(c.query) # NoNumber,
         UNCHANGED <<registry, due, odd>>
  PROVE  WsInv'
<1>1. conn'[fd] = c => FdInv(fd)'
  BY DEF WsInv, FdInv
<1> QED
  BY <1>1, WsTypes, OneConnection

LEMMA ConnectInv ==
  ASSUME WsInv, NEW fd \in Fds, NEW query \in Queries, Connect(fd, query)
  PROVE  WsInv'
<1>1. PICK c : c = [state |-> "checked", query |-> query, late |-> FALSE]
  OBVIOUS
<1>2. c \in ConnRecords /\ c.state = "checked" /\ c.query = query
  BY <1>1 DEF ConnRecords, States
<1>3. conn' = [conn EXCEPT ![fd] = c]
  BY <1>1 DEF Connect
<1> QED
  BY <1>2, <1>3, NotOpenInv DEF Connect

LEMMA NeedLoginInv ==
  ASSUME WsInv, NEW fd \in Fds, NeedLogin(fd)
  PROVE  WsInv'
BY ClosedFits, NotOpenInv DEF NeedLogin

LEMMA RegistInv ==
  ASSUME WsInv, NEW fd \in Fds, Regist(fd)
  PROVE  WsInv'
<1>1. PICK c : c = [state |-> "open", query |-> conn[fd].query,
                    late |-> <<ListOf(fd), fd>> \in due]
  OBVIOUS
<1>2. conn[fd].state = "checked" /\ conn[fd].query \in Queries
      /\ Number(conn[fd].query) # NoNumber
  BY DEF Regist, WsInv, FdInv
<1>3. /\ c \in ConnRecords /\ c.state = "open" /\ c.query = conn[fd].query
      /\ c.late = (<<ListOf(fd), fd>> \in due)
  BY <1>1, <1>2 DEF ConnRecords, States
<1>4. conn' = [conn EXCEPT ![fd] = c] /\ due' = due
  BY <1>1 DEF Regist
<1>5. PICK l \in Lists : l = ListOf(fd) /\ l = to_string(Number(c.query))
  BY <1>2, <1>3, ListsKnown DEF ListOf
<1>6. /\ registry' = [registry EXCEPT ![l] = @ \union {fd}]
      /\ odd' = IF l = c.query THEN odd ELSE odd \union {<<l, fd>>}
  BY <1>3, <1>5 DEF Regist
<1>7. /\ registry' \in [Lists -> SUBSET Fds] /\ fd \in registry'[l]
      /\ \A list \in Lists : \A g \in Fds : g \in registry'[list] <=>
           g \in registry[list] \/ (g = fd /\ list = l)
  BY <1>6, WsTypes
<1>8. /\ odd' \subseteq Lists \X Fds /\ odd \subseteq odd' /\ (l # c.query => <<l, fd>> \in odd')
      /\ \A list \in Lists : \A g \in Fds \ {fd} : <<list, g>> \in odd' <=> <<list, g>> \in odd
  BY <1>6, WsTypes
<1>9. ASSUME conn'[fd] = c PROVE FdInv(fd)'
  <2>1. ListOf(fd)' = l
    BY <1>5, <1>9 DEF ListOf
  <2>2. \A list \in Lists : fd \in registry[list] => <<list, fd>> \in due \/ <<list, fd>> \in odd
    BY <1>2 DEF WsInv, FdInv
  <2> QED
    BY <1>2, <1>3, <1>4, <1>5, <1>7, <1>8, <1>9, <2>1, <2>2 DEF FdInv
<1> QED
  BY <1>3, <1>4, <1>7, <1>8, <1>9, WsTypes, OneConnection

\* What a callback does to the listings, in order or late.
LEMMA UnregistTakes ==
  ASSUME WsInv, NEW fd \in Fds, NEW query \in Lists, Unregist(query, fd)
  PROVE  /\ registry' \in [Lists -> SUBSET Fds]
         /\ \A list \in Lists : \A g \in Fds :
              g \in registry'[list] <=> g \in registry[list] /\ ~(g = fd /\ list = query)
BY WsTypes DEF Unregist

\* A connection that ends leaves entries on record only.
LEMMA EndsInv ==
  ASSUME WsInv, NEW fd \in Fds, conn[fd].state \in {"open", "failed"},
         Unregist(conn[fd].query, fd), UNCHANGED <<due, odd>>,
         NEW c \in ConnRecords, conn' = [conn EXCEPT ![fd] = c],
         c.state # "open", c.state # "closed" => c.query = conn[fd].query
  PROVE  WsInv'
<1>1. conn[fd].query \in Lists
  BY ListsKnown
<1>2. /\ registry' \in [Lists -> SUBSET Fds]
      /\ \A list \in Lists : \A g \in Fds : g \in registry'[list] <=>
           g \in registry[list] /\ ~(g = fd /\ list = conn[fd].query)
  BY <1>1, UnregistTakes
<1>3. FdInv(fd)
  BY DEF WsInv
<1>4. \A list \in Lists : fd \in registry'[list] => <<list, fd>> \in due \/ <<list, fd>> \in odd
  BY <1>2, <1>3 DEF FdInv
<1>5. conn'[fd] = c => FdInv(fd)'
  BY <1>3, <1>4 DEF FdInv
<1> QED
  BY <1>2, <1>5, WsTypes, OneConnection

LEMMA WsErrorInv ==
  ASSUME WsInv, NEW fd \in Fds, WsError(fd)
  PROVE  WsInv'
<1>1. PICK c : c = [state |-> "failed", query |-> conn[fd].query, late |-> FALSE]
  OBVIOUS
<1>2. conn[fd].state = "open" /\ conn[fd].query \in Queries
  BY DEF WsError, WsInv, FdInv
<1>3. c \in ConnRecords /\ c.state = "failed" /\ c.query = conn[fd].query
  BY <1>1, <1>2 DEF ConnRecords, States
<1>4. conn' = [conn EXCEPT ![fd] = c]
  BY <1>1 DEF WsError
<1> QED
  BY <1>2, <1>3, <1>4, EndsInv DEF WsError

LEMMA WsCloseInv ==
  ASSUME WsInv, NEW fd \in Fds, WsClose(fd)
  PROVE  WsInv'
BY ClosedFits, EndsInv DEF WsClose

LEMMA DropInv ==
  ASSUME WsInv, NEW fd \in Fds, Drop(fd)
  PROVE  WsInv'
<1>1. /\ conn[fd].state \in {"open", "failed"} /\ FdInv(fd)
      /\ conn' = [conn EXCEPT ![fd] = Closed] /\ registry' = registry /\ odd' = odd
      /\ due' = due \union {<<conn[fd].query, fd>>}
  BY DEF Drop, WsInv
<1>2. conn[fd].query \in Queries
  BY <1>1 DEF FdInv
<1>3. /\ due' \subseteq Queries \X Fds /\ due \subseteq due' /\ <<conn[fd].query, fd>> \in due'
      /\ \A list \in Lists : \A g \in Fds \ {fd} : <<list, g>> \in due' <=> <<list, g>> \in due
  BY <1>1, <1>2, WsTypes
<1>4. \A list \in Lists : fd \in registry'[list] => <<list, fd>> \in due' \/ <<list, fd>> \in odd'
  BY <1>1, <1>3 DEF FdInv
<1>5. conn'[fd] = Closed => FdInv(fd)'
  BY <1>4, ClosedFits DEF FdInv
<1> QED
  BY <1>1, <1>3, <1>5, ClosedFits, WsTypes, OneConnection

\* It can take out the entry of the descriptor's next connection, which is noted.
LEMMA LateCallbackInv ==
  ASSUME WsInv, NEW fd \in Fds, NEW query \in Queries, LateCallback(query, fd)
  PROVE  WsInv'
<1>1. /\ <<query, fd>> \in due /\ query \in Lists /\ FdInv(fd)
      /\ conn' = conn /\ odd' = odd /\ due' \subseteq due
      /\ \A list \in Lists : \A g \in Fds :
           <<list, g>> \in due /\ <<list, g>> # <<query, fd>> => <<list, g>> \in due'
  BY DEF LateCallback, Lists, WsInv
<1>2. /\ registry' \in [Lists -> SUBSET Fds]
      /\ \A list \in Lists : \A g \in Fds : g \in registry'[list] <=>
           g \in registry[list] /\ ~(g = fd /\ list = query)
  BY <1>1, UnregistTakes DEF LateCallback
<1>3. conn' = [conn EXCEPT ![fd] = conn[fd]] /\ conn[fd] \in ConnRecords
      /\ due' \subseteq Queries \X Fds
  BY <1>1, WsTypes
<1>4. FdInv(fd)'
  <2>1. ListOf(fd)' = ListOf(fd) /\ (conn[fd].state # "closed" => ListOf(fd) \in Lists)
    BY <1>1, ListsKnown DEF ListOf
  <2>2. \A list \in Lists : fd \in registry'[list] =>
          fd \in registry[list] /\ (<<list, fd>> \in due => <<list, fd>> \in due')
    BY <1>1, <1>2
  <2>3. conn[fd].state = "open" /\ fd \notin registry'[ListOf(fd)] => conn[fd].late
    BY <1>1, <1>2, <2>1 DEF FdInv
  <2> QED
    BY <1>1, <2>1, <2>2, <2>3 DEF FdInv
<1>5. \A list \in Lists : \A g \in Fds \ {fd} :
        /\ g \in registry'[list] <=> g \in registry[list]
        /\ <<list, g>> \in due' <=> <<list, g>> \in due
  BY <1>1, <1>2
<1> QED
  BY <1>1, <1>2, <1>3, <1>4, <1>5, WsTypes, OneConnection

LEMMA ListingsCorrect == WsInv => LostOnlyToLateCallback /\ StaleOnlyIfOddlyWritten
<1> SUFFICES ASSUME WsInv PROVE LostOnlyToLateCallback /\ StaleOnlyIfOddlyWritten
  OBVIOUS
<1>1. LostOnlyToLateCallback
  BY DEF WsInv, FdInv, LostOnlyToLateCallback
<1>2. StaleOnlyIfOddlyWritten
  BY WsTypes DEF WsInv, FdInv, StaleOnlyIfOddlyWritten
<1> QED
  BY <1>1, <1>2

-----------------------------------------------------------------------------
(* The two joined by the logins *)

\* Who is logged in has a row.
SessionsHaveRows == \A id \in sessions : id \in UserIds /\ id < nextUser

ServerInv == AccountsInv /\ WsInv /\ SessionsHaveRows

LEMMA InitServerInv == Init => ServerInv
<1> SUFFICES ASSUME Init PROVE ServerInv
  OBVIOUS
<1>1. AccountsInv
  BY InitAccountsInv
<1>2. WsInv
  BY InitWsInv DEF Init
<1> QED
  BY <1>1, <1>2 DEF Init, SessionsHaveRows, ServerInv

\* Sessions keep their rows, because rows stay.
LEMMA SessionsKeepRows ==
  ASSUME ServerInv, AccountsInv', RowsStay, sessions' \subseteq sessions
  PROVE  SessionsHaveRows'
BY DEF ServerInv, SessionsHaveRows, RowsStay, AccountsInv, TableFilled, UserIds

LEMMA WsUnchanged ==
  ASSUME WsInv, UNCHANGED wsVars
  PROVE  WsInv'
BY DEF WsInv, WsTypeOK, FdInv, ListOf, wsVars

LEMMA LoginInv ==
  ASSUME ServerInv, Login
  PROVE  ServerInv'
<1>1. PICK username \in Names, password \in Passwords :
        \E id \in Matching(username, password) : sessions' = sessions \union {id}
  BY DEF Login
<1>2. PICK id \in Matching(username, password) : sessions' = sessions \union {id}
  BY <1>1
<1>3. AccountsInv' /\ RowsStay /\ nextUser' = nextUser
  BY OtherStepsLeaveAccounts DEF ServerInv, Login
<1>4. id \in UserIds /\ id < nextUser
  BY DEF Matching, ServerInv, AccountsInv, TableFilled
<1>5. SessionsHaveRows'
  BY <1>2, <1>3, <1>4 DEF ServerInv, SessionsHaveRows
<1>6. WsInv'
  BY WsUnchanged DEF ServerInv, Login
<1> QED
  BY <1>3, <1>5, <1>6 DEF ServerInv

LEMMA WsStepInv ==
  ASSUME ServerInv, WsStep
  PROVE  ServerInv'
<1>1. AccountsInv' /\ SessionsHaveRows'
  BY OtherStepsLeaveAccounts, SessionsKeepRows DEF ServerInv, WsStep
<1>2. PICK fd \in Fds :
        \/ \E query \in Queries : Connect(fd, query) \/ LateCallback(query, fd)
        \/ sessions # {} /\ Regist(fd)
        \/ NeedLogin(fd) \/ WsError(fd) \/ WsClose(fd) \/ Drop(fd)
  BY DEF WsStep
<1>3. WsInv'
  BY <1>2, ConnectInv, LateCallbackInv, RegistInv, NeedLoginInv, WsErrorInv, WsCloseInv,
     DropInv DEF ServerInv
<1> QED
  BY <1>1, <1>3 DEF ServerInv

LEMMA RestartInv ==
  ASSUME ServerInv, Restart
  PROVE  ServerInv'
<1>1. AccountsInv' /\ SessionsHaveRows'
  BY OtherStepsLeaveAccounts, SessionsKeepRows DEF ServerInv, Restart
<1>2. WsInv'
  BY ClosedFits DEF Restart, WsInv, WsTypeOK, FdInv, ConnRecords
<1> QED
  BY <1>1, <1>2 DEF ServerInv

LEMMA StepServerInv == ServerInv /\ [Next]_vars => ServerInv'
<1> SUFFICES ASSUME ServerInv, [Next]_vars PROVE ServerInv'
  OBVIOUS
<1>1. CASE Registration
  <2>1. AccountsInv' /\ RowsStay
    BY <1>1, RegistrationInv DEF ServerInv
  <2> QED
    BY <1>1, <2>1, SessionsKeepRows, WsUnchanged DEF Registration, ServerInv
<1>2. CASE SessionEnds \/ UNCHANGED vars
  <2>1. AccountsInv' /\ RowsStay
    BY <1>2, OtherStepsLeaveAccounts DEF ServerInv, SessionEnds, vars
  <2> QED
    BY <1>2, <2>1, SessionsKeepRows, WsUnchanged
       DEF SessionEnds, vars, ServerInv, wsVars
<1> QED
  BY <1>1, <1>2, LoginInv, WsStepInv, RestartInv DEF Next

-----------------------------------------------------------------------------
(* What follows *)

\* The invariant above: user names are unique, rows stay what they were made
\* from, and listings, connections and late callbacks agree.
THEOREM ServerCorrect == Spec => []ServerInv
BY InitServerInv, StepServerInv, PTL DEF Spec

\* Accounts, sessions, connections and listings keep their types.
THEOREM ServerTypes == Spec => []TypeOK
<1>1. ServerInv => TypeOK
  <2> SUFFICES ASSUME ServerInv PROVE TypeOK
    OBVIOUS
  <2>1. AccountsTypeOK
    BY AccountsTyped DEF ServerInv
  <2> QED
    BY <2>1 DEF ServerInv, WsInv, SessionsHaveRows, AccountsTypeOK, TypeOK
<1> QED
  BY ServerCorrect, <1>1, PTL

\* Whose form is in the table can log in, to his row and no other, whatever he
\* was told; and who was told OK has his form there.
THEOREM StoredLogIn == Spec => []StoredCanLogin
<1>1. ServerInv => StoredCanLogin
  BY StoredMatch DEF ServerInv
<1> QED
  BY ServerCorrect, <1>1, PTL

\* Every open connection is listed under its submission, unless a late callback
\* of the descriptor's last connection took it out: no other callback can.
THEOREM OnlyLateCallbacksLose == Spec => []LostOnlyToLateCallback
<1>1. ServerInv => LostOnlyToLateCallback
  BY ListingsCorrect DEF ServerInv
<1> QED
  BY ServerCorrect, <1>1, PTL

\* Without oddly written numbers, only those who wait or whose callback is due
\* are listed.
THEOREM StaleRecorded == Spec => []StaleOnlyIfOddlyWritten
<1>1. ServerInv => StaleOnlyIfOddlyWritten
  BY ListingsCorrect DEF ServerInv
<1> QED
  BY ServerCorrect, <1>1, PTL
=============================================================================
