------------------------------ MODULE Accounts ------------------------------
(***************************************************************************)
(* The table users: registration (routes/user.hpp, CURD/user_table.hpp) and *)
(* the credentials a login presents.  Two unique indexes guard the table;   *)
(* no code looks for an existing account first, and none changes or deletes *)
(* one.  Nickname and role, which nothing reads, are left out.              *)
(***************************************************************************)
EXTENDS Integers

CONSTANTS
  Names, Passwords, Schools, Emails,
  MaxUsers, \* bound: rows of users
  Faults,   \* may a statement throw?
  NoUser    \* an absent row

UserIds == 1..MaxUsers

\* What the client writes into userRegistJson
Forms == [username : Names, password : Passwords, school : Schools, email : Emails]

ASSUME AccountBounds == MaxUsers \in Nat /\ Faults \in BOOLEAN

VARIABLES
  users,    \* table users, deleted_at = 0 in every row
  nextUser, \* its AUTO_INCREMENT; the gaps of refused rows are left out
  notice,   \* the answer to the last registration, until another request
  welcomed, \* history: the forms that were answered OK, and their rows
  forms     \* history: the form each row was made from

accountVars == <<users, nextUser, notice, welcomed, forms>>

NoNotice == [kind |-> "none"]

AccountsInit ==
  /\ users = [id \in UserIds |-> NoUser]
  /\ nextUser = 1
  /\ notice = NoNotice
  /\ welcomed = {}
  /\ forms = [id \in UserIds |-> NoUser]

-----------------------------------------------------------------------------
\* The values in the order of UserTable::add, under the columns its statement
\* names: the e-mail comes fourth and the column school is the fourth.
Columns(form) ==
  [username |-> form.username, password |-> form.password,
   school |-> form.email, email |-> form.school]

ASSUME NoUserAssumption ==
  \A form \in Forms : NoUser # form /\ NoUser # Columns(form)

\* Mutant: a table without uq_username
DuplicateEmail(row) ==
  \E id \in UserIds : users[id] # NoUser /\ users[id].email = row.email

\* uq_username and uq_email
Duplicate(row) ==
  \E id \in UserIds :
    users[id] # NoUser /\ (users[id].username = row.username \/ users[id].email = row.email)

\* Mutant: the number does not advance, and the next row takes its place.
InsertStays(form) ==
  /\ nextUser \in UserIds
  /\ ~Duplicate(Columns(form))
  /\ users' = [users EXCEPT ![nextUser] = Columns(form)]
  /\ forms' = [forms EXCEPT ![nextUser] = form]
  /\ UNCHANGED nextUser

Insert(form) ==
  /\ nextUser \in UserIds
  /\ ~Duplicate(Columns(form))
  /\ users' = [users EXCEPT ![nextUser] = Columns(form)]
  /\ forms' = [forms EXCEPT ![nextUser] = form]
  /\ nextUser' = nextUser + 1

Register(form) ==
  /\ Insert(form)
  /\ notice' = [kind |-> "ok", form |-> form]
  /\ welcomed' = welcomed \union {[id |-> nextUser, form |-> form]}

RegisterRefused(form) ==
  /\ Duplicate(Columns(form))
  /\ notice' = [kind |-> "duplicate", form |-> form]
  /\ UNCHANGED <<users, nextUser, welcomed, forms>>

\* The statement throws for another reason, and the row may be there all the
\* same; the client is told an error and may send the form again.
RegisterThrows(form) ==
  /\ Faults
  /\ Insert(form) \/ UNCHANGED <<users, nextUser, forms>>
  /\ notice' = [kind |-> "error", form |-> form]
  /\ UNCHANGED welcomed

\* select id from users where username = '?' and password = '?'
Matching(username, password) ==
  {id \in UserIds : users[id] # NoUser /\ users[id].username = username
                                       /\ users[id].password = password}

-----------------------------------------------------------------------------
(* Properties *)

\* The rows below the next number are there, and each has its own form.
AccountsTypeOK ==
  /\ nextUser \in 1..(MaxUsers + 1)
  /\ \A id \in UserIds : id < nextUser <=> users[id] # NoUser
  /\ \A id \in UserIds : id < nextUser =>
       forms[id] \in Forms /\ users[id] = Columns(forms[id])
  /\ notice.kind \in {"none", "ok", "duplicate", "error"}

\* A form that is in the table belongs to whoever sent it: its name and password
\* reach the row made of it and no other, whether he was told OK, an error or,
\* when he sent it again, that it is a duplicate, and whoever registers before or
\* after him with whatever form; and who was told OK has his form there.
StoredCanLogin ==
  /\ \A id \in UserIds :
       forms[id] # NoUser => Matching(forms[id].username, forms[id].password) = {id}
  /\ \A w \in welcomed : forms[w.id] = w.form

-----------------------------------------------------------------------------
(* What the repository says and the code does not do *)

\* SQL/create-sql.sql:43-44 make username and e-mail unique, and the check in
\* jsonEntity/userEntity.hpp:125 says "email or username had exited": a form is
\* refused as a duplicate only if an account has its username or its e-mail.
RefusedOnlyIfTaken ==
  notice.kind = "duplicate" =>
    \E id \in UserIds :
      /\ forms[id] # NoUser
      /\ \/ forms[id].username = notice.form.username
         \/ forms[id].email = notice.form.email
=============================================================================
