--------------------------- MODULE AccountsProofs ---------------------------
(***************************************************************************)
(* For any names, passwords, requests and outcomes of database calls: the  *)
(* state of Accounts is well typed, no login name finds two rows, and what *)
(* registrations are told stays true.                                      *)
(***************************************************************************)
EXTENDS Accounts, TLAPS

(* The invariant *)

\* Past the validation the locals of a registration are valid, and past bcrypt
\* the password is one it accepts; only a registration that has ended has a row
\* or an answer that promises something.
RegLocals ==
    \A r \in Registrations :
        /\ reg[r].pc \in {"hash", "insert"} =>
              /\ reg[r].email \in Emails
              /\ reg[r].username \in Usernames
              /\ reg[r].password \in Passwords
        /\ reg[r].pc = "insert" => reg[r].password \notin LongPasswords
        /\ reg[r].pc # "done" => users[r] = NoUser /\ reg[r].reply = "none"

\* A login that authenticated somebody holds the id of a row.
LogLocals ==
    \A l \in Logins : log[l].pc = "touch" =>
        log[l].sub \in Registrations /\ users[log[l].sub] # NoUser

\* UNIQUE, column by column.
Unique ==
    \A i, j \in Registrations :
        /\ users[i] # NoUser /\ users[j] # NoUser
        /\ users[i].email = users[j].email \/ users[i].username = users[j].username
        => i = j

TypeInv == AccountsTypeOK /\ RegLocals /\ LogLocals

AccountsInv == TypeInv /\ Unique /\ CreatedStays /\ ConflictTruthful /\ AdminNeverLockedOut

-----------------------------------------------------------------------------
(* Rows *)

RegRecord == [pc : {"idle", "hash", "insert", "done"}, email : Name \cup {None},
              username : Name \cup {None}, password : Passwords \cup {None},
              reply : {"none", "bad request", "db error", "conflict", "failed", "created"}]

LogRecord == [pc : {"idle", "touch", "done"}, name : Typed(Name) \cup {None},
              password : Typed(Passwords \cup BadPasswords) \cup {None},
              sub : Registrations \cup {None, AdminUser},
              reply : {"none", "unauthorized", "ok"}]

\* The row a registration inserts.
RowOf(r) == [email |-> reg[r].email, username |-> reg[r].username,
             password |-> reg[r].password, seen |-> FALSE]

\* No row is equal to NoUser.
LEMMA UserIsRow == \A u \in User : u # NoUser
BY NoneIsNoId DEF User, NoUser

\* INSERT and UPDATE are all that happens to the table: a step leaves it alone,
\* adds the row of a registration that violates no constraint, or sets a row's
\* last login.
LEMMA TableStep ==
    ASSUME TypeInv, Next
    PROVE  \/ users' = users
           \/ \E r \in Registrations :
                 /\ reg[r].pc = "insert" /\ ~Violates(r)
                 /\ users' = [users EXCEPT ![r] = RowOf(r)]
                 /\ \E a \in {"created", "failed"} : AnswerRegister(r, a)
                 /\ RowOf(r) \in User
           \/ /\ reg' = reg
              /\ \E i \in Registrations :
                    /\ users[i] \in User
                    /\ users' = [users EXCEPT ![i].seen = TRUE]
<1>1. CASE \E r \in Registrations, e, n \in Typed(Name),
              p \in Typed(Passwords \cup BadPasswords) : RegisterCheck(r, e, n, p)
  BY <1>1 DEF RegisterCheck
<1>2. CASE \E r \in Registrations : HashPassword(r)
  BY <1>2 DEF HashPassword
<1>3. CASE \E r \in Registrations : InsertUser(r)
  <2>1. PICK r \in Registrations : InsertUser(r)
    BY <1>3
  <2>2. reg[r].pc = "insert"
    BY <2>1 DEF InsertUser
  <2>3. RowOf(r) \in User
    BY <2>2 DEF TypeInv, RegLocals, RowOf, User
  <2>4. CASE Violates(r)
    BY <2>1, <2>4 DEF InsertUser
  <2>5. CASE ~Violates(r)
    <3>1. PICK o \in Outcomes :
             /\ users' = IF o = "lost" THEN users ELSE [users EXCEPT ![r] = RowOf(r)]
             /\ AnswerRegister(r, IF o = "ok" THEN "created" ELSE "failed")
      BY <2>1, <2>5 DEF InsertUser, RowOf
    <3>2. \E a \in {"created", "failed"} : AnswerRegister(r, a)
      BY <3>1
    <3> QED
      BY <2>2, <2>3, <2>5, <3>1, <3>2
  <2> QED
    BY <2>4, <2>5
<1>4. CASE \E l \in Logins, n \in Typed(Name), p \in Typed(Passwords \cup BadPasswords) :
              Authenticate(l, n, p)
  BY <1>4 DEF Authenticate
<1>5. CASE \E l \in Logins : TouchUser(l)
  <2>1. PICK l \in Logins : TouchUser(l)
    BY <1>5
  <2>2. /\ log[l].sub \in Registrations
        /\ users[log[l].sub] \in User
    BY <2>1 DEF TouchUser, TypeInv, LogLocals, AccountsTypeOK
  <2>3. users' = users \/ users' = [users EXCEPT ![log[l].sub].seen = TRUE]
    BY <2>1 DEF TouchUser
  <2>4. reg' = reg
    BY <2>1 DEF TouchUser
  <2> QED
    BY <2>2, <2>3, <2>4
<1> QED
  BY <1>1, <1>2, <1>3, <1>4, <1>5 DEF Next

\* A row keeps its names and its password.
LEMMA RowsStay ==
    ASSUME TypeInv, Next
    PROVE  /\ users' \in [Registrations -> User \cup {NoUser}]
           /\ \A i \in Registrations : users[i] # NoUser =>
                 /\ users'[i] # NoUser
                 /\ users'[i].email = users[i].email
                 /\ users'[i].username = users[i].username
                 /\ users'[i].password = users[i].password
<1> users \in [Registrations -> User \cup {NoUser}]
  BY DEF TypeInv, AccountsTypeOK
<1>1. CASE users' = users
  BY <1>1
<1>2. CASE \E r \in Registrations :
              /\ reg[r].pc = "insert"
              /\ users' = [users EXCEPT ![r] = RowOf(r)]
              /\ RowOf(r) \in User
  <2>1. PICK r \in Registrations :
              /\ reg[r].pc = "insert"
              /\ users' = [users EXCEPT ![r] = RowOf(r)]
              /\ RowOf(r) \in User
    BY <1>2
  <2>2. users[r] = NoUser
    BY <2>1 DEF TypeInv, RegLocals
  <2> QED
    BY <2>1, <2>2
<1>3. CASE \E i \in Registrations :
              users[i] \in User /\ users' = [users EXCEPT ![i].seen = TRUE]
  <2>1. PICK i \in Registrations :
              users[i] \in User /\ users' = [users EXCEPT ![i].seen = TRUE]
    BY <1>3
  <2> DEFINE v == [users[i] EXCEPT !.seen = TRUE]
  <2>2. /\ v \in User
        /\ v.email = users[i].email /\ v.username = users[i].username
        /\ v.password = users[i].password
    BY <2>1 DEF User
  <2>3. v # NoUser
    BY <2>2, UserIsRow
  <2>4. users' = [users EXCEPT ![i] = v]
    BY <2>1
  <2> HIDE DEF v
  <2> QED
    BY <2>1, <2>2, <2>3, <2>4
<1> QED
  BY <1>1, <1>2, <1>3, TableStep

-----------------------------------------------------------------------------
(* Requests *)

\* What the three steps of a registration make of its record: validated and
\* unique so far, hashed, or answered.
Validated(v) ==
    /\ v.pc = "hash" /\ v.reply = "none"
    /\ v.email \in Emails /\ v.username \in Usernames /\ v.password \in Passwords
    /\ users' = users

Hashed(r, v) ==
    /\ reg[r].pc = "hash" /\ v.pc = "insert" /\ v.reply = "none"
    /\ v.email = reg[r].email /\ v.username = reg[r].username
    /\ v.password = reg[r].password /\ v.password \notin LongPasswords
    /\ users' = users

Answered(r, v) ==
    /\ v.pc = "done"
    /\ v.reply = "created" =>
          /\ users'[r] # NoUser
          /\ users'[r].email = v.email /\ users'[r].username = v.username
          /\ users'[r].password = v.password
    /\ v.reply = "conflict" => Taken(v.email, v.username) /\ users' = users

RegChange(r, v) ==
    /\ reg[r].pc # "done"
    /\ reg' = [reg EXCEPT ![r] = v]
    /\ Validated(v) \/ Hashed(r, v) \/ Answered(r, v)

\* A registration that has ended never changes; one that has not changes only
\* by its own steps.
LEMMA RegStep ==
    ASSUME TypeInv, Next
    PROVE  reg' = reg \/ \E r \in Registrations, v \in RegRecord : RegChange(r, v)
<1> reg \in [Registrations -> RegRecord]
  BY DEF TypeInv, AccountsTypeOK, RegRecord
<1>1. ASSUME NEW r \in Registrations, NEW e \in Typed(Name), NEW n \in Typed(Name),
             NEW p \in Typed(Passwords \cup BadPasswords), RegisterCheck(r, e, n, p)
      PROVE  \E v \in RegRecord : RegChange(r, v)
  <2>1. reg[r].pc = "idle" /\ users' = users /\ reg[r].reply = "none"
    BY <1>1 DEF RegisterCheck, TypeInv, RegLocals
  <2>2. CASE \E a \in {"bad request", "db error"} : AnswerRegister(r, a)
    <3>1. PICK a \in {"bad request", "db error"} : AnswerRegister(r, a)
      BY <2>2
    <3> DEFINE v == [reg[r] EXCEPT !.pc = "done", !.reply = a]
    <3>2. v \in RegRecord /\ v.pc = "done" /\ v.reply = a
      BY DEF RegRecord
    <3>3. reg' = [reg EXCEPT ![r] = v]
      BY <3>1 DEF AnswerRegister
    <3> HIDE DEF v
    <3> QED
      BY <2>1, <3>2, <3>3 DEF RegChange, Answered
  <2>3. CASE /\ validRequest(e.text, n.text, p.text) /\ Taken(e.text, n.text)
             /\ reg' = [reg EXCEPT ![r] = [@ EXCEPT !.pc = "done", !.email = e.text,
                              !.username = n.text, !.reply = "conflict"]]
    <3> DEFINE v == [reg[r] EXCEPT !.pc = "done", !.email = e.text,
                              !.username = n.text, !.reply = "conflict"]
    <3>1. /\ v \in RegRecord /\ v.pc = "done" /\ v.reply = "conflict"
          /\ v.email = e.text /\ v.username = n.text
      BY DEF RegRecord, Typed
    <3>2. reg' = [reg EXCEPT ![r] = v]
      BY <2>3
    <3> HIDE DEF v
    <3> QED
      BY <2>1, <2>3, <3>1, <3>2 DEF RegChange, Answered
  <2>4. CASE /\ validRequest(e.text, n.text, p.text)
             /\ reg' = [reg EXCEPT ![r] = [@ EXCEPT !.pc = "hash", !.email = e.text,
                              !.username = n.text, !.password = p.text]]
    <3> DEFINE v == [reg[r] EXCEPT !.pc = "hash", !.email = e.text,
                              !.username = n.text, !.password = p.text]
    <3>1. e.text \in Emails /\ n.text \in Usernames /\ p.text \in Passwords
      BY <2>4 DEF validRequest, validateEmail, validateUsername, validatePassword
    <3>2. /\ v \in RegRecord /\ v.pc = "hash" /\ v.reply = "none"
          /\ v.email = e.text /\ v.username = n.text /\ v.password = p.text
      BY <2>1, <3>1 DEF RegRecord, Name
    <3>3. reg' = [reg EXCEPT ![r] = v]
      BY <2>4
    <3> HIDE DEF v
    <3> QED
      BY <2>1, <3>1, <3>2, <3>3 DEF RegChange, Validated
  <2> QED
    BY <1>1, <2>2, <2>3, <2>4 DEF RegisterCheck
<1>2. ASSUME NEW r \in Registrations, HashPassword(r)
      PROVE  \E v \in RegRecord : RegChange(r, v)
  <2>1. reg[r].pc = "hash" /\ users' = users /\ reg[r].reply = "none"
    BY <1>2 DEF HashPassword, TypeInv, RegLocals
  <2>2. CASE reg[r].password \in LongPasswords
    <3> DEFINE v == [reg[r] EXCEPT !.pc = "done", !.reply = "failed"]
    <3>1. v \in RegRecord /\ v.pc = "done" /\ v.reply = "failed"
      BY DEF RegRecord
    <3>2. reg' = [reg EXCEPT ![r] = v]
      BY <1>2, <2>2 DEF HashPassword, hashPasswordFails, AnswerRegister
    <3> HIDE DEF v
    <3> QED
      BY <2>1, <3>1, <3>2 DEF RegChange, Answered
  <2>3. CASE reg[r].password \notin LongPasswords
    <3> DEFINE v == [reg[r] EXCEPT !.pc = "insert"]
    <3>1. /\ v \in RegRecord /\ v.pc = "insert" /\ v.reply = "none"
          /\ v.email = reg[r].email /\ v.username = reg[r].username
          /\ v.password = reg[r].password
      BY <2>1 DEF RegRecord
    <3>2. reg' = [reg EXCEPT ![r] = v]
      BY <1>2, <2>3 DEF HashPassword, hashPasswordFails
    <3> HIDE DEF v
    <3> QED
      BY <2>1, <2>3, <3>1, <3>2 DEF RegChange, Hashed
  <2> QED
    BY <2>2, <2>3
<1>3. ASSUME NEW r \in Registrations, InsertUser(r)
      PROVE  \E v \in RegRecord : RegChange(r, v)
  <2>1. reg[r].pc = "insert" /\ RowOf(r) \in User
    BY <1>3 DEF InsertUser, TypeInv, RegLocals, RowOf, User
  <2>2. PICK a \in {"created", "failed"} :
             /\ AnswerRegister(r, a)
             /\ a = "created" => users' = [users EXCEPT ![r] = RowOf(r)]
    BY <1>3 DEF InsertUser, RowOf
  <2> DEFINE v == [reg[r] EXCEPT !.pc = "done", !.reply = a]
  <2>3. /\ v \in RegRecord /\ v.pc = "done" /\ v.reply = a
        /\ v.email = reg[r].email /\ v.username = reg[r].username
        /\ v.password = reg[r].password
    BY DEF RegRecord
  <2>4. reg' = [reg EXCEPT ![r] = v]
    BY <2>2 DEF AnswerRegister
  <2>5. /\ RowOf(r) # NoUser
        /\ RowOf(r).email = reg[r].email
        /\ RowOf(r).username = reg[r].username
        /\ RowOf(r).password = reg[r].password
    BY <2>1, UserIsRow DEF RowOf
  <2>6. a = "created" => users'[r] = RowOf(r)
    BY <2>2 DEF TypeInv, AccountsTypeOK
  <2> HIDE DEF v
  <2> QED
    BY <2>1, <2>3, <2>4, <2>5, <2>6 DEF RegChange, Answered
<1>4. ASSUME NEW l \in Logins, NEW n \in Typed(Name),
             NEW p \in Typed(Passwords \cup BadPasswords), Authenticate(l, n, p)
      PROVE  reg' = reg
  BY <1>4 DEF Authenticate
<1>5. ASSUME NEW l \in Logins, TouchUser(l)
      PROVE  reg' = reg
  BY <1>5 DEF TouchUser
<1> QED
  <2>1. CASE \E r \in Registrations, e, n \in Typed(Name),
              p \in Typed(Passwords \cup BadPasswords) : RegisterCheck(r, e, n, p)
    BY <2>1, <1>1
  <2>2. CASE \E r \in Registrations : HashPassword(r)
    BY <2>2, <1>2
  <2>3. CASE \E r \in Registrations : InsertUser(r)
    BY <2>3, <1>3
  <2> QED
    BY <1>4, <1>5, <2>1, <2>2, <2>3 DEF Next

\* The configured admin's name and password, typed as they are configured.
AdminTyped(name, password) ==
    /\ name = [text |-> AdminUser, exact |-> TRUE]
    /\ password = [text |-> AdminPass, exact |-> TRUE]

LogChange(l, v) ==
    /\ log' = [log EXCEPT ![l] = v]
    /\ v.pc = "touch" => v.sub \in Registrations /\ users[v.sub] # NoUser
    /\ v.reply = "unauthorized" => ~AdminTyped(v.name, v.password)

\* A login's steps: only a password that matches a row leads to its id, and only
\* the fallback refuses.
LEMMA LogStep ==
    ASSUME TypeInv, Next
    PROVE  log' = log \/ \E l \in Logins, v \in LogRecord : LogChange(l, v)
<1> log \in [Logins -> LogRecord]
  BY DEF TypeInv, AccountsTypeOK, LogRecord
<1>1. ASSUME NEW l \in Logins, NEW n \in Typed(Name),
             NEW p \in Typed(Passwords \cup BadPasswords), Authenticate(l, n, p)
      PROVE  \E v \in LogRecord : LogChange(l, v)
  <2> DEFINE ok == AdminFallback(n, p)
             fallback == [pc |-> "done", name |-> n, password |-> p,
                          sub |-> IF ok THEN AdminUser ELSE None,
                          reply |-> IF ok THEN "ok" ELSE "unauthorized"]
             found(i) == [pc |-> "touch", name |-> n, password |-> p,
                          sub |-> i, reply |-> "none"]
  <2>1. fallback \in LogRecord
    BY DEF LogRecord
  <2>2. /\ fallback.pc = "done"
        /\ fallback.reply = "unauthorized" => ~AdminTyped(fallback.name, fallback.password)
    BY DEF AdminFallback, AdminTyped
  <2>3. \A i \in Registrations : found(i) \in LogRecord
    BY DEF LogRecord
  <2>4. \A i \in Registrations :
           found(i).pc = "touch" /\ found(i).sub = i /\ found(i).reply = "none"
    OBVIOUS
  <2>5. \/ log' = [log EXCEPT ![l] = fallback]
        \/ \E i \in Rows : log' = [log EXCEPT ![l] = found(i)]
    BY <1>1 DEF Authenticate
  <2> HIDE DEF fallback, found
  <2> QED
    BY <2>1, <2>2, <2>3, <2>4, <2>5 DEF LogChange, Rows
<1>2. ASSUME NEW l \in Logins, TouchUser(l)
      PROVE  \E v \in LogRecord : LogChange(l, v)
  <2> DEFINE v == [log[l] EXCEPT !.pc = "done", !.reply = "ok"]
  <2>1. v \in LogRecord /\ v.pc = "done" /\ v.reply = "ok"
    BY DEF LogRecord
  <2>2. log' = [log EXCEPT ![l] = v]
    BY <1>2 DEF TouchUser
  <2> HIDE DEF v
  <2> QED
    BY <2>1, <2>2 DEF LogChange
<1>3. ASSUME NEW r \in Registrations, NEW e \in Typed(Name), NEW n \in Typed(Name),
             NEW p \in Typed(Passwords \cup BadPasswords), RegisterCheck(r, e, n, p)
      PROVE  log' = log
  BY <1>3 DEF RegisterCheck
<1>4. ASSUME NEW r \in Registrations, HashPassword(r) \/ InsertUser(r)
      PROVE  log' = log
  BY <1>4 DEF HashPassword, InsertUser
<1> QED
  BY <1>1, <1>2, <1>3, <1>4 DEF Next

-----------------------------------------------------------------------------
(* The invariant is inductive *)

\* Every step keeps the state well typed and the locals of its requests set.
LEMMA TypeStep == TypeInv /\ Next => TypeInv'
<1> SUFFICES ASSUME TypeInv, Next PROVE TypeInv'
  OBVIOUS
<1>1. AccountsTypeOK'
  <2>1. reg \in [Registrations -> RegRecord] /\ log \in [Logins -> LogRecord]
    BY DEF TypeInv, AccountsTypeOK, RegRecord, LogRecord
  <2>2. reg' \in [Registrations -> RegRecord]
    BY <2>1, RegStep DEF RegChange
  <2>3. log' \in [Logins -> LogRecord]
    BY <2>1, LogStep DEF LogChange
  <2> QED
    BY <2>2, <2>3, RowsStay DEF AccountsTypeOK, RegRecord, LogRecord
<1>2. RegLocals'
  <2> SUFFICES ASSUME NEW q \in Registrations
               PROVE  (/\ reg[q].pc \in {"hash", "insert"} =>
                            /\ reg[q].email \in Emails
                            /\ reg[q].username \in Usernames
                            /\ reg[q].password \in Passwords
                       /\ reg[q].pc = "insert" => reg[q].password \notin LongPasswords
                       /\ reg[q].pc # "done" => users[q] = NoUser /\ reg[q].reply = "none")'
    BY DEF RegLocals
  <2>1. reg \in [Registrations -> RegRecord]
    BY DEF TypeInv, AccountsTypeOK, RegRecord
  <2>2. /\ reg[q].pc \in {"hash", "insert"} =>
              /\ reg[q].email \in Emails
              /\ reg[q].username \in Usernames
              /\ reg[q].password \in Passwords
        /\ reg[q].pc = "insert" => reg[q].password \notin LongPasswords
        /\ reg[q].pc # "done" => users[q] = NoUser /\ reg[q].reply = "none"
    BY DEF TypeInv, RegLocals
  <2>3. reg'[q].pc # "done" => users'[q] = users[q]
    <3> users \in [Registrations -> User \cup {NoUser}]
      BY DEF TypeInv, AccountsTypeOK
    <3>1. CASE users' = users
      BY <3>1
    <3>2. CASE \E r \in Registrations :
                  /\ users' = [users EXCEPT ![r] = RowOf(r)]
                  /\ \E a \in {"created", "failed"} : AnswerRegister(r, a)
      <4>1. PICK r \in Registrations, a \in {"created", "failed"} :
                  /\ users' = [users EXCEPT ![r] = RowOf(r)]
                  /\ AnswerRegister(r, a)
        BY <3>2
      <4>2. reg'[r].pc = "done"
        BY <2>1, <4>1 DEF AnswerRegister, RegRecord
      <4> QED
        BY <4>1, <4>2
    <3>3. CASE /\ reg' = reg
               /\ \E i \in Registrations :
                     users[i] \in User /\ users' = [users EXCEPT ![i].seen = TRUE]
      <4>1. PICK i \in Registrations :
                     users[i] \in User /\ users' = [users EXCEPT ![i].seen = TRUE]
        BY <3>3
      <4>2. users[i] # NoUser
        BY <4>1, UserIsRow
      <4>3. i # q => users'[q] = users[q]
        BY <4>1
      <4> QED
        BY <2>2, <3>3, <4>2, <4>3
    <3> QED
      BY <3>1, <3>2, <3>3, TableStep
  <2>4. CASE reg'[q] = reg[q]
    BY <2>2, <2>3, <2>4
  <2>5. CASE \E v \in RegRecord : RegChange(q, v)
    <3>1. PICK v \in RegRecord : RegChange(q, v)
      BY <2>5
    <3>2. reg'[q] = v
      BY <2>1, <3>1 DEF RegChange
    <3> QED
      BY <2>2, <2>3, <3>1, <3>2 DEF RegChange, Validated, Hashed, Answered
  <2> QED
    BY <2>1, <2>4, <2>5, RegStep DEF RegChange
<1>3. LogLocals'
  <2>1. log \in [Logins -> LogRecord] /\ LogLocals
    BY DEF TypeInv, AccountsTypeOK, LogRecord
  <2> QED
    BY <2>1, LogStep, RowsStay DEF LogLocals, LogChange
<1> QED
  BY <1>1, <1>2, <1>3 DEF TypeInv

\* The UNIQUE constraints keep the rows apart, whatever the checks before saw.
LEMMA UniqueStep == TypeInv /\ Unique /\ Next => Unique'
<1> SUFFICES ASSUME TypeInv, Unique, Next PROVE Unique'
  OBVIOUS
<1> users \in [Registrations -> User \cup {NoUser}]
  BY DEF TypeInv, AccountsTypeOK
<1>1. CASE users' = users
  BY <1>1 DEF Unique
<1>2. CASE \E r \in Registrations :
              /\ ~Violates(r)
              /\ users' = [users EXCEPT ![r] = RowOf(r)]
  <2>1. PICK r \in Registrations : ~Violates(r) /\ users' = [users EXCEPT ![r] = RowOf(r)]
    BY <1>2
  <2>2. \A i \in Registrations : users[i] # NoUser =>
           users[i].email # reg[r].email /\ users[i].username # reg[r].username
    BY <2>1 DEF Violates, Taken, Rows
  <2>3. RowOf(r).email = reg[r].email /\ RowOf(r).username = reg[r].username
    BY DEF RowOf
  <2> QED
    BY <2>1, <2>2, <2>3 DEF Unique
<1>3. CASE \E i \in Registrations :
              users[i] \in User /\ users' = [users EXCEPT ![i].seen = TRUE]
  <2>1. \A j \in Registrations : users[j] = NoUser => users'[j] = NoUser
    BY <1>3, UserIsRow
  <2>2. \A j \in Registrations : users'[j] # NoUser =>
           /\ users[j] # NoUser
           /\ users'[j].email = users[j].email /\ users'[j].username = users[j].username
    BY <2>1, RowsStay
  <2> QED
    BY <2>2 DEF Unique
<1> QED
  BY <1>1, <1>2, <1>3, TableStep

\* What a registration was told stays true.
LEMMA RepliesStep ==
    TypeInv /\ CreatedStays /\ ConflictTruthful /\ Next => CreatedStays' /\ ConflictTruthful'
<1> SUFFICES ASSUME TypeInv, CreatedStays, ConflictTruthful, Next
             PROVE  CreatedStays' /\ ConflictTruthful'
  OBVIOUS
<1>1. reg \in [Registrations -> RegRecord]
  BY DEF TypeInv, AccountsTypeOK, RegRecord
<1>2. ASSUME NEW q \in Registrations, reg'[q] = reg[q]
      PROVE  /\ reg[q].reply = "created" =>
                   /\ users'[q] # NoUser /\ users'[q].email = reg[q].email
                   /\ users'[q].username = reg[q].username
                   /\ users'[q].password = reg[q].password
             /\ reg[q].reply = "conflict" =>
                   \E i \in Registrations \ {q} :
                         /\ users'[i] # NoUser
                         /\ \/ users'[i].email = reg[q].email
                            \/ users'[i].username = reg[q].username
  <2>1. reg[q].reply = "conflict" =>
            \E i \in Registrations \ {q} :
                  /\ users[i] # NoUser
                  /\ \/ users[i].email = reg[q].email
                     \/ users[i].username = reg[q].username
    BY DEF ConflictTruthful, Rows
  <2> QED
    BY <2>1, RowsStay DEF CreatedStays
<1>3. ASSUME NEW q \in Registrations, NEW v \in RegRecord, RegChange(q, v)
      PROVE  /\ v.reply = "created" =>
                   /\ users'[q] # NoUser /\ users'[q].email = v.email
                   /\ users'[q].username = v.username
                   /\ users'[q].password = v.password
             /\ v.reply = "conflict" =>
                   \E i \in Registrations \ {q} :
                         /\ users'[i] # NoUser
                         /\ users'[i].email = v.email \/ users'[i].username = v.username
  <2>1. users[q] = NoUser
    BY <1>3 DEF RegChange, TypeInv, RegLocals
  <2> QED
    BY <1>3, <2>1 DEF RegChange, Validated, Hashed, Answered, Taken, Rows
<1>4. ASSUME NEW q \in Registrations
      PROVE  reg'[q] = reg[q] \/ \E v \in RegRecord : RegChange(q, v) /\ reg'[q] = v
  BY <1>1, RegStep DEF RegChange
<1>5. CreatedStays'
  BY <1>2, <1>3, <1>4 DEF CreatedStays
<1>6. ConflictTruthful'
  <2> SUFFICES ASSUME NEW q \in Registrations, reg'[q].reply = "conflict"
               PROVE  \E i \in Registrations \ {q} :
                         /\ users'[i] # NoUser
                         /\ \/ users'[i].email = reg'[q].email
                            \/ users'[i].username = reg'[q].username
    BY DEF ConflictTruthful, Rows
  <2>1. CASE reg'[q] = reg[q]
    <3>1. reg[q].reply = "conflict"
      BY <2>1
    <3>2. PICK i \in Registrations \ {q} :
             /\ users'[i] # NoUser
             /\ users'[i].email = reg[q].email \/ users'[i].username = reg[q].username
      BY <1>2, <2>1, <3>1
    <3> QED
      BY <2>1, <3>2
  <2>2. CASE \E v \in RegRecord : RegChange(q, v) /\ reg'[q] = v
    <3>1. PICK v \in RegRecord : RegChange(q, v) /\ reg'[q] = v
      BY <2>2
    <3>2. v.reply = "conflict"
      BY <3>1
    <3>3. PICK i \in Registrations \ {q} :
             /\ users'[i] # NoUser
             /\ users'[i].email = v.email \/ users'[i].username = v.username
      BY <1>3, <3>1, <3>2
    <3> QED
      BY <3>1, <3>3
  <2> QED
    BY <1>4, <2>1, <2>2
<1> QED
  BY <1>5, <1>6

\* Rows, replies and logins together.
LEMMA InvInductive == AccountsInv /\ [Next]_accountVars => AccountsInv'
<1> SUFFICES ASSUME AccountsInv, [Next]_accountVars PROVE AccountsInv'
  OBVIOUS
<1>1. CASE UNCHANGED accountVars
  <2>1. users' = users /\ reg' = reg /\ log' = log
    BY <1>1 DEF accountVars
  <2>2. AccountsTypeOK' /\ RegLocals'
    BY <2>1 DEF AccountsInv, TypeInv, AccountsTypeOK, RegLocals
  <2>3. LogLocals' /\ Unique'
    BY <2>1 DEF AccountsInv, TypeInv, LogLocals, Unique
  <2>4. CreatedStays'
    BY <2>1 DEF AccountsInv, CreatedStays
  <2>5. ConflictTruthful'
    BY <2>1 DEF AccountsInv, ConflictTruthful, Rows
  <2>6. AdminNeverLockedOut'
    BY <2>1 DEF AccountsInv, AdminNeverLockedOut
  <2> QED
    BY <2>2, <2>3, <2>4, <2>5, <2>6 DEF AccountsInv, TypeInv
<1>2. CASE Next
  <2>1. TypeInv' /\ Unique'
    BY <1>2, TypeStep, UniqueStep DEF AccountsInv
  <2>2. CreatedStays' /\ ConflictTruthful'
    BY <1>2, RepliesStep DEF AccountsInv
  <2>3. AdminNeverLockedOut'
    <3>1. TypeInv /\ AdminNeverLockedOut /\ log \in [Logins -> LogRecord]
      BY DEF AccountsInv, TypeInv, AccountsTypeOK, LogRecord
    <3> QED
      BY <1>2, <3>1, LogStep DEF AdminNeverLockedOut, LogChange, AdminTyped
  <2> QED
    BY <2>1, <2>2, <2>3 DEF AccountsInv
<1> QED
  BY <1>1, <1>2

\* AccountsInv holds from the empty table on.
LEMMA InvHolds == Spec => []AccountsInv
<1>1. Init => AccountsInv
  BY DEF Init, AccountsInv, TypeInv, AccountsTypeOK, RegLocals, LogLocals, Unique,
         CreatedStays, ConflictTruthful, AdminNeverLockedOut
<1> QED
  BY <1>1, InvInductive, PTL DEF Spec

-----------------------------------------------------------------------------
(* Theorems *)

\* Type correctness: in particular every row has names that RegisterHandler
\* accepts and a password that bcrypt hashed.
THEOREM AccountsTyped == Spec => []AccountsTypeOK
BY InvHolds, PTL DEF AccountsInv, TypeInv

\* However registrations race, authenticateUser's query finds at most one row.
\* Uniqueness column by column is not enough: the query looks for one text in
\* both columns, and no text is both an email and a username.
THEOREM LoginFindsOneRow == Spec => []LoginUnambiguous
<1>1. AccountsInv => LoginUnambiguous
  <2> SUFFICES ASSUME AccountsInv, NEW n \in Name, NEW i \in Registrations,
                      NEW j \in Registrations, users[i] # NoUser, users[j] # NoUser,
                      users[i].username = n \/ users[i].email = n,
                      users[j].username = n \/ users[j].email = n
               PROVE  i = j
    BY DEF LoginUnambiguous, Matches, Rows
  <2>1. users[i] \in User /\ users[j] \in User
    BY DEF AccountsInv, TypeInv, AccountsTypeOK
  <2>2. users[i].email = users[j].email \/ users[i].username = users[j].username
    BY <2>1, NamesAssumption DEF User
  <2> QED
    BY <2>2 DEF AccountsInv, Unique
<1> QED
  BY <1>1, InvHolds, PTL

\* A registration answered with 201 keeps its row, names and password.
THEOREM CreatedIsLasting == Spec => []CreatedStays
BY InvHolds, PTL DEF AccountsInv

\* A registration answered with 409 has a row of somebody else to blame.
THEOREM ConflictIsTrue == Spec => []ConflictTruthful
BY InvHolds, PTL DEF AccountsInv

\* Whatever is registered and however the database fails, the configured admin
\* is never refused.
THEOREM AdminGetsIn == Spec => []AdminNeverLockedOut
BY InvHolds, PTL DEF AccountsInv
=============================================================================
