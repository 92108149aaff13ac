------------------------------ MODULE Accounts ------------------------------
(***************************************************************************)
(* POST /register (RegisterHandler) and POST /login (loginHandler,         *)
(* authenticateUser) over the users table. A registration looks for its    *)
(* names, hashes the password (slow) and inserts, in three steps between   *)
(* which others run; a login reads, compares and updates.                  *)
(***************************************************************************)
CONSTANTS
    Emails,         \* texts emailRegex accepts, trimmed and in lower case
    Usernames,      \* texts validateUsername accepts
    BadNames,       \* other texts
    Passwords,      \* passwords validatePassword accepts
    LongPasswords,  \* those of them bcrypt refuses: over 72 bytes
    BadPasswords,   \* other passwords
    AdminUser,      \* SFD_ADMIN_USER
    AdminPass,      \* SFD_ADMIN_PASS, never empty (main refuses to start)
    Registrations,  \* registration requests; the id of a row is its request
    Logins,         \* login requests
    Outcomes,       \* how a database call may end: "ok", "lost", "unconfirmed"
    None

\* An email has an "@", a username has none.
ASSUME NamesAssumption == Emails \cap Usernames = {}
ASSUME PasswordAssumption == LongPasswords \subseteq Passwords
ASSUME OutcomesAssumption == {"ok"} \subseteq Outcomes /\ Outcomes \subseteq {"ok", "lost", "unconfirmed"}
ASSUME NoneIsNoId == None \notin Registrations \cup Emails \cup Usernames \cup BadNames

Name == Emails \cup Usernames \cup BadNames

\* What clients type: a text, in the form it is stored in or with blanks around
\* it (for an email, or with capitals).
Typed(T) == [text : T, exact : BOOLEAN]

VARIABLES
    users,  \* the users table, a row or NoUser per id
    reg,    \* locals and reply of each registration
    log     \* locals and reply of each login

accountVars == <<users, reg, log>>

User == [email : Emails, username : Usernames, password : Passwords \ LongPasswords,
         seen : BOOLEAN]
NoUser == [email |-> None]

AccountsTypeOK ==
    /\ users \in [Registrations -> User \cup {NoUser}]
    /\ reg \in [Registrations ->
          [pc : {"idle", "hash", "insert", "done"}, email : Name \cup {None},
           username : Name \cup {None}, password : Passwords \cup {None},
           reply : {"none", "bad request", "db error", "conflict", "failed", "created"}]]
    /\ log \in [Logins ->
          [pc : {"idle", "touch", "done"}, name : Typed(Name) \cup {None},
           password : Typed(Passwords \cup BadPasswords) \cup {None},
           sub : Registrations \cup {None, AdminUser},
           reply : {"none", "unauthorized", "ok"}]]

Init ==
    /\ users = [i \in Registrations |-> NoUser]
    /\ reg = [r \in Registrations |-> [pc |-> "idle", email |-> None, username |-> None,
                                       password |-> None, reply |-> "none"]]
    /\ log = [l \in Logins |-> [pc |-> "idle", name |-> None, password |-> None,
                                sub |-> None, reply |-> "none"]]

Rows == {i \in Registrations : users[i] # NoUser}

-----------------------------------------------------------------------------
(* RegisterHandler *)

validateEmail(n)    == n \in Emails
validateUsername(n) == n \in Usernames
validatePassword(p) == p \in Passwords
validRequest(e, n, p) == validateEmail(e) /\ validateUsername(n) /\ validatePassword(p)

AnswerRegister(r, reply) ==
    reg' = [reg EXCEPT ![r] = [@ EXCEPT !.pc = "done", !.reply = reply]]

\* Mutant of Taken: the WHERE clause is missing.
TakenByAny(email, username) == Rows # {}

\* Some row has this email or this username.
Taken(email, username) ==
    \E i \in Rows : users[i].email = email \/ users[i].username = username

\* Sanitised, the three texts are stored without blanks and capitals: only
\* .text goes on. Validation, then SELECT EXISTS.
RegisterCheck(r, email, username, password) ==
    /\ reg[r].pc = "idle"
    /\ \/ /\ ~validRequest(email.text, username.text, password.text)
          /\ AnswerRegister(r, "bad request")
       \/ /\ validRequest(email.text, username.text, password.text)
          /\ \/ Outcomes # {"ok"} /\ AnswerRegister(r, "db error")
             \/ /\ Taken(email.text, username.text)
                /\ reg' = [reg EXCEPT ![r] = [@ EXCEPT !.pc = "done", !.email = email.text,
                              !.username = username.text, !.reply = "conflict"]]
             \/ /\ ~Taken(email.text, username.text)
                /\ reg' = [reg EXCEPT ![r] = [@ EXCEPT !.pc = "hash", !.email = email.text,
                              !.username = username.text, !.password = password.text]]
    /\ UNCHANGED <<users, log>>

\* bcrypt refuses a password of more than 72 bytes.
hashPasswordFails(p) == p \in LongPasswords

\* Mutant of HashPassword: a long password is cut off and hashed.
HashAnyPassword(r) ==
    /\ reg[r].pc = "hash"
    /\ reg' = [reg EXCEPT ![r].pc = "insert"]
    /\ UNCHANGED <<users, log>>

\* The call of hashPassword.
HashPassword(r) ==
    /\ reg[r].pc = "hash"
    /\ IF hashPasswordFails(reg[r].password) THEN AnswerRegister(r, "failed")
       ELSE reg' = [reg EXCEPT ![r].pc = "insert"]
    /\ UNCHANGED <<users, log>>

\* Mutant of Violates: the columns are not UNIQUE.
ViolatesNothing(r) == FALSE

\* The UNIQUE constraints on email and username.
Violates(r) == Taken(reg[r].email, reg[r].username)

\* Mutant of InsertUser: ON CONFLICT DO NOTHING.
InsertUserOrNothing(r) ==
    /\ reg[r].pc = "insert"
    /\ users' = IF Violates(r) THEN users
                ELSE [users EXCEPT ![r] = [email |-> reg[r].email, username |-> reg[r].username,
                                           password |-> reg[r].password, seen |-> FALSE]]
    /\ AnswerRegister(r, "created")
    /\ UNCHANGED log

\* INSERT; a violated constraint is an error like any other: 500.
InsertUser(r) ==
    /\ reg[r].pc = "insert"
    /\ \/ /\ Violates(r)
          /\ AnswerRegister(r, "failed")
          /\ UNCHANGED users
       \/ /\ ~Violates(r)
          /\ \E o \in Outcomes :
                /\ users' = IF o = "lost" THEN users
                            ELSE [users EXCEPT ![r] = [email |-> reg[r].email,
                                    username |-> reg[r].username,
                                    password |-> reg[r].password, seen |-> FALSE]]
                /\ AnswerRegister(r, IF o = "ok" THEN "created" ELSE "failed")
    /\ UNCHANGED log

-----------------------------------------------------------------------------
(* loginHandler *)

\* WHERE username = $1 OR email = $1, compared with the text as it was typed.
Matches(i, name) ==
    /\ i \in Rows
    /\ name.exact
    /\ users[i].username = name.text \/ users[i].email = name.text

\* CompareHashAndPassword, with the password as it was typed.
verifyPassword(password, i) == password.exact /\ password.text = users[i].password

\* Mutant of AdminFallback: only for names that are not in the table.
AdminFallbackUnknown(name, password) ==
    /\ name = [text |-> AdminUser, exact |-> TRUE]
    /\ password = [text |-> AdminPass, exact |-> TRUE]
    /\ \A i \in Rows : ~Matches(i, name)

AdminFallback(name, password) ==
    /\ name = [text |-> AdminUser, exact |-> TRUE]
    /\ password = [text |-> AdminPass, exact |-> TRUE]

\* authenticateUser up to the password, then the fallback. QueryRow takes any
\* one of the matching rows; an error of the SELECT counts as no match.
Authenticate(l, name, password) ==
    /\ log[l].pc = "idle"
    /\ LET fallback == [pc |-> "done", name |-> name, password |-> password,
                        sub |-> IF AdminFallback(name, password) THEN AdminUser ELSE None,
                        reply |-> IF AdminFallback(name, password) THEN "ok" ELSE "unauthorized"]
       IN  \/ /\ Outcomes # {"ok"} \/ \A i \in Rows : ~Matches(i, name)
              /\ log' = [log EXCEPT ![l] = fallback]
           \/ \E i \in Rows :
                 /\ Matches(i, name)
                 /\ log' = [log EXCEPT ![l] =
                              IF verifyPassword(password, i)
                              THEN [pc |-> "touch", name |-> name, password |-> password,
                                    sub |-> i, reply |-> "none"]
                              ELSE fallback]
    /\ UNCHANGED <<users, reg>>

\* UPDATE ... last_login, its error ignored; the session is issued.
TouchUser(l) ==
    /\ log[l].pc = "touch"
    /\ \E o \in Outcomes :
          users' = IF o = "lost" THEN users ELSE [users EXCEPT ![log[l].sub].seen = TRUE]
    /\ log' = [log EXCEPT ![l] = [@ EXCEPT !.pc = "done", !.reply = "ok"]]
    /\ UNCHANGED reg

Next ==
    \/ \E r \in Registrations :
          \/ \E e, n \in Typed(Name), p \in Typed(Passwords \cup BadPasswords) :
                RegisterCheck(r, e, n, p)
          \/ HashPassword(r) \/ InsertUser(r)
    \/ \E l \in Logins :
          \/ \E n \in Typed(Name), p \in Typed(Passwords \cup BadPasswords) :
                Authenticate(l, n, p)
          \/ TouchUser(l)

Spec == Init /\ [][Next]_accountVars

-----------------------------------------------------------------------------
\* A login name, typed as it is stored, finds at most one row, whether it is a
\* username or an email: racing registrations that all passed the existence
\* check cannot make authenticateUser's QueryRow choose.
LoginUnambiguous ==
    \A n \in Name, i, j \in Registrations :
        LET name == [text |-> n, exact |-> TRUE]
        IN  Matches(i, name) /\ Matches(j, name) => i = j

\* A client told 201 has its row, under its email and its username, with its
\* password, however many registrations and logins ran since.
CreatedStays ==
    \A r \in Registrations : reg[r].reply = "created" =>
        /\ users[r] # NoUser
        /\ users[r].email = reg[r].email /\ users[r].username = reg[r].username
        /\ users[r].password = reg[r].password

\* A client told 409 finds another row with its email or its username: the
\* check of RegisterHandler never answers for the request's own row.
ConflictTruthful ==
    \A r \in Registrations : reg[r].reply = "conflict" =>
        \E i \in Rows \ {r} : users[i].email = reg[r].email \/ users[i].username = reg[r].username

\* The configured admin always gets in, also when the database fails or somebody
\* registered the admin's name with another password (loginHandler's fallback).
AdminNeverLockedOut ==
    \A l \in Logins : log[l].reply = "unauthorized" =>
        ~ (/\ log[l].name = [text |-> AdminUser, exact |-> TRUE]
           /\ log[l].password = [text |-> AdminPass, exact |-> TRUE])
=============================================================================
