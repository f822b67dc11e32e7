------------------------------- MODULE Accounts -------------------------------
(***************************************************************************)
(* The accounts of auth-service in its Postgres tables (models/entity.py):  *)
(* sign-up, change of login and password, roles (routes/users.py), the      *)
(* OAuth callback (routes/oauth.py) and the script that creates the         *)
(* superuser whenever the container starts (db/create_super_user.py).       *)
(*                                                                         *)
(* A handler is suspended at every statement, and statements of several     *)
(* handlers interleave at READ COMMITTED.  A user row that was flushed and  *)
(* not committed is seen by nobody, but whoever inserts the same login or   *)
(* e-mail waits for its transaction to end.  A handler may die at any       *)
(* point, and its transaction is rolled back; a restart kills all of them.  *)
(*                                                                         *)
(* Covered elsewhere: the life of the tokens and their keys in Redis, also  *)
(* when a handler dies between the COMMIT here and the tokens it goes on to *)
(* issue (LoginIssue of AuthTokens).  Every owner can log in, so of the     *)
(* tokens only this counts here, whether one of them claims the superuser.  *)
(* Roles other than the superuser's are one: this service does not tell     *)
(* them apart.  A definition named for a fault is a broken variant of the   *)
(* one below it.                                                            *)
(***************************************************************************)
EXTENDS Integers, FiniteSets

CONSTANTS
  Handlers,   \* requests being served at a time
  Logins,
  Admin,      \* the login that create_super_user inserts
  NoLogin,    \* the login of a row that does not exist
  Emails,
  NoEmail,    \* the column is NULL
  Externals,  \* users of the OAuth provider, by their id there
  Nobody,     \* a sign-up stands for no external user
  States,     \* values of the one-time OAuth state; one that is gone is free again
  MaxUsers,   \* bound: accounts ever made
  MaxRows     \* bound: role rows ever made

ASSUME AccountsAssumption ==
  /\ Admin \in Logins
  /\ NoLogin \notin Logins
  /\ NoEmail \notin Emails
  /\ Nobody \notin Externals
  /\ MaxUsers \in Nat \ {0}
  /\ MaxRows \in Nat \ {0}

VARIABLES
  \* Table users: the rows are 1 .. users
  users, login, email,
  secret,      \* whether the row has a password hash
  \* Table roles
  rows,        \* rows made so far, which number them
  row_of,      \* the role row of a user, 0 when there is none
  role_of,
  \* Table oauth_identities, as pairs of an external user and an account
  identities,
  \* Redis
  live,        \* OAuth states whose key exists
  claimed,     \* a token that claims the superuser was issued
  \* Handlers
  at,          \* where each is suspended
  form,        \* the account a sign-up or callback is about to make
  job,         \* the role change of a superuser: user, row it read, role
  \* History, read by the properties only
  stripped,    \* accounts whose role delete_roles took, until set_roles
  served       \* accounts whose tokens an external user got

accounts == <<users, login, email, secret, identities>>
roles == <<rows, row_of, role_of>>
handlers == <<at, form, job>>
history == <<stripped, served>>
vars == <<accounts, roles, live, claimed, handlers, history>>

UserRole == {"user", "superuser"}
Users == 1 .. MaxUsers
Registered == 1 .. users
Labels == {"idle", "email_lookup", "insert", "commit", "exchange", "identity_lookup",
           "role_insert", "role_update", "role_delete"}

Blank == [login |-> NoLogin, email |-> NoEmail, ext |-> Nobody]
NoJob == [user |-> 1, row |-> 0, role |-> "user"]

\* Bounds: no request is begun that the run has no room to finish.
Registering == {h \in Handlers :
  at[h] \in {"email_lookup", "insert", "commit", "exchange", "identity_lookup"}}
RoomForUser == users + Cardinality(Registering) < MaxUsers
RoomForRole ==
  rows + Cardinality(Registering \cup {h \in Handlers : at[h] = "role_insert"}) < MaxRows

Goto(h, label) == at' = [at EXCEPT ![h] = label]
Finish(h) ==
  /\ Goto(h, "idle")
  /\ form' = [form EXCEPT ![h] = Blank]
  /\ job' = [job EXCEPT ![h] = NoJob]

-----------------------------------------------------------------------------
(* The unique constraints of models/entity.py.                              *)

LoginTaken(l) == \E u \in Registered : login[u] = l
EmailTaken(e) == e # NoEmail /\ \E u \in Registered : email[u] = e
Known(x) == \E u \in Registered : <<x, u>> \in identities

\* Somebody flushed a row with that login or e-mail and did not commit.
MustWait(l, e) == \E g \in Handlers :
  /\ at[g] = "commit"
  /\ form[g].login = l \/ (e # NoEmail /\ form[g].email = e)

\* A new account with its role row, in one transaction (up to the bounds).
AddAccount(l, e, hashed, role) ==
  LET u == users + 1 IN
  /\ users < MaxUsers /\ rows < MaxRows
  /\ users' = u
  /\ login' = [login EXCEPT ![u] = l]
  /\ email' = [email EXCEPT ![u] = e]
  /\ secret' = [secret EXCEPT ![u] = hashed]
  /\ rows' = rows + 1
  /\ row_of' = [row_of EXCEPT ![u] = rows + 1]
  /\ role_of' = [role_of EXCEPT ![u] = role]

RoleOf(u) == IF row_of[u] = 0 THEN "user" ELSE role_of[u]

GiveTokens(role) == claimed' = (claimed \/ role = "superuser")

\* The first start of the container: create_super_user on empty tables.
Init ==
  /\ users = 1
  /\ login = [u \in Users |-> IF u = 1 THEN Admin ELSE NoLogin]
  /\ email = [u \in Users |-> NoEmail]
  /\ secret = [u \in Users |-> u = 1]
  /\ identities = {}
  /\ rows = 1
  /\ row_of = [u \in Users |-> IF u = 1 THEN 1 ELSE 0]
  /\ role_of = [u \in Users |-> IF u = 1 THEN "superuser" ELSE "user"]
  /\ live = {}
  /\ claimed = FALSE
  /\ at = [h \in Handlers |-> "idle"]
  /\ form = [h \in Handlers |-> Blank]
  /\ job = [h \in Handlers |-> NoJob]
  /\ stripped = {}
  /\ served = [x \in Externals |-> {}]

-----------------------------------------------------------------------------
(* Sign-up: two lookups, the hash in a thread, INSERT, then role and COMMIT.*)
(* A refusal at the first lookup changes nothing.                           *)

SignupLogin(h, l, e) ==
  /\ at[h] = "idle"
  /\ RoomForUser /\ RoomForRole
  /\ ~LoginTaken(l)
  /\ Goto(h, "email_lookup")
  /\ form' = [form EXCEPT ![h] = [login |-> l, email |-> e, ext |-> Nobody]]
  /\ UNCHANGED <<accounts, roles, live, claimed, job, history>>

SignupEmail(h) ==
  /\ at[h] = "email_lookup"
  /\ IF EmailTaken(form[h].email)
     THEN Finish(h)
     ELSE Goto(h, "insert") /\ UNCHANGED <<form, job>>
  /\ UNCHANGED <<accounts, roles, live, claimed, history>>

InsertUserAnyway(h) ==
  /\ at[h] = "insert"
  /\ Goto(h, "commit")
  /\ UNCHANGED <<accounts, roles, live, claimed, form, job, history>>

\* The user row committed before its role and its identity.
InsertUserCommitted(h) ==
  /\ at[h] = "insert"
  /\ ~MustWait(form[h].login, form[h].email)
  /\ IF LoginTaken(form[h].login) \/ EmailTaken(form[h].email)
     THEN Finish(h) /\ UNCHANGED <<accounts, history>>
     ELSE /\ users < MaxUsers
          /\ users' = users + 1
          /\ login' = [login EXCEPT ![users + 1] = form[h].login]
          /\ email' = [email EXCEPT ![users + 1] = form[h].email]
          /\ secret' = [secret EXCEPT ![users + 1] = form[h].ext = Nobody]
          /\ Goto(h, "commit") /\ UNCHANGED <<identities, form, job, history>>
  /\ UNCHANGED <<roles, live, claimed>>

\* The flush of create_user and of create_external_user_with_oauth_identity:
\* an IntegrityError is a 500 to a sign-up and a 409 to a callback.
InsertUser(h) ==
  /\ at[h] = "insert"
  /\ ~MustWait(form[h].login, form[h].email)
  /\ IF LoginTaken(form[h].login) \/ EmailTaken(form[h].email)
     THEN Finish(h)
     ELSE Goto(h, "commit") /\ UNCHANGED <<form, job>>
  /\ UNCHANGED <<accounts, roles, live, claimed, history>>

CommitSignup(h) ==
  /\ at[h] = "commit"
  /\ form[h].ext = Nobody
  /\ AddAccount(form[h].login, form[h].email, TRUE, "user")
  /\ Finish(h)
  /\ UNCHANGED <<identities, live, claimed, stripped, served>>

-----------------------------------------------------------------------------
(* OAuth.  The state is deleted first, and the answer of DEL decides.       *)

OAuthStart(s) ==
  /\ s \notin live
  /\ live' = live \cup {s}
  /\ UNCHANGED <<accounts, roles, claimed, handlers, history>>

StateExpires(s) ==
  /\ s \in live
  /\ live' = live \ {s}
  /\ UNCHANGED <<accounts, roles, claimed, handlers, history>>

CallbackUnprofiled(h, s, x) ==
  /\ at[h] = "idle"
  /\ RoomForUser /\ RoomForRole
  /\ s \in live
  /\ live' = live \ {s}
  /\ Goto(h, "identity_lookup")
  /\ form' = [form EXCEPT ![h] = [Blank EXCEPT !.ext = x]]
  /\ UNCHANGED <<accounts, roles, claimed, job, history>>

Callback(h, s, x) ==
  /\ at[h] = "idle"
  /\ RoomForUser /\ RoomForRole
  /\ s \in live
  /\ live' = live \ {s}
  /\ Goto(h, "exchange")
  /\ form' = [form EXCEPT ![h] = [Blank EXCEPT !.ext = x]]
  /\ UNCHANGED <<accounts, roles, claimed, job, history>>

\* The provider answered twice; what its profile says may differ every time.
\* An error of the provider is a 502 (Die).
Exchange(h, l, e) ==
  /\ at[h] = "exchange"
  /\ Goto(h, "identity_lookup")
  /\ form' = [form EXCEPT ![h] = [login |-> l, email |-> e, ext |-> @.ext]]
  /\ UNCHANGED <<accounts, roles, live, claimed, job, history>>

\* issue_tokens_for_external_user.
Serve(x, u, role) ==
  /\ GiveTokens(role)
  /\ served' = [served EXCEPT ![x] = @ \cup {u}]

IdentityLookupByLogin(h) ==
  /\ at[h] = "identity_lookup"
  /\ IF LoginTaken(form[h].login)
     THEN /\ \E u \in Registered :
               /\ login[u] = form[h].login
               /\ Serve(form[h].ext, u, RoleOf(u))
          /\ Finish(h)
     ELSE Goto(h, "insert") /\ UNCHANGED <<form, job, claimed, served>>
  /\ UNCHANGED <<accounts, roles, live, stripped>>

IdentityLookup(h) ==
  /\ at[h] = "identity_lookup"
  /\ IF Known(form[h].ext)
     THEN /\ \E u \in Registered :
               /\ <<form[h].ext, u>> \in identities
               /\ Serve(form[h].ext, u, RoleOf(u))
          /\ Finish(h)
     ELSE Goto(h, "insert") /\ UNCHANGED <<form, job, claimed, served>>
  /\ UNCHANGED <<accounts, roles, live, stripped>>

\* Role, identity and COMMIT; a second identity of one external user fails.
CommitExternal(h) ==
  /\ at[h] = "commit"
  /\ form[h].ext # Nobody
  /\ IF Known(form[h].ext)
     THEN UNCHANGED <<accounts, roles, claimed, served>>
     ELSE /\ AddAccount(form[h].login, form[h].email, FALSE, "user")
          /\ identities' = identities \cup {<<form[h].ext, users + 1>>}
          /\ Serve(form[h].ext, users + 1, "user")
  /\ Finish(h)
  /\ UNCHANGED <<live, stripped>>

-----------------------------------------------------------------------------
(* Login and change of login and password.                                  *)

\* verify_password is a coroutine function that its callers do not await: what
\* they test is a coroutine object, and that is true.
Verified(u) == TRUE

PasswordLogin(u) ==
  /\ u \in Registered
  /\ Verified(u)
  /\ GiveTokens(RoleOf(u))
  /\ UNCHANGED <<accounts, roles, live, handlers, history>>

\* By the user_id of the token; a login in use is refused with a 400.
ChangeLogin(u, l) ==
  /\ u \in Registered
  /\ ~MustWait(l, NoEmail)
  /\ \A v \in Registered : login[v] = l => v = u
  /\ login' = [login EXCEPT ![u] = l]
  /\ UNCHANGED <<users, email, secret, identities, roles, live, claimed, handlers, history>>

ChangePassword(u) ==
  /\ u \in Registered
  /\ Verified(u)
  /\ secret' = [secret EXCEPT ![u] = TRUE]
  /\ UNCHANGED <<users, login, email, identities, roles, live, claimed, handlers, history>>

-----------------------------------------------------------------------------
(* Roles: any token that claims the superuser may change them.  Every       *)
(* handler looks first and changes in a later statement.                    *)

RoleHandler(h, u, label, r) ==
  /\ at[h] = "idle"
  /\ claimed
  /\ u \in Registered
  /\ Goto(h, label)
  /\ job' = [job EXCEPT ![h] = [user |-> u, row |-> row_of[u], role |-> r]]
  /\ UNCHANGED <<accounts, roles, live, claimed, form, history>>

\* 409 when there is a role, 404 when there is none; neither changes anything.
SetRoleLookup(h, u, r) == RoomForRole /\ row_of[u] = 0 /\ RoleHandler(h, u, "role_insert", r)
UpdateRoleLookup(h, u, r) == row_of[u] # 0 /\ RoleHandler(h, u, "role_update", r)
DeleteRoleLookup(h, u) == row_of[u] # 0 /\ RoleHandler(h, u, "role_delete", "user")

SetRoleOverTheFirst(h) ==
  LET u == job[h].user IN
  /\ at[h] = "role_insert"
  /\ rows < MaxRows
  /\ rows' = rows + 1
  /\ row_of' = [row_of EXCEPT ![u] = rows + 1]
  /\ role_of' = [role_of EXCEPT ![u] = job[h].role]
  /\ stripped' = stripped \ {u}
  /\ Finish(h)
  /\ UNCHANGED <<accounts, live, claimed, served>>

\* user_id is unique: the second of two inserts is an IntegrityError, a 500.
SetRole(h) ==
  LET u == job[h].user IN
  /\ at[h] = "role_insert"
  /\ IF row_of[u] # 0
     THEN UNCHANGED <<roles, stripped>>
     ELSE /\ rows < MaxRows
          /\ rows' = rows + 1
          /\ row_of' = [row_of EXCEPT ![u] = rows + 1]
          /\ role_of' = [role_of EXCEPT ![u] = job[h].role]
          /\ stripped' = stripped \ {u}
  /\ Finish(h)
  /\ UNCHANGED <<accounts, live, claimed, served>>

\* UPDATE of the row that was read: when it is gone the ORM raises, a 500.
UpdateRole(h) ==
  LET u == job[h].user IN
  /\ at[h] = "role_update"
  /\ IF row_of[u] # job[h].row
     THEN UNCHANGED role_of
     ELSE role_of' = [role_of EXCEPT ![u] = job[h].role]
  /\ Finish(h)
  /\ UNCHANGED <<accounts, rows, row_of, live, claimed, history>>

\* DELETE by user_id: whatever row the user has by then.
DeleteRole(h) ==
  LET u == job[h].user IN
  /\ at[h] = "role_delete"
  /\ row_of' = [row_of EXCEPT ![u] = 0]
  /\ role_of' = [role_of EXCEPT ![u] = "user"]
  /\ stripped' = stripped \cup {u}
  /\ Finish(h)
  /\ UNCHANGED <<accounts, rows, live, claimed, served>>

-----------------------------------------------------------------------------
(* Faults.                                                                  *)

\* An error, a timeout of the provider, a client that left: ROLLBACK.
Die(h) ==
  /\ at[h] # "idle"
  /\ Finish(h)
  /\ UNCHANGED <<accounts, roles, live, claimed, history>>

AllGone ==
  /\ at' = [h \in Handlers |-> "idle"]
  /\ form' = [h \in Handlers |-> Blank]
  /\ job' = [h \in Handlers |-> NoJob]

\* prepare_service.sh runs create_super_user again.  When the login is taken it
\* raises, and the script goes on and starts the service all the same.
Restart ==
  /\ AllGone
  /\ IF LoginTaken(Admin)
     THEN UNCHANGED <<accounts, roles>>
     ELSE /\ AddAccount(Admin, NoEmail, TRUE, "superuser")
          /\ UNCHANGED identities
  /\ UNCHANGED <<live, claimed, stripped, served>>

-----------------------------------------------------------------------------
HandlerStep(h) ==
  \/ SignupEmail(h)
  \/ CommitSignup(h)
  \/ \E l \in Logins, e \in Emails \cup {NoEmail} : Exchange(h, l, e)
  \/ IdentityLookup(h)
  \/ CommitExternal(h)
  \/ SetRole(h)
  \/ UpdateRole(h)
  \/ DeleteRole(h)

Request(h) ==
  \/ \E l \in Logins, e \in Emails : SignupLogin(h, l, e)
  \/ \E s \in States, x \in Externals : Callback(h, s, x)
  \/ \E u \in Users, r \in UserRole : SetRoleLookup(h, u, r) \/ UpdateRoleLookup(h, u, r)
  \/ \E u \in Users : DeleteRoleLookup(h, u)

Next ==
  \/ \E h \in Handlers : Request(h) \/ HandlerStep(h) \/ InsertUser(h) \/ Die(h)
  \/ \E s \in States : OAuthStart(s) \/ StateExpires(s)
  \/ \E u \in Users : PasswordLogin(u) \/ ChangePassword(u) \/ \E l \in Logins : ChangeLogin(u, l)
  \/ Restart

Spec == Init /\ [][Next]_vars

-----------------------------------------------------------------------------
\* Types, and the shape of the tables: a user that was not made has no row
\* anywhere, a role row belongs to one user, only who registers fills a form.
TypeOK ==
  /\ users \in Users
  /\ rows \in 1 .. MaxRows
  /\ login \in [Users -> Logins \cup {NoLogin}]
  /\ email \in [Users -> Emails \cup {NoEmail}]
  /\ secret \in [Users -> BOOLEAN]
  /\ row_of \in [Users -> 0 .. rows]
  /\ role_of \in [Users -> UserRole]
  /\ identities \subseteq Externals \X Registered
  /\ live \subseteq States
  /\ claimed \in BOOLEAN
  /\ at \in [Handlers -> Labels]
  /\ form \in [Handlers -> [login : Logins \cup {NoLogin}, email : Emails \cup {NoEmail},
                            ext : Externals \cup {Nobody}]]
  /\ job \in [Handlers -> [user : Registered, row : 0 .. rows, role : UserRole]]
  /\ stripped \subseteq Registered
  /\ served \in [Externals -> SUBSET Registered]
  /\ \A u \in Users : login[u] # NoLogin <=> u \in Registered
  /\ \A u \in Users \ Registered : row_of[u] = 0
  /\ \A h \in Handlers : at[h] \in {"email_lookup", "identity_lookup", "insert", "commit"}
                            => form[h].login # NoLogin

DistinctAccounts == \A u, v \in Registered : u # v =>
  /\ login[u] # login[v]
  /\ email[u] = email[v] => email[u] = NoEmail
  /\ \A x \in Externals : <<x, u>> \in identities => <<x, v>> \notin identities

PendingFree == \A h \in Handlers : at[h] = "commit" =>
  ~LoginTaken(form[h].login) /\ ~EmailTaken(form[h].email)

PendingApart == \A g, h \in Handlers : g # h /\ at[g] = "commit" /\ at[h] = "commit" =>
  /\ form[g].login # form[h].login
  /\ form[g].email = form[h].email => form[g].email = NoEmail

\* models/entity.py: no two accounts with one login or e-mail, none of them with
\* that of a row about to be committed, and no identity of two accounts.
NoDuplicates == DistinctAccounts /\ PendingFree /\ PendingApart

\* No account is left half made, whatever died: it has a role until somebody
\* takes it away, and its owner can get in, by password or through the provider.
WholeAccounts == \A u \in Registered :
  /\ row_of[u] = 0 => u \in stripped
  /\ secret[u] \/ \E x \in Externals : <<x, u>> \in identities

\* routes/oauth.py: an external user gets tokens of one account for ever, also
\* after it was renamed here or there.
SameAccount == \A x \in Externals : \A u, v \in served[x] : u = v

\* Of several set_roles that found no role only the first gives one, and a role in
\* force is changed only by an update_roles that read this very row, not by one that
\* read a row which was deleted and given anew in between (routes/users.py:170, 223:
\* nothing is locked between the lookup and the change).
RolesNotReplaced ==
  [][\A u \in Users : row_of[u] # 0 /\ row_of'[u] # 0 =>
       /\ row_of'[u] = row_of[u]
       /\ role_of'[u] # role_of[u] =>
            \E h \in Handlers : /\ at[h] = "role_update"
                                /\ job[h] = [user |-> u, row |-> row_of[u], role |-> role_of'[u]]]_vars

=============================================================================
