--------------------------- MODULE AccountsProofs ---------------------------
(***************************************************************************)
(* Proofs about Accounts for any numbers of handlers, accounts, logins,     *)
(* e-mails and external users.                                              *)
(***************************************************************************)
EXTENDS Accounts, TLAPS

USE DEF Users, Registered, UserRole, Labels

\* Initially the tables hold the superuser and nobody is served.
LEMMA InitTypes == Init => TypeOK
  <1> SUFFICES ASSUME Init PROVE TypeOK
    OBVIOUS
  <1>1. users \in Users /\ rows \in 1 .. MaxRows
    BY AccountsAssumption DEF Init
  <1>2. /\ login \in [Users -> Logins \cup {NoLogin}]
        /\ \A u \in Users : login[u] # NoLogin <=> u \in Registered
    BY AccountsAssumption DEF Init
  <1>3. /\ email \in [Users -> Emails \cup {NoEmail}]
        /\ secret \in [Users -> BOOLEAN]
        /\ row_of \in [Users -> 0 .. rows]
        /\ role_of \in [Users -> UserRole]
        /\ \A u \in Users \ Registered : row_of[u] = 0
    BY AccountsAssumption DEF Init
  <1>4. /\ form \in [Handlers -> [login : Logins \cup {NoLogin}, email : Emails \cup {NoEmail},
                                 ext : Externals \cup {Nobody}]]
        /\ job \in [Handlers -> [user : Registered, row : 0 .. rows, role : UserRole]]
    BY AccountsAssumption DEF Init, Blank, NoJob
  <1>5. at \in [Handlers -> Labels] /\ \A h \in Handlers : at[h] = "idle"
    BY DEF Init
  <1>6. /\ identities = {} /\ live = {} /\ claimed = FALSE /\ stripped = {}
        /\ served \in [Externals -> SUBSET Registered]
    BY DEF Init
  <1> QED
    BY <1>1, <1>2, <1>3, <1>4, <1>5, <1>6 DEF TypeOK

\* What Finish leaves behind is typed.
LEMMA FinishTypes ==
  ASSUME TypeOK, NEW h \in Handlers, Finish(h)
  PROVE  /\ at' \in [Handlers -> Labels]
         /\ form' \in [Handlers -> [login : Logins \cup {NoLogin}, email : Emails \cup {NoEmail},
                                    ext : Externals \cup {Nobody}]]
         /\ job' \in [Handlers -> [user : Registered, row : 0 .. rows, role : UserRole]]
         /\ \A g \in Handlers : at'[g] \in {"email_lookup", "identity_lookup", "insert", "commit"}
                            => form'[g].login # NoLogin
  BY AccountsAssumption DEF Finish, Goto, TypeOK, Blank, NoJob

\* What is typed stays so when a row is added.
LEMMA WiderTypes ==
  ASSUME TypeOK, users' \in {users, users + 1}, rows' = rows + 1,
         job' \in [Handlers -> [user : Registered, row : 0 .. rows, role : UserRole]]
  PROVE  /\ job' \in [Handlers -> [user : Registered', row : 0 .. rows', role : UserRole]]
         /\ identities \subseteq Externals \X Registered'
         /\ stripped \subseteq Registered'
         /\ served \in [Externals -> SUBSET Registered']
  <1>1. Registered \subseteq Registered' /\ 0 .. rows \subseteq 0 .. rows'
    BY DEF TypeOK
  <1>2. \A h \in Handlers : job'[h] \in [user : Registered', row : 0 .. rows', role : UserRole]
    BY <1>1
  <1> QED
    BY <1>1, <1>2 DEF TypeOK

\* A new account and its role row are typed.
LEMMA AddAccountTypes ==
  ASSUME TypeOK, NEW l \in Logins, NEW e \in Emails \cup {NoEmail}, NEW b \in BOOLEAN,
         NEW r \in UserRole, AddAccount(l, e, b, r)
  PROVE  /\ users' \in Users
         /\ users' = users + 1
         /\ rows' \in 1 .. MaxRows
         /\ rows' = rows + 1
         /\ login' \in [Users -> Logins \cup {NoLogin}]
         /\ email' \in [Users -> Emails \cup {NoEmail}]
         /\ secret' \in [Users -> BOOLEAN]
         /\ row_of' \in [Users -> 0 .. rows']
         /\ role_of' \in [Users -> UserRole]
         /\ \A u \in Users : login'[u] # NoLogin <=> u \in Registered'
         /\ \A u \in Users \ Registered' : row_of'[u] = 0
  BY AccountsAssumption DEF AddAccount, TypeOK

\* Every step keeps the types and the shape of the tables.
LEMMA StepTypes == TypeOK /\ [Next]_vars => TypeOK'
  <1> SUFFICES ASSUME TypeOK, [Next]_vars PROVE TypeOK'
    OBVIOUS
  <1>u. CASE UNCHANGED vars
    BY <1>u DEF TypeOK, vars, accounts, roles, handlers, history
  <1>1. ASSUME NEW h \in Handlers, NEW l \in Logins, NEW e \in Emails, SignupLogin(h, l, e) PROVE TypeOK'
    BY <1>1, AccountsAssumption DEF SignupLogin, TypeOK, accounts, roles, history, Goto
  <1>2. ASSUME NEW h \in Handlers, SignupEmail(h) PROVE TypeOK'
    BY <1>2, FinishTypes DEF SignupEmail, TypeOK, accounts, roles, history, Goto
  <1>3. ASSUME NEW h \in Handlers, InsertUser(h) PROVE TypeOK'
    BY <1>3, FinishTypes DEF InsertUser, TypeOK, accounts, roles, history, Goto
  <1>4. ASSUME NEW h \in Handlers, CommitSignup(h) PROVE TypeOK'
    <2>1. form[h].login \in Logins /\ form[h].email \in Emails \cup {NoEmail}
      BY <1>4 DEF CommitSignup, TypeOK
    <2>2. AddAccount(form[h].login, form[h].email, TRUE, "user") /\ Finish(h)
      BY <1>4 DEF CommitSignup
    <2>3. UNCHANGED <<identities, live, claimed, stripped, served>>
      BY <1>4 DEF CommitSignup
    <2> QED
      BY <2>1, <2>2, <2>3, FinishTypes, AddAccountTypes, WiderTypes DEF TypeOK
  <1>5. ASSUME NEW s \in States, OAuthStart(s) \/ StateExpires(s) PROVE TypeOK'
    BY <1>5 DEF OAuthStart, StateExpires, TypeOK, accounts, roles, handlers, history
  <1>6. ASSUME NEW h \in Handlers, NEW s \in States, NEW x \in Externals, Callback(h, s, x) PROVE TypeOK'
    <2>1. /\ form' \in [Handlers -> [login : Logins \cup {NoLogin}, email : Emails \cup {NoEmail},
                                    ext : Externals \cup {Nobody}]]
          /\ \A g \in Handlers \ {h} : form'[g] = form[g]
      BY <1>6 DEF Callback, TypeOK, Blank
    <2>2. at' = [at EXCEPT ![h] = "exchange"] /\ live' \subseteq States
      BY <1>6 DEF Callback, Goto, TypeOK
    <2>3. UNCHANGED <<accounts, roles, claimed, job, history>>
      BY <1>6 DEF Callback
    <2> QED
      BY <2>1, <2>2, <2>3 DEF TypeOK, accounts, roles, history
  <1>7. ASSUME NEW h \in Handlers, NEW l \in Logins, NEW e \in Emails \cup {NoEmail}, Exchange(h, l, e)
        PROVE TypeOK'
    <2>1. /\ form' \in [Handlers -> [login : Logins \cup {NoLogin}, email : Emails \cup {NoEmail},
                                    ext : Externals \cup {Nobody}]]
          /\ form'[h].login # NoLogin
          /\ \A g \in Handlers \ {h} : form'[g] = form[g]
      BY <1>7, AccountsAssumption DEF Exchange, TypeOK
    <2>2. at' = [at EXCEPT ![h] = "identity_lookup"]
      BY <1>7 DEF Exchange, Goto
    <2>3. UNCHANGED <<accounts, roles, live, claimed, job, history>>
      BY <1>7 DEF Exchange
    <2> QED
      BY <2>1, <2>2, <2>3 DEF TypeOK, accounts, roles, history
  <1>8. ASSUME NEW h \in Handlers, IdentityLookup(h) PROVE TypeOK'
    <2>1. UNCHANGED <<accounts, roles, live, stripped>>
      BY <1>8 DEF IdentityLookup
    <2>2. CASE Known(form[h].ext)
      <3>1. Finish(h)
        BY <1>8, <2>2 DEF IdentityLookup
      <3>2. PICK u \in Registered : Serve(form[h].ext, u, RoleOf(u))
        BY <1>8, <2>2 DEF IdentityLookup
      <3>3. claimed' \in BOOLEAN /\ served' \in [Externals -> SUBSET Registered]
        BY <3>2 DEF Serve, GiveTokens, TypeOK
      <3> QED
        BY <2>1, <3>1, <3>3, FinishTypes DEF TypeOK, accounts, roles
    <2>3. CASE ~Known(form[h].ext)
      <3>1. /\ at[h] = "identity_lookup"
            /\ at' = [at EXCEPT ![h] = "insert"]
            /\ UNCHANGED <<form, job, claimed, served>>
        BY <1>8, <2>3 DEF IdentityLookup, Goto
      <3> QED
        BY <2>1, <3>1 DEF TypeOK, accounts, roles
    <2> QED
      BY <2>2, <2>3
  <1>9. ASSUME NEW h \in Handlers, CommitExternal(h) PROVE TypeOK'
    <2>1. form[h].login \in Logins /\ form[h].email \in Emails \cup {NoEmail}
          /\ form[h].ext \in Externals
      BY <1>9 DEF CommitExternal, TypeOK
    <2>2. Finish(h) /\ UNCHANGED <<live, stripped>>
      BY <1>9 DEF CommitExternal
    <2>3. CASE Known(form[h].ext)
      BY <1>9, <2>2, <2>3, FinishTypes DEF CommitExternal, TypeOK, accounts, roles
    <2>4. CASE ~Known(form[h].ext)
      <3>1. /\ AddAccount(form[h].login, form[h].email, FALSE, "user")
            /\ identities' = identities \cup {<<form[h].ext, users + 1>>}
            /\ Serve(form[h].ext, users + 1, "user")
        BY <1>9, <2>4 DEF CommitExternal
      <3>2. claimed' \in BOOLEAN
        BY <3>1 DEF Serve, GiveTokens, TypeOK
      <3>3. /\ users' = users + 1 /\ users' \in Users /\ rows' = rows + 1
            /\ job' \in [Handlers -> [user : Registered, row : 0 .. rows, role : UserRole]]
        BY <2>1, <2>2, <3>1, FinishTypes, AddAccountTypes
      <3>4. users + 1 \in Registered'
        BY <3>3
      <3>5. identities' \subseteq Externals \X Registered'
        BY <2>1, <3>1, <3>3, <3>4, WiderTypes
      <3>6. served' \in [Externals -> SUBSET Registered']
        BY <2>1, <3>1, <3>3, <3>4, WiderTypes DEF Serve
      <3>7. /\ job' \in [Handlers -> [user : Registered', row : 0 .. rows', role : UserRole]]
            /\ stripped' \subseteq Registered'
            /\ live' \subseteq States
        BY <2>2, <3>3, WiderTypes DEF TypeOK
      <3> QED
        BY <2>1, <2>2, <3>1, <3>2, <3>5, <3>6, <3>7, FinishTypes, AddAccountTypes DEF TypeOK
    <2> QED
      BY <2>3, <2>4
  <1>10. ASSUME NEW u \in Users, PasswordLogin(u) PROVE TypeOK'
    BY <1>10 DEF PasswordLogin, GiveTokens, TypeOK, accounts, roles, handlers, history
  <1>11. ASSUME NEW u \in Users, ChangePassword(u) PROVE TypeOK'
    BY <1>11 DEF ChangePassword, TypeOK, roles, handlers, history
  <1>12. ASSUME NEW u \in Users, NEW l \in Logins, ChangeLogin(u, l) PROVE TypeOK'
    BY <1>12, AccountsAssumption DEF ChangeLogin, TypeOK, roles, handlers, history
  <1>13. ASSUME NEW h \in Handlers, NEW u \in Users, NEW label \in {"role_insert", "role_update", "role_delete"},
                NEW r \in UserRole, RoleHandler(h, u, label, r) PROVE TypeOK'
    BY <1>13 DEF RoleHandler, TypeOK, accounts, roles, history, Goto
  <1>14. ASSUME NEW h \in Handlers, SetRole(h) PROVE TypeOK'
    <2> DEFINE u == job[h].user
    <2>0. job[h].user \in Registered /\ users \in Users
      BY DEF TypeOK
    <2>1. u \in Users /\ job[h].role \in UserRole
      BY <2>0, AccountsAssumption DEF TypeOK
    <2>2. CASE row_of[u] # 0
      <3>1. Finish(h) /\ UNCHANGED <<accounts, roles, live, claimed, stripped, served>>
        BY <1>14, <2>2 DEF SetRole
      <3> QED
        BY <3>1, FinishTypes DEF TypeOK, accounts, roles
    <2>3. CASE row_of[u] = 0
      <3>1. /\ rows < MaxRows /\ rows' = rows + 1
            /\ row_of' = [row_of EXCEPT ![u] = rows + 1]
            /\ role_of' = [role_of EXCEPT ![u] = job[h].role]
            /\ stripped' = stripped \ {u}
            /\ Finish(h)
            /\ UNCHANGED <<accounts, live, claimed, served>>
        BY <1>14, <2>3 DEF SetRole
      <3>2. /\ rows' \in 1 .. MaxRows
            /\ row_of' \in [Users -> 0 .. rows']
            /\ role_of' \in [Users -> UserRole]
        BY <2>1, <3>1, AccountsAssumption DEF TypeOK
      <3>3. u \in Registered
        BY <1>14 DEF SetRole, TypeOK
      <3>4. job' \in [Handlers -> [user : Registered', row : 0 .. rows', role : UserRole]]
        BY <3>1, FinishTypes, WiderTypes DEF accounts
      <3>5. \A v \in Users \ Registered' : row_of'[v] = 0
        BY <3>1, <3>3 DEF TypeOK, accounts
      <3> QED
        BY <3>1, <3>2, <3>4, <3>5, FinishTypes DEF TypeOK, accounts
    <2> QED
      BY <2>2, <2>3
  <1>15. ASSUME NEW h \in Handlers, UpdateRole(h) PROVE TypeOK'
    <2>1. Finish(h) /\ UNCHANGED <<accounts, rows, row_of, live, claimed, history>>
      BY <1>15 DEF UpdateRole
    <2>2. role_of' \in [Users -> UserRole]
      <3>1. job[h].role \in UserRole
        BY DEF TypeOK
      <3> QED
        BY <1>15, <3>1 DEF UpdateRole, TypeOK
    <2> QED
      BY <2>1, <2>2, FinishTypes DEF TypeOK, accounts, history
  <1>16. ASSUME NEW h \in Handlers, DeleteRole(h) PROVE TypeOK'
    <2>1. Finish(h) /\ UNCHANGED <<accounts, rows, live, claimed, served>>
      BY <1>16 DEF DeleteRole
    <2>2. /\ row_of' = [row_of EXCEPT ![job[h].user] = 0]
          /\ role_of' = [role_of EXCEPT ![job[h].user] = "user"]
          /\ stripped' = stripped \cup {job[h].user}
      BY <1>16 DEF DeleteRole
    <2>3. job[h].user \in Registered /\ rows \in Nat
      BY DEF TypeOK
    <2>4. /\ row_of' \in [Users -> 0 .. rows] /\ role_of' \in [Users -> UserRole]
          /\ stripped' \subseteq Registered
          /\ \A v \in Users \ Registered : row_of'[v] = 0
      <3>1. job[h].user \in Users
        BY <2>3, AccountsAssumption DEF TypeOK
      <3>2. row_of' \in [Users -> 0 .. rows] /\ role_of' \in [Users -> UserRole]
        BY <2>2, <2>3, <3>1 DEF TypeOK
      <3>3. stripped' \subseteq Registered
        BY <2>2, <2>3 DEF TypeOK
      <3>4. \A v \in Users \ Registered : row_of'[v] = 0
        BY <2>2, <3>1 DEF TypeOK
      <3> QED
        BY <3>2, <3>3, <3>4
    <2> QED
      BY <2>1, <2>4, FinishTypes DEF TypeOK, accounts
  <1>17. ASSUME NEW h \in Handlers, Die(h) PROVE TypeOK'
    BY <1>17, FinishTypes DEF Die, TypeOK, accounts, roles, history
  <1>18. ASSUME Restart PROVE TypeOK'
    <2>1. AllGone /\ UNCHANGED <<live, claimed, stripped, served>>
      BY <1>18 DEF Restart
    <2>2. /\ at' \in [Handlers -> Labels] /\ \A h \in Handlers : at'[h] = "idle"
          /\ form' \in [Handlers -> [login : Logins \cup {NoLogin}, email : Emails \cup {NoEmail},
                                    ext : Externals \cup {Nobody}]]
      BY <2>1 DEF AllGone, Blank
    <2>3. job' \in [Handlers -> [user : Registered, row : 0 .. rows, role : UserRole]]
      BY <2>1 DEF AllGone, NoJob, TypeOK
    <2>4. CASE LoginTaken(Admin)
      BY <1>18, <2>1, <2>2, <2>3, <2>4 DEF Restart, TypeOK, accounts, roles
    <2>5. CASE ~LoginTaken(Admin)
      <3>1. AddAccount(Admin, NoEmail, TRUE, "superuser") /\ UNCHANGED identities
        BY <1>18, <2>5 DEF Restart
      <3>2. /\ users' \in Users /\ rows' \in 1 .. MaxRows
            /\ users' = users + 1 /\ rows' = rows + 1
            /\ login' \in [Users -> Logins \cup {NoLogin}]
            /\ email' \in [Users -> Emails \cup {NoEmail}]
            /\ secret' \in [Users -> BOOLEAN]
            /\ row_of' \in [Users -> 0 .. rows']
            /\ role_of' \in [Users -> UserRole]
            /\ \A u \in Users : login'[u] # NoLogin <=> u \in Registered'
            /\ \A u \in Users \ Registered' : row_of'[u] = 0
        BY <3>1, AddAccountTypes, AccountsAssumption
      <3>3. /\ job' \in [Handlers -> [user : Registered', row : 0 .. rows', role : UserRole]]
            /\ identities' \subseteq Externals \X Registered'
            /\ stripped' \subseteq Registered'
            /\ served' \in [Externals -> SUBSET Registered']
        BY <2>1, <2>3, <3>1, <3>2, WiderTypes
      <3> QED
        BY <2>1, <2>2, <3>2, <3>3 DEF TypeOK
    <2> QED
      BY <2>4, <2>5
  <1>19. CASE Next
    BY <1>19, <1>1, <1>2, <1>3, <1>4, <1>5, <1>6, <1>7, <1>8, <1>9, <1>10, <1>11, <1>12, <1>13,
       <1>14, <1>15, <1>16, <1>17, <1>18
       DEF Next, HandlerStep, Request, SetRoleLookup, UpdateRoleLookup, DeleteRoleLookup
  <1> QED
    BY <1>u, <1>19

-----------------------------------------------------------------------------
\* What an external user was served is an account of his.
ServedKnown == \A x \in Externals : \A u \in served[x] : <<x, u>> \in identities

Inv == TypeOK /\ NoDuplicates /\ ServedKnown

\* Steps that touch no name and flush no row.
LEMMA NamesKept ==
  ASSUME Inv, UNCHANGED <<users, login, email, identities>>,
         \A h \in Handlers : at'[h] = "commit" => at[h] = "commit" /\ form'[h] = form[h]
  PROVE  NoDuplicates'
  <1>1. DistinctAccounts'
    BY DEF Inv, NoDuplicates, DistinctAccounts
  <1>2. PendingFree'
    BY DEF Inv, NoDuplicates, PendingFree, LoginTaken, EmailTaken
  <1>3. PendingApart'
    BY DEF Inv, NoDuplicates, PendingApart
  <1> QED
    BY <1>1, <1>2, <1>3 DEF NoDuplicates

\* A handler that ends leaves at most the rows of the others pending.
LEMMA FinishPending ==
  ASSUME TypeOK, NEW h \in Handlers, Finish(h)
  PROVE  /\ at'[h] = "idle"
         /\ \A g \in Handlers \ {h} : at'[g] = at[g] /\ form'[g] = form[g]
  BY DEF Finish, Goto, TypeOK

\* A flushed row meets no committed one and no other pending one.
LEMMA InsertApart ==
  ASSUME Inv, NEW h \in Handlers, InsertUser(h)
  PROVE  NoDuplicates'
  <1>1. UNCHANGED <<users, login, email, identities>>
    BY DEF InsertUser, accounts
  <1>2. CASE LoginTaken(form[h].login) \/ EmailTaken(form[h].email)
    <2>1. Finish(h)
      BY <1>2 DEF InsertUser
    <2> QED
      BY <1>1, <2>1, FinishPending, NamesKept DEF Inv
  <1>3. CASE ~LoginTaken(form[h].login) /\ ~EmailTaken(form[h].email)
    <2>1. /\ ~MustWait(form[h].login, form[h].email)
          /\ at[h] = "insert" /\ at' = [at EXCEPT ![h] = "commit"]
          /\ form' = form
      BY <1>3 DEF InsertUser, Goto
    <2>2. \A g \in Handlers \ {h} : at'[g] = at[g]
      BY <2>1 DEF Inv, TypeOK
    <2>3. DistinctAccounts'
      BY <1>1 DEF Inv, NoDuplicates, DistinctAccounts
    <2>4. PendingFree'
      BY <1>1, <1>3, <2>1, <2>2 DEF Inv, NoDuplicates, PendingFree, LoginTaken, EmailTaken
    <2>5. \A g \in Handlers : at[g] = "commit" =>
            /\ form[g].login # form[h].login
            /\ form[g].email = form[h].email => form[g].email = NoEmail
      BY <2>1 DEF MustWait
    <2>6. PendingApart'
      BY <2>1, <2>2, <2>5 DEF Inv, NoDuplicates, PendingApart
    <2> QED
      BY <2>3, <2>4, <2>6 DEF NoDuplicates
  <1> QED
    BY <1>2, <1>3

\* Committing the account that a handler has pending, or the superuser when
\* nobody has anything pending.
LEMMA CommitApart ==
  ASSUME Inv, NEW l \in Logins, NEW e \in Emails \cup {NoEmail},
         ~LoginTaken(l), ~EmailTaken(e),
         users' = users + 1, users' \in Users,
         login' = [login EXCEPT ![users + 1] = l],
         email' = [email EXCEPT ![users + 1] = e],
         \/ identities' = identities
         \/ \E x \in Externals : ~Known(x) /\ identities' = identities \cup {<<x, users + 1>>},
         \A g \in Handlers : at'[g] = "commit" =>
            /\ at[g] = "commit" /\ form'[g] = form[g]
            /\ form[g].login # l
            /\ form[g].email = e => e = NoEmail
  PROVE  NoDuplicates'
  <1> DEFINE n == users + 1
  <1>1. /\ n \in Users /\ Registered' = Registered \cup {n} /\ n \notin Registered
        /\ login'[n] = l /\ email'[n] = e
        /\ \A u \in Registered : u \in Users /\ login'[u] = login[u] /\ email'[u] = email[u]
    <2>1. users \in 1 .. MaxUsers /\ users + 1 \in 1 .. MaxUsers /\ users' = users + 1
      BY DEF Inv, TypeOK
    <2>2. /\ n \in Users /\ Registered' = Registered \cup {n} /\ n \notin Registered
          /\ \A u \in Registered : u \in Users /\ u # n
      BY <2>1, AccountsAssumption
    <2> QED
      BY <2>2 DEF Inv, TypeOK
  <1>2. \A u \in Registered : login[u] # l /\ (email[u] = e => e = NoEmail)
    BY DEF LoginTaken, EmailTaken
  <1>3. \A x \in Externals : \A u, v \in Registered' :
          u # v /\ <<x, u>> \in identities' => <<x, v>> \notin identities'
    <2>1. \A x \in Externals : <<x, n>> \notin identities
      BY <1>1 DEF Inv, TypeOK
    <2>2. CASE identities' = identities
      BY <1>1, <2>1, <2>2 DEF Inv, NoDuplicates, DistinctAccounts
    <2>3. ASSUME NEW y \in Externals, ~Known(y), identities' = identities \cup {<<y, n>>}
          PROVE  <1>3!:
      BY <1>1, <2>1, <2>3 DEF Known, Inv, NoDuplicates, DistinctAccounts
    <2> QED
      BY <2>2, <2>3
  <1>4. DistinctAccounts'
    BY <1>1, <1>2, <1>3 DEF Inv, NoDuplicates, DistinctAccounts
  <1>5. PendingFree'
    <2> SUFFICES ASSUME NEW g \in Handlers, at'[g] = "commit"
                 PROVE  \A u \in Registered' :
                          /\ login'[u] # form'[g].login
                          /\ form'[g].email # NoEmail => email'[u] # form'[g].email
      BY DEF PendingFree, LoginTaken, EmailTaken
    <2>1. \A u \in Registered : login[u] # form[g].login
      BY DEF Inv, NoDuplicates, PendingFree, LoginTaken
    <2>2. form[g].email # NoEmail => \A u \in Registered : email[u] # form[g].email
      BY DEF Inv, NoDuplicates, PendingFree, EmailTaken
    <2> QED
      BY <1>1, <2>1, <2>2
  <1>6. PendingApart'
    BY DEF Inv, NoDuplicates, PendingApart
  <1> QED
    BY <1>4, <1>5, <1>6 DEF NoDuplicates

\* The row of h was pending alone with its login and e-mail.
LEMMA PendingCommits ==
  ASSUME Inv, NEW h \in Handlers, at[h] = "commit", Finish(h),
         users' \in Users,
         identities' = identities
         \/ (form[h].ext \in Externals /\ ~Known(form[h].ext)
             /\ identities' = identities \cup {<<form[h].ext, users + 1>>}),
         NEW b, NEW r, AddAccount(form[h].login, form[h].email, b, r)
  PROVE  NoDuplicates'
  <1>1. form[h].login \in Logins /\ form[h].email \in Emails \cup {NoEmail}
    BY DEF Inv, TypeOK
  <1>2. ~LoginTaken(form[h].login) /\ ~EmailTaken(form[h].email)
    BY DEF Inv, NoDuplicates, PendingFree
  <1>3. \A g \in Handlers : at'[g] = "commit" =>
          /\ at[g] = "commit" /\ form'[g] = form[g]
          /\ form[g].login # form[h].login
          /\ form[g].email = form[h].email => form[h].email = NoEmail
    BY FinishPending DEF Inv, NoDuplicates, PendingApart
  <1>4. /\ users' = users + 1
        /\ login' = [login EXCEPT ![users + 1] = form[h].login]
        /\ email' = [email EXCEPT ![users + 1] = form[h].email]
    BY DEF AddAccount
  <1> QED
    BY <1>1, <1>2, <1>3, <1>4, CommitApart

\* A login that nobody has and nobody is about to take.
LEMMA RenameApart ==
  ASSUME Inv, NEW u \in Users, NEW l \in Logins, ChangeLogin(u, l)
  PROVE  NoDuplicates'
  <1>1. /\ u \in Registered
        /\ ~MustWait(l, NoEmail)
        /\ \A v \in Registered : login[v] = l => v = u
        /\ login' = [login EXCEPT ![u] = l]
        /\ UNCHANGED <<users, email, identities, at, form>>
    BY DEF ChangeLogin, handlers
  <1>2. \A v \in Registered : v \in Users /\ login'[v] = IF v = u THEN l ELSE login[v]
    BY <1>1, AccountsAssumption DEF Inv, TypeOK
  <1>3. DistinctAccounts'
    BY <1>1, <1>2 DEF Inv, NoDuplicates, DistinctAccounts
  <1>4. \A g \in Handlers : at[g] = "commit" => form[g].login # l
    BY <1>1 DEF MustWait
  <1>5. PendingFree'
    BY <1>1, <1>2, <1>4 DEF Inv, NoDuplicates, PendingFree, LoginTaken, EmailTaken
  <1>6. PendingApart'
    BY <1>1 DEF Inv, NoDuplicates, PendingApart
  <1> QED
    BY <1>3, <1>5, <1>6 DEF NoDuplicates

\* Every step keeps the accounts, and the rows about to be committed, apart.
LEMMA StepApart == Inv /\ [Next]_vars => NoDuplicates'
  <1> SUFFICES ASSUME Inv, [Next]_vars PROVE NoDuplicates'
    OBVIOUS
  <1>t. TypeOK /\ TypeOK'
    BY StepTypes DEF Inv
  <1>u. CASE UNCHANGED vars
    BY <1>u, NamesKept DEF vars, accounts, handlers
  <1>1. ASSUME NEW h \in Handlers, NEW l \in Logins, NEW e \in Emails, SignupLogin(h, l, e) PROVE NoDuplicates'
    BY <1>1, NamesKept, <1>t DEF SignupLogin, accounts, Goto, TypeOK
  <1>2. ASSUME NEW h \in Handlers, SignupEmail(h) PROVE NoDuplicates'
    BY <1>2, NamesKept, FinishPending, <1>t DEF SignupEmail, accounts, Goto, TypeOK
  <1>3. ASSUME NEW h \in Handlers, CommitSignup(h) PROVE NoDuplicates'
    <2>1. /\ at[h] = "commit" /\ Finish(h) /\ identities' = identities
          /\ AddAccount(form[h].login, form[h].email, TRUE, "user")
      BY <1>3 DEF CommitSignup
    <2> QED
      BY <2>1, <1>t, PendingCommits DEF TypeOK
  <1>4. ASSUME NEW s \in States, OAuthStart(s) \/ StateExpires(s) PROVE NoDuplicates'
    BY <1>4, NamesKept DEF OAuthStart, StateExpires, accounts, handlers
  <1>5. ASSUME NEW h \in Handlers, NEW s \in States, NEW x \in Externals, Callback(h, s, x) PROVE NoDuplicates'
    BY <1>5, NamesKept, <1>t DEF Callback, accounts, Goto, TypeOK
  <1>6. ASSUME NEW h \in Handlers, NEW l \in Logins, NEW e \in Emails \cup {NoEmail}, Exchange(h, l, e)
        PROVE NoDuplicates'
    BY <1>6, NamesKept, <1>t DEF Exchange, accounts, Goto, TypeOK
  <1>7. ASSUME NEW h \in Handlers, IdentityLookup(h) PROVE NoDuplicates'
    <2>1. UNCHANGED <<users, login, email, identities>>
      BY <1>7 DEF IdentityLookup, accounts
    <2>2. \A g \in Handlers : at'[g] = "commit" => at[g] = "commit" /\ form'[g] = form[g]
      BY <1>7, FinishPending, <1>t DEF IdentityLookup, Goto, TypeOK
    <2> QED
      BY <2>1, <2>2, NamesKept
  <1>8. ASSUME NEW h \in Handlers, CommitExternal(h) PROVE NoDuplicates'
    <2>1. at[h] = "commit" /\ Finish(h) /\ form[h].ext \in Externals
      BY <1>8, <1>t DEF CommitExternal, TypeOK
    <2>2. CASE Known(form[h].ext)
      BY <1>8, <2>1, <2>2, FinishPending, NamesKept, <1>t DEF CommitExternal, accounts
    <2>3. CASE ~Known(form[h].ext)
      <3>1. /\ AddAccount(form[h].login, form[h].email, FALSE, "user")
            /\ identities' = identities \cup {<<form[h].ext, users + 1>>}
        BY <1>8, <2>3 DEF CommitExternal
      <3> QED
        BY <2>1, <2>3, <3>1, <1>t, PendingCommits DEF TypeOK
    <2> QED
      BY <2>2, <2>3
  <1>9. ASSUME NEW u \in Users, PasswordLogin(u) \/ ChangePassword(u) PROVE NoDuplicates'
    BY <1>9, NamesKept DEF PasswordLogin, ChangePassword, accounts, handlers
  <1>10. ASSUME NEW h \in Handlers, NEW u \in Users, NEW label \in {"role_insert", "role_update", "role_delete"},
                NEW r \in UserRole, RoleHandler(h, u, label, r) PROVE NoDuplicates'
    BY <1>10, NamesKept, <1>t DEF RoleHandler, accounts, Goto, TypeOK
  <1>11. ASSUME NEW h \in Handlers, SetRole(h) \/ UpdateRole(h) \/ DeleteRole(h) \/ Die(h) PROVE NoDuplicates'
    <2>1. Finish(h) /\ UNCHANGED <<users, login, email, identities>>
      BY <1>11 DEF SetRole, UpdateRole, DeleteRole, Die, accounts
    <2> QED
      BY <2>1, <1>t, FinishPending, NamesKept
  <1>12. ASSUME Restart PROVE NoDuplicates'
    <2>1. \A h \in Handlers : at'[h] = "idle"
      BY <1>12 DEF Restart, AllGone
    <2>2. CASE LoginTaken(Admin)
      BY <1>12, <2>1, <2>2, NamesKept DEF Restart, accounts
    <2>3. CASE ~LoginTaken(Admin)
      <3>1. AddAccount(Admin, NoEmail, TRUE, "superuser") /\ identities' = identities
        BY <1>12, <2>3 DEF Restart
      <3>2. /\ users' = users + 1
            /\ login' = [login EXCEPT ![users + 1] = Admin]
            /\ email' = [email EXCEPT ![users + 1] = NoEmail]
        BY <3>1 DEF AddAccount
      <3>3. ~EmailTaken(NoEmail) /\ Admin \in Logins /\ users' \in Users
        BY <1>t, AccountsAssumption DEF EmailTaken, TypeOK
      <3> QED
        BY <2>1, <2>3, <3>1, <3>2, <3>3, CommitApart
    <2> QED
      BY <2>2, <2>3
  <1>13. CASE Next
    BY <1>13, <1>1, <1>2, <1>3, <1>4, <1>5, <1>6, <1>7, <1>8, <1>9, <1>10, <1>11, <1>12, InsertApart, RenameApart
       DEF Next, HandlerStep, Request, SetRoleLookup, UpdateRoleLookup, DeleteRoleLookup
  <1> QED
    BY <1>u, <1>13

-----------------------------------------------------------------------------
\* An external user is served only an account that is his.
LEMMA StepServed == TypeOK /\ ServedKnown /\ [Next]_vars => ServedKnown'
  <1> SUFFICES ASSUME TypeOK, ServedKnown, [Next]_vars PROVE ServedKnown'
    OBVIOUS
  <1>1. ASSUME identities \subseteq identities', served' = served PROVE ServedKnown'
    BY <1>1 DEF ServedKnown
  <1>2. ASSUME NEW h \in Handlers, IdentityLookup(h) PROVE ServedKnown'
    <2>1. identities' = identities
      BY <1>2 DEF IdentityLookup, accounts
    <2>2. CASE Known(form[h].ext)
      <3>1. PICK u \in Registered : <<form[h].ext, u>> \in identities /\ Serve(form[h].ext, u, RoleOf(u))
        BY <1>2, <2>2 DEF IdentityLookup
      <3> QED
        BY <2>1, <3>1 DEF Serve, ServedKnown, TypeOK
    <2>3. CASE ~Known(form[h].ext)
      BY <1>1, <1>2, <2>1, <2>3 DEF IdentityLookup
    <2> QED
      BY <2>2, <2>3
  <1>3. ASSUME NEW h \in Handlers, CommitExternal(h) PROVE ServedKnown'
    <2>1. CASE Known(form[h].ext)
      BY <1>1, <1>3, <2>1 DEF CommitExternal, accounts
    <2>2. CASE ~Known(form[h].ext)
      <3>1. /\ identities' = identities \cup {<<form[h].ext, users + 1>>}
            /\ Serve(form[h].ext, users + 1, "user")
        BY <1>3, <2>2 DEF CommitExternal
      <3> QED
        BY <3>1 DEF Serve, ServedKnown, TypeOK
    <2> QED
      BY <2>1, <2>2
  <1>4. ASSUME NEW h \in Handlers,
               \/ SignupEmail(h) \/ InsertUser(h) \/ CommitSignup(h) \/ SetRole(h) \/ UpdateRole(h)
               \/ DeleteRole(h) \/ Die(h)
        PROVE ServedKnown'
    BY <1>1, <1>4 DEF SignupEmail, InsertUser, CommitSignup, SetRole, UpdateRole, DeleteRole, Die,
       accounts, history
  <1>5. ASSUME NEW h \in Handlers, Request(h) PROVE ServedKnown'
    BY <1>1, <1>5 DEF Request, SignupLogin, Callback, SetRoleLookup, UpdateRoleLookup, DeleteRoleLookup,
       RoleHandler, accounts, history
  <1>6. ASSUME NEW h \in Handlers, NEW l \in Logins, NEW e \in Emails \cup {NoEmail}, Exchange(h, l, e)
        PROVE ServedKnown'
    BY <1>1, <1>6 DEF Exchange, accounts, history
  <1>7. CASE Restart \/ UNCHANGED vars
    BY <1>1, <1>7 DEF Restart, vars, accounts, history
  <1>8. ASSUME NEW s \in States, OAuthStart(s) \/ StateExpires(s) PROVE ServedKnown'
    BY <1>1, <1>8 DEF OAuthStart, StateExpires, accounts, history
  <1>9. ASSUME NEW u \in Users, PasswordLogin(u) \/ ChangePassword(u) \/ \E l \in Logins : ChangeLogin(u, l)
        PROVE ServedKnown'
    BY <1>1, <1>9 DEF PasswordLogin, ChangePassword, ChangeLogin, accounts, history
  <1> QED
    BY <1>2, <1>3, <1>4, <1>5, <1>6, <1>7, <1>8, <1>9 DEF Next, HandlerStep

\* The strengthened invariant holds throughout.
LEMMA Invariance == Spec => []Inv
  <1>1. Init => NoDuplicates /\ ServedKnown
    <2> SUFFICES ASSUME Init PROVE NoDuplicates /\ ServedKnown
      OBVIOUS
    <2>1. users = 1 /\ \A h \in Handlers : at[h] # "commit"
      BY DEF Init
    <2>2. DistinctAccounts /\ PendingFree /\ PendingApart
      BY <2>1 DEF DistinctAccounts, PendingFree, PendingApart
    <2> QED
      BY <2>2 DEF NoDuplicates, ServedKnown, Init
  <1>2. Init => Inv
    BY <1>1, InitTypes DEF Inv
  <1>3. Inv /\ [Next]_vars => Inv'
    BY StepTypes, StepApart, StepServed DEF Inv
  <1> QED
    BY <1>2, <1>3, PTL DEF Spec

\* The tables and the handlers keep their types and shapes.
THEOREM TypeCorrect == Spec => []TypeOK
  <1>1. Inv => TypeOK
    BY DEF Inv
  <1> QED
    BY <1>1, Invariance, PTL

\* Logins, e-mails and identities stay unique, also against rows that are
\* flushed and not committed (models/entity.py, db/repository.py).
THEOREM NamesUnique == Spec => []NoDuplicates
  <1>1. Inv => NoDuplicates
    BY DEF Inv
  <1> QED
    BY <1>1, Invariance, PTL

\* An external user gets tokens of one account for ever (routes/oauth.py).
THEOREM OneAccountForEver == Spec => []SameAccount
  <1>1. Inv => SameAccount
    <2> SUFFICES ASSUME Inv, NEW x \in Externals, NEW u \in served[x], NEW v \in served[x], u # v
                 PROVE  FALSE
      BY DEF SameAccount
    <2>1. u \in Registered /\ v \in Registered
      BY DEF Inv, TypeOK
    <2> QED
      BY <2>1 DEF Inv, ServedKnown, NoDuplicates, DistinctAccounts
  <1> QED
    BY <1>1, Invariance, PTL

-----------------------------------------------------------------------------
\* A new account has a role, and a password or an identity.
LEMMA NewAccountWhole ==
  ASSUME TypeOK, WholeAccounts, NEW l, NEW e, NEW b \in BOOLEAN, NEW r, AddAccount(l, e, b, r),
         stripped' = stripped, identities \subseteq identities',
         b \/ \E x \in Externals : <<x, users + 1>> \in identities'
  PROVE  WholeAccounts'
  <1> DEFINE n == users + 1
  <1>1. users \in 1 .. MaxUsers /\ n \in Users /\ users' = n
    BY AccountsAssumption DEF TypeOK, AddAccount
  <1>2. Registered' = Registered \cup {n} /\ \A u \in Registered : u \in Users /\ u # n
    BY <1>1, AccountsAssumption
  <1>3. /\ secret' = [secret EXCEPT ![n] = b]
        /\ row_of' = [row_of EXCEPT ![n] = rows + 1]
    BY DEF AddAccount
  <1>4. row_of'[n] # 0 /\ secret'[n] = b
    BY <1>1, <1>3 DEF TypeOK
  <1>5. \A u \in Registered : row_of'[u] = row_of[u] /\ secret'[u] = secret[u]
    BY <1>2, <1>3 DEF TypeOK
  <1> QED
    BY <1>2, <1>4, <1>5 DEF WholeAccounts

\* Every step keeps accounts whole.
LEMMA StepWhole == TypeOK /\ WholeAccounts /\ [Next]_vars => WholeAccounts'
  <1> SUFFICES ASSUME TypeOK, WholeAccounts, [Next]_vars PROVE WholeAccounts'
    OBVIOUS
  <1>1. ASSUME UNCHANGED <<users, secret, identities, row_of, stripped>> PROVE WholeAccounts'
    BY <1>1 DEF WholeAccounts
  <1>2. ASSUME NEW h \in Handlers, CommitSignup(h) PROVE WholeAccounts'
    BY <1>2, NewAccountWhole DEF CommitSignup
  <1>3. ASSUME NEW h \in Handlers, CommitExternal(h) PROVE WholeAccounts'
    <2>1. CASE Known(form[h].ext)
      BY <1>1, <1>3, <2>1 DEF CommitExternal, accounts, roles
    <2>2. CASE ~Known(form[h].ext)
      <3>1. /\ AddAccount(form[h].login, form[h].email, FALSE, "user")
            /\ identities' = identities \cup {<<form[h].ext, users + 1>>}
            /\ stripped' = stripped
            /\ form[h].ext \in Externals
        BY <1>3, <2>2 DEF CommitExternal, TypeOK
      <3> QED
        BY <3>1, NewAccountWhole
    <2> QED
      BY <2>1, <2>2
  <1>4. ASSUME NEW h \in Handlers, SetRole(h) PROVE WholeAccounts'
    <2>1. CASE row_of[job[h].user] # 0
      BY <1>1, <1>4, <2>1 DEF SetRole, accounts, roles
    <2>2. CASE row_of[job[h].user] = 0
      <3>1. /\ row_of' = [row_of EXCEPT ![job[h].user] = rows + 1]
            /\ stripped' = stripped \ {job[h].user}
            /\ UNCHANGED <<users, secret, identities>>
        BY <1>4, <2>2 DEF SetRole, accounts
      <3>2. rows + 1 # 0 /\ \A u \in Registered : u \in Users
        BY AccountsAssumption DEF TypeOK
      <3> QED
        BY <3>1, <3>2 DEF WholeAccounts, TypeOK
    <2> QED
      BY <2>1, <2>2
  <1>5. ASSUME NEW h \in Handlers, DeleteRole(h) PROVE WholeAccounts'
    <2>1. /\ row_of' = [row_of EXCEPT ![job[h].user] = 0]
          /\ stripped' = stripped \cup {job[h].user}
          /\ UNCHANGED <<users, secret, identities>>
      BY <1>5 DEF DeleteRole, accounts
    <2>2. \A u \in Registered : u \in Users
      BY AccountsAssumption DEF TypeOK
    <2> QED
      BY <2>1, <2>2 DEF WholeAccounts, TypeOK
  <1>6. ASSUME NEW u \in Users, ChangePassword(u) PROVE WholeAccounts'
    <2>1. /\ secret' = [secret EXCEPT ![u] = TRUE]
          /\ UNCHANGED <<users, identities, row_of, stripped>>
      BY <1>6 DEF ChangePassword, roles, history
    <2>2. \A v \in Registered : v \in Users
      BY AccountsAssumption DEF TypeOK
    <2> QED
      BY <2>1, <2>2 DEF WholeAccounts, TypeOK
  <1>7. CASE Restart
    <2>1. CASE LoginTaken(Admin)
      BY <1>1, <1>7, <2>1 DEF Restart, accounts, roles
    <2>2. CASE ~LoginTaken(Admin)
      BY <1>7, <2>2, NewAccountWhole DEF Restart
    <2> QED
      BY <2>1, <2>2
  <1>8. ASSUME NEW h \in Handlers,
               \/ Request(h) \/ SignupEmail(h) \/ InsertUser(h) \/ IdentityLookup(h) \/ UpdateRole(h) \/ Die(h)
               \/ \E l \in Logins, e \in Emails \cup {NoEmail} : Exchange(h, l, e)
        PROVE WholeAccounts'
    BY <1>1, <1>8 DEF Request, SignupLogin, Callback, SetRoleLookup, UpdateRoleLookup, DeleteRoleLookup,
       RoleHandler, SignupEmail, InsertUser, IdentityLookup, UpdateRole, Die, Exchange,
       accounts, roles, history
  <1>9. ASSUME NEW s \in States, OAuthStart(s) \/ StateExpires(s) PROVE WholeAccounts'
    BY <1>1, <1>9 DEF OAuthStart, StateExpires, accounts, roles, history
  <1>10. ASSUME NEW u \in Users, PasswordLogin(u) \/ \E l \in Logins : ChangeLogin(u, l) PROVE WholeAccounts'
    BY <1>1, <1>10 DEF PasswordLogin, ChangeLogin, accounts, roles, history
  <1>11. CASE UNCHANGED vars
    BY <1>1, <1>11 DEF vars, accounts, roles, history
  <1> QED
    BY <1>2, <1>3, <1>4, <1>5, <1>6, <1>7, <1>8, <1>9, <1>10, <1>11 DEF Next, HandlerStep

\* Nothing is left half made, whatever died (db/repository.py).
THEOREM NothingHalfMade == Spec => []WholeAccounts
  <1>1. Init => WholeAccounts
    <2> SUFFICES ASSUME Init PROVE WholeAccounts
      OBVIOUS
    <2>1. 1 \in Users /\ \A u \in Registered : u = 1
      BY AccountsAssumption DEF Init, Registered, Users
    <2>2. row_of[1] = 1 /\ secret[1] = TRUE
      BY <2>1 DEF Init
    <2> QED
      BY <2>1, <2>2 DEF WholeAccounts
  <1>2. TypeOK /\ WholeAccounts /\ [Next]_vars => WholeAccounts'
    BY StepWhole
  <1> QED
    BY <1>1, <1>2, TypeCorrect, PTL DEF Spec

\* What RolesNotReplaced asks of the role of one user in a step.
RoleStands(u) == row_of[u] # 0 /\ row_of'[u] # 0 =>
  /\ row_of'[u] = row_of[u]
  /\ role_of'[u] # role_of[u] =>
       \E h \in Handlers : /\ at[h] = "role_update"
                           /\ job[h] = [user |-> u, row |-> row_of[u], role |-> role_of'[u]]

\* Of the two set_roles that found no role the second gives none, and an update_roles
\* that read a row which is no longer there changes none.
THEOREM GrantsStand == Spec => RolesNotReplaced
  <1>1. TypeOK /\ [Next]_vars => \A u \in Users : RoleStands(u)
    <2> SUFFICES ASSUME TypeOK, [Next]_vars, NEW u \in Users PROVE RoleStands(u)
      OBVIOUS
    <2>1. CASE row_of'[u] = row_of[u] /\ role_of'[u] = role_of[u]
      BY <2>1 DEF RoleStands
    <2>2. ASSUME NEW l, NEW e, NEW b, NEW r, AddAccount(l, e, b, r)
          PROVE  row_of[u] # 0 => row_of'[u] = row_of[u] /\ role_of'[u] = role_of[u]
      <3>1. users + 1 \in Users \ Registered
        BY <2>2, AccountsAssumption DEF AddAccount, TypeOK
      <3> QED
        BY <2>2, <3>1 DEF AddAccount, TypeOK
    <2>3. ASSUME NEW h \in Handlers, CommitSignup(h) \/ CommitExternal(h)
          PROVE  row_of[u] # 0 => row_of'[u] = row_of[u] /\ role_of'[u] = role_of[u]
      BY <2>2, <2>3 DEF CommitSignup, CommitExternal, roles
    <2>4. ASSUME Restart
          PROVE  row_of[u] # 0 => row_of'[u] = row_of[u] /\ role_of'[u] = role_of[u]
      BY <2>2, <2>4 DEF Restart, roles
    <2>5. ASSUME NEW h \in Handlers, SetRole(h)
          PROVE  row_of[u] # 0 => row_of'[u] = row_of[u] /\ role_of'[u] = role_of[u]
      BY <2>5 DEF SetRole, roles, TypeOK
    <2>6. ASSUME NEW h \in Handlers, DeleteRole(h)
          PROVE  row_of'[u] = 0 \/ (row_of'[u] = row_of[u] /\ role_of'[u] = role_of[u])
      BY <2>6 DEF DeleteRole, TypeOK
    <2>7. ASSUME NEW h \in Handlers, UpdateRole(h), ~(row_of'[u] = row_of[u] /\ role_of'[u] = role_of[u])
          PROVE  RoleStands(u)
      <3>1. /\ row_of' = row_of /\ at[h] = "role_update"
            /\ job[h].user = u /\ job[h].row = row_of[u] /\ job[h].role = role_of'[u]
        BY <2>7 DEF UpdateRole, TypeOK
      <3>2. job[h] \in [user : Registered, row : 0 .. rows, role : UserRole]
        BY DEF TypeOK
      <3>3. job[h] = [user |-> u, row |-> row_of[u], role |-> role_of'[u]]
        BY <3>1, <3>2
      <3> QED
        BY <3>1, <3>3 DEF RoleStands
    <2>8. ASSUME NEW h \in Handlers,
               \/ Request(h) \/ SignupEmail(h) \/ InsertUser(h) \/ IdentityLookup(h) \/ Die(h)
               \/ \E l \in Logins, e \in Emails \cup {NoEmail} : Exchange(h, l, e)
          PROVE UNCHANGED roles
      BY <2>8 DEF Request, SignupLogin, Callback, SetRoleLookup, UpdateRoleLookup, DeleteRoleLookup,
         RoleHandler, SignupEmail, InsertUser, IdentityLookup, Die, Exchange
    <2>9. ASSUME NEW s \in States, OAuthStart(s) \/ StateExpires(s) PROVE UNCHANGED roles
      BY <2>9 DEF OAuthStart, StateExpires
    <2>10. ASSUME NEW v \in Users,
                 PasswordLogin(v) \/ ChangePassword(v) \/ \E l \in Logins : ChangeLogin(v, l)
          PROVE UNCHANGED roles
      BY <2>10 DEF PasswordLogin, ChangePassword, ChangeLogin
    <2>11. ASSUME UNCHANGED vars PROVE UNCHANGED roles
      BY <2>11 DEF vars
    <2>12. ASSUME UNCHANGED roles PROVE row_of'[u] = row_of[u] /\ role_of'[u] = role_of[u]
      BY <2>12 DEF roles
    <2>13. ASSUME ~(row_of[u] # 0 /\ row_of'[u] # 0) PROVE RoleStands(u)
      BY <2>13 DEF RoleStands
    <2> QED
      BY <2>1, <2>3, <2>4, <2>5, <2>6, <2>7, <2>8, <2>9, <2>10, <2>11, <2>12, <2>13
      DEF Next, HandlerStep
  <1> QED
    BY <1>1, TypeCorrect, PTL DEF Spec, RolesNotReplaced, RoleStands

=============================================================================
