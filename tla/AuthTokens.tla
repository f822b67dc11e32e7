------------------------------ MODULE AuthTokens ------------------------------
(***************************************************************************)
(* The JWT pairs of auth-service: login, refresh, logout and the check of   *)
(* an access token (services/auth.py), over the two kinds of Redis keys of  *)
(* db/redis_db.py that decide whether a token is still good                 *)
(* (auth/jwt.py: an access token is refused when "access:<jti>" exists, a   *)
(* refresh token when "refresh:<jti>" does not).                            *)
(*                                                                         *)
(* Every handler is suspended at each Redis or database call, and at each   *)
(* of them it may die: an error of the store, a crash, a client that left.  *)
(* Time is in ticks; a TTL is kept as what is left of it, 0 when the key    *)
(* does not exist, and an expiry as what is left until it.  A pair is known *)
(* by its number: the access and the refresh token have a jti each, but are *)
(* made together.  A definition named for a fault (RevokeAccessShort, ...)  *)
(* is a broken variant of the one below it.                                 *)
(***************************************************************************)
EXTENDS Integers

CONSTANTS
  Handlers,    \* requests being served at a time
  AccessTTL,   \* ACCESS_TOKEN_EXPIRE_MINUTES, in ticks
  RefreshTTL,  \* REFRESH_TOKEN_EXPIRE_DAYS, in ticks
  MaxPairs,    \* bound: pairs issued in a run
  Nobody       \* the author of a pair that a login issued

ASSUME LifetimeAssumption ==
  /\ Nobody \notin Handlers
  /\ AccessTTL \in Nat \ {0}
  /\ RefreshTTL \in Nat \ {0}
  /\ MaxPairs \in Nat

VARIABLES
  issued,       \* pairs issued so far: 1 .. issued
  access_left,  \* until the access token of the pair expires
  refresh_left, \* until its refresh token expires
  revoked,      \* TTL of the key "access:<jti>"
  stored,       \* TTL of the key "refresh:<jti>"
  task,         \* where each handler is suspended, and the pair it serves
  held,         \* the pairs whose tokens reached a client
  \* History, read by the properties only:
  parent,       \* the pair a pair was refreshed from, 0 for a login
  author,       \* the handler that issued it
  logged_out    \* pairs whose logout revoked the access token

redis == <<revoked, stored>>
expiry == <<issued, access_left, refresh_left>>
history == <<parent, author, logged_out>>
vars == <<expiry, redis, task, held, history>>

Pairs == 1 .. MaxPairs
Labels == {"idle", "auth_lookup", "accepted", "login_history",
           "refresh_lookup", "refresh_revoke", "refresh_issue",
           "logout_lookup", "logout_revoke"}

Suspend(h, label, p) == task' = [task EXCEPT ![h] = [at |-> label, pair |-> p]]
Resume(h, label) == Suspend(h, label, task[h].pair)
Finish(h) == Suspend(h, "idle", 0)
At(h, label) == task[h].at = label

-----------------------------------------------------------------------------
Init ==
  /\ issued = 0
  /\ access_left = [p \in Pairs |-> 0]
  /\ refresh_left = [p \in Pairs |-> 0]
  /\ revoked = [p \in Pairs |-> 0]
  /\ stored = [p \in Pairs |-> 0]
  /\ task = [h \in Handlers |-> [at |-> "idle", pair |-> 0]]
  /\ held = {}
  /\ parent = [p \in Pairs |-> 0]
  /\ author = [p \in Pairs |-> Nobody]
  /\ logged_out = {}

-----------------------------------------------------------------------------
(* db/redis_db.py.                                                          *)

AccessRevoked(p) == revoked[p] > 0
RefreshValid(p) == stored[p] > 0

RevokeAccessUntilRefreshExpiry(p) ==
  revoked' = IF access_left[p] > 0 THEN [revoked EXCEPT ![p] = refresh_left[p]] ELSE revoked

RevokeAccessShort(p) ==
  revoked' = IF access_left[p] > 0 THEN [revoked EXCEPT ![p] = access_left[p] - 1] ELSE revoked

\* SETEX with ttl = exp - now, only when that is positive.
RevokeAccess(p) ==
  revoked' = IF access_left[p] > 0 THEN [revoked EXCEPT ![p] = access_left[p]] ELSE revoked

RevokeRefreshForgotten(p) == stored' = stored
RevokeRefresh(p) == stored' = [stored EXCEPT ![p] = 0]

-----------------------------------------------------------------------------
(* create_access_token, create_refresh_token and store_refresh_token: the   *)
(* tokens are made without a suspension before the SETEX.                   *)

IssueUnderOldJti(h, from) ==
  LET q == issued + 1 IN
  /\ issued < MaxPairs
  /\ issued' = q
  /\ access_left' = [access_left EXCEPT ![q] = AccessTTL]
  /\ refresh_left' = [refresh_left EXCEPT ![q] = RefreshTTL]
  /\ stored' = [stored EXCEPT ![IF from = 0 THEN q ELSE from] = RefreshTTL]
  /\ parent' = [parent EXCEPT ![q] = from]
  /\ author' = [author EXCEPT ![q] = IF from = 0 THEN Nobody ELSE h]

Issue(h, from) ==
  LET q == issued + 1 IN
  /\ issued < MaxPairs
  /\ issued' = q
  /\ access_left' = [access_left EXCEPT ![q] = AccessTTL]
  /\ refresh_left' = [refresh_left EXCEPT ![q] = RefreshTTL]
  /\ stored' = [stored EXCEPT ![q] = RefreshTTL]
  /\ parent' = [parent EXCEPT ![q] = from]
  /\ author' = [author EXCEPT ![q] = IF from = 0 THEN Nobody ELSE h]

\* A login, or the end of an OAuth callback, once the user is known.
LoginIssue(h) ==
  /\ At(h, "idle")
  /\ Issue(h, 0)
  /\ Suspend(h, "login_history", issued + 1)
  /\ UNCHANGED <<revoked, held, logged_out>>

\* The row of the login history is committed and the client has its tokens.
LoginHistory(h) ==
  /\ At(h, "login_history")
  /\ held' = held \cup {task[h].pair}
  /\ Finish(h)
  /\ UNCHANGED <<expiry, redis, history>>

-----------------------------------------------------------------------------
(* Refresh.  jwt_refresh_token_required decodes the token (which checks its *)
(* expiry), then looks its key up; refresh_tokens deletes the key whatever  *)
(* it finds by then, and only after that issues the new pair.               *)

RefreshStart(h, p) ==
  /\ At(h, "idle")
  /\ refresh_left[p] > 0
  /\ Suspend(h, "refresh_lookup", p)
  /\ UNCHANGED <<expiry, redis, held, history>>

RefreshLookup(h) ==
  /\ At(h, "refresh_lookup")
  /\ IF RefreshValid(task[h].pair) THEN Resume(h, "refresh_revoke") ELSE Finish(h)
  /\ UNCHANGED <<expiry, redis, held, history>>

RefreshRevoke(h) ==
  /\ At(h, "refresh_revoke")
  /\ RevokeRefresh(task[h].pair)
  /\ Resume(h, "refresh_issue")
  /\ UNCHANGED <<expiry, revoked, held, history>>

\* The claims access_jti and access_exp are never put into a token, so the
\* old access token is not revoked here.
RefreshIssue(h) ==
  /\ At(h, "refresh_issue")
  /\ Issue(h, task[h].pair)
  /\ held' = held \cup {issued + 1}
  /\ Finish(h)
  /\ UNCHANGED <<revoked, logged_out>>

\* The same, with an answer that the client never gets.
RefreshAnswerLost(h) ==
  /\ At(h, "refresh_issue")
  /\ Issue(h, task[h].pair)
  /\ Finish(h)
  /\ UNCHANGED <<revoked, held, logged_out>>

-----------------------------------------------------------------------------
(* Logout, with the access token of the pair.  What follows the revocation  *)
(* asks for a refresh token in the header that holds the access token; it   *)
(* raises, is logged, and changes nothing.                                  *)

LogoutStart(h, p) ==
  /\ At(h, "idle")
  /\ access_left[p] > 0
  /\ Suspend(h, "logout_lookup", p)
  /\ UNCHANGED <<expiry, redis, held, history>>

LogoutLookup(h) ==
  /\ At(h, "logout_lookup")
  /\ IF AccessRevoked(task[h].pair) THEN Finish(h) ELSE Resume(h, "logout_revoke")
  /\ UNCHANGED <<expiry, redis, held, history>>

LogoutRevoke(h) ==
  /\ At(h, "logout_revoke")
  /\ RevokeAccess(task[h].pair)
  /\ logged_out' = logged_out \cup {task[h].pair}
  /\ Finish(h)
  /\ UNCHANGED <<expiry, stored, held, parent, author>>

-----------------------------------------------------------------------------
(* jwt_required, as authenticate_token and every other protected route call *)
(* it: decode, then look up.                                                *)

AuthStart(h, p) ==
  /\ At(h, "idle")
  /\ access_left[p] > 0
  /\ Suspend(h, "auth_lookup", p)
  /\ UNCHANGED <<expiry, redis, held, history>>

AuthLookup(h) ==
  /\ At(h, "auth_lookup")
  /\ IF AccessRevoked(task[h].pair) THEN Finish(h) ELSE Resume(h, "accepted")
  /\ UNCHANGED <<expiry, redis, held, history>>

AuthReply(h) ==
  /\ At(h, "accepted")
  /\ Finish(h)
  /\ UNCHANGED <<expiry, redis, held, history>>

-----------------------------------------------------------------------------
\* A store raises, the process dies or the client leaves while h is suspended:
\* for login_history also the database, which refuses a row without user_agent.
Die(h) ==
  /\ ~At(h, "idle")
  /\ Finish(h)
  /\ UNCHANGED <<expiry, redis, held, history>>

Less(left) == [p \in Pairs |-> IF left[p] > 0 THEN left[p] - 1 ELSE 0]

Tick ==
  /\ access_left' = Less(access_left)
  /\ refresh_left' = Less(refresh_left)
  /\ revoked' = Less(revoked)
  /\ stored' = Less(stored)
  /\ UNCHANGED <<issued, task, held, history>>

Present(h, p) == RefreshStart(h, p) \/ LogoutStart(h, p) \/ AuthStart(h, p)

Step(h) ==
  \/ LoginIssue(h) \/ LoginHistory(h)
  \/ RefreshLookup(h) \/ RefreshRevoke(h) \/ RefreshIssue(h) \/ RefreshAnswerLost(h)
  \/ LogoutLookup(h) \/ LogoutRevoke(h)
  \/ AuthLookup(h) \/ AuthReply(h)
  \/ Die(h)

Next ==
  \/ \E h \in Handlers : Step(h)
  \/ \E h \in Handlers : \E p \in held : Present(h, p)
  \/ Tick

Spec == Init /\ [][Next]_vars

-----------------------------------------------------------------------------
TypeOK ==
  /\ issued \in 0 .. MaxPairs
  /\ access_left \in [Pairs -> 0 .. AccessTTL]
  /\ refresh_left \in [Pairs -> 0 .. RefreshTTL]
  /\ revoked \in [Pairs -> 0 .. AccessTTL]
  /\ stored \in [Pairs -> 0 .. RefreshTTL]
  /\ task \in [Handlers -> [at : Labels, pair : 0 .. issued]]
  /\ held \subseteq 1 .. issued
  /\ parent \in [Pairs -> 0 .. issued]
  /\ author \in [Pairs -> Handlers \cup {Nobody}]
  /\ logged_out \subseteq 1 .. issued

\* Redis and the tokens agree whatever the interleaving: a key "access:<jti>"
\* lives exactly as long as the token it revokes, and a key "refresh:<jti>" is
\* either gone or expires with its token.  Nothing exists for a jti not issued.
KeysMatchTokens ==
  /\ \A p \in Pairs : revoked[p] \in {0, access_left[p]}
  /\ \A p \in Pairs : stored[p] \in {0, refresh_left[p]}
  /\ \A p \in logged_out : revoked[p] = access_left[p]
  /\ \A p \in Pairs : p > issued => access_left[p] = 0 /\ refresh_left[p] = 0

\* A refresh token that has been exchanged for a new pair is no longer stored,
\* and one exchanged more than once was so by handlers that overlapped: each of
\* them exchanges it once, and none starts after the first has finished.
ExchangedIsSpent ==
  /\ \A q \in Pairs : parent[q] # 0 => stored[parent[q]] = 0
  /\ \A p, q \in Pairs :
       p # q /\ parent[p] = parent[q] /\ parent[p] # 0 => author[p] # author[q]

\* How a handler about to issue came there: its refresh token is gone already,
\* and it has not yet exchanged the token it is working on.
Exchanging ==
  \A h \in Handlers :
    /\ At(h, "refresh_issue") => stored[task[h].pair] = 0
    /\ task[h].at \in {"refresh_revoke", "refresh_issue"} =>
         \A q \in Pairs : parent[q] = task[h].pair => author[q] # h
    /\ ~At(h, "idle") => task[h].pair # 0

\* Redis, the tokens in the clients' hands and what the handlers between two calls
\* know of both fit together.
TokensInv == TypeOK /\ KeysMatchTokens /\ ExchangedIsSpent /\ Exchanging

-----------------------------------------------------------------------------
AccessStatus ==
  [p \in Pairs |-> IF p > issued THEN "unissued"
                   ELSE IF access_left[p] > 0 /\ ~AccessRevoked(p) THEN "valid" ELSE "dead"]

RefreshStatus ==
  [p \in Pairs |-> IF p > issued THEN "unissued"
                   ELSE IF refresh_left[p] > 0 /\ RefreshValid(p) THEN "valid" ELSE "dead"]

Access == INSTANCE Credential WITH Ids <- Pairs, status <- AccessStatus
Refresh == INSTANCE Credential WITH Ids <- Pairs, status <- RefreshStatus

\* An access token once refused, by logout or by age, is never accepted again:
\* the key that revokes it does not expire before the token does.
AccessLifecycle == Access!Spec

\* A refresh token once exchanged or expired is never accepted again, although
\* for refresh tokens it is the missing key that refuses.
RefreshLifecycle == Refresh!Spec

\* After a logout the access token is let through only when a handler decoded
\* it in time and looked it up when it had expired, its key with it.
LoggedOutRefused ==
  [][\A h \in Handlers :
       At(h, "auth_lookup") /\ task'[h].at = "accepted" /\ task[h].pair \in logged_out
         => access_left[task[h].pair] = 0]_vars

=============================================================================
