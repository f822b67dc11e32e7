----------------------------- MODULE AdminSession -----------------------------
(***************************************************************************)
(* The admin panel as a client of AuthTokens.  Its Django session holds one *)
(* pair of tokens; the tabs of one browser share the session.  A page calls *)
(* an API with the access token and, on a 401, exchanges the refresh token   *)
(* and calls once more (users/auth_service.py, with_token_refresh).          *)
(*                                                                         *)
(* Django loads a session as a whole when a request first reads it, and     *)
(* saves it as a whole when the response is ready, if it was modified and    *)
(* the status is not 500.  A session whose row is gone is not saved again.  *)
(* So two tabs work on copies, and what one of them exchanged reaches the    *)
(* session only at its end.                                                 *)
(*                                                                         *)
(* A tab makes one call at a time: Handlers are the tabs, and the handler    *)
(* of AuthTokens that serves a tab has its name.  A tab that is refused a    *)
(* connection, or whose answer is lost, learns it when its handler is done.  *)
(***************************************************************************)
EXTENDS AuthTokens

VARIABLES
  session,  \* the row the browser's cookie names: is somebody logged in, which pair
  tab,      \* what the page of each tab is at, and its copy of the session
  \* History, read by the properties only:
  stranded  \* pairs used up by a page that failed before it could save their heir

adminVars == <<session, tab, stranded>>
allVars == <<vars, adminVars>>

NoSession == [user |-> FALSE, pair |-> 0]
Stages == {"idle", "ready", "call", "refused", "refresh", "renewed", "again", "leave",
           "login", "answer"}

Load(page, stage) ==
  [at |-> stage, page |-> page, user |-> session.user, pair |-> session.pair,
   base |-> session.pair, dirty |-> FALSE, stale |-> FALSE]
Closed == [at |-> "idle", page |-> "view", user |-> FALSE, pair |-> 0,
           base |-> 0, dirty |-> FALSE, stale |-> FALSE]

AdminInit ==
  /\ Init
  /\ session = NoSession
  /\ tab = [t \in Handlers |-> Closed]
  /\ stranded = {}

Goto(t, stage) == tab' = [tab EXCEPT ![t].at = stage]

\* A page of views and deletions may call again; a logout goes on to leave.
Done(t) == IF tab[t].page = "logout" THEN "leave" ELSE "ready"

-----------------------------------------------------------------------------
(* CustomBackend.authenticate.  The tokens are in the session before the    *)
(* account is looked at, so a login that is rejected (not a superuser, or    *)
(* the e-mail every account is given is taken) leaves them there.           *)

\* An assumption about the user, no guard of the code: nobody logs in while a page
\* of the browser is still loading.  A login that races with another would need the
\* rows of several sessions, for each accepted one gives the browser a new key.
LoginPost(t) ==
  /\ \A u \in Handlers : tab[u].at = "idle"
  /\ LoginIssue(t)
  /\ tab' = [tab EXCEPT ![t] = Load("login", "login")]
  /\ UNCHANGED <<session, stranded>>

\* An accepted login gives an anonymous session a new key: the old row goes.
\* A session that somebody is logged in to is never taken over by another
\* account, because of the unique e-mail.
LoginAnswered(t) ==
  /\ tab[t].at = "login"
  /\ LoginHistory(t)
  /\ \E user \in {tab[t].user, TRUE} :
       /\ tab' = [tab EXCEPT ![t].at = "answer", ![t].dirty = TRUE,
                             ![t].pair = task[t].pair, ![t].user = user]
       /\ session' = IF user = tab[t].user THEN session ELSE NoSession
  /\ UNCHANGED stranded

\* Any status but 200.
LoginFails(t) ==
  /\ tab[t].at = "login"
  /\ Die(t)
  /\ Goto(t, "answer")
  /\ UNCHANGED <<session, stranded>>

-----------------------------------------------------------------------------
(* A page: the login history, the list of films with its deletions, or the  *)
(* logout.                                                                  *)

Open(t, page) ==
  /\ tab[t].at = "idle" /\ session.user
  /\ tab' = [tab EXCEPT ![t] = Load(page, "ready")]
  /\ UNCHANGED <<vars, session, stranded>>

\* The route called decodes the token and, if that has not expired, goes on.
Call(t) ==
  /\ tab[t].at \in {"ready", "renewed"} /\ tab[t].pair # 0
  /\ IF tab[t].page = "logout" THEN LogoutStart(t, tab[t].pair) ELSE AuthStart(t, tab[t].pair)
  /\ Goto(t, IF tab[t].at = "ready" THEN "call" ELSE "again")
  /\ UNCHANGED <<session, stranded>>

\* A 401 of the first call starts the refresh, one of the second is the answer.
Unauthorized(t) == IF tab[t].at \in {"renewed", "again"} THEN Done(t) ELSE "refused"

\* The token has expired; or fast_api answers 401 for what it could not check.
CallUnauthorized(t) ==
  /\ tab[t].at \in {"ready", "renewed"} /\ tab[t].pair # 0
  /\ access_left[tab[t].pair] = 0 \/ tab[t].page = "view"
  /\ Goto(t, Unauthorized(t))
  /\ UNCHANGED <<vars, session, stranded>>

\* Another status (429, the breaker's 503), or an exception that is swallowed.
CallUnanswered(t) ==
  /\ tab[t].at \in {"ready", "renewed"} /\ tab[t].pair # 0
  /\ Goto(t, Done(t))
  /\ UNCHANGED <<vars, session, stranded>>

CallLookup(t) ==
  /\ tab[t].at \in {"call", "again"}
  /\ AuthLookup(t) \/ LogoutLookup(t)
  /\ IF AccessRevoked(task[t].pair) THEN Goto(t, Unauthorized(t)) ELSE UNCHANGED tab
  /\ UNCHANGED <<session, stranded>>

CallReturns(t) ==
  /\ tab[t].at \in {"call", "again"}
  /\ AuthReply(t) \/ LogoutRevoke(t)
  /\ Goto(t, Done(t))
  /\ UNCHANGED <<session, stranded>>

CallDies(t) ==
  /\ tab[t].at \in {"call", "again"}
  /\ Die(t)
  /\ \E stage \in {Done(t)} \union (IF tab[t].page = "view" THEN {Unauthorized(t)} ELSE {}) :
       Goto(t, stage)
  /\ UNCHANGED <<session, stranded>>

-----------------------------------------------------------------------------
(* refresh_session_tokens, with the refresh token of the tab's copy.        *)

StartRefresh(t) ==
  /\ tab[t].at = "refused"
  /\ RefreshStart(t, tab[t].pair)
  /\ Goto(t, "refresh")
  /\ UNCHANGED <<session, stranded>>

\* Expired, or not answered with 200: the page shows the 401 it had.
RefreshUnanswered(t) ==
  /\ tab[t].at = "refused"
  /\ Goto(t, Done(t))
  /\ UNCHANGED <<vars, session, stranded>>

RefreshLooksUp(t) ==
  /\ tab[t].at = "refresh"
  /\ RefreshLookup(t)
  /\ IF RefreshValid(task[t].pair) THEN UNCHANGED tab ELSE Goto(t, Done(t))
  /\ UNCHANGED <<session, stranded>>

RefreshRevokes(t) ==
  /\ tab[t].at = "refresh"
  /\ RefreshRevoke(t)
  /\ UNCHANGED <<session, tab, stranded>>

RefreshedUnsaved(t) ==
  /\ tab[t].at = "refresh"
  /\ RefreshIssue(t)
  /\ tab' = [tab EXCEPT ![t].at = "renewed", ![t].pair = issued + 1]
  /\ UNCHANGED <<session, stranded>>

Refreshed(t) ==
  /\ tab[t].at = "refresh"
  /\ RefreshIssue(t)
  /\ tab' = [tab EXCEPT ![t].at = "renewed", ![t].pair = issued + 1, ![t].dirty = TRUE]
  /\ UNCHANGED <<session, stranded>>

RefreshLostForgets(t) ==
  /\ tab[t].at = "refresh"
  /\ RefreshAnswerLost(t) \/ Die(t)
  /\ tab' = [tab EXCEPT ![t].at = Done(t), ![t].pair = 0, ![t].dirty = TRUE]
  /\ stranded' = IF At(t, "refresh_issue")
                   THEN stranded \union {tab[t].base, tab[t].pair} ELSE stranded
  /\ UNCHANGED session

\* The pair is exchanged, or its key deleted, and the tab has no other.
RefreshLost(t) ==
  /\ tab[t].at = "refresh"
  /\ RefreshAnswerLost(t) \/ Die(t)
  /\ Goto(t, Done(t))
  /\ stranded' = IF At(t, "refresh_issue")
                   THEN stranded \union {tab[t].base, tab[t].pair} ELSE stranded
  /\ UNCHANGED session

-----------------------------------------------------------------------------
(* The end of a request.                                                    *)

RespondSavingAlways(t) ==
  /\ tab[t].at = "answer" \/ (tab[t].at = "ready" /\ tab[t].page = "view")
  /\ session' = IF ~tab[t].stale
                  THEN [user |-> tab[t].user, pair |-> tab[t].pair] ELSE session
  /\ tab' = [tab EXCEPT ![t] = Closed]
  /\ UNCHANGED <<vars, stranded>>

RespondReviving(t) ==
  /\ tab[t].at = "answer" \/ (tab[t].at = "ready" /\ tab[t].page = "view")
  /\ session' = IF tab[t].dirty
                  THEN [user |-> tab[t].user, pair |-> tab[t].pair] ELSE session
  /\ tab' = [tab EXCEPT ![t] = Closed]
  /\ UNCHANGED <<vars, stranded>>

\* SessionMiddleware.process_response; without its row, SessionInterrupted.
Respond(t) ==
  /\ tab[t].at = "answer" \/ (tab[t].at = "ready" /\ tab[t].page = "view")
  /\ session' = IF tab[t].dirty /\ ~tab[t].stale
                  THEN [user |-> tab[t].user, pair |-> tab[t].pair] ELSE session
  /\ tab' = [tab EXCEPT ![t] = Closed]
  /\ UNCHANGED <<vars, stranded>>

\* Status 500, or a worker that is killed: the copy is dropped.
Fail(t) ==
  /\ tab[t].at # "idle" /\ At(t, "idle")
  /\ tab' = [tab EXCEPT ![t] = Closed]
  /\ stranded' = IF tab[t].dirty /\ tab[t].page # "login"
                   THEN stranded \union {tab[t].base} ELSE stranded
  /\ UNCHANGED <<vars, session>>

\* super().logout: the row goes, whatever the auth service answered; the other
\* tabs are left with copies of a session that is no more.
Flush(t) ==
  /\ tab[t].at = "leave"
  /\ session' = NoSession
  /\ tab' = [u \in Handlers |->
               IF u = t THEN Closed ELSE [tab[u] EXCEPT !.stale = tab[u].user]]
  /\ UNCHANGED <<vars, stranded>>

TokenTick == Tick /\ UNCHANGED adminVars

LoginStep(t) == LoginPost(t) \/ LoginAnswered(t) \/ LoginFails(t)
CallStep(t) == Call(t) \/ CallUnauthorized(t) \/ CallUnanswered(t)
                 \/ CallLookup(t) \/ CallReturns(t) \/ CallDies(t)
RefreshStep(t) == StartRefresh(t) \/ RefreshUnanswered(t) \/ RefreshLooksUp(t)
                    \/ RefreshRevokes(t) \/ Refreshed(t) \/ RefreshLost(t)
EndStep(t) == Respond(t) \/ Fail(t) \/ Flush(t)

AdminNext ==
  \/ \E t \in Handlers : \E page \in {"view", "logout"} : Open(t, page)
  \/ \E t \in Handlers : LoginStep(t) \/ CallStep(t) \/ RefreshStep(t) \/ EndStep(t)
  \/ TokenTick

AdminSpec == AdminInit /\ [][AdminNext]_allVars

-----------------------------------------------------------------------------
AdminTypeOK ==
  /\ session \in [user : BOOLEAN, pair : 0 .. issued]
  /\ tab \in [Handlers -> [at : Stages, page : {"view", "logout", "login"}, user : BOOLEAN,
                           pair : 0 .. issued, base : 0 .. issued,
                           dirty : BOOLEAN, stale : BOOLEAN]]
  /\ stranded \subseteq 0 .. issued

Attached(t) == tab[t].at # "idle" /\ tab[t].page # "login"
                 /\ ~tab[t].stale /\ tab[t].base = session.pair

\* What a tab knows of the session it copied.  The tokens are ones a client was
\* given.  A page was opened by somebody logged in, and if the session is not
\* logged in any more, the row of the copy is gone.  One login is posted at a
\* time, and an anonymous one finds the session anonymous until it is answered.
CopiesTell ==
  /\ session.pair \in held \union {0}
  /\ \A t \in Handlers :
       /\ tab[t].pair \in held \union {0}
       /\ tab[t].at \in {"refused", "refresh"} => tab[t].pair # 0
       /\ tab[t].at = "login" => At(t, "login_history")
       /\ tab[t].at # "idle" =>
            (tab[t].page = "login") = (tab[t].at \in {"login", "answer"})
       /\ tab[t].at \notin {"idle", "login", "answer"} =>
            tab[t].user /\ (tab[t].stale \/ session.user)
       /\ tab[t].at \in {"login", "answer"} /\ ~tab[t].user => ~session.user
       /\ tab[t].at \in {"login", "answer"} =>
            \A u \in Handlers \ {t} : tab[u].at \notin {"login", "answer"}

\* The session is left with a refresh token that is used up only while the tab
\* that used it up still runs and will save its heir, or after a failure: an
\* answer lost, an auth service that died half way, a page that ended in a 500.
\* No order in which two tabs refresh and save does it.
SpentHasHeir ==
  LET p == session.pair IN
  p # 0 /\ p \notin stranded /\ stored[p] # refresh_left[p]
    => \E t \in Handlers : Attached(t) /\ (tab[t].dirty \/ At(t, "refresh_issue"))

\* Unless a failure used it up, the pair that a page puts into the session is still
\* unused (users/auth_service.py, refresh_session_tokens).  It need not be the
\* newest: two tabs that exchange one pair at the same time save their two heirs in
\* the order in which they end.
SavedPairIsFresh ==
  [][session'.pair \notin {0, session.pair} \union stranded =>
       stored[session'.pair] = refresh_left[session'.pair]]_allVars

\* A logout is final: only a login makes a session again, and a page of another
\* tab that was loading meanwhile and refreshed its tokens does not.
OnlyLoginRevives ==
  [][~session.user /\ session'.user =>
       \E t \in Handlers : tab[t].page = "login" /\ tab[t].at = "answer"]_allVars

\* Whoever is logged in has a pair in the session, whatever the auth service
\* answered: without one the pages show nothing, and the logout, which reads it
\* first, ends in a KeyError.
LoggedInHasTokens ==
  /\ session.user => session.pair # 0
  /\ \A t \in Handlers : tab[t].user => tab[t].pair # 0

\* The session and the copies that tabs have of it fit together, and fit the tokens
\* clients were given, whatever tab is at whatever call.
PanelInv == AdminTypeOK /\ CopiesTell /\ LoggedInHasTokens

\* With the tokens below the panel it is inductive.
AdminInv == TokensInv /\ AdminTypeOK /\ CopiesTell /\ LoggedInHasTokens

=============================================================================
