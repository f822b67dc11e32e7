-------------------------- MODULE AdminSessionProofs --------------------------
(***************************************************************************)
(* The admin panel is a client of AuthTokens: whatever its tabs do, the     *)
(* auth service takes steps of its own specification, so all that is proved *)
(* of AuthTokens holds beneath the panel.  For this the panel must only      *)
(* present tokens a client was given (CopiesTell).                          *)
(*                                                                         *)
(* That the tabs save no pair that is used up rests on ownership            *)
(* (PairsTell): the pair of a page that has changed its copy is known to     *)
(* that page alone, so nobody else can use it up before it is saved, and a   *)
(* page that has not changed its copy saves nothing.  Which of two unused    *)
(* pairs is the older is no part of it: the later save stays.                *)
(***************************************************************************)
EXTENDS AdminSession, AuthTokensProofs

LEMMA AdminInitInv == AdminInit => AdminInv
  BY InitInv
  DEF AdminInit, AdminInv, AdminTypeOK, CopiesTell, LoggedInHasTokens, Init, NoSession, Closed, Stages

\* Every step of the panel is one of the auth service or leaves it alone.
LEMMA PanelStep ==
  ASSUME AdminInv, NEW t \in Handlers,
         LoginStep(t) \/ CallStep(t) \/ RefreshStep(t) \/ EndStep(t)
  PROVE  [Next]_vars
  <1>1. tab[t].pair # 0 => tab[t].pair \in held
    BY DEF AdminInv, CopiesTell
  <1>2. tab[t].at = "refused" => tab[t].pair # 0
    BY DEF AdminInv, CopiesTell
  <1>3. CASE LoginStep(t)
    BY <1>3 DEF LoginStep, LoginPost, LoginAnswered, LoginFails, Next, Step
  <1>4. CASE CallStep(t)
    <2>1. CASE Call(t)
      <3>1. tab[t].pair \in held
        BY <1>1, <2>1 DEF Call
      <3>2. Present(t, tab[t].pair)
        BY <2>1 DEF Call, Present
      <3>3. QED
        BY <3>1, <3>2 DEF Next
    <2>2. CASE CallLookup(t) \/ CallReturns(t) \/ CallDies(t)
      BY <2>2 DEF CallLookup, CallReturns, CallDies, Next, Step
    <2>3. QED
      BY <1>4, <2>1, <2>2 DEF CallStep, CallUnauthorized, CallUnanswered
  <1>5. CASE RefreshStep(t)
    <2>1. CASE StartRefresh(t)
      <3>1. tab[t].pair \in held
        BY <1>1, <1>2, <2>1 DEF StartRefresh
      <3>2. Present(t, tab[t].pair)
        BY <2>1 DEF StartRefresh, Present
      <3>3. QED
        BY <3>1, <3>2 DEF Next
    <2>2. CASE RefreshLooksUp(t) \/ RefreshRevokes(t) \/ Refreshed(t) \/ RefreshLost(t)
      BY <2>2 DEF RefreshLooksUp, RefreshRevokes, Refreshed, RefreshLost, Next, Step
    <2>3. QED
      BY <1>5, <2>1, <2>2 DEF RefreshStep, RefreshUnanswered
  <1>6. CASE EndStep(t)
    BY <1>6 DEF EndStep, Respond, Fail, Flush
  <1>7. QED
    BY <1>3, <1>4, <1>5, <1>6

LEMMA AdminStepIsStep == AdminInv /\ [AdminNext]_allVars => [Next]_vars
  BY PanelStep DEF AdminNext, Open, TokenTick, Next, allVars

-----------------------------------------------------------------------------
\* Pairs are only added, and so are the ones clients hold.
LEMMA PairsGrow ==
  ASSUME TokensInv, TokensInv', [Next]_vars
  PROVE  /\ issued \in Nat /\ issued' \in Nat /\ issued <= issued'
         /\ held \subseteq held' /\ held' \subseteq 1 .. issued'
  <1>1. issued \in Nat /\ issued' \in Nat /\ held' \subseteq 1 .. issued'
    BY LifetimeAssumption DEF TokensInv, TypeOK
  <1>2. CASE Next
    <2>1. CASE Tick
      BY <1>1, <2>1 DEF Tick
    <2>2. ASSUME NEW h \in Handlers, NEW p \in held, Present(h, p)
          PROVE  issued <= issued' /\ held \subseteq held'
      BY <1>1, <2>2 DEF Present, RefreshStart, LogoutStart, AuthStart, expiry
    <2>3. ASSUME NEW h \in Handlers, Step(h)
          PROVE  issued <= issued' /\ held \subseteq held'
      BY <1>1, <2>3 DEF Step, LoginIssue, LoginHistory, RefreshLookup, RefreshRevoke, RefreshIssue,
                        RefreshAnswerLost, LogoutLookup, LogoutRevoke, AuthLookup, AuthReply, Die,
                        Issue, expiry
    <2>4. QED
      BY <1>1, <1>2, <2>1, <2>2, <2>3 DEF Next
  <1>3. QED
    BY <1>1, <1>2 DEF vars, expiry

TabType(last) ==
  [at : Stages, page : {"view", "logout", "login"}, user : BOOLEAN,
   pair : 0 .. last, base : 0 .. last, dirty : BOOLEAN, stale : BOOLEAN]

\* What AdminInv asks of one tab that is at, or about to reach, the state new.
TabTells(new, row, known) ==
  /\ new.pair \in known \union {0}
  /\ new.at \in {"refused", "refresh"} => new.pair # 0
  /\ new.at # "idle" => (new.page = "login") = (new.at \in {"login", "answer"})
  /\ new.at \notin {"idle", "login", "answer"} => new.user /\ (new.stale \/ row.user)
  /\ new.at \in {"login", "answer"} /\ ~new.user => ~row.user
  /\ new.user => new.pair # 0

\* A step of one tab that leaves the session alone and posts no login.
LEMMA TabKeepsInv ==
  ASSUME AdminInv, TokensInv', [Next]_vars, NEW t \in Handlers, NEW new \in TabType(issued'),
         tab' = [tab EXCEPT ![t] = new], session' = session, stranded' \subseteq 0 .. issued',
         \A u \in Handlers \ {t} : task'[u] = task[u],
         TabTells(new, session, held'),
         new.at # "login", new.at = "answer" => tab[t].at \in {"login", "answer"}
  PROVE  AdminInv'
  <1>1. /\ issued \in Nat /\ issued' \in Nat /\ issued <= issued'
        /\ held \subseteq held'
    BY PairsGrow DEF AdminInv
  <1>2. AdminTypeOK'
    <2>1. session' \in [user : BOOLEAN, pair : 0 .. issued']
      BY <1>1 DEF AdminInv, AdminTypeOK
    <2>2. tab \in [Handlers -> TabType(issued')]
      BY <1>1 DEF AdminInv, AdminTypeOK, TabType
    <2>3. QED
      BY <2>1, <2>2 DEF AdminTypeOK, TabType
  <1>3. /\ tab'[t] = new
        /\ \A u \in Handlers \ {t} : tab'[u] = tab[u]
    BY DEF AdminInv, AdminTypeOK
  <1>4. CopiesTell'
    BY <1>1, <1>3 DEF AdminInv, CopiesTell, TabTells, At
  <1>5. LoggedInHasTokens'
    BY <1>3 DEF AdminInv, LoggedInHasTokens, TabTells
  <1>6. QED
    BY <1>2, <1>4, <1>5 DEF AdminInv

\* The tabs and the session stay as they are.
LEMMA StillKeepsInv ==
  ASSUME AdminInv, TokensInv', [Next]_vars, UNCHANGED <<session, tab>>, stranded' \subseteq 0 .. issued',
         \A u \in Handlers : tab[u].at = "login" => task'[u] = task[u]
  PROVE  AdminInv'
  <1>1. /\ issued \in Nat /\ issued' \in Nat /\ issued <= issued'
        /\ held \subseteq held'
    BY PairsGrow DEF AdminInv
  <1>2. AdminTypeOK'
    BY <1>1 DEF AdminInv, AdminTypeOK
  <1>3. CopiesTell'
    BY <1>1 DEF AdminInv, CopiesTell, At
  <1>4. QED
    BY <1>2, <1>3 DEF AdminInv, LoggedInHasTokens

-----------------------------------------------------------------------------
\* A page that goes on to another stage.
LEMMA GotoKeepsInv ==
  ASSUME AdminInv, TokensInv', [Next]_vars, NEW t \in Handlers,
         NEW stage \in Stages \ {"idle", "login", "answer"},
         Goto(t, stage), session' = session, stranded' \subseteq 0 .. issued',
         \A u \in Handlers \ {t} : task'[u] = task[u],
         tab[t].at \notin {"idle", "login", "answer"},
         stage \in {"refused", "refresh"} => tab[t].pair # 0
  PROVE  AdminInv'
  <1> DEFINE new == [tab[t] EXCEPT !.at = stage]
  <1>1. /\ issued \in Nat /\ issued' \in Nat /\ issued <= issued'
        /\ held \subseteq held'
    BY PairsGrow DEF AdminInv
  <1>2. tab[t] \in TabType(issued')
    BY <1>1 DEF AdminInv, AdminTypeOK, TabType
  <1>3. new \in TabType(issued') /\ tab' = [tab EXCEPT ![t] = new]
    BY <1>2 DEF Goto, TabType
  <1>4. /\ new.at = stage /\ new.page = tab[t].page /\ new.user = tab[t].user
        /\ new.pair = tab[t].pair /\ new.stale = tab[t].stale
    BY <1>2 DEF TabType
  <1>5. TabTells(new, session, held')
    BY <1>1, <1>4 DEF AdminInv, CopiesTell, LoggedInHasTokens, TabTells
  <1> HIDE DEF new
  <1>6. QED
    BY <1>3, <1>4, <1>5, TabKeepsInv

\* Login.
LEMMA LoginKeepsInv ==
  ASSUME AdminInv, TokensInv', [Next]_vars, NEW t \in Handlers, LoginStep(t),
         \A u \in Handlers \ {t} : task'[u] = task[u]
  PROVE  AdminInv'
  <1>1. /\ issued \in Nat /\ issued' \in Nat /\ issued <= issued'
        /\ held \subseteq held'
    BY PairsGrow DEF AdminInv
  <1>2. /\ tab \in [Handlers -> TabType(issued')]
        /\ session \in [user : BOOLEAN, pair : 0 .. issued']
        /\ stranded \subseteq 0 .. issued'
    BY <1>1 DEF AdminInv, AdminTypeOK, TabType
  <1>3. CASE LoginPost(t)
    <2>1. stranded' = stranded /\ session' = session
      BY <1>3 DEF LoginPost
    <2>2. task'[t].at = "login_history"
      BY <1>3 DEF LoginPost, LoginIssue, Suspend, AdminInv, TokensInv, TypeOK
    <2>3. /\ Load("login", "login") \in TabType(issued')
          /\ tab' = [tab EXCEPT ![t] = Load("login", "login")]
      BY <1>1, <1>2, <1>3 DEF LoginPost, Load, TabType, Stages
    <2>4. AdminTypeOK'
      BY <1>1, <1>2, <2>1, <2>3 DEF AdminTypeOK, TabType
    <2>5. /\ tab'[t] = Load("login", "login")
          /\ \A u \in Handlers \ {t} : tab'[u] = tab[u] /\ tab[u].at = "idle"
      BY <1>2, <1>3, <2>3 DEF LoginPost
    <2>6. CopiesTell'
      BY <1>1, <2>1, <2>2, <2>5 DEF AdminInv, CopiesTell, At, Load
    <2>7. LoggedInHasTokens'
      BY <2>1, <2>5 DEF AdminInv, LoggedInHasTokens, Load
    <2>8. QED
      BY <2>4, <2>6, <2>7 DEF AdminInv
  <1>4. CASE LoginAnswered(t)
    <2> DEFINE p == task[t].pair
    <2>1. p \in held' /\ p \in 1 .. issued' /\ stranded' = stranded
      BY <1>1, <1>4, PairsGrow DEF LoginAnswered, LoginHistory, AdminInv
    <2>2. PICK user \in {tab[t].user, TRUE} :
            /\ tab' = [tab EXCEPT ![t].at = "answer", ![t].dirty = TRUE,
                                  ![t].pair = p, ![t].user = user]
            /\ session' = IF user = tab[t].user THEN session ELSE NoSession
      BY <1>4 DEF LoginAnswered
    <2> DEFINE new == [tab[t] EXCEPT !.at = "answer", !.dirty = TRUE, !.pair = p, !.user = user]
    <2>3. /\ session' \in {session, NoSession}
          /\ session' = session \/ tab[t].user # TRUE
          /\ user \in BOOLEAN
      BY <1>2, <2>2 DEF TabType
    <2>4. NoSession \in [user : BOOLEAN, pair : 0 .. issued']
      BY <1>1 DEF NoSession
    <2>5. tab[t] \in TabType(issued')
      BY <1>2
    <2>6. tab[t].page = "login"
      BY <1>4 DEF LoginAnswered, AdminInv, CopiesTell
    <2>7. tab' = [tab EXCEPT ![t] = new]
      BY <1>2, <2>2 DEF TabType
    <2>8. /\ new \in TabType(issued')
          /\ new.at = "answer" /\ new.page = "login" /\ new.pair = p
      <3>1. p \in 0 .. issued'
        BY <2>1
      <3> HIDE DEF p
      <3>2. new \in TabType(issued')
        BY <2>3, <2>5, <3>1 DEF TabType, Stages
      <3>3. new.at = "answer" /\ new.page = "login" /\ new.pair = p
        BY <2>5, <2>6 DEF TabType
      <3>4. QED
        BY <3>2, <3>3
    <2> HIDE DEF new
    <2>9. /\ tab' \in [Handlers -> TabType(issued')]
          /\ tab'[t].at = "answer" /\ tab'[t].page = "login" /\ tab'[t].pair = p
          /\ \A u \in Handlers \ {t} : tab'[u] = tab[u]
      BY <1>2, <2>7, <2>8
    <2>10. session'.user = session.user
      <3>1. CASE session' = session
        BY <3>1
      <3>2. CASE session' # session
        <4>1. ~tab[t].user /\ session' = NoSession
          BY <2>3, <2>5, <3>2 DEF TabType
        <4>2. ~session.user
          BY <1>4, <4>1 DEF LoginAnswered, AdminInv, CopiesTell
        <4>3. session.user \in BOOLEAN
          BY <1>2
        <4>4. QED
          BY <4>1, <4>2, <4>3 DEF NoSession
      <3>3. QED
        BY <3>1, <3>2
    <2>11. session'.pair \in held' \union {0} /\ (session'.user => session'.pair # 0)
      <3>1. /\ session.pair \in held' \union {0} /\ (session.user => session.pair # 0)
            /\ NoSession.pair = 0 /\ ~NoSession.user
        BY <1>1 DEF NoSession, AdminInv, CopiesTell, LoggedInHasTokens
      <3>2. QED
        BY <2>3, <3>1
    <2>12. AdminTypeOK'
      BY <1>2, <2>1, <2>3, <2>4, <2>9 DEF AdminTypeOK, TabType
    <2>13. \A u \in Handlers \ {t} : tab[u].at \notin {"login", "answer"}
      BY <1>4 DEF LoginAnswered, AdminInv, CopiesTell
    <2> HIDE DEF p
    <2>14. CopiesTell'
      <3>1. ASSUME NEW u \in Handlers \ {t}
            PROVE  /\ tab'[u].pair \in held' \union {0}
                   /\ tab'[u].at \in {"refused", "refresh"} => tab'[u].pair # 0
                   /\ tab'[u].at \notin {"login", "answer"}
                   /\ tab'[u].at # "idle" => tab'[u].page # "login"
                   /\ tab'[u].at # "idle" => tab'[u].user /\ (tab'[u].stale \/ session'.user)
        BY <1>1, <2>9, <2>10, <2>13 DEF AdminInv, CopiesTell
      <3>2. tab'[t].at = "answer" /\ tab'[t].page = "login" /\ tab'[t].pair \in held' \union {0}
        BY <2>1, <2>9
      <3>3. ~tab'[t].user => ~session'.user
        <4>1. tab'[t].user = user
          BY <1>2, <2>2 DEF TabType
        <4>2. ~tab[t].user => ~session.user
          BY <1>4 DEF LoginAnswered, AdminInv, CopiesTell
        <4>3. QED
          BY <2>2, <2>10, <4>1, <4>2
      <3>4. QED
        BY <2>11, <3>1, <3>2, <3>3 DEF CopiesTell
    <2>15. LoggedInHasTokens'
      BY <2>1, <2>9, <2>11 DEF AdminInv, LoggedInHasTokens
    <2>16. QED
      BY <2>12, <2>14, <2>15 DEF AdminInv
  <1>5. CASE LoginFails(t)
    <2> DEFINE new == [tab[t] EXCEPT !.at = "answer"]
    <2>1. /\ new \in TabType(issued') /\ tab' = [tab EXCEPT ![t] = new]
          /\ new.at = "answer" /\ new.page = tab[t].page /\ new.user = tab[t].user
          /\ new.pair = tab[t].pair
      BY <1>2, <1>5 DEF LoginFails, Goto, TabType, Stages
    <2>2. TabTells(new, session, held')
      BY <1>1, <1>5, <2>1 DEF LoginFails, AdminInv, CopiesTell, LoggedInHasTokens, TabTells
    <2>3. session' = session /\ stranded' = stranded /\ tab[t].at = "login"
      BY <1>5 DEF LoginFails
    <2> HIDE DEF new
    <2>4. QED
      BY <1>2, <2>1, <2>2, <2>3, TabKeepsInv
  <1>6. QED
    BY <1>3, <1>4, <1>5 DEF LoginStep

-----------------------------------------------------------------------------
\* A page's calls and its refresh.
LEMMA CallKeepsInv ==
  ASSUME AdminInv, TokensInv', [Next]_vars, NEW t \in Handlers, CallStep(t),
         \A u \in Handlers \ {t} : task'[u] = task[u]
  PROVE  AdminInv'
  <1>1. session' = session /\ stranded' \subseteq 0 .. issued'
    <2>1. stranded \subseteq 0 .. issued'
      BY PairsGrow DEF AdminInv, AdminTypeOK
    <2>2. QED
      BY <2>1 DEF CallStep, Call, CallUnauthorized, CallUnanswered, CallLookup, CallReturns, CallDies
  <1>2. tab[t].at \in {"ready", "renewed", "call", "again"}
    BY DEF CallStep, Call, CallUnauthorized, CallUnanswered, CallLookup, CallReturns, CallDies
  <1>3. tab[t].pair # 0
    BY <1>2 DEF AdminInv, CopiesTell, LoggedInHasTokens
  <1>4. /\ Done(t) \in Stages \ {"idle", "login", "answer"}
        /\ Unauthorized(t) \in Stages \ {"idle", "login", "answer"}
    BY DEF Done, Unauthorized, Stages
  <1>5. CASE UNCHANGED tab
    BY <1>1, <1>2, <1>5, StillKeepsInv
  <1>6. CASE \E stage \in Stages \ {"idle", "login", "answer"} : Goto(t, stage)
    BY <1>1, <1>2, <1>3, <1>6, GotoKeepsInv
  <1>7. {"call", "again"} \subseteq Stages \ {"idle", "login", "answer"}
    BY DEF Stages
  <1>8. UNCHANGED tab \/ \E stage \in Stages \ {"idle", "login", "answer"} : Goto(t, stage)
    BY <1>4, <1>7 DEF CallStep, Call, CallUnauthorized, CallUnanswered, CallLookup, CallReturns,
                      CallDies
  <1>9. QED
    BY <1>5, <1>6, <1>8

LEMMA RefreshKeepsInv ==
  ASSUME AdminInv, TokensInv', [Next]_vars, NEW t \in Handlers, RefreshStep(t),
         \A u \in Handlers \ {t} : task'[u] = task[u]
  PROVE  AdminInv'
  <1>0. /\ issued \in Nat /\ issued' \in Nat /\ issued <= issued'
        /\ held \subseteq held'
    BY PairsGrow DEF AdminInv
  <1>1. session' = session
    BY DEF RefreshStep, StartRefresh, RefreshUnanswered, RefreshLooksUp, RefreshRevokes, Refreshed,
           RefreshLost
  <1>2. tab[t].at \in {"refused", "refresh"}
    BY DEF RefreshStep, StartRefresh, RefreshUnanswered, RefreshLooksUp, RefreshRevokes, Refreshed,
           RefreshLost
  <1>3. tab[t].pair # 0 /\ tab[t].page # "login" /\ tab[t].user /\ (tab[t].stale \/ session.user)
    BY <1>2 DEF AdminInv, CopiesTell
  <1>4. tab[t] \in TabType(issued') /\ stranded \subseteq 0 .. issued'
    BY <1>0 DEF AdminInv, AdminTypeOK, TabType
  <1>5. CASE Refreshed(t)
    <2> DEFINE q == issued + 1
               new == [tab[t] EXCEPT !.at = "renewed", !.pair = q, !.dirty = TRUE]
    <2>1. /\ issued' = q /\ held' = held \union {q}
          /\ tab' = [tab EXCEPT ![t] = new]
      BY <1>5 DEF Refreshed, RefreshIssue, Issue
    <2>2. q \in 0 .. issued' /\ q # 0
      BY <1>0, <2>1
    <2> HIDE DEF q
    <2>3. new \in TabType(issued')
      BY <1>4, <2>2 DEF TabType, Stages
    <2>4. /\ new.at = "renewed" /\ new.page = tab[t].page /\ new.user = tab[t].user
          /\ new.pair = q /\ new.stale = tab[t].stale
      BY <1>4 DEF TabType
    <2> HIDE DEF new
    <2>5. TabTells(new, session, held')
      <3>1. new.page # "login" /\ new.user /\ (new.stale \/ session.user)
        BY <1>3, <2>4
      <3>2. QED
        BY <2>1, <2>2, <2>4, <3>1 DEF TabTells
    <2>6. stranded' \subseteq 0 .. issued'
      BY <1>4, <1>5 DEF Refreshed
    <2>7. QED
      BY <1>1, <2>1, <2>3, <2>4, <2>5, <2>6, TabKeepsInv
  <1>6. CASE ~Refreshed(t)
    <2>1. Done(t) \in Stages \ {"idle", "login", "answer"}
      BY DEF Done, Stages
    <2>2. "refresh" \in Stages \ {"idle", "login", "answer"}
      BY DEF Stages
    <2>3. UNCHANGED tab \/ \E stage \in Stages \ {"idle", "login", "answer"} : Goto(t, stage)
      BY <1>6, <2>1, <2>2 DEF RefreshStep, StartRefresh, RefreshUnanswered, RefreshLooksUp,
                              RefreshRevokes, RefreshLost
    <2>4. stranded' \in {stranded, stranded \union {tab[t].base, tab[t].pair}}
      BY <1>6 DEF RefreshStep, StartRefresh, RefreshUnanswered, RefreshLooksUp, RefreshRevokes,
                  RefreshLost
    <2>5. stranded' \subseteq 0 .. issued'
      BY <1>4, <2>4 DEF TabType
    <2>6. CASE UNCHANGED tab
      BY <1>1, <1>2, <2>5, <2>6, StillKeepsInv
    <2>7. QED
      BY <1>1, <1>2, <1>3, <2>3, <2>5, <2>6, GotoKeepsInv
  <1>7. QED
    BY <1>5, <1>6

\* Opening a page and ending it.
LEMMA OpenKeepsInv ==
  ASSUME AdminInv, TokensInv', [Next]_vars, NEW t \in Handlers, NEW page \in {"view", "logout"},
         Open(t, page)
  PROVE  AdminInv'
  <1>0. /\ issued \in Nat /\ issued' \in Nat /\ issued <= issued'
        /\ held \subseteq held'
    BY PairsGrow DEF AdminInv
  <1> DEFINE new == Load(page, "ready")
  <1>1. /\ tab' = [tab EXCEPT ![t] = new]
        /\ session' = session /\ stranded' = stranded /\ task' = task
        /\ session.user
    BY DEF Open, vars
  <1>2. new \in TabType(issued') /\ stranded' \subseteq 0 .. issued'
    BY <1>0, <1>1 DEF AdminInv, AdminTypeOK, Load, TabType, Stages
  <1>3. TabTells(new, session, held') /\ new.at = "ready"
    BY <1>0, <1>1 DEF Load, TabTells, AdminInv, CopiesTell, LoggedInHasTokens
  <1> HIDE DEF new
  <1>4. QED
    BY <1>1, <1>2, <1>3, TabKeepsInv

LEMMA EndKeepsInv ==
  ASSUME AdminInv, TokensInv', [Next]_vars, NEW t \in Handlers, EndStep(t)
  PROVE  AdminInv'
  <1>0. /\ issued \in Nat /\ issued' \in Nat /\ issued <= issued'
        /\ held \subseteq held'
    BY PairsGrow DEF AdminInv
  <1>1. task' = task
    BY DEF EndStep, Respond, Fail, Flush, vars
  <1>2. /\ tab \in [Handlers -> TabType(issued')]
        /\ session \in [user : BOOLEAN, pair : 0 .. issued']
        /\ stranded \subseteq 0 .. issued'
    BY <1>0 DEF AdminInv, AdminTypeOK, TabType
  <1>3. Closed \in TabType(issued') /\ Closed.at = "idle" /\ Closed.pair = 0 /\ ~Closed.user
    BY <1>0 DEF Closed, TabType, Stages
  <1>4. TabTells(Closed, session, held')
    BY <1>3 DEF TabTells
  <1>5. CASE Fail(t)
    <2>1. /\ session' = session /\ tab' = [tab EXCEPT ![t] = Closed]
          /\ stranded' \in {stranded, stranded \union {tab[t].base}}
      BY <1>5 DEF Fail
    <2>2. stranded' \subseteq 0 .. issued'
      BY <1>2, <2>1 DEF TabType
    <2>3. QED
      BY <1>1, <1>3, <1>4, <2>1, <2>2, TabKeepsInv
  <1>6. CASE Respond(t) /\ session' = session
    BY <1>1, <1>2, <1>3, <1>4, <1>6, TabKeepsInv DEF Respond
  <1>7. CASE Respond(t) /\ session' # session
    <2>1. /\ ~tab[t].stale
          /\ session' = [user |-> tab[t].user, pair |-> tab[t].pair]
          /\ tab' = [tab EXCEPT ![t] = Closed] /\ stranded' = stranded
          /\ tab[t].at = "answer" \/ (tab[t].at = "ready" /\ tab[t].page = "view")
      BY <1>7 DEF Respond
    <2>2. /\ session'.user = tab[t].user /\ session'.pair = tab[t].pair
          /\ session' \in [user : BOOLEAN, pair : 0 .. issued']
      BY <1>2, <2>1 DEF TabType
    <2>3. tab'[t] = Closed /\ \A u \in Handlers \ {t} : tab'[u] = tab[u]
      BY <1>2, <2>1
    <2>4. AdminTypeOK'
      BY <1>2, <1>3, <2>1, <2>2 DEF AdminTypeOK, TabType
    <2>5. ASSUME NEW u \in Handlers \ {t}
          PROVE  /\ tab[u].at \notin {"idle", "login", "answer"} => tab[u].stale \/ session'.user
                 /\ tab[u].at \in {"login", "answer"} /\ ~tab[u].user => ~session'.user
      <3>1. CASE tab[t].at = "answer"
        <4>1. tab[u].at \notin {"login", "answer"}
          BY <3>1 DEF AdminInv, CopiesTell
        <4>2. session.user => session'.user
          BY <2>2, <3>1 DEF AdminInv, CopiesTell
        <4>3. QED
          BY <4>1, <4>2 DEF AdminInv, CopiesTell
      <3>2. CASE tab[t].at = "ready"
        <4>1. tab[t].user /\ session.user
          BY <2>1, <3>2 DEF AdminInv, CopiesTell
        <4>2. QED
          BY <2>2, <4>1 DEF AdminInv, CopiesTell
      <3>3. QED
        BY <2>1, <3>1, <3>2
    <2>6. CopiesTell'
      BY <1>0, <1>1, <1>3, <2>2, <2>3, <2>5 DEF AdminInv, CopiesTell, At
    <2>7. LoggedInHasTokens'
      BY <1>3, <2>2, <2>3 DEF AdminInv, LoggedInHasTokens
    <2>8. QED
      BY <2>4, <2>6, <2>7 DEF AdminInv
  <1>8. CASE Flush(t)
    <2>1. /\ session' = NoSession /\ stranded' = stranded
          /\ tab' = [u \in Handlers |->
                       IF u = t THEN Closed ELSE [tab[u] EXCEPT !.stale = tab[u].user]]
      BY <1>8 DEF Flush
    <2>2. ASSUME NEW u \in Handlers \ {t}
          PROVE  /\ tab'[u] \in TabType(issued')
                 /\ tab'[u].at = tab[u].at /\ tab'[u].page = tab[u].page
                 /\ tab'[u].user = tab[u].user /\ tab'[u].pair = tab[u].pair
                 /\ tab'[u].stale = tab[u].user
      BY <1>2, <2>1 DEF TabType
    <2>3. tab'[t] = Closed
      BY <2>1
    <2>4. NoSession \in [user : BOOLEAN, pair : 0 .. issued'] /\ NoSession.pair = 0
          /\ NoSession.user = FALSE
      BY <1>0 DEF NoSession
    <2>5. AdminTypeOK'
      BY <1>2, <1>3, <2>1, <2>2, <2>3, <2>4 DEF AdminTypeOK, TabType
    <2>6. CopiesTell'
      BY <1>0, <1>1, <1>3, <2>1, <2>2, <2>3, <2>4 DEF AdminInv, CopiesTell, At
    <2>7. LoggedInHasTokens'
      BY <1>3, <2>1, <2>2, <2>3, <2>4 DEF AdminInv, LoggedInHasTokens
    <2>8. QED
      BY <2>5, <2>6, <2>7 DEF AdminInv
  <1>9. QED
    BY <1>5, <1>6, <1>7, <1>8 DEF EndStep

-----------------------------------------------------------------------------
\* A tab's step moves the task of its own handler only.
LEMMA OwnTaskOfTab ==
  ASSUME AdminInv, NEW t \in Handlers,
         LoginStep(t) \/ CallStep(t) \/ RefreshStep(t), NEW u \in Handlers \ {t}
  PROVE  task'[u] = task[u]
  <1> DEFINE p == tab[t].pair
  <1>1. UNCHANGED task \/ Step(t) \/ Present(t, p)
    BY DEF LoginStep, LoginPost, LoginAnswered, LoginFails,
           CallStep, Call, CallUnauthorized, CallUnanswered, CallLookup, CallReturns, CallDies,
           RefreshStep, StartRefresh, RefreshUnanswered, RefreshLooksUp, RefreshRevokes, Refreshed,
           RefreshLost, Step, Present, vars
  <1> HIDE DEF p
  <1>2. QED
    BY <1>1, OwnTaskOnly DEF AdminInv, TokensInv

LEMMA AdminStepKeepsInv == AdminInv /\ [AdminNext]_allVars => AdminInv'
  <1> SUFFICES ASSUME AdminInv, [AdminNext]_allVars
               PROVE  AdminInv'
    OBVIOUS
  <1>1. [Next]_vars
    BY AdminStepIsStep
  <1>2. TokensInv'
    BY <1>1, NextKeepsInv DEF AdminInv
  <1>3. stranded \subseteq 0 .. issued'
    BY <1>1, <1>2, PairsGrow DEF AdminInv, AdminTypeOK
  <1>4. CASE UNCHANGED allVars
    BY <1>1, <1>2, <1>3, <1>4, StillKeepsInv DEF allVars, adminVars, vars
  <1>5. CASE TokenTick
    BY <1>1, <1>2, <1>3, <1>5, StillKeepsInv DEF TokenTick, Tick, adminVars
  <1>6. ASSUME NEW t \in Handlers, NEW page \in {"view", "logout"}, Open(t, page)
        PROVE  AdminInv'
    BY <1>1, <1>2, <1>6, OpenKeepsInv
  <1>7. ASSUME NEW t \in Handlers, LoginStep(t) \/ CallStep(t) \/ RefreshStep(t) \/ EndStep(t)
        PROVE  AdminInv'
    BY <1>1, <1>2, <1>7, OwnTaskOfTab, LoginKeepsInv, CallKeepsInv, RefreshKeepsInv, EndKeepsInv
  <1>8. QED
    BY <1>4, <1>5, <1>6, <1>7 DEF AdminNext

\* Tokens, session and the copies of it fit together (auth_service.py), for any number
\* of tabs and pairs.
THEOREM AdminInvariance == AdminSpec => []AdminInv
  BY AdminInitInv, AdminStepKeepsInv, PTL DEF AdminSpec

\* Beneath the panel the auth service behaves as AuthTokens says, so whatever is
\* proved of that holds for the tokens of the panel: the panel never presents a
\* token that no client was given.
THEOREM PanelIsClient == AdminSpec => Spec
  <1>1. AdminInit => Init
    BY DEF AdminInit
  <1>2. QED
    BY <1>1, AdminStepIsStep, AdminInvariance, PTL DEF AdminSpec, Spec

\* The session and its copies fit together, and fit the tokens clients were given.
THEOREM PanelHolds == AdminSpec => []PanelInv
  <1>1. AdminInv => PanelInv
    BY DEF AdminInv, PanelInv
  <1>2. QED
    BY <1>1, AdminInvariance, PTL

\* Type correctness.
THEOREM PanelTypeCorrect == AdminSpec => []AdminTypeOK
  <1>1. AdminInv => AdminTypeOK
    BY DEF AdminInv
  <1>2. QED
    BY <1>1, AdminInvariance, PTL

\* What the copies of the tabs tell of the session they were taken from.
THEOREM CopiesAlwaysTell == AdminSpec => []CopiesTell
  <1>1. AdminInv => CopiesTell
    BY DEF AdminInv
  <1>2. QED
    BY <1>1, AdminInvariance, PTL

\* No answer of the auth service takes the tokens out of a logged-in session.
THEOREM TokensStay == AdminSpec => []LoggedInHasTokens
  <1>1. AdminInv => LoggedInHasTokens
    BY DEF AdminInv
  <1>2. QED
    BY <1>1, AdminInvariance, PTL

\* A session that was logged out is not brought back by a page that was loading.
THEOREM LogoutIsFinal == AdminSpec => OnlyLoginRevives
  <1> DEFINE Revived == ~session.user /\ session'.user =>
                          \E t \in Handlers : tab[t].page = "login" /\ tab[t].at = "answer"
  <1>1. AdminInv /\ [AdminNext]_allVars => Revived
    <2> SUFFICES ASSUME AdminInv, [AdminNext]_allVars, ~session.user, session'.user
                 PROVE  \E t \in Handlers : tab[t].page = "login" /\ tab[t].at = "answer"
      OBVIOUS
    <2>1. session' # session
      OBVIOUS
    <2>2. PICK t \in Handlers : LoginAnswered(t) \/ Respond(t) \/ Flush(t)
      BY <2>1 DEF AdminNext, allVars, adminVars, TokenTick, Open, LoginStep, LoginPost, LoginFails,
             CallStep, Call, CallUnauthorized, CallUnanswered, CallLookup, CallReturns, CallDies,
             RefreshStep, StartRefresh, RefreshUnanswered, RefreshLooksUp, RefreshRevokes,
             Refreshed, RefreshLost, EndStep, Fail
    <2>3. session' # NoSession
      BY DEF NoSession
    <2>4. Respond(t) /\ ~tab[t].stale
      BY <2>1, <2>2, <2>3 DEF LoginAnswered, Flush, Respond
    <2>5. ~(tab[t].at = "ready" /\ tab[t].page = "view")
      BY <2>4 DEF AdminInv, CopiesTell
    <2>6. tab[t].at = "answer"
      BY <2>4, <2>5 DEF Respond
    <2>7. QED
      BY <2>6 DEF AdminInv, CopiesTell
  <1>2. QED
    BY <1>1, AdminInvariance, PTL DEF AdminSpec, OnlyLoginRevives

-----------------------------------------------------------------------------
(* Which pairs are still good.  The pair of a page that has changed its copy *)
(* is its own: the page alone was given it, and nobody else can use it up.   *)

Spent(p) == stored[p] # refresh_left[p]
Loads(t) == tab[t].at # "idle"
Refreshing(t) == task[t].at \in {"refresh_lookup", "refresh_revoke", "refresh_issue"}
Quiet == {"idle", "ready", "refused", "renewed", "leave", "answer"}

Own(t, p) ==
  /\ p # session.pair
  /\ \A u \in Handlers \ {t} : Loads(u) => p \notin {tab[u].pair, tab[u].base}

PairsTell ==
  \A t \in Handlers :
    /\ Refreshing(t) <=> tab[t].at = "refresh"
    /\ Refreshing(t) => task[t].pair = tab[t].pair
    /\ tab[t].at \in Quiet => At(t, "idle")
    /\ Loads(t) /\ tab[t].dirty /\ tab[t].pair # 0 =>
         /\ Own(t, tab[t].pair)
         /\ Spent(tab[t].pair) => tab[t].pair \in stranded \/ At(t, "refresh_issue")
    /\ Loads(t) /\ ~tab[t].dirty => tab[t].pair = tab[t].base
    /\ Loads(t) /\ tab[t].stale /\ tab[t].base # 0 => tab[t].base # session.pair
    /\ tab[t].at = "login" =>
         /\ Own(t, task[t].pair) /\ ~Spent(task[t].pair)
         /\ task[t].pair \notin {tab[t].pair, tab[t].base}

\* Only a refresh uses up a pair.
LEMMA SpentByRefresh ==
  ASSUME TokensInv, TokensInv', [Next]_vars, NEW p \in 1 .. issued, Spent(p)', ~Spent(p)
  PROVE  \E h \in Handlers : RefreshRevoke(h) /\ p = task[h].pair
  <1>1. /\ p \in Pairs /\ issued \in Nat /\ p # issued + 1 /\ stored[p] = refresh_left[p]
        /\ refresh_left[p] \in Nat
    BY LifetimeAssumption DEF TokensInv, TypeOK, Pairs, Spent
  <1>2. CASE UNCHANGED vars
    BY <1>1, <1>2 DEF vars, expiry, redis, Spent
  <1>3. CASE Tick
    BY <1>1, <1>3 DEF Tick, Less, Spent
  <1>4. ASSUME NEW h \in Handlers, NEW q \in held, Present(h, q)
        PROVE  FALSE
    BY <1>1, <1>4 DEF Present, RefreshStart, LogoutStart, AuthStart, expiry, redis, Spent
  <1>5. ASSUME NEW h \in Handlers, Step(h), ~RefreshRevoke(h)
        PROVE  FALSE
    <2>1. CASE LoginIssue(h) \/ RefreshIssue(h) \/ RefreshAnswerLost(h)
      <3>1. PICK from : Issue(h, from)
        BY <2>1 DEF LoginIssue, RefreshIssue, RefreshAnswerLost
      <3>2. stored'[p] = stored[p] /\ refresh_left'[p] = refresh_left[p]
        BY <1>1, <3>1 DEF Issue, TokensInv, TypeOK
      <3>3. QED
        BY <1>1, <3>2 DEF Spent
    <2>2. CASE ~(LoginIssue(h) \/ RefreshIssue(h) \/ RefreshAnswerLost(h))
      <3>1. stored' = stored /\ refresh_left' = refresh_left
        BY <1>5, <2>2 DEF Step, LoginHistory, RefreshLookup, LogoutLookup, LogoutRevoke, AuthLookup,
                          AuthReply, Die, expiry, redis
      <3>2. QED
        BY <1>1, <3>1 DEF Spent
    <2>3. QED
      BY <2>1, <2>2
  <1>6. ASSUME NEW h \in Handlers, RefreshRevoke(h), p # task[h].pair
        PROVE  FALSE
    <2>1. stored'[p] = stored[p] /\ refresh_left' = refresh_left
      BY <1>1, <1>6 DEF RefreshRevoke, RevokeRefresh, TokensInv, TypeOK, expiry
    <2>2. QED
      BY <1>1, <2>1 DEF Spent
  <1>7. QED
    BY <1>2, <1>3, <1>4, <1>5, <1>6 DEF Next

\* A pair that was just issued is good.
LEMMA IssuedIsGood ==
  ASSUME TokensInv, NEW h \in Handlers, NEW from, Issue(h, from)
  PROVE  ~Spent(issued)'
  <1>1. issued + 1 \in Pairs
    BY LifetimeAssumption DEF Issue, TokensInv, TypeOK, Pairs
  <1>2. QED
    BY <1>1 DEF Issue, TokensInv, TypeOK, Spent

\* A tab that moves on with the copy it has, and may use up its pair on the way.
LEMMA MovingTab ==
  ASSUME AdminInv, PairsTell, SpentHasHeir, session' = session, stranded \subseteq stranded',
         NEW t \in Handlers, Loads(t), Loads(t)',
         \A u \in Handlers \ {t} : tab'[u] = tab[u] /\ task'[u] = task[u],
         tab'[t].page = tab[t].page, tab'[t].pair = tab[t].pair, tab'[t].base = tab[t].base,
         tab'[t].dirty = tab[t].dirty, tab'[t].stale = tab[t].stale,
         tab'[t].at # "login",
         Refreshing(t)' <=> tab'[t].at = "refresh",
         Refreshing(t)' => task'[t].pair = tab[t].pair,
         tab'[t].at \in Quiet => At(t, "idle")',
         \A p \in 1 .. issued :
           Spent(p)' => Spent(p) \/ (p = tab[t].pair /\ tab[t].at = "refresh" /\ At(t, "refresh_issue")'),
         At(t, "refresh_issue") =>
           At(t, "refresh_issue")' \/ {tab[t].pair, tab[t].base} \subseteq stranded'
  PROVE  PairsTell' /\ SpentHasHeir'
  <1>1. \A u \in Handlers : tab[u].pair \in 0 .. issued /\ tab[u].base \in 0 .. issued
    BY DEF AdminInv, AdminTypeOK
  <1>2. \A u \in Handlers : tab'[u].pair = tab[u].pair /\ tab'[u].base = tab[u].base
                              /\ (Loads(u)' <=> Loads(u))
    BY DEF Loads
  <1>3. ASSUME NEW u \in Handlers, NEW p, Own(u, p)
        PROVE  Own(u, p)'
    BY <1>2, <1>3 DEF Own
  <1>4. ASSUME NEW u \in Handlers, tab[u].at = "login", u # t
        PROVE  /\ Own(u, task[u].pair)' /\ ~Spent(task[u].pair)'
               /\ task[u].pair \notin {tab[u].pair, tab[u].base}
    <2>1. task[u].pair # tab[t].pair
      BY <1>4 DEF PairsTell, Own
    <2>2. task[u].pair \in 1 .. issued
      BY <1>4 DEF AdminInv, CopiesTell, TokensInv, TypeOK, Exchanging, At
    <2>3. QED
      BY <1>3, <1>4, <2>1, <2>2 DEF PairsTell
  <1>5. ASSUME NEW u \in Handlers, Loads(u), tab[u].dirty, tab[u].pair # 0
        PROVE  /\ Own(u, tab[u].pair)'
               /\ Spent(tab[u].pair)' => tab[u].pair \in stranded' \/ At(u, "refresh_issue")'
    <2>1. Own(u, tab[u].pair) /\ tab[u].pair \in 1 .. issued
      BY <1>1, <1>5 DEF PairsTell
    <2>2. CASE u = t
      BY <1>3, <1>5, <2>1, <2>2 DEF PairsTell
    <2>3. CASE u # t
      <3>1. tab[u].pair # tab[t].pair
        BY <2>1, <2>3 DEF Own
      <3>2. QED
        BY <1>3, <1>5, <2>1, <2>3, <3>1 DEF PairsTell, At
    <2>4. QED
      BY <2>2, <2>3
  <1>6. PairsTell'
    <2> SUFFICES ASSUME NEW u \in Handlers
                 PROVE  (/\ Refreshing(u) <=> tab[u].at = "refresh"
                         /\ Refreshing(u) => task[u].pair = tab[u].pair
                         /\ tab[u].at \in Quiet => At(u, "idle")
                         /\ Loads(u) /\ tab[u].dirty /\ tab[u].pair # 0 =>
                              /\ Own(u, tab[u].pair)
                              /\ Spent(tab[u].pair) =>
                                   tab[u].pair \in stranded \/ At(u, "refresh_issue")
                         /\ Loads(u) /\ ~tab[u].dirty => tab[u].pair = tab[u].base
                         /\ Loads(u) /\ tab[u].stale /\ tab[u].base # 0 =>
                              tab[u].base # session.pair
                         /\ tab[u].at = "login" =>
                              /\ Own(u, task[u].pair) /\ ~Spent(task[u].pair)
                              /\ task[u].pair \notin {tab[u].pair, tab[u].base})'
      BY DEF PairsTell
    <2>1. CASE u = t
      BY <1>2, <1>5, <2>1 DEF PairsTell
    <2>2. CASE u # t
      BY <1>2, <1>4, <1>5, <2>2 DEF PairsTell, Refreshing, At
    <2>3. QED
      BY <2>1, <2>2
  <1>7. SpentHasHeir'
    <2> DEFINE p == session.pair
    <2> SUFFICES ASSUME p # 0, p \notin stranded', Spent(p)'
                 PROVE  \E u \in Handlers : Attached(u)' /\ (tab'[u].dirty \/ At(u, "refresh_issue")')
      BY DEF SpentHasHeir, Spent
    <2>1. p \in 1 .. issued
      BY DEF AdminInv, AdminTypeOK, TokensInv, TypeOK
    <2>2. \A u \in Handlers : Attached(u) => Attached(u)'
      BY <1>2 DEF Attached, Loads
    <2>3. CASE Spent(p)
      <3>1. PICK u \in Handlers : Attached(u) /\ (tab[u].dirty \/ At(u, "refresh_issue"))
        BY <2>3 DEF SpentHasHeir, Spent
      <3>2. CASE u = t
        BY <2>2, <3>1, <3>2 DEF Attached
      <3>3. CASE u # t
        BY <2>2, <3>1, <3>3 DEF At
      <3>4. QED
        BY <3>2, <3>3
    <2>4. CASE ~Spent(p)
      <3>1. p = tab[t].pair /\ tab[t].at = "refresh" /\ At(t, "refresh_issue")'
        BY <2>1, <2>4
      <3>2. ~tab[t].dirty /\ tab[t].base = p
        BY <3>1 DEF PairsTell, Own, Loads
      <3>3. ~tab[t].stale
        BY <3>1, <3>2 DEF PairsTell, Loads
      <3>4. tab[t].page # "login"
        BY <3>1 DEF AdminInv, CopiesTell
      <3>5. QED
        BY <2>2, <3>1, <3>2, <3>3, <3>4 DEF Attached
    <2>5. QED
      BY <2>3, <2>4
  <1>8. QED
    BY <1>6, <1>7

\* A step in which no tab moves and no pair is used up.
LEMMA NobodyMoves ==
  ASSUME AdminInv, PairsTell, SpentHasHeir, UNCHANGED <<session, stranded, tab>>,
         \A u \in Handlers : task'[u] = task[u],
         \A p \in 1 .. issued : Spent(p)' => Spent(p)
  PROVE  PairsTell' /\ SpentHasHeir'
  <1>1. \A u \in Handlers : tab[u].pair \in 0 .. issued
    BY DEF AdminInv, AdminTypeOK
  <1>2. \A u \in Handlers : tab[u].at = "login" => task[u].pair \in 1 .. issued
    BY DEF AdminInv, CopiesTell, TokensInv, TypeOK, Exchanging, At
  <1>3. session.pair \in 0 .. issued
    BY DEF AdminInv, AdminTypeOK
  <1>4. PairsTell'
    BY <1>1, <1>2 DEF PairsTell, Own, Loads, Refreshing, At, AdminInv, TokensInv, TypeOK
  <1>5. SpentHasHeir'
    BY <1>3 DEF SpentHasHeir, Attached, Spent, At, AdminInv, TokensInv, TypeOK
  <1>6. QED
    BY <1>4, <1>5

\* A tab that is closed, by a failure or with nothing to save.
LEMMA ClosingTab ==
  ASSUME AdminInv, PairsTell, SpentHasHeir, session' = session, UNCHANGED vars,
         NEW t \in Handlers, At(t, "idle"), tab[t].at # "login",
         tab' = [tab EXCEPT ![t] = Closed], stranded \subseteq stranded',
         tab[t].dirty /\ Attached(t) => tab[t].base \in stranded'
  PROVE  PairsTell' /\ SpentHasHeir'
  <1>1. /\ tab'[t] = Closed /\ \A u \in Handlers \ {t} : tab'[u] = tab[u]
        /\ task' = task /\ stored' = stored /\ refresh_left' = refresh_left
    BY DEF AdminInv, AdminTypeOK, vars, redis, expiry
  <1>2. PairsTell'
    BY <1>1 DEF PairsTell, Own, Loads, Refreshing, At, Spent, Quiet, Closed
  <1>3. SpentHasHeir'
    BY <1>1 DEF SpentHasHeir, Attached, At
  <1>4. QED
    BY <1>2, <1>3

\* A tab that loads the session: what it copies is nobody's own.
LEMMA LoadingTab ==
  ASSUME AdminInv, PairsTell, SpentHasHeir, UNCHANGED <<session, stranded>>,
         NEW t \in Handlers, tab[t].at = "idle",
         NEW page, NEW stage \in {"ready", "login"}, tab' = [tab EXCEPT ![t] = Load(page, stage)],
         \A u \in Handlers \ {t} : task'[u] = task[u],
         \A p \in 1 .. issued : Spent(p)' => Spent(p),
         ~Refreshing(t)', stage = "ready" => At(t, "idle")',
         stage = "login" =>
           /\ task'[t].pair \notin 0 .. issued /\ ~Spent(task[t].pair)'
           /\ \A u \in Handlers \ {t} : tab[u].at = "idle"
  PROVE  PairsTell' /\ SpentHasHeir'
  <1>1. /\ tab'[t] = Load(page, stage) /\ \A u \in Handlers \ {t} : tab'[u] = tab[u]
    BY DEF AdminInv, AdminTypeOK
  <1>2. /\ \A u \in Handlers : tab[u].pair \in 0 .. issued /\ tab[u].base \in 0 .. issued
        /\ session.pair \in 0 .. issued
    BY DEF AdminInv, AdminTypeOK
  <1>3. \A u \in Handlers : tab[u].at = "login" => task[u].pair \in 1 .. issued
    BY DEF AdminInv, CopiesTell, TokensInv, TypeOK, Exchanging, At
  <1>4. /\ tab'[t].at = stage /\ tab'[t].pair = session.pair /\ tab'[t].base = session.pair
        /\ tab'[t].dirty = FALSE /\ tab'[t].stale = FALSE
    BY <1>1 DEF Load
  <1>5. PairsTell'
    <2>1. ASSUME NEW u \in Handlers \ {t}, NEW p \in 1 .. issued, Own(u, p)
          PROVE  Own(u, p)'
      BY <1>1, <1>4, <2>1 DEF Own, Loads
    <2>2. ASSUME NEW u \in Handlers \ {t}
          PROVE  (/\ Refreshing(u) <=> tab[u].at = "refresh"
                  /\ Refreshing(u) => task[u].pair = tab[u].pair
                  /\ tab[u].at \in Quiet => At(u, "idle")
                  /\ Loads(u) /\ tab[u].dirty /\ tab[u].pair # 0 =>
                       /\ Own(u, tab[u].pair)
                       /\ Spent(tab[u].pair) => tab[u].pair \in stranded \/ At(u, "refresh_issue")
                  /\ Loads(u) /\ ~tab[u].dirty => tab[u].pair = tab[u].base
                  /\ Loads(u) /\ tab[u].stale /\ tab[u].base # 0 => tab[u].base # session.pair
                  /\ tab[u].at = "login" =>
                       /\ Own(u, task[u].pair) /\ ~Spent(task[u].pair)
                       /\ task[u].pair \notin {tab[u].pair, tab[u].base})'
      <3>1. tab'[u] = tab[u] /\ task'[u] = task[u] /\ tab[u].pair \in 0 .. issued
        BY <1>1, <1>2
      <3>2. Loads(u) /\ tab[u].dirty /\ tab[u].pair # 0 =>
              /\ Own(u, tab[u].pair)'
              /\ Spent(tab[u].pair)' => tab[u].pair \in stranded' \/ At(u, "refresh_issue")'
        BY <2>1, <3>1 DEF PairsTell, At
      <3>3. tab[u].at = "login" => Own(u, task[u].pair)' /\ ~Spent(task[u].pair)'
        BY <1>3, <2>1, <3>1 DEF PairsTell
      <3>4. QED
        BY <3>1, <3>2, <3>3 DEF PairsTell, Loads, Refreshing, At
    <2>3. stage = "login" => Own(t, task[t].pair)'
      BY <1>1, <1>2 DEF Own, Loads
    <2>4. QED
      BY <1>2, <1>4, <2>2, <2>3 DEF PairsTell, Loads, Quiet
  <1>6. SpentHasHeir'
    <2>1. \A u \in Handlers \ {t} : Attached(u) => Attached(u)'
      BY <1>1 DEF Attached
    <2>2. ~Attached(t)
      BY DEF Attached
    <2>3. QED
      BY <1>1, <1>2, <2>1, <2>2 DEF SpentHasHeir, Spent, At
  <1>7. QED
    BY <1>5, <1>6

\* A refresh that reaches the page: the new pair is its own.
LEMMA RefreshedTells ==
  ASSUME AdminInv, AdminInv', PairsTell, SpentHasHeir, [Next]_vars, NEW t \in Handlers, Refreshed(t),
         \A u \in Handlers \ {t} : task'[u] = task[u]
  PROVE  PairsTell' /\ SpentHasHeir'
  <1>0. PICK q : q = issued + 1
    OBVIOUS
  <1>1. /\ issued \in Nat
        /\ \A u \in Handlers : tab[u].pair \in 0 .. issued /\ tab[u].base \in 0 .. issued
        /\ session.pair \in 0 .. issued
    BY DEF AdminInv, AdminTypeOK, TokensInv, TypeOK
  <1>2. issued' = q /\ q \notin 0 .. issued /\ q # 0
    BY <1>0, <1>1 DEF Refreshed, RefreshIssue, Issue
  <1>3. ~Spent(q)' /\ \A p \in 1 .. issued : Spent(p)' => Spent(p)
    <2>1. ~Spent(issued)'
      BY IssuedIsGood DEF Refreshed, RefreshIssue, AdminInv
    <2>2. \A p \in 1 .. issued : Spent(p)' => Spent(p)
      <3>1. \A p \in 1 .. issued : p \in Pairs /\ p # q
        BY <1>0, LifetimeAssumption DEF AdminInv, TokensInv, TypeOK, Pairs
      <3>2. \A p \in 1 .. issued : stored'[p] = stored[p] /\ refresh_left'[p] = refresh_left[p]
        BY <1>0, <3>1 DEF Refreshed, RefreshIssue, Issue, AdminInv, TokensInv, TypeOK
      <3>3. QED
        BY <3>2 DEF Spent
    <2>3. QED
      BY <1>2, <2>1, <2>2 DEF Spent
  <1>4. /\ tab'[t].at = "renewed" /\ tab'[t].pair = q /\ tab'[t].dirty = TRUE
        /\ tab'[t].base = tab[t].base /\ tab'[t].stale = tab[t].stale /\ tab'[t].page = tab[t].page
        /\ \A u \in Handlers \ {t} : tab'[u] = tab[u]
        /\ session' = session /\ stranded' = stranded
    BY <1>0 DEF Refreshed, AdminInv, AdminTypeOK
  <1>5. At(t, "idle")' /\ ~Refreshing(t)'
    BY DEF Refreshed, RefreshIssue, Finish, Suspend, AdminInv, TokensInv, TypeOK, At, Refreshing
  <1>6. tab[t].at = "refresh" /\ Loads(t)
    BY DEF Refreshed, Loads
  <1>7. \A u \in Handlers : tab[u].at = "login" => task[u].pair \in 1 .. issued
    BY DEF AdminInv, CopiesTell, TokensInv, TypeOK, Exchanging, At
  <1>8. Own(t, q)'
    BY <1>1, <1>2, <1>4 DEF Own
  <1>9. ASSUME NEW u \in Handlers \ {t}, NEW p \in 1 .. issued, Own(u, p)
        PROVE  Own(u, p)'
    BY <1>2, <1>4, <1>6, <1>9 DEF Own, Loads
  <1>10. PairsTell'
    <2>2. ASSUME NEW u \in Handlers \ {t}
          PROVE  (/\ Refreshing(u) <=> tab[u].at = "refresh"
                  /\ Refreshing(u) => task[u].pair = tab[u].pair
                  /\ tab[u].at \in Quiet => At(u, "idle")
                  /\ Loads(u) /\ tab[u].dirty /\ tab[u].pair # 0 =>
                       /\ Own(u, tab[u].pair)
                       /\ Spent(tab[u].pair) => tab[u].pair \in stranded \/ At(u, "refresh_issue")
                  /\ Loads(u) /\ ~tab[u].dirty => tab[u].pair = tab[u].base
                  /\ Loads(u) /\ tab[u].stale /\ tab[u].base # 0 => tab[u].base # session.pair
                  /\ tab[u].at = "login" =>
                       /\ Own(u, task[u].pair) /\ ~Spent(task[u].pair)
                       /\ task[u].pair \notin {tab[u].pair, tab[u].base})'
      <3>1. tab'[u] = tab[u] /\ task'[u] = task[u] /\ tab[u].pair \in 0 .. issued
        BY <1>1, <1>4
      <3>2. Loads(u) /\ tab[u].dirty /\ tab[u].pair # 0 =>
              /\ Own(u, tab[u].pair)'
              /\ Spent(tab[u].pair)' => tab[u].pair \in stranded' \/ At(u, "refresh_issue")'
        BY <1>3, <1>4, <1>9, <3>1 DEF PairsTell, At
      <3>3. tab[u].at = "login" => Own(u, task[u].pair)' /\ ~Spent(task[u].pair)'
        BY <1>3, <1>7, <1>9, <3>1 DEF PairsTell
      <3>4. QED
        BY <1>4, <3>1, <3>2, <3>3 DEF PairsTell, Loads, Refreshing, At
    <2>3. QED
      BY <1>3, <1>4, <1>5, <1>6, <1>8, <2>2 DEF PairsTell, Loads, Quiet
  <1>11. SpentHasHeir'
    <2>1. \A u \in Handlers : Attached(u) => Attached(u)'
      BY <1>4 DEF Attached
    <2>2. QED
      BY <1>1, <1>3, <1>4, <2>1 DEF SpentHasHeir, Spent, At
  <1>12. QED
    BY <1>10, <1>11

\* The answer of a login, with a pair that nobody else has.
LEMMA LoginAnsweredTells ==
  ASSUME AdminInv, AdminInv', PairsTell, SpentHasHeir, NEW t \in Handlers, LoginAnswered(t),
         \A u \in Handlers \ {t} : task'[u] = task[u]
  PROVE  PairsTell' /\ SpentHasHeir'
  <1>0. PICK p : p = task[t].pair
    OBVIOUS
  <1>1. /\ tab[t].at = "login" /\ Loads(t) /\ stored' = stored /\ refresh_left' = refresh_left
        /\ stranded' = stranded /\ session' \in {session, NoSession}
    BY DEF LoginAnswered, LoginHistory, redis, expiry, Loads
  <1>2. /\ tab'[t].at = "answer" /\ tab'[t].pair = p /\ tab'[t].dirty = TRUE
        /\ tab'[t].base = tab[t].base /\ tab'[t].stale = tab[t].stale /\ tab'[t].page = tab[t].page
        /\ \A u \in Handlers \ {t} : tab'[u] = tab[u]
    BY <1>0 DEF LoginAnswered, AdminInv, AdminTypeOK
  <1>3. At(t, "idle")' /\ ~Refreshing(t)'
    BY DEF LoginAnswered, LoginHistory, Finish, Suspend, AdminInv, TokensInv, TypeOK, At, Refreshing
  <1>4. Own(t, p) /\ ~Spent(p) /\ p \in 1 .. issued
    BY <1>0, <1>1 DEF PairsTell, AdminInv, CopiesTell, TokensInv, TypeOK, Exchanging, At
  <1>5. session'.pair \in {session.pair, 0}
    BY <1>1 DEF NoSession
  <1>6. p # 0
    BY <1>4 DEF AdminInv, TokensInv, TypeOK
  <1>7. ASSUME NEW u \in Handlers, NEW q, q # 0, Own(u, q), q # p \/ u = t
        PROVE  Own(u, q)'
    BY <1>1, <1>2, <1>5, <1>7 DEF Own, Loads
  <1>8. PairsTell'
    <2>1. ASSUME NEW u \in Handlers \ {t}
          PROVE  (/\ Refreshing(u) <=> tab[u].at = "refresh"
                  /\ Refreshing(u) => task[u].pair = tab[u].pair
                  /\ tab[u].at \in Quiet => At(u, "idle")
                  /\ Loads(u) /\ tab[u].dirty /\ tab[u].pair # 0 =>
                       /\ Own(u, tab[u].pair)
                       /\ Spent(tab[u].pair) => tab[u].pair \in stranded \/ At(u, "refresh_issue")
                  /\ Loads(u) /\ ~tab[u].dirty => tab[u].pair = tab[u].base
                  /\ Loads(u) /\ tab[u].stale /\ tab[u].base # 0 => tab[u].base # session.pair
                  /\ tab[u].at = "login" =>
                       /\ Own(u, task[u].pair) /\ ~Spent(task[u].pair)
                       /\ task[u].pair \notin {tab[u].pair, tab[u].base})'
      <3>1. tab'[u] = tab[u] /\ task'[u] = task[u] /\ tab[u].at # "login"
        BY <1>1, <1>2 DEF AdminInv, CopiesTell
      <3>2. Loads(u) => tab[u].pair # p
        BY <1>4 DEF Own
      <3>3. Loads(u) /\ tab[u].dirty /\ tab[u].pair # 0 =>
              /\ Own(u, tab[u].pair)'
              /\ Spent(tab[u].pair)' => tab[u].pair \in stranded' \/ At(u, "refresh_issue")'
        BY <1>1, <1>7, <3>1, <3>2 DEF PairsTell, At, Spent
      <3>4. QED
        BY <1>5, <3>1, <3>3 DEF PairsTell, Loads, Refreshing, At
    <2>2. Own(t, p)' /\ ~Spent(p)'
      BY <1>1, <1>4, <1>6, <1>7 DEF Spent
    <2>3. Loads(t) /\ tab[t].stale /\ tab[t].base # 0 => tab[t].base # session'.pair
      BY <1>5 DEF PairsTell
    <2>4. QED
      BY <1>1, <1>2, <1>3, <2>1, <2>2, <2>3 DEF PairsTell, Loads, Quiet
  <1>9. SpentHasHeir'
    <2>1. \A u \in Handlers : Attached(u) /\ session'.pair # 0 => u # t /\ Attached(u)'
      BY <1>1, <1>2, <1>5 DEF Attached, AdminInv, CopiesTell
    <2>2. QED
      BY <1>1, <1>2, <1>5, <2>1 DEF SpentHasHeir, Spent, At
  <1>10. QED
    BY <1>8, <1>9

\* A page that saves its own pair into the session.
LEMMA SavingTells ==
  ASSUME AdminInv, AdminInv', PairsTell, SpentHasHeir, NEW t \in Handlers, Respond(t),
         tab[t].dirty, ~tab[t].stale
  PROVE  PairsTell' /\ SpentHasHeir'
  <1>0. PICK q : q = tab[t].pair
    OBVIOUS
  <1>1. /\ session'.pair = q /\ tab'[t] = Closed
        /\ \A u \in Handlers \ {t} : tab'[u] = tab[u]
        /\ stranded' = stranded /\ task' = task /\ stored' = stored /\ refresh_left' = refresh_left
        /\ Loads(t)
    BY <1>0 DEF Respond, vars, redis, expiry, AdminInv, AdminTypeOK, Loads
  <1>2. tab[t].at \in Quiet \ {"idle"}
    BY DEF Respond, Quiet
  <1>3. q # 0 => Own(t, q) /\ (Spent(q) => q \in stranded)
    BY <1>0, <1>1, <1>2 DEF PairsTell, At
  <1>4. Closed.at = "idle"
    BY DEF Closed
  <1>5. ASSUME NEW u \in Handlers \ {t}, NEW p, p # 0, p # q, Own(u, p)
        PROVE  Own(u, p)'
    BY <1>1, <1>4, <1>5 DEF Own, Loads
  <1>6. PairsTell'
    <2>1. ASSUME NEW u \in Handlers \ {t}
          PROVE  (/\ Refreshing(u) <=> tab[u].at = "refresh"
                  /\ Refreshing(u) => task[u].pair = tab[u].pair
                  /\ tab[u].at \in Quiet => At(u, "idle")
                  /\ Loads(u) /\ tab[u].dirty /\ tab[u].pair # 0 =>
                       /\ Own(u, tab[u].pair)
                       /\ Spent(tab[u].pair) => tab[u].pair \in stranded \/ At(u, "refresh_issue")
                  /\ Loads(u) /\ ~tab[u].dirty => tab[u].pair = tab[u].base
                  /\ Loads(u) /\ tab[u].stale /\ tab[u].base # 0 => tab[u].base # session.pair
                  /\ tab[u].at = "login" =>
                       /\ Own(u, task[u].pair) /\ ~Spent(task[u].pair)
                       /\ task[u].pair \notin {tab[u].pair, tab[u].base})'
      <3>1. tab'[u] = tab[u] /\ task'[u] = task[u]
        BY <1>1
      <3>2. Loads(u) /\ q # 0 => q \notin {tab[u].pair, tab[u].base}
        BY <1>3 DEF Own
      <3>3. tab[u].at = "login" => task[u].pair # q /\ task[u].pair # 0
        BY <1>0, <1>1 DEF PairsTell, Own, AdminInv, CopiesTell, TokensInv, Exchanging, At
      <3>4. Loads(u) /\ tab[u].dirty /\ tab[u].pair # 0 =>
              /\ Own(u, tab[u].pair)'
              /\ Spent(tab[u].pair)' => tab[u].pair \in stranded' \/ At(u, "refresh_issue")'
        <4>1. Loads(u) /\ tab[u].dirty /\ tab[u].pair # 0 => tab[u].pair # q
          BY <3>2
        <4>2. QED
          BY <1>1, <1>5, <3>1, <4>1 DEF PairsTell, At, Spent
      <3>5. tab[u].at = "login" => Own(u, task[u].pair)' /\ ~Spent(task[u].pair)'
        BY <1>1, <1>5, <3>1, <3>3 DEF PairsTell, Spent
      <3>6. QED
        BY <1>1, <3>1, <3>2, <3>4, <3>5 DEF PairsTell, Loads, Refreshing, At
    <2>2. ~Loads(t)' /\ tab'[t].at = "idle" /\ At(t, "idle")'
      BY <1>1, <1>2, <1>4 DEF PairsTell, Loads, At
    <2>3. ~Refreshing(t)'
      BY <2>2 DEF Refreshing, At
    <2>4. QED
      BY <2>1, <2>2, <2>3 DEF PairsTell, Loads
  <1>7. SpentHasHeir'
    BY <1>1, <1>3 DEF SpentHasHeir, Spent
  <1>8. QED
    BY <1>6, <1>7

\* A logout leaves no pair in the session.
LEMMA FlushTells ==
  ASSUME AdminInv, AdminInv', PairsTell, NEW t \in Handlers, Flush(t)
  PROVE  PairsTell' /\ SpentHasHeir'
  <1>1. /\ session'.pair = 0 /\ tab'[t] = Closed
        /\ stranded' = stranded /\ task' = task /\ stored' = stored /\ refresh_left' = refresh_left
        /\ tab[t].at = "leave"
    BY DEF Flush, vars, redis, expiry, NoSession
  <1>2. Closed.at = "idle" /\ Closed.pair = 0
    BY DEF Closed
  <1>3. \A u \in Handlers \ {t} :
          /\ tab'[u].at = tab[u].at /\ tab'[u].pair = tab[u].pair /\ tab'[u].base = tab[u].base
          /\ tab'[u].dirty = tab[u].dirty
    BY DEF Flush, AdminInv, AdminTypeOK
  <1>4. ASSUME NEW u \in Handlers \ {t}, NEW p, p # 0, Own(u, p)
        PROVE  Own(u, p)'
    BY <1>1, <1>2, <1>3, <1>4 DEF Own, Loads
  <1>5. ASSUME NEW u \in Handlers \ {t}
        PROVE  (/\ Refreshing(u) <=> tab[u].at = "refresh"
                /\ Refreshing(u) => task[u].pair = tab[u].pair
                /\ tab[u].at \in Quiet => At(u, "idle")
                /\ Loads(u) /\ tab[u].dirty /\ tab[u].pair # 0 =>
                     /\ Own(u, tab[u].pair)
                     /\ Spent(tab[u].pair) => tab[u].pair \in stranded \/ At(u, "refresh_issue")
                /\ Loads(u) /\ ~tab[u].dirty => tab[u].pair = tab[u].base
                /\ Loads(u) /\ tab[u].stale /\ tab[u].base # 0 => tab[u].base # session.pair
                /\ tab[u].at = "login" =>
                     /\ Own(u, task[u].pair) /\ ~Spent(task[u].pair)
                     /\ task[u].pair \notin {tab[u].pair, tab[u].base})'
    <2>1. Loads(u) /\ tab[u].dirty /\ tab[u].pair # 0 =>
            /\ Own(u, tab[u].pair)'
            /\ Spent(tab[u].pair)' => tab[u].pair \in stranded' \/ At(u, "refresh_issue")'
      BY <1>1, <1>3, <1>4 DEF PairsTell, At, Spent
    <2>2. tab[u].at = "login" => task[u].pair # 0
      BY DEF AdminInv, CopiesTell, TokensInv, Exchanging, At
    <2>3. tab[u].at = "login" => Own(u, task[u].pair)' /\ ~Spent(task[u].pair)'
      BY <1>1, <1>4, <2>2 DEF PairsTell, Spent
    <2>4. QED
      BY <1>1, <1>3, <2>1, <2>3 DEF PairsTell, Loads, Refreshing, At
  <1>6. ~Loads(t)' /\ tab'[t].at = "idle" /\ At(t, "idle")' /\ ~Refreshing(t)'
    BY <1>1, <1>2 DEF PairsTell, Loads, At, Refreshing, Quiet
  <1>7. PairsTell'
    BY <1>5, <1>6 DEF PairsTell, Loads
  <1>8. SpentHasHeir'
    BY <1>1 DEF SpentHasHeir
  <1>9. QED
    BY <1>7, <1>8

-----------------------------------------------------------------------------
PairInv == AdminInv /\ PairsTell /\ SpentHasHeir

LEMMA PairInitInv == AdminInit => PairInv
  BY AdminInitInv
  DEF AdminInit, PairInv, PairsTell, SpentHasHeir, Closed, NoSession, Init, Refreshing, Loads, At

\* A step of the panel that is not a refresh's deletion uses up no pair.
LEMMA PanelSpends ==
  ASSUME PairInv, AdminInv', NEW t \in Handlers,
         LoginStep(t) \/ CallStep(t) \/ RefreshStep(t), NEW p \in 1 .. issued, Spent(p)', ~Spent(p)
  PROVE  RefreshRevoke(t) /\ p = tab[t].pair /\ tab[t].at = "refresh"
  <1>1. [Next]_vars
    BY PanelStep DEF PairInv
  <1>2. PICK h \in Handlers : RefreshRevoke(h) /\ p = task[h].pair
    BY <1>1, SpentByRefresh DEF PairInv, AdminInv
  <1>3. task'[h] # task[h]
    BY <1>2 DEF RefreshRevoke, Resume, Suspend, At, AdminInv, PairInv, TokensInv, TypeOK
  <1>4. h = t
    BY <1>3, OwnTaskOfTab DEF PairInv
  <1>5. Refreshing(t)
    BY <1>2, <1>4 DEF RefreshRevoke, At, Refreshing
  <1>6. QED
    BY <1>2, <1>4, <1>5 DEF PairInv, PairsTell

\* What becomes of the handler that serves a tab.
LEMMA HandlerOfTab ==
  ASSUME TokensInv, NEW h \in Handlers
  PROVE  /\ Finish(h) => At(h, "idle")' /\ ~Refreshing(h)' /\ ~At(h, "refresh_issue")'
         /\ \A label \in Labels, p \in 0 .. issued :
              Suspend(h, label, p) => task'[h].at = label /\ task'[h].pair = p
         /\ task[h].pair \in 0 .. issued
  BY DEF TokensInv, TypeOK, Finish, Suspend, At, Refreshing

LEMMA CallTells ==
  ASSUME PairInv, AdminInv', NEW t \in Handlers, CallStep(t)
  PROVE  PairsTell' /\ SpentHasHeir'
  <1>1. \A u \in Handlers \ {t} : task'[u] = task[u]
    BY OwnTaskOfTab DEF PairInv
  <1>2. /\ session' = session /\ stranded' = stranded
        /\ tab[t].at \in {"ready", "renewed", "call", "again"}
    BY DEF CallStep, Call, CallUnauthorized, CallUnanswered, CallLookup, CallReturns, CallDies
  <1>3. ~Refreshing(t) /\ Loads(t) /\ tab[t].page # "login"
    BY <1>2 DEF PairInv, PairsTell, Loads, AdminInv, CopiesTell
  <1>4. \A p \in 1 .. issued : Spent(p)' => Spent(p)
    BY <1>2, PanelSpends
  <1>5. PICK stage \in {"call", "again", "ready", "leave", "refused"} :
          /\ (stage = tab[t].at /\ UNCHANGED tab) \/ Goto(t, stage)
          /\ stage \in {"ready", "leave", "refused"} => At(t, "idle")'
          /\ ~Refreshing(t)'
    <2>1. TokensInv /\ task[t].pair \in 0 .. issued /\ tab[t].pair \in 0 .. issued
      BY HandlerOfTab DEF PairInv, AdminInv, AdminTypeOK
    <2>2. Done(t) \in {"leave", "ready"} /\ Unauthorized(t) \in {"leave", "ready", "refused"}
      BY DEF Done, Unauthorized
    <2>3. CASE Call(t)
      <3>1. task'[t].at \in {"auth_lookup", "logout_lookup"}
        BY <2>1, <2>3, HandlerOfTab DEF Call, LogoutStart, AuthStart, Labels
      <3>2. ~Refreshing(t)'
        BY <3>1 DEF Refreshing
      <3>3. QED
        BY <2>3, <3>2 DEF Call
    <2>4. CASE CallUnauthorized(t) \/ CallUnanswered(t)
      <3>1. task' = task /\ tab[t].at \in Quiet
        BY <2>4 DEF CallUnauthorized, CallUnanswered, vars, Quiet
      <3>2. At(t, "idle")' /\ ~Refreshing(t)'
        BY <1>3, <3>1 DEF PairInv, PairsTell, At, Refreshing
      <3>3. QED
        BY <2>2, <2>4, <3>2 DEF CallUnauthorized, CallUnanswered
    <2>5. CASE CallLookup(t)
      <3>1. CASE AccessRevoked(task[t].pair)
        <4>1. Finish(t) /\ Goto(t, Unauthorized(t))
          BY <2>5, <3>1 DEF CallLookup, AuthLookup, LogoutLookup
        <4>2. QED
          BY <2>1, <2>2, <4>1, HandlerOfTab
      <3>2. CASE ~AccessRevoked(task[t].pair)
        <4>1. UNCHANGED tab /\ tab[t].at \in {"call", "again"}
          BY <2>5, <3>2 DEF CallLookup
        <4>2. task'[t].at \in {"accepted", "logout_revoke"}
          BY <2>1, <2>5, <3>2, HandlerOfTab DEF CallLookup, AuthLookup, LogoutLookup, Resume, Labels
        <4>3. QED
          BY <4>1, <4>2 DEF Refreshing
      <3>3. QED
        BY <3>1, <3>2
    <2>6. CASE CallReturns(t) \/ CallDies(t)
      <3>1. Finish(t)
        BY <2>6 DEF CallReturns, CallDies, AuthReply, LogoutRevoke, Die
      <3>2. QED
        BY <2>1, <2>2, <2>6, <3>1, HandlerOfTab DEF CallReturns, CallDies
    <2>7. QED
      BY <2>3, <2>4, <2>5, <2>6 DEF CallStep
  <1>6. /\ tab'[t].at = stage /\ tab'[t].page = tab[t].page /\ tab'[t].pair = tab[t].pair
        /\ tab'[t].base = tab[t].base /\ tab'[t].dirty = tab[t].dirty
        /\ tab'[t].stale = tab[t].stale
        /\ \A u \in Handlers \ {t} : tab'[u] = tab[u]
    BY <1>5 DEF Goto, PairInv, AdminInv, AdminTypeOK
  <1>7. Loads(t)' /\ stage \notin {"login", "refresh"} /\ (stage \in Quiet => At(t, "idle")')
    BY <1>5, <1>6 DEF Loads, Quiet
  <1>8. ~At(t, "refresh_issue")
    BY <1>3 DEF Refreshing, At
  <1>9. QED
    BY <1>1, <1>2, <1>3, <1>4, <1>5, <1>6, <1>7, <1>8, MovingTab DEF PairInv

LEMMA RefreshTells ==
  ASSUME PairInv, AdminInv', NEW t \in Handlers, RefreshStep(t), ~Refreshed(t)
  PROVE  PairsTell' /\ SpentHasHeir'
  <1>1. \A u \in Handlers \ {t} : task'[u] = task[u]
    BY OwnTaskOfTab DEF PairInv
  <1>2. /\ session' = session /\ stranded \subseteq stranded'
        /\ tab[t].at \in {"refused", "refresh"}
    BY DEF RefreshStep, StartRefresh, RefreshUnanswered, RefreshLooksUp, RefreshRevokes, RefreshLost
  <1>3. /\ Loads(t) /\ tab[t].page # "login" /\ Done(t) \in {"leave", "ready"}
        /\ TokensInv /\ tab[t].pair \in 0 .. issued
    BY <1>2 DEF PairInv, Loads, AdminInv, CopiesTell, Done, AdminTypeOK
  <1>4. PICK stage \in {"refresh", "ready", "leave"} :
          /\ (stage = tab[t].at /\ UNCHANGED tab) \/ Goto(t, stage)
          /\ stage = "refresh" => Refreshing(t)' /\ task'[t].pair = tab[t].pair
          /\ stage # "refresh" => At(t, "idle")' /\ ~Refreshing(t)'
          /\ RefreshRevoke(t) => At(t, "refresh_issue")'
          /\ At(t, "refresh_issue") => {tab[t].pair, tab[t].base} \subseteq stranded'
    <2>1. CASE StartRefresh(t)
      <3>1. task'[t].at = "refresh_lookup" /\ task'[t].pair = tab[t].pair /\ At(t, "idle")
        BY <1>3, <2>1, HandlerOfTab DEF StartRefresh, RefreshStart, Labels
      <3>2. Refreshing(t)' /\ Goto(t, "refresh")
        BY <2>1, <3>1 DEF StartRefresh, Refreshing
      <3>3. QED
        BY <3>1, <3>2 DEF At, RefreshRevoke
    <2>2. CASE RefreshUnanswered(t)
      <3>1. task' = task /\ Goto(t, Done(t)) /\ At(t, "idle")
        BY <2>2 DEF RefreshUnanswered, vars, PairInv, PairsTell, Quiet
      <3>2. QED
        BY <1>3, <3>1 DEF At, Refreshing, RefreshRevoke
    <2>3. CASE RefreshLooksUp(t)
      <3>1. tab[t].at = "refresh" /\ At(t, "refresh_lookup") /\ task[t].pair = tab[t].pair
        BY <2>3 DEF RefreshLooksUp, RefreshLookup, PairInv, PairsTell
      <3>2. CASE RefreshValid(task[t].pair)
        <4>1. task'[t].at = "refresh_revoke" /\ task'[t].pair = tab[t].pair /\ UNCHANGED tab
          BY <1>3, <2>3, <3>1, <3>2, HandlerOfTab DEF RefreshLooksUp, RefreshLookup, Resume, Labels
        <4>2. QED
          BY <3>1, <4>1 DEF At, Refreshing, RefreshRevoke
      <3>3. CASE ~RefreshValid(task[t].pair)
        <4>1. Finish(t) /\ Goto(t, Done(t))
          BY <2>3, <3>3 DEF RefreshLooksUp, RefreshLookup
        <4>2. QED
          BY <1>3, <3>1, <4>1, HandlerOfTab DEF At, RefreshRevoke
      <3>4. QED
        BY <3>2, <3>3
    <2>4. CASE RefreshRevokes(t)
      <3>1. tab[t].at = "refresh" /\ At(t, "refresh_revoke") /\ task[t].pair = tab[t].pair
        BY <2>4 DEF RefreshRevokes, RefreshRevoke, PairInv, PairsTell
      <3>2. task'[t].at = "refresh_issue" /\ task'[t].pair = tab[t].pair /\ UNCHANGED tab
        BY <1>3, <2>4, <3>1, HandlerOfTab DEF RefreshRevokes, RefreshRevoke, Resume, Labels
      <3>3. QED
        BY <3>1, <3>2 DEF At, Refreshing
    <2>5. CASE RefreshLost(t)
      <3>1. /\ Finish(t) /\ Goto(t, Done(t))
            /\ At(t, "refresh_issue") => {tab[t].pair, tab[t].base} \subseteq stranded'
        BY <2>5 DEF RefreshLost, RefreshAnswerLost, Die
      <3>2. ~RefreshRevoke(t)
        BY <1>3, <3>1, HandlerOfTab DEF RefreshRevoke, Resume, Suspend, Finish, Labels, TokensInv, TypeOK, At
      <3>3. QED
        BY <1>3, <3>1, <3>2, HandlerOfTab
    <2>6. QED
      BY <2>1, <2>2, <2>3, <2>4, <2>5 DEF RefreshStep
  <1>5. /\ tab'[t].at = stage /\ tab'[t].page = tab[t].page /\ tab'[t].pair = tab[t].pair
        /\ tab'[t].base = tab[t].base /\ tab'[t].dirty = tab[t].dirty
        /\ tab'[t].stale = tab[t].stale
        /\ \A u \in Handlers \ {t} : tab'[u] = tab[u]
    BY <1>4 DEF Goto, PairInv, AdminInv, AdminTypeOK
  <1>6. /\ Loads(t)' /\ stage # "login" /\ (stage \in Quiet => At(t, "idle")')
        /\ Refreshing(t)' <=> stage = "refresh"
    BY <1>4, <1>5 DEF Loads, Quiet
  <1>7. ASSUME NEW p \in 1 .. issued, Spent(p)', ~Spent(p)
        PROVE  p = tab[t].pair /\ tab[t].at = "refresh" /\ At(t, "refresh_issue")'
    BY <1>4, <1>7, PanelSpends
  <1>8. QED
    BY <1>1, <1>2, <1>3, <1>4, <1>5, <1>6, <1>7, MovingTab DEF PairInv

LEMMA LoginTells ==
  ASSUME PairInv, AdminInv', NEW t \in Handlers, LoginStep(t)
  PROVE  PairsTell' /\ SpentHasHeir'
  <1>1. \A u \in Handlers \ {t} : task'[u] = task[u]
    BY OwnTaskOfTab DEF PairInv
  <1>2. \A p \in 1 .. issued : Spent(p)' => Spent(p)
    <2>1. tab[t].at # "refresh"
      BY DEF LoginStep, LoginPost, LoginAnswered, LoginFails
    <2>2. QED
      BY <2>1, PanelSpends
  <1>3. CASE LoginPost(t)
    <2>1. /\ tab[t].at = "idle" /\ \A u \in Handlers \ {t} : tab[u].at = "idle"
          /\ session' = session /\ stranded' = stranded
          /\ tab' = [tab EXCEPT ![t] = Load("login", "login")] /\ LoginIssue(t)
      BY <1>3 DEF LoginPost
    <2>2. /\ issued' = issued + 1 /\ issued \in Nat
          /\ task'[t].at = "login_history" /\ task'[t].pair = issued'
      BY <2>1 DEF LoginIssue, Issue, Suspend, PairInv, AdminInv, TokensInv, TypeOK
    <2>3. ~Spent(issued)'
      BY <2>1, IssuedIsGood DEF LoginIssue, PairInv, AdminInv
    <2>4. task'[t].pair \notin 0 .. issued /\ ~Spent(task[t].pair)' /\ ~Refreshing(t)'
      BY <2>2, <2>3 DEF Spent, Refreshing
    <2>5. QED
      BY <1>1, <1>2, <2>1, <2>4, LoadingTab DEF PairInv
  <1>4. CASE LoginAnswered(t)
    BY <1>1, <1>4, LoginAnsweredTells DEF PairInv
  <1>5. CASE LoginFails(t)
    <2>1. /\ tab[t].at = "login" /\ Finish(t) /\ Goto(t, "answer")
          /\ session' = session /\ stranded' = stranded
      BY <1>5 DEF LoginFails, Die
    <2>2. At(t, "idle")' /\ ~Refreshing(t)'
      BY <2>1, HandlerOfTab DEF PairInv, AdminInv
    <2>3. ~Refreshing(t) /\ ~At(t, "refresh_issue")
      BY <2>1 DEF PairInv, PairsTell, Refreshing, At
    <2>4. /\ tab'[t].at = "answer" /\ tab'[t].page = tab[t].page /\ tab'[t].pair = tab[t].pair
          /\ tab'[t].base = tab[t].base /\ tab'[t].dirty = tab[t].dirty
          /\ tab'[t].stale = tab[t].stale
          /\ \A u \in Handlers \ {t} : tab'[u] = tab[u]
      BY <2>1 DEF Goto, PairInv, AdminInv, AdminTypeOK
    <2>5. Loads(t) /\ Loads(t)'
      BY <2>1, <2>4 DEF Loads
    <2>6. QED
      BY <1>1, <1>2, <2>1, <2>2, <2>3, <2>4, <2>5, MovingTab DEF PairInv
  <1>6. QED
    BY <1>3, <1>4, <1>5 DEF LoginStep

LEMMA EndTells ==
  ASSUME PairInv, AdminInv', NEW t \in Handlers, EndStep(t)
  PROVE  PairsTell' /\ SpentHasHeir'
  <1>1. CASE Respond(t) /\ tab[t].dirty /\ ~tab[t].stale
    BY <1>1, SavingTells DEF PairInv
  <1>2. CASE Respond(t) /\ ~(tab[t].dirty /\ ~tab[t].stale)
    <2>1. /\ session' = session /\ UNCHANGED vars /\ stranded' = stranded
          /\ tab' = [tab EXCEPT ![t] = Closed] /\ tab[t].at \in Quiet /\ tab[t].at # "login"
      BY <1>2 DEF Respond, Quiet
    <2>2. At(t, "idle")
      BY <2>1 DEF PairInv, PairsTell
    <2>3. tab[t].dirty => ~Attached(t)
      BY <1>2 DEF Attached
    <2>4. QED
      BY <2>1, <2>2, <2>3, ClosingTab DEF PairInv
  <1>3. CASE Fail(t)
    <2>1. tab[t].at # "login"
      BY <1>3 DEF Fail, PairInv, AdminInv, CopiesTell, At
    <2>2. tab[t].dirty /\ Attached(t) => tab[t].base \in stranded'
      BY <1>3 DEF Fail, Attached
    <2>3. QED
      BY <1>3, <2>1, <2>2, ClosingTab DEF Fail, PairInv
  <1>4. CASE Flush(t)
    BY <1>4, FlushTells DEF PairInv
  <1>5. QED
    BY <1>1, <1>2, <1>3, <1>4 DEF EndStep

LEMMA AdminStepTells == PairInv /\ [AdminNext]_allVars => PairInv'
  <1> SUFFICES ASSUME PairInv, [AdminNext]_allVars
               PROVE  PairInv'
    OBVIOUS
  <1>1. AdminInv'
    BY AdminStepKeepsInv DEF PairInv
  <1>2. CASE UNCHANGED allVars
    <2>1. /\ UNCHANGED <<session, stranded, tab>> /\ \A u \in Handlers : task'[u] = task[u]
          /\ \A p \in 1 .. issued : Spent(p)' => Spent(p)
      BY <1>2 DEF allVars, adminVars, vars, redis, expiry, Spent
    <2>2. QED
      BY <1>1, <2>1, NobodyMoves DEF PairInv
  <1>3. CASE TokenTick
    <2>1. UNCHANGED <<session, stranded, tab>> /\ \A u \in Handlers : task'[u] = task[u]
      BY <1>3 DEF TokenTick, Tick, adminVars
    <2>2. [Next]_vars /\ TokensInv /\ TokensInv'
      BY <1>1, AdminStepIsStep DEF PairInv, AdminInv
    <2>3. ASSUME NEW p \in 1 .. issued, Spent(p)', ~Spent(p)
          PROVE  FALSE
      <3>1. PICK h \in Handlers : RefreshRevoke(h)
        BY <2>2, <2>3, SpentByRefresh
      <3>2. task'[h] # task[h]
        BY <2>2, <3>1 DEF RefreshRevoke, Resume, Suspend, At, TokensInv, TypeOK
      <3>3. QED
        BY <2>1, <3>2
    <2>4. QED
      BY <1>1, <2>1, <2>3, NobodyMoves DEF PairInv
  <1>4. ASSUME NEW t \in Handlers, NEW page \in {"view", "logout"}, Open(t, page)
        PROVE  PairInv'
    <2>1. /\ UNCHANGED <<session, stranded>> /\ tab[t].at = "idle"
          /\ tab' = [tab EXCEPT ![t] = Load(page, "ready")]
          /\ \A u \in Handlers \ {t} : task'[u] = task[u]
          /\ \A p \in 1 .. issued : Spent(p)' => Spent(p)
      BY <1>4 DEF Open, vars, redis, expiry, Spent
    <2>2. At(t, "idle")' /\ ~Refreshing(t)'
      BY <1>4, <2>1 DEF Open, vars, PairInv, PairsTell, Quiet, At, Refreshing
    <2>3. QED
      BY <1>1, <2>1, <2>2, LoadingTab DEF PairInv
  <1>5. ASSUME NEW t \in Handlers, LoginStep(t) \/ CallStep(t) \/ RefreshStep(t) \/ EndStep(t)
        PROVE  PairInv'
    <2>1. CASE Refreshed(t)
      <3>1. [Next]_vars /\ \A u \in Handlers \ {t} : task'[u] = task[u]
        BY <2>1, AdminStepIsStep, OwnTaskOfTab DEF PairInv, RefreshStep
      <3>2. QED
        BY <1>1, <2>1, <3>1, RefreshedTells DEF PairInv
    <2>2. CASE ~Refreshed(t)
      BY <1>1, <1>5, <2>2, LoginTells, CallTells, RefreshTells, EndTells DEF PairInv
    <2>3. QED
      BY <2>1, <2>2
  <1>6. QED
    BY <1>2, <1>3, <1>4, <1>5 DEF AdminNext

LEMMA PairInvariance == AdminSpec => []PairInv
  BY PairInitInv, AdminStepTells, PTL DEF AdminSpec

\* However many tabs refresh, save and log out over each other, the session is
\* left with a used-up refresh token only by a failure, or for as long as a page
\* still runs that will save the pair it was exchanged for.
THEOREM SpentPairHasHeir == AdminSpec => []SpentHasHeir
  <1>1. PairInv => SpentHasHeir
    BY DEF PairInv
  <1>2. QED
    BY <1>1, PairInvariance, PTL

\* Whatever pair the session held, a page saves over it only its own pair, and that is
\* unused; of two tabs with fresh pairs the one that ends later decides.
THEOREM SavedIsFresh == AdminSpec => SavedPairIsFresh
  <1> DEFINE Fresh == session'.pair \notin {0, session.pair} \union stranded =>
                        stored[session'.pair] = refresh_left[session'.pair]
  <1>1. PairInv /\ [AdminNext]_allVars => Fresh
    <2> SUFFICES ASSUME PairInv, [AdminNext]_allVars,
                        session'.pair \notin {0, session.pair} \union stranded
                 PROVE  ~Spent(session'.pair)
      BY DEF Spent
    <2>1. session' # session /\ session' # NoSession
      BY DEF NoSession
    <2>2. PICK t \in Handlers : LoginAnswered(t) \/ Respond(t) \/ Flush(t)
      BY <2>1 DEF AdminNext, allVars, adminVars, TokenTick, Open, LoginStep, LoginPost, LoginFails,
             CallStep, Call, CallUnauthorized, CallUnanswered, CallLookup, CallReturns, CallDies,
             RefreshStep, StartRefresh, RefreshUnanswered, RefreshLooksUp, RefreshRevokes,
             Refreshed, RefreshLost, EndStep, Fail
    <2>3. Respond(t)
      <3>1. ~Flush(t)
        BY <2>1 DEF Flush
      <3>2. ~LoginAnswered(t)
        BY <2>1 DEF LoginAnswered
      <3>3. QED
        BY <2>2, <3>1, <3>2
    <2>4. tab[t].at \in Quiet /\ tab[t].at # "idle"
      BY <2>3 DEF Respond, Quiet
    <2>5. tab[t].dirty /\ ~tab[t].stale
      BY <2>1, <2>3 DEF Respond
    <2>6. session'.pair = tab[t].pair
      BY <2>3, <2>5 DEF Respond
    <2>7. QED
      BY <2>4, <2>5, <2>6 DEF PairInv, PairsTell, Loads, At
  <1>2. QED
    BY <1>1, PairInvariance, PTL DEF AdminSpec, SavedPairIsFresh

=============================================================================
