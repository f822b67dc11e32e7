-------------------------- MODULE AuthTokensProofs --------------------------
(***************************************************************************)
(* TokensInv of AuthTokens is inductive.  What carries it is Exchanging: a  *)
(* handler that is about to issue has already deleted the key it was let in *)
(* by, so a token with a successor is never found in Redis again.  The two  *)
(* life cycles follow from TokensInv step by step.                          *)
(***************************************************************************)
EXTENDS AuthTokens, TLAPS

\* Before the first login there are no tokens and no keys.
LEMMA InitInv == Init => TokensInv
  BY LifetimeAssumption
  DEF Init, TokensInv, TypeOK, KeysMatchTokens, ExchangedIsSpent, Exchanging, Pairs, Labels, At

\* A handler that moves on, and touches nothing but its own task and what
\* clients hold, keeps TokensInv when its new task is one Exchanging allows.
LEMMA MoveKeepsInv ==
  ASSUME TokensInv, NEW h \in Handlers, NEW label \in Labels, NEW p \in 0 .. issued,
         Suspend(h, label, p), UNCHANGED <<expiry, redis, history>>,
         held' \subseteq 1 .. issued,
         label # "refresh_issue",
         label = "refresh_revoke" => \A q \in Pairs : parent[q] = p => author[q] # h,
         label # "idle" => p # 0
  PROVE  TokensInv'
  <1> USE DEF TokensInv, expiry, redis, history, Suspend
  <1>1. task'[h] = [at |-> label, pair |-> p] /\ \A g \in Handlers \ {h} : task'[g] = task[g]
    BY DEF TypeOK
  <1>2. TypeOK'
    BY DEF TypeOK
  <1>3. KeysMatchTokens' /\ ExchangedIsSpent'
    BY DEF KeysMatchTokens, ExchangedIsSpent
  <1>4. Exchanging'
    BY <1>1 DEF Exchanging, At
  <1>5. QED
    BY <1>2, <1>3, <1>4

\* A handler that finishes, whatever it adds to what clients hold, keeps TokensInv.
LEMMA FinishKeepsInv ==
  ASSUME TokensInv, NEW h \in Handlers, Finish(h), UNCHANGED <<expiry, redis, history>>,
         held' \subseteq 1 .. issued
  PROVE  TokensInv'
  <1>1. 0 \in 0 .. issued /\ "idle" \in Labels
    BY DEF Labels, TokensInv, TypeOK
  <1>2. QED
    BY <1>1, MoveKeepsInv DEF Finish

\* Issuing a pair, for a login or out of an exchanged refresh token.
LEMMA IssueKeepsInv ==
  ASSUME TokensInv, NEW h \in Handlers, NEW label \in {"idle", "login_history"},
         NEW from \in 0 .. issued, NEW p \in 0 .. issued + 1,
         label # "idle" => p # 0,
         Issue(h, from), Suspend(h, label, p), UNCHANGED <<revoked, logged_out>>,
         held' \subseteq 1 .. issued + 1,
         from # 0 => /\ stored[from] = 0
                     /\ \A q \in Pairs : parent[q] = from => author[q] # h
  PROVE  TokensInv'
  <1> DEFINE new == issued + 1
  <1> USE LifetimeAssumption DEF TokensInv
  <1>0. /\ issued \in Nat /\ MaxPairs \in Nat /\ new <= MaxPairs
        /\ new \in Pairs /\ issued' = new
    BY DEF TypeOK, Issue, Pairs
  <1>1. /\ access_left' = [access_left EXCEPT ![new] = AccessTTL]
        /\ refresh_left' = [refresh_left EXCEPT ![new] = RefreshTTL]
        /\ stored' = [stored EXCEPT ![new] = RefreshTTL]
        /\ parent' = [parent EXCEPT ![new] = from]
        /\ author' = [author EXCEPT ![new] = IF from = 0 THEN Nobody ELSE h]
        /\ revoked' = revoked /\ logged_out' = logged_out
    BY DEF Issue
  <1>2. task'[h] = [at |-> label, pair |-> p] /\ \A g \in Handlers \ {h} : task'[g] = task[g]
    BY DEF TypeOK, Suspend
  <1>3. TypeOK'
    <2>1. task' \in [Handlers -> [at : Labels, pair : 0 .. issued']]
      BY <1>0 DEF TypeOK, Suspend, Labels
    <2>2. parent' \in [Pairs -> 0 .. issued'] /\ author' \in [Pairs -> Handlers \cup {Nobody}]
      BY <1>0, <1>1 DEF TypeOK
    <2>3. /\ access_left' \in [Pairs -> 0 .. AccessTTL]
          /\ refresh_left' \in [Pairs -> 0 .. RefreshTTL]
          /\ stored' \in [Pairs -> 0 .. RefreshTTL]
          /\ revoked' \in [Pairs -> 0 .. AccessTTL]
      BY <1>0, <1>1 DEF TypeOK
    <2>4. /\ issued' \in 0 .. MaxPairs
          /\ held' \subseteq 1 .. issued' /\ logged_out' \subseteq 1 .. issued'
      BY <1>0, <1>1 DEF TypeOK
    <2>5. QED
      BY <2>1, <2>2, <2>3, <2>4 DEF TypeOK
  <1>4. KeysMatchTokens'
    <2>1. revoked[new] = 0 /\ new \notin logged_out
      BY <1>0 DEF TypeOK, KeysMatchTokens
    <2>2. logged_out \subseteq Pairs
      BY <1>0 DEF TypeOK, Pairs
    <2>3. /\ \A q \in Pairs : revoked'[q] \in {0, access_left'[q]}
          /\ \A q \in Pairs : stored'[q] \in {0, refresh_left'[q]}
      BY <1>0, <1>1, <2>1 DEF TypeOK, KeysMatchTokens
    <2>4. \A q \in logged_out' : revoked'[q] = access_left'[q]
      BY <1>0, <1>1, <2>1, <2>2 DEF TypeOK, KeysMatchTokens
    <2>5. \A q \in Pairs : q > issued' => access_left'[q] = 0 /\ refresh_left'[q] = 0
      <3>1. \A q \in Pairs : q > new => q > issued /\ q # new
        BY <1>0 DEF Pairs
      <3>2. QED
        BY <1>0, <1>1, <3>1 DEF TypeOK, KeysMatchTokens
    <2>6. QED
      BY <2>3, <2>4, <2>5 DEF KeysMatchTokens
  <1>5. ExchangedIsSpent'
    <2>1. ASSUME NEW q \in Pairs, parent'[q] # 0
          PROVE  stored'[parent'[q]] = 0
      <3>1. parent'[q] \in 1 .. issued
        BY <1>0, <1>1, <2>1 DEF TypeOK
      <3>2. stored[parent'[q]] = 0
        BY <1>0, <1>1, <2>1 DEF TypeOK, ExchangedIsSpent
      <3>3. parent'[q] \in Pairs \ {new}
        BY <1>0, <3>1 DEF Pairs
      <3>4. QED
        BY <1>0, <1>1, <3>2, <3>3 DEF TypeOK
    <2>2. ASSUME NEW a \in Pairs, NEW b \in Pairs,
                 a # b, parent'[a] = parent'[b], parent'[a] # 0
          PROVE  author'[a] # author'[b]
      BY <1>0, <1>1, <2>2 DEF TypeOK, ExchangedIsSpent
    <2>3. QED
      BY <2>1, <2>2 DEF ExchangedIsSpent
  <1>6. Exchanging'
    <2> SUFFICES ASSUME NEW g \in Handlers \ {h}
                 PROVE  /\ At(g, "refresh_issue")' => stored'[task'[g].pair] = 0
                        /\ task'[g].at \in {"refresh_revoke", "refresh_issue"} =>
                             \A q \in Pairs : parent'[q] = task'[g].pair => author'[q] # g
                        /\ ~At(g, "idle")' => task'[g].pair # 0
      BY <1>2 DEF Exchanging, At
    <2>1. task'[g] = task[g] /\ task[g].pair \in 0 .. issued
      BY <1>2 DEF TypeOK
    <2>2. ASSUME At(g, "refresh_issue")'
          PROVE  stored'[task'[g].pair] = 0
      <3>1. task[g].pair \in 1 .. issued /\ stored[task[g].pair] = 0
        BY <1>0, <2>1, <2>2 DEF Exchanging, At
      <3>2. task[g].pair \in Pairs \ {new}
        BY <1>0, <3>1 DEF Pairs
      <3>3. QED
        BY <1>0, <1>1, <2>1, <3>1, <3>2 DEF TypeOK
    <2>3. ASSUME task'[g].at \in {"refresh_revoke", "refresh_issue"}
          PROVE  \A q \in Pairs : parent'[q] = task'[g].pair => author'[q] # g
      <3>1. task[g].pair # 0
        BY <2>1, <2>3 DEF Exchanging, At
      <3>2. QED
        BY <1>0, <1>1, <2>1, <2>3, <3>1 DEF Exchanging, TypeOK
    <2>4. QED
      BY <2>1, <2>2, <2>3 DEF Exchanging, At
  <1>7. QED
    BY <1>3, <1>4, <1>5, <1>6

\* The steps of one handler, in the order of the code.
LEMMA StepKeepsInv ==
  ASSUME TokensInv, NEW h \in Handlers, Step(h)
  PROVE  TokensInv'
  <1> USE DEF TokensInv
  <1>0. /\ issued \in Nat /\ MaxPairs \in Nat /\ issued <= MaxPairs
        /\ task[h].pair \in 0 .. issued /\ held \subseteq 1 .. issued
    BY LifetimeAssumption DEF TypeOK
  <1>a. ~At(h, "idle") => task[h].pair \in 1 .. issued /\ task[h].pair \in Pairs
    BY <1>0 DEF Exchanging, Pairs
  <1>1. CASE LoginIssue(h)
    <2>1. issued + 1 \in 0 .. issued + 1 /\ held' \subseteq 1 .. issued + 1 /\ 0 \in 0 .. issued
      BY <1>0, <1>1 DEF LoginIssue
    <2>2. /\ Issue(h, 0) /\ Suspend(h, "login_history", issued + 1)
          /\ UNCHANGED <<revoked, logged_out>>
      BY <1>1 DEF LoginIssue
    <2>3. issued + 1 # 0
      BY <1>0
    <2>4. QED
      BY <2>1, <2>2, <2>3, IssueKeepsInv
  <1>2. CASE LoginHistory(h)
    <2>1. held' \subseteq 1 .. issued
      BY <1>0, <1>a, <1>2 DEF LoginHistory, At
    <2>2. QED
      BY <1>2, <2>1, FinishKeepsInv DEF LoginHistory
  <1>3. CASE RefreshLookup(h)
    <2>1. CASE RefreshValid(task[h].pair)
      <3>1. task[h].pair \in Pairs
        BY <1>a, <1>3 DEF RefreshLookup, At
      <3>2. \A q \in Pairs : parent[q] = task[h].pair => author[q] # h
        BY <2>1, <3>1 DEF RefreshValid, ExchangedIsSpent, TypeOK, Pairs
      <3>3. "refresh_revoke" \in Labels /\ task[h].pair # 0
        BY <3>1 DEF Labels, Pairs
      <3>4. held' \subseteq 1 .. issued /\ UNCHANGED <<expiry, redis, history>>
        BY <1>0, <1>3 DEF RefreshLookup
      <3>5. Suspend(h, "refresh_revoke", task[h].pair)
        BY <1>3, <2>1 DEF RefreshLookup, Resume
      <3>6. QED
        BY <1>0, <3>2, <3>3, <3>4, <3>5, MoveKeepsInv
    <2>2. CASE ~RefreshValid(task[h].pair)
      BY <1>0, <1>3, <2>2, FinishKeepsInv DEF RefreshLookup
    <2>3. QED
      BY <2>1, <2>2
  <1>4. CASE RefreshRevoke(h)
    <2>1. task[h].pair \in Pairs /\ At(h, "refresh_revoke")
      BY <1>a, <1>4 DEF RefreshRevoke, At
    <2>2. stored' = [stored EXCEPT ![task[h].pair] = 0]
      BY <1>4 DEF RefreshRevoke, RevokeRefresh
    <2>3. \A p \in Pairs : stored'[p] \in {0, stored[p]}
      BY <2>2 DEF TypeOK
    <2>4. /\ task'[h] = [at |-> "refresh_issue", pair |-> task[h].pair]
          /\ \A g \in Handlers \ {h} : task'[g] = task[g]
      BY <1>4 DEF RefreshRevoke, Resume, Suspend, TypeOK
    <2>5. UNCHANGED <<expiry, revoked, held, history>>
      BY <1>4 DEF RefreshRevoke
    <2>6. TypeOK'
      <3>1. task' \in [Handlers -> [at : Labels, pair : 0 .. issued]]
        BY <1>0, <1>4 DEF RefreshRevoke, Resume, Suspend, TypeOK, Labels
      <3>2. stored' \in [Pairs -> 0 .. RefreshTTL]
        BY <2>1, <2>2, LifetimeAssumption DEF TypeOK
      <3>3. QED
        BY <2>5, <3>1, <3>2 DEF TypeOK, expiry, history
    <2>7. KeysMatchTokens'
      BY <2>3, <2>5 DEF KeysMatchTokens, expiry, history
    <2>8. ExchangedIsSpent'
      <3>1. ASSUME NEW q \in Pairs, parent[q] # 0
            PROVE  parent[q] \in Pairs
        <4>1. parent[q] \in 0 .. issued
          BY DEF TypeOK
        <4>2. QED
          BY <1>0, <3>1, <4>1 DEF Pairs
      <3>2. QED
        BY <2>3, <2>5, <3>1 DEF ExchangedIsSpent, expiry, history
    <2>9. Exchanging'
      <3>1. stored'[task[h].pair] = 0
        BY <2>1, <2>2 DEF TypeOK
      <3>2. \A g \in Handlers : At(g, "refresh_issue") => task[g].pair \in Pairs
        BY <1>0 DEF Exchanging, TypeOK, At, Pairs
      <3>3. QED
        BY <2>1, <2>3, <2>4, <2>5, <3>1, <3>2 DEF Exchanging, At, history
    <2>10. QED
      BY <2>6, <2>7, <2>8, <2>9
  <1>5. CASE RefreshIssue(h) \/ RefreshAnswerLost(h)
    <2>1. /\ stored[task[h].pair] = 0
          /\ \A q \in Pairs : parent[q] = task[h].pair => author[q] # h
      BY <1>5 DEF RefreshIssue, RefreshAnswerLost, Exchanging, At
    <2>2. held' \subseteq held \cup {issued + 1}
      BY <1>5 DEF RefreshIssue, RefreshAnswerLost
    <2>3. held' \subseteq 1 .. issued + 1 /\ 0 \in 0 .. issued + 1
      BY <1>0, <2>2
    <2>4. QED
      BY <1>0, <1>5, <2>1, <2>3, IssueKeepsInv DEF RefreshIssue, RefreshAnswerLost, Finish
  <1>6. CASE LogoutLookup(h) \/ AuthLookup(h)
    <2>1. task[h].pair # 0 /\ "logout_revoke" \in Labels /\ "accepted" \in Labels
      BY <1>6 DEF LogoutLookup, AuthLookup, Exchanging, At, Labels
    <2>2. held' \subseteq 1 .. issued /\ UNCHANGED <<expiry, redis, history>>
      BY <1>0, <1>6 DEF LogoutLookup, AuthLookup
    <2>3. CASE Finish(h)
      BY <2>2, <2>3, FinishKeepsInv
    <2>4. CASE Resume(h, "logout_revoke")
      BY <1>0, <2>1, <2>2, <2>4, MoveKeepsInv DEF Resume
    <2>5. CASE Resume(h, "accepted")
      BY <1>0, <2>1, <2>2, <2>5, MoveKeepsInv DEF Resume
    <2>6. QED
      BY <1>6, <2>3, <2>4, <2>5 DEF LogoutLookup, AuthLookup
  <1>7. CASE LogoutRevoke(h)
    <2>1. task[h].pair \in Pairs /\ task[h].pair \in 1 .. issued
      BY <1>a, <1>7 DEF LogoutRevoke, At
    <2>2. UNCHANGED <<expiry, stored, held, parent, author>>
          /\ logged_out' = logged_out \cup {task[h].pair}
      BY <1>7 DEF LogoutRevoke
    <2>3. /\ revoked' \in [Pairs -> 0 .. AccessTTL]
          /\ revoked'[task[h].pair] = access_left[task[h].pair]
          /\ \A p \in Pairs : p # task[h].pair => revoked'[p] = revoked[p]
      <3> DEFINE p == task[h].pair
      <3>1. access_left[p] \in 0 .. AccessTTL /\ revoked[p] \in {0, access_left[p]}
        BY <2>1 DEF TypeOK, KeysMatchTokens
      <3>2. CASE access_left[p] > 0
        BY <1>7, <2>1, <3>1, <3>2 DEF LogoutRevoke, RevokeAccess, TypeOK
      <3>3. CASE ~(access_left[p] > 0)
        BY <1>7, <2>1, <3>1, <3>3, LifetimeAssumption DEF LogoutRevoke, RevokeAccess, TypeOK
      <3>4. QED
        BY <3>2, <3>3
    <2>4. /\ task'[h] = [at |-> "idle", pair |-> 0]
          /\ \A g \in Handlers \ {h} : task'[g] = task[g]
          /\ task' \in [Handlers -> [at : Labels, pair : 0 .. issued]]
      BY <1>0, <1>7 DEF LogoutRevoke, Finish, Suspend, TypeOK, Labels
    <2>5. TypeOK'
      BY <2>1, <2>2, <2>3, <2>4 DEF TypeOK, expiry
    <2>6. KeysMatchTokens'
      <3>1. logged_out \subseteq Pairs
        BY <1>0 DEF TypeOK, Pairs
      <3>2. QED
        BY <2>1, <2>2, <2>3, <3>1 DEF KeysMatchTokens, expiry
    <2>7. ExchangedIsSpent' /\ Exchanging'
      BY <2>2, <2>4 DEF ExchangedIsSpent, Exchanging, At, expiry
    <2>8. QED
      BY <2>5, <2>6, <2>7
  <1>8. CASE AuthReply(h) \/ Die(h)
    BY <1>0, <1>8, FinishKeepsInv DEF AuthReply, Die
  <1>9. QED
    BY <1>1, <1>2, <1>3, <1>4, <1>5, <1>6, <1>7, <1>8 DEF Step

\* Time ages every token and every key alike.
LEMMA TickKeepsInv ==
  ASSUME TokensInv, Tick
  PROVE  TokensInv'
  <1> USE LifetimeAssumption DEF TokensInv
  <1>1. ASSUME NEW bound \in Nat, NEW left \in [Pairs -> 0 .. bound]
        PROVE  /\ Less(left) \in [Pairs -> 0 .. bound]
               /\ \A p \in Pairs : left[p] = 0 => Less(left)[p] = 0
               /\ \A p \in Pairs : Less(left)[p] = IF left[p] > 0 THEN left[p] - 1 ELSE 0
    BY <1>1 DEF Less
  <1>2. /\ access_left' = Less(access_left) /\ refresh_left' = Less(refresh_left)
        /\ revoked' = Less(revoked) /\ stored' = Less(stored)
        /\ UNCHANGED <<issued, task, held, history>>
    BY DEF Tick
  <1>3. TypeOK'
    BY <1>1, <1>2 DEF TypeOK, history
  <1>4. KeysMatchTokens'
    <2>1. logged_out \subseteq Pairs
      BY DEF TypeOK, Pairs
    <2>2. /\ \A p \in Pairs : access_left'[p] = IF access_left[p] > 0 THEN access_left[p] - 1 ELSE 0
          /\ \A p \in Pairs : refresh_left'[p] = IF refresh_left[p] > 0 THEN refresh_left[p] - 1 ELSE 0
          /\ \A p \in Pairs : revoked'[p] = IF revoked[p] > 0 THEN revoked[p] - 1 ELSE 0
          /\ \A p \in Pairs : stored'[p] = IF stored[p] > 0 THEN stored[p] - 1 ELSE 0
      BY <1>1, <1>2 DEF TypeOK
    <2>3. QED
      BY <1>2, <2>1, <2>2 DEF KeysMatchTokens, history
  <1>5. \A p \in Pairs : stored[p] = 0 => stored'[p] = 0
    BY <1>1, <1>2 DEF TypeOK
  <1>6. ExchangedIsSpent'
    <2>1. ASSUME NEW q \in Pairs, parent[q] # 0
          PROVE  parent[q] \in Pairs
      <3>1. parent[q] \in 0 .. issued /\ issued \in 0 .. MaxPairs
        BY DEF TypeOK
      <3>2. QED
        BY <2>1, <3>1 DEF Pairs
    <2>2. QED
      BY <1>2, <1>5, <2>1 DEF ExchangedIsSpent, history
  <1>7. Exchanging'
    <2>1. ASSUME NEW h \in Handlers, ~At(h, "idle")
          PROVE  task[h].pair \in Pairs
      <3>1. task[h].pair \in 0 .. issued /\ task[h].pair # 0 /\ issued \in 0 .. MaxPairs
        BY <2>1 DEF TypeOK, Exchanging
      <3>2. QED
        BY <3>1 DEF Pairs
    <2>2. QED
      BY <1>2, <1>5, <2>1 DEF Exchanging, At, history
  <1>8. QED
    BY <1>3, <1>4, <1>6, <1>7

\* Clients present tokens of the pairs they hold, to any handler.
LEMMA PresentKeepsInv ==
  ASSUME TokensInv, NEW h \in Handlers, NEW p \in held, Present(h, p)
  PROVE  TokensInv'
  <1>1. p \in 0 .. issued /\ p # 0 /\ held' = held /\ held \subseteq 1 .. issued
    BY DEF Present, RefreshStart, LogoutStart, AuthStart, TokensInv, TypeOK
  <1>2. PICK label \in {"refresh_lookup", "logout_lookup", "auth_lookup"} : Suspend(h, label, p)
    BY DEF Present, RefreshStart, LogoutStart, AuthStart
  <1>3. UNCHANGED <<expiry, redis, history>> /\ label \in Labels
    BY DEF Present, RefreshStart, LogoutStart, AuthStart, Labels
  <1>4. QED
    BY <1>1, <1>2, <1>3, MoveKeepsInv

\* Every step keeps the strengthened invariant.
LEMMA NextKeepsInv == TokensInv /\ [Next]_vars => TokensInv'
  <1> SUFFICES ASSUME TokensInv, [Next]_vars
               PROVE  TokensInv'
    OBVIOUS
  <1>1. CASE UNCHANGED vars
    BY <1>1 DEF vars, expiry, redis, history, TokensInv, TypeOK, KeysMatchTokens, ExchangedIsSpent,
                Exchanging, At
  <1>2. QED
    BY <1>1, StepKeepsInv, PresentKeepsInv, TickKeepsInv DEF Next

\* The inductive invariant holds of every run: any number of handlers, any
\* lifetimes, any number of pairs.
THEOREM Invariance == Spec => []TokensInv
  BY InitInv, NextKeepsInv, PTL DEF Spec

\* Type correctness.
THEOREM TypeCorrect == Spec => []TypeOK
  <1>1. TokensInv => TypeOK
    BY DEF TokensInv
  <1>2. QED
    BY <1>1, Invariance, PTL

\* A key that revokes an access token expires with it, neither before nor after.
THEOREM KeysMatch == Spec => []KeysMatchTokens
  <1>1. TokensInv => KeysMatchTokens
    BY DEF TokensInv
  <1>2. QED
    BY <1>1, Invariance, PTL

\* A refresh token is exchanged at most once by each of the handlers that race
\* on it, and by nobody once a successor exists.
THEOREM ExchangeOnce == Spec => []ExchangedIsSpent
  <1>1. TokensInv => ExchangedIsSpent
    BY DEF TokensInv
  <1>2. QED
    BY <1>1, Invariance, PTL

\* A handler that is about to store a new pair has already deleted the refresh
\* token it came with, and has not exchanged it before.
THEOREM HandlersKnow == Spec => []Exchanging
  <1>1. TokensInv => Exchanging
    BY DEF TokensInv
  <1>2. QED
    BY <1>1, Invariance, PTL

-----------------------------------------------------------------------------
(* The life cycles.  Of all the steps, four touch the keys and the expiries; *)
(* EveryStep says what any of them can do to one pair.                       *)

Ages(p) ==
  /\ p <= issued => /\ access_left'[p] <= access_left[p]
                    /\ refresh_left'[p] <= refresh_left[p]
                    /\ stored[p] = 0 => stored'[p] = 0
                    /\ revoked[p] > 0 /\ access_left'[p] > 0 => revoked'[p] > 0
  /\ issued < p /\ p <= issued' =>
       access_left'[p] > 0 /\ revoked'[p] = 0 /\ refresh_left'[p] > 0 /\ stored'[p] > 0

\* Nothing brings a deleted key back or lets a revocation end early, and a new
\* pair starts with both of its tokens good.
LEMMA EveryStep ==
  ASSUME TokensInv, [Next]_vars, NEW p \in Pairs
  PROVE  Ages(p) /\ issued <= issued'
  <1> USE LifetimeAssumption DEF TokensInv, TypeOK, Ages
  <1>0. /\ access_left[p] \in Nat /\ refresh_left[p] \in Nat
        /\ revoked[p] \in Nat /\ stored[p] \in Nat
        /\ p \in Nat /\ issued \in Nat /\ MaxPairs \in Nat
        /\ revoked[p] \in {0, access_left[p]}
        /\ p > issued => access_left[p] = 0
    BY DEF KeysMatchTokens, Pairs
  <1>1. CASE UNCHANGED <<expiry, redis>>
    BY <1>0, <1>1 DEF expiry, redis
  <1>2. ASSUME NEW h \in Handlers, NEW from, Issue(h, from), UNCHANGED revoked
        PROVE  Ages(p) /\ issued <= issued'
    <2>1. /\ issued' = issued + 1 /\ revoked' = revoked
          /\ access_left'[p] = IF p = issued + 1 THEN AccessTTL ELSE access_left[p]
          /\ refresh_left'[p] = IF p = issued + 1 THEN RefreshTTL ELSE refresh_left[p]
          /\ stored'[p] = IF p = issued + 1 THEN RefreshTTL ELSE stored[p]
      BY <1>2 DEF Issue
    <2>2. QED
      BY <1>0, <2>1
  <1>3. ASSUME NEW h \in Handlers, RefreshRevoke(h)
        PROVE  Ages(p) /\ issued <= issued'
    <2>1. stored'[p] \in {0, stored[p]} /\ UNCHANGED <<expiry, revoked>>
      BY <1>3 DEF RefreshRevoke, RevokeRefresh
    <2>2. QED
      BY <1>0, <2>1 DEF expiry
  <1>4. ASSUME NEW h \in Handlers, LogoutRevoke(h)
        PROVE  Ages(p) /\ issued <= issued'
    <2>1. revoked'[p] \in {revoked[p], access_left[p]} /\ UNCHANGED <<expiry, stored>>
      BY <1>4 DEF LogoutRevoke, RevokeAccess
    <2>2. QED
      BY <1>0, <2>1 DEF expiry
  <1>5. CASE Tick
    <2>1. /\ access_left'[p] = IF access_left[p] > 0 THEN access_left[p] - 1 ELSE 0
          /\ refresh_left'[p] = IF refresh_left[p] > 0 THEN refresh_left[p] - 1 ELSE 0
          /\ revoked'[p] = IF revoked[p] > 0 THEN revoked[p] - 1 ELSE 0
          /\ stored'[p] = IF stored[p] > 0 THEN stored[p] - 1 ELSE 0
          /\ issued' = issued
      BY <1>5 DEF Tick, Less
    <2>2. QED
      BY <1>0, <2>1
  <1>6. ASSUME NEW h \in Handlers, Step(h)
        PROVE  Ages(p) /\ issued <= issued'
    <2>1. CASE LoginIssue(h)
      BY <1>2, <2>1 DEF LoginIssue
    <2>2. CASE RefreshIssue(h) \/ RefreshAnswerLost(h)
      BY <1>2, <2>2 DEF RefreshIssue, RefreshAnswerLost
    <2>3. CASE LoginHistory(h) \/ RefreshLookup(h) \/ LogoutLookup(h) \/ AuthLookup(h)
               \/ AuthReply(h) \/ Die(h)
      BY <1>1, <2>3 DEF LoginHistory, RefreshLookup, LogoutLookup, AuthLookup, AuthReply, Die
    <2>4. QED
      BY <1>3, <1>4, <1>6, <2>1, <2>2, <2>3 DEF Step
  <1>7. ASSUME NEW h \in Handlers, NEW q \in held, Present(h, q)
        PROVE  Ages(p) /\ issued <= issued'
    BY <1>1, <1>7 DEF Present, RefreshStart, LogoutStart, AuthStart
  <1>8. CASE UNCHANGED vars
    BY <1>1, <1>8 DEF vars
  <1>9. QED
    BY <1>5, <1>6, <1>7, <1>8 DEF Next

\* An access token is issued, accepted, and then refused for ever.
THEOREM AccessCycle == Spec => AccessLifecycle
  <1>1. Init => Access!Init
    BY LifetimeAssumption DEF Init, Access!Init, AccessStatus, Pairs
  <1>2. TokensInv /\ [Next]_vars => [Access!Next]_AccessStatus
    <2> SUFFICES ASSUME TokensInv, [Next]_vars
                 PROVE  Access!Next
      OBVIOUS
    <2>1. AccessStatus' \in [Pairs -> {"unissued", "valid", "dead"}]
      BY DEF AccessStatus
    <2>2. ASSUME NEW p \in Pairs
          PROVE  Access!MayBecome(AccessStatus[p], AccessStatus'[p])
      <3>1. /\ access_left[p] \in Nat /\ access_left'[p] \in Nat
            /\ revoked[p] \in Nat /\ revoked'[p] \in Nat
            /\ p \in Nat /\ issued \in Nat /\ issued' \in Nat
        <4>1. TypeOK /\ TypeOK'
          BY NextKeepsInv DEF TokensInv
        <4>2. p \in Nat /\ MaxPairs \in Nat
          BY LifetimeAssumption DEF Pairs
        <4>3. QED
          BY <4>1, <4>2, LifetimeAssumption DEF TypeOK
      <3>2. Ages(p) /\ issued <= issued'
        BY EveryStep
      <3>3. QED
        BY <3>1, <3>2 DEF Ages, AccessStatus, AccessRevoked, Access!MayBecome
    <2>3. QED
      BY <2>1, <2>2 DEF Access!Next
  <1>3. QED
    BY <1>1, <1>2, Invariance, PTL DEF Spec, AccessLifecycle, Access!Spec

\* A refresh token is issued, accepted, and once exchanged or expired refused
\* for ever, whatever handlers race on it and wherever they die.
THEOREM RefreshCycle == Spec => RefreshLifecycle
  <1>1. Init => Refresh!Init
    BY LifetimeAssumption DEF Init, Refresh!Init, RefreshStatus, Pairs
  <1>2. TokensInv /\ [Next]_vars => [Refresh!Next]_RefreshStatus
    <2> SUFFICES ASSUME TokensInv, [Next]_vars
                 PROVE  Refresh!Next
      OBVIOUS
    <2>1. RefreshStatus' \in [Pairs -> {"unissued", "valid", "dead"}]
      BY DEF RefreshStatus
    <2>2. ASSUME NEW p \in Pairs
          PROVE  Refresh!MayBecome(RefreshStatus[p], RefreshStatus'[p])
      <3>1. /\ refresh_left[p] \in Nat /\ refresh_left'[p] \in Nat
            /\ stored[p] \in Nat /\ stored'[p] \in Nat
            /\ stored[p] \in {0, refresh_left[p]} /\ stored'[p] \in {0, refresh_left'[p]}
            /\ p \in Nat /\ issued \in Nat /\ issued' \in Nat
        <4>1. TypeOK /\ TypeOK' /\ KeysMatchTokens /\ KeysMatchTokens'
          BY NextKeepsInv DEF TokensInv
        <4>2. p \in Nat /\ MaxPairs \in Nat
          BY LifetimeAssumption DEF Pairs
        <4>3. stored[p] \in {0, refresh_left[p]} /\ stored'[p] \in {0, refresh_left'[p]}
          BY <4>1 DEF KeysMatchTokens
        <4>4. QED
          BY <4>1, <4>2, <4>3, LifetimeAssumption DEF TypeOK
      <3>2. Ages(p) /\ issued <= issued'
        BY EveryStep
      <3>3. QED
        BY <3>1, <3>2 DEF Ages, RefreshStatus, RefreshValid, Refresh!MayBecome
    <2>3. QED
      BY <2>1, <2>2 DEF Refresh!Next
  <1>3. QED
    BY <1>1, <1>2, Invariance, PTL DEF Spec, RefreshLifecycle, Refresh!Spec

\* A handler's step leaves the tasks of the others alone.
LEMMA OwnTaskOnly ==
  ASSUME TypeOK, NEW g \in Handlers, NEW h \in Handlers, g # h, NEW q,
         Step(g) \/ Present(g, q)
  PROVE  task'[h] = task[h]
  <1> USE DEF Suspend, TypeOK
  <1>1. CASE LoginIssue(g) \/ RefreshIssue(g) \/ RefreshAnswerLost(g)
    BY <1>1 DEF LoginIssue, RefreshIssue, RefreshAnswerLost, Finish
  <1>2. CASE LoginHistory(g) \/ AuthReply(g) \/ Die(g) \/ LogoutRevoke(g) \/ RefreshRevoke(g)
    BY <1>2 DEF LoginHistory, AuthReply, Die, LogoutRevoke, RefreshRevoke, Finish, Resume
  <1>3. CASE RefreshLookup(g) \/ LogoutLookup(g) \/ AuthLookup(g)
    BY <1>3 DEF RefreshLookup, LogoutLookup, AuthLookup, Finish, Resume
  <1>4. CASE Present(g, q)
    BY <1>4 DEF Present, RefreshStart, LogoutStart, AuthStart
  <1>5. QED
    BY <1>1, <1>2, <1>3, <1>4 DEF Step

\* A handler lets a logged-out token through only when the token has expired
\* between the decoding and the lookup.
THEOREM LoggedOutStaysOut == Spec => LoggedOutRefused
  <1> DEFINE Refused(h) ==
        At(h, "auth_lookup") /\ task'[h].at = "accepted" /\ task[h].pair \in logged_out
          => access_left[task[h].pair] = 0
  <1>1. TokensInv /\ [Next]_vars => \A h \in Handlers : Refused(h)
    <2> SUFFICES ASSUME TokensInv, [Next]_vars, NEW h \in Handlers, At(h, "auth_lookup"),
                        task'[h].at = "accepted", task[h].pair \in logged_out
                 PROVE  access_left[task[h].pair] = 0
      OBVIOUS
    <2>1. revoked[task[h].pair] = access_left[task[h].pair]
      BY DEF TokensInv, KeysMatchTokens
    <2>2. AuthLookup(h)
      <3>1. TypeOK /\ ~At(h, "idle")
        BY DEF TokensInv, At
      <3>2. task'[h] # task[h]
        BY DEF At
      <3>3. ASSUME NEW g \in Handlers, Step(g)
            PROVE  AuthLookup(h)
        <4>1. Step(h)
          BY <3>1, <3>2, <3>3, OwnTaskOnly
        <4>2. ~Finish(h)
          BY DEF Finish, Suspend, TokensInv, TypeOK
        <4>3. QED
          BY <4>1, <4>2 DEF Step, At, LoginIssue, LoginHistory, RefreshLookup, RefreshRevoke,
                            RefreshIssue, RefreshAnswerLost, LogoutLookup, LogoutRevoke,
                            AuthReply, Die
      <3>4. ASSUME NEW g \in Handlers, NEW q \in held, Present(g, q)
            PROVE  FALSE
        <4>1. g = h
          BY <3>1, <3>2, <3>4, OwnTaskOnly
        <4>2. QED
          BY <3>1, <3>4, <4>1 DEF Present, RefreshStart, LogoutStart, AuthStart
      <3>5. QED
        BY <3>2, <3>3, <3>4 DEF Next, Tick, vars
    <2>3. ~AccessRevoked(task[h].pair)
      BY <2>2 DEF AccessRevoked, AuthLookup, Finish, Suspend, TokensInv, TypeOK
    <2>4. access_left[task[h].pair] \in Nat
      <3>1. issued \in 0 .. MaxPairs /\ MaxPairs \in Nat /\ AccessTTL \in Nat
        BY LifetimeAssumption DEF TokensInv, TypeOK
      <3>2. task[h].pair \in 1 .. issued
        BY DEF TokensInv, TypeOK
      <3>3. task[h].pair \in Pairs
        BY <3>1, <3>2 DEF Pairs
      <3>4. access_left[task[h].pair] \in 0 .. AccessTTL
        BY <3>3 DEF TokensInv, TypeOK
      <3>5. QED
        BY <3>1, <3>4
    <2>5. QED
      BY <2>1, <2>3, <2>4 DEF AccessRevoked
  <1>2. QED
    BY <1>1, Invariance, PTL DEF Spec, LoggedOutRefused

=============================================================================
