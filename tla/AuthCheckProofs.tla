--------------------------- MODULE AuthCheckProofs ---------------------------
(***************************************************************************)
(* First the proxy alone.  BreakerInv of CircuitBreaker is inductive as it  *)
(* stands: the type invariant needs the other parts (a probe is only        *)
(* bounded by the quota that is left, a count only by the streak), so they  *)
(* are proved together, and from it every step of the proxy is a step of    *)
(* RecoveryWindow or a stutter.                                             *)
(*                                                                          *)
(* Then the checks.  Every step of the composition is a step of the proxy,  *)
(* so all of that holds with fast_api as its client.  CheckInv is           *)
(* inductive: the bound on the attempts in the proxy needs Linked, which    *)
(* says that the proxy's table and the checks' agree, and that the types.   *)
(* The bound on the streak needs BlameAccounted, an account of the failures *)
(* of every cause, those to come included; a sum over the checks is there   *)
(* the cardinality of a set of pairs.                                       *)
(***************************************************************************)
EXTENDS AuthCheck, FiniteSetTheorems, TLAPS

-----------------------------------------------------------------------------
\* The proxy starts closed, with nothing counted and no deadline.
LEMMA InitInv == Init => BreakerInv
  BY SettingsAssumption
  DEF Init, BreakerInv, TypeOK, ContextCoherent, ProbeQuota, QuietBeforeProbe, CountsTheStreak,
      NoDeadline

\* Granting a permission, in any state, keeps BreakerInv.
LEMMA AdmitKeepsInv ==
  ASSUME BreakerInv, NEW r \in Requests, Admit(r)
  PROVE  BreakerInv'
  <1> USE SettingsAssumption
      DEF BreakerInv, TypeOK, ContextCoherent, ProbeQuota, QuietBeforeProbe, CountsTheStreak,
          NoDeadline, Admit, ctx
  <1>1. CASE ClosedTry
    BY <1>1 DEF ClosedTry
  <1>2. CASE OpenTry
    BY <1>2 DEF OpenTry
  <1>3. CASE HalfOpenTry
    BY <1>3 DEF HalfOpenTry
  <1>4. QED
    BY <1>1, <1>2, <1>3

\* A success, reported in any state and by any request, keeps BreakerInv.
LEMMA AnsweredKeepsInv ==
  ASSUME BreakerInv, NEW r \in Requests, ServiceAnswered(r)
  PROVE  BreakerInv'
  <1> USE SettingsAssumption
      DEF BreakerInv, TypeOK, ContextCoherent, ProbeQuota, QuietBeforeProbe, CountsTheStreak,
          NoDeadline, ServiceAnswered, OnServiceSuccess
  <1>1. CASE ClosedOnSuccess
    BY <1>1 DEF ClosedOnSuccess
  <1>2. CASE Recover
    BY <1>2 DEF Recover
  <1>3. QED
    BY <1>1, <1>2

\* A failure, reported in any state and by any request, keeps BreakerInv.
LEMMA FailedKeepsInv ==
  ASSUME BreakerInv, NEW r \in Requests, ServiceFailed(r)
  PROVE  BreakerInv'
  <1> USE SettingsAssumption
      DEF BreakerInv, TypeOK, ContextCoherent, ProbeQuota, QuietBeforeProbe, CountsTheStreak,
          NoDeadline, ServiceFailed, OnServiceFailure
  <1>1. CASE ClosedCountFailure
    BY <1>1 DEF ClosedCountFailure
  <1>2. CASE ClosedTrip
    BY <1>2 DEF ClosedTrip
  <1>3. CASE OpenOnFailure
    BY <1>3 DEF OpenOnFailure
  <1>4. CASE HalfOpenOnFailure
    BY <1>4 DEF HalfOpenOnFailure
  <1>5. QED
    BY <1>1, <1>2, <1>3, <1>4

\* Every step of the proxy keeps BreakerInv.
LEMMA NextKeepsInv == BreakerInv /\ [Next]_vars => BreakerInv'
  <1> SUFFICES ASSUME BreakerInv, [Next]_vars
               PROVE  BreakerInv'
    OBVIOUS
  <1> USE SettingsAssumption
  <1>1. CASE UNCHANGED vars
    BY <1>1 DEF vars, ctx, history, BreakerInv, TypeOK, ContextCoherent, ProbeQuota,
                QuietBeforeProbe, CountsTheStreak, NoDeadline
  <1>2. CASE Tick
    BY <1>2 DEF Tick, BreakerInv, TypeOK, ContextCoherent, ProbeQuota, QuietBeforeProbe,
                CountsTheStreak, NoDeadline
  <1>3. ASSUME NEW r \in Requests, Admit(r)
        PROVE  BreakerInv'
    BY <1>3, AdmitKeepsInv
  <1>4. ASSUME NEW r \in Requests, Refuse(r)
        PROVE  BreakerInv'
    BY <1>1, <1>4 DEF Refuse
  <1>5. ASSUME NEW r \in Requests, BodyRead(r) \/ BodyRejected(r)
        PROVE  BreakerInv'
    BY <1>5 DEF BodyRead, BodyRejected, ctx, history, BreakerInv, TypeOK, ContextCoherent,
                ProbeQuota, QuietBeforeProbe, CountsTheStreak, NoDeadline
  <1>6. ASSUME NEW r \in Requests, Outcome(r)
        PROVE  BreakerInv'
    BY <1>6, AnsweredKeepsInv, FailedKeepsInv DEF Outcome
  <1>7. QED
    BY <1>1, <1>2, <1>3, <1>4, <1>5, <1>6 DEF Next

\* The inductive invariant holds of every run, for every setting.
THEOREM Invariance == Spec => []BreakerInv
  BY InitInv, NextKeepsInv, PTL DEF Spec

\* Type correctness: counts stay below their limits and the quota below
\* HalfOpenProbes, whatever the number of concurrent requests.
THEOREM TypeCorrect == Spec => []TypeOK
  <1>1. BreakerInv => TypeOK
    BY DEF BreakerInv
  <1>2. QED
    BY <1>1, Invariance, PTL

\* No count, quota or deadline of one state of the breaker survives into a
\* state that does not use it.
THEOREM Coherence == Spec => []ContextCoherent
  <1>1. BreakerInv => ContextCoherent
    BY DEF BreakerInv
  <1>2. QED
    BY <1>1, Invariance, PTL

\* A half-open window gives HalfOpenProbes permissions at the very most.
THEOREM QuotaHolds == Spec => []ProbeQuota
  <1>1. BreakerInv => ProbeQuota
    BY DEF BreakerInv
  <1>2. QED
    BY <1>1, Invariance, PTL

\* Probing starts only when no failure was reported for RecoveryTimeout.
THEOREM QuietHolds == Spec => []QuietBeforeProbe
  <1>1. BreakerInv => QuietBeforeProbe
    BY DEF BreakerInv
  <1>2. QED
    BY <1>1, Invariance, PTL

\* The closed breaker counts the failures since the last success and no others.
THEOREM StreakHolds == Spec => []CountsTheStreak
  <1>1. BreakerInv => CountsTheStreak
    BY DEF BreakerInv
  <1>2. QED
    BY <1>1, Invariance, PTL

-----------------------------------------------------------------------------
\* A request that gets its permission is one that the contract gives it to.
LEMMA AdmitImplements ==
  ASSUME BreakerInv, NEW r \in Requests, Admit(r)
  PROVE  Contract!Next
  <1>1. Contract!Permit(r)
    <2>1. Reading' = Reading \cup {r} /\ Upstream' = Upstream /\ r \notin Reading \cup Upstream
      BY DEF Admit, BreakerInv, TypeOK, Reading, Upstream
    <2>2. QED
      BY <2>1 DEF Admit, Contract!Permit
  <1> USE SettingsAssumption
      DEF Admit, BreakerInv, TypeOK, ProbeQuota, QuietBeforeProbe, WindowMode, ctx
  <1>2. CASE ClosedTry
    <2>1. Contract!Serve(r)
      BY <1>1, <1>2 DEF ClosedTry, Contract!Serve
    <2>2. QED
      BY <2>1 DEF Contract!Next
  <1>3. CASE OpenTry
    <2>1. Contract!FirstProbe(r)
      BY <1>1, <1>3 DEF OpenTry, Contract!FirstProbe
    <2>2. QED
      BY <2>1 DEF Contract!Next
  <1>4. CASE HalfOpenTry
    <2>1. Contract!NextProbe(r)
      BY <1>1, <1>4 DEF HalfOpenTry, Contract!NextProbe
    <2>2. QED
      BY <2>1 DEF Contract!Next
  <1>5. QED
    BY <1>2, <1>3, <1>4

\* A body that is read uses the permission, one that is rejected gives it up.
LEMMA BodyImplements ==
  ASSUME BreakerInv, NEW r \in Requests, BodyRead(r) \/ BodyRejected(r)
  PROVE  Contract!Next
  <1>1. UNCHANGED <<WindowMode, quiet, admitted>>
    BY DEF BodyRead, BodyRejected, history, WindowMode
  <1>2. r \in Reading /\ Reading' = Reading \ {r}
    BY DEF BodyRead, BodyRejected, BreakerInv, TypeOK, Reading
  <1>3. CASE BodyRead(r)
    <2>1. Upstream' = Upstream \cup {r}
      BY <1>3 DEF BodyRead, BreakerInv, TypeOK, Upstream
    <2>2. Contract!Send(r)
      BY <1>1, <1>2, <2>1 DEF Contract!Send
    <2>3. QED
      BY <2>2 DEF Contract!Next
  <1>4. CASE BodyRejected(r)
    <2>1. Upstream' = Upstream
      BY <1>4 DEF BodyRejected, BreakerInv, TypeOK, Upstream
    <2>2. Contract!Lapse(r)
      BY <1>1, <1>2, <2>1 DEF Contract!Lapse
    <2>3. QED
      BY <2>2 DEF Contract!Next
  <1>5. QED
    BY <1>3, <1>4

\* A reported outcome is the contract's Success or Failure.
LEMMA OutcomeImplements ==
  ASSUME BreakerInv, NEW r \in Requests, Outcome(r)
  PROVE  Contract!Next
  <1>1. Contract!Report(r)
    <2>1. r \in Upstream /\ Upstream' = Upstream \ {r} /\ Reading' = Reading /\ admitted' = 0
      BY DEF Outcome, ServiceAnswered, ServiceFailed, BreakerInv, TypeOK, Reading, Upstream
    <2>2. QED
      BY <2>1 DEF Contract!Report
  <1>2. CASE ServiceAnswered(r)
    <2>1. Contract!Success(r)
      BY <1>1, <1>2 DEF ServiceAnswered, OnServiceSuccess, ClosedOnSuccess, Recover,
                        Contract!Success, WindowMode
    <2>2. QED
      BY <2>1 DEF Contract!Next
  <1>3. CASE ServiceFailed(r)
    <2>1. Contract!Failure(r)
      BY <1>1, <1>3 DEF ServiceFailed, OnServiceFailure, ClosedCountFailure, ClosedTrip,
                        OpenOnFailure, HalfOpenOnFailure, Contract!Failure, WindowMode
    <2>2. QED
      BY <2>1 DEF Contract!Next
  <1>4. QED
    BY <1>2, <1>3 DEF Outcome

\* Every step of the proxy is a step of the contract or a stutter.
LEMMA NextImplements == BreakerInv /\ [Next]_vars => [Contract!Next]_(Contract!vars)
  <1> SUFFICES ASSUME BreakerInv, [Next]_vars
               PROVE  Contract!Next \/ UNCHANGED <<WindowMode, quiet, admitted, Reading, Upstream>>
    BY DEF Contract!vars
  <1>1. ASSUME UNCHANGED vars
        PROVE  UNCHANGED <<WindowMode, quiet, admitted, Reading, Upstream>>
    BY <1>1 DEF vars, history, WindowMode, Reading, Upstream
  <1>2. CASE Tick
    <2>1. UNCHANGED <<WindowMode, Reading, Upstream>>
      BY <1>2 DEF Tick, WindowMode, Reading, Upstream
    <2>2. QED
      BY <1>2, <2>1 DEF Tick, BreakerInv, TypeOK, Contract!Next, Contract!Tick
  <1>3. ASSUME NEW r \in Requests, Refuse(r)
        PROVE  UNCHANGED vars
    BY <1>3 DEF Refuse
  <1>4. QED
    BY <1>1, <1>2, <1>3, AdmitImplements, BodyImplements, OutcomeImplements DEF Next

\* The permissions of the proxy are those of RecoveryWindow: they stop after a
\* failure that trips the circuit and come back one window at a time, each after
\* RecoveryTimeout without a failure.  A request with a permission may still be sent
\* while the circuit is open (RecoveryWindow!Send has no mode), but no other may.
THEOREM Implements == Spec => ImplementsContract
  <1>1. Init => Contract!Init
    BY DEF Init, Contract!Init, WindowMode, Reading, Upstream
  <1>2. QED
    BY <1>1, NextImplements, Invariance, PTL DEF Spec, ImplementsContract, Contract!Spec

-----------------------------------------------------------------------------
(* The window that never ends, which a run finds (MCCircuitBreaker): how    *)
(* the proxy gets there, and that it stays.                                *)

\* No step of the proxy, of any client, ends a stuck window.
LEMMA StuckStays == Stuck /\ [Next]_vars => Stuck'
  <1> SUFFICES ASSUME Stuck, [Next]_vars PROVE Stuck'
    OBVIOUS
  <1>1. CASE UNCHANGED vars
    BY <1>1 DEF Stuck, vars, ctx
  <1>2. CASE Tick
    BY <1>2 DEF Stuck, Tick
  <1>3. ASSUME NEW r \in Requests, Admit(r)
        PROVE  FALSE
    BY <1>3 DEF Stuck, Admit, ClosedTry, OpenTry, HalfOpenTry
  <1>4. ASSUME NEW r \in Requests, Refuse(r)
        PROVE  Stuck'
    BY <1>4 DEF Stuck, Refuse, vars, ctx
  <1>5. ASSUME NEW r \in Requests, BodyRead(r) \/ BodyRejected(r) \/ Outcome(r)
        PROVE  FALSE
    BY <1>5 DEF Stuck, BodyRead, BodyRejected, Outcome, ServiceAnswered, ServiceFailed
  <1>6. QED
    BY <1>1, <1>2, <1>3, <1>4, <1>5 DEF Next

\* The half-open window of a proxy that is stuck is never left again: nothing but
\* a new process of the breaker helps.
THEOREM StuckForGood == Spec => [](Stuck => []Stuck)
  BY StuckStays, PTL DEF Spec

\* And it takes a request whose body could not be read (app.py:46), as the last one
\* on its way: every other order of permissions, late answers, failures and
\* time-outs leaves either quota or somebody who will report.
THEOREM OnlyUnreadStick == Spec => [][Stuck' => Stuck \/ \E r \in Requests : BodyRejected(r)]_vars
  <1>1. ASSUME BreakerInv, Next, Stuck', ~Stuck
        PROVE  \E r \in Requests : BodyRejected(r)
    <2>1. CASE Tick
      BY <1>1, <2>1 DEF Stuck, Tick
    <2>2. ASSUME NEW r \in Requests, Admit(r) \/ BodyRead(r)
          PROVE  FALSE
      <3>1. req'[r] # "idle"
        BY <1>1, <2>2 DEF Admit, BodyRead, BreakerInv, TypeOK
      <3>2. QED
        BY <1>1, <3>1 DEF Stuck
    <2>3. ASSUME NEW r \in Requests, Refuse(r)
          PROVE  FALSE
      BY <1>1, <2>3 DEF Stuck, Refuse, vars, ctx
    <2>4. ASSUME NEW r \in Requests, Outcome(r)
          PROVE  FALSE
      <3>1. cbState' # "half_open"
        BY <1>1, <2>4
        DEF Outcome, ServiceAnswered, ServiceFailed, OnServiceSuccess, OnServiceFailure,
            ClosedOnSuccess, Recover, ClosedCountFailure, ClosedTrip, OpenOnFailure,
            HalfOpenOnFailure
      <3>2. QED
        BY <1>1, <3>1 DEF Stuck
    <2>5. QED
      BY <1>1, <2>1, <2>2, <2>3, <2>4 DEF Next
  <1>2. BreakerInv /\ [Next]_vars
          => [Stuck' => Stuck \/ \E r \in Requests : BodyRejected(r)]_vars
    BY <1>1
  <1>3. QED
    BY <1>2, Invariance, PTL DEF Spec

-----------------------------------------------------------------------------
\* A step of the composition is a step of the proxy, or none of it.
LEMMA StepOfBreaker == [CheckNext]_allVars => [Next]_vars
  <1> SUFFICES ASSUME [CheckNext]_allVars PROVE Next \/ UNCHANGED vars
    OBVIOUS
  <1>1. CASE UNCHANGED allVars
    BY <1>1 DEF allVars
  <1>2. CASE Second
    BY <1>2 DEF Second, Next
  <1>3. ASSUME NEW c \in Checks, Begin(c) \/ TokenDies(c) \/ AttemptFails(c) \/ AttemptAbandoned(c)
        PROVE  UNCHANGED vars
    BY <1>3 DEF Begin, TokenDies, AttemptFails, AttemptAbandoned
  <1>4. ASSUME NEW c \in Checks, NEW r \in Requests, Attempt(c, r)
        PROVE  Next
    BY <1>4 DEF Attempt, Next
  <1>5. ASSUME NEW r \in Requests, ForeignIn(r) \/ Body(r) \/ RequestEnds(r)
        PROVE  Next
    BY <1>5 DEF ForeignIn, Body, RequestEnds, CheckEndsAtService, ForeignOut, TooMany,
                TokenChecked, CheckFails, Next, Outcome
  <1>6. QED
    BY <1>1, <1>2, <1>3, <1>4, <1>5 DEF CheckNext, CheckMoves

\* With fast_api as a client that retries and gives up, the proxy still behaves
\* as CircuitBreaker says.
THEOREM BreakerInside == CheckSpec => Spec
  BY StepOfBreaker, PTL DEF CheckSpec, CheckInit, Spec

\* So the coherence, the quota, the quiet period and the count of the streak
\* hold whatever the checks retry or abandon.
THEOREM BreakerHolds == CheckSpec => []BreakerInv
  BY BreakerInside, Invariance, PTL

\* And permissions are given, used and reported on as RecoveryWindow says, with
\* fast_api and the other clients before the proxy.
THEOREM ContractInside == CheckSpec => ImplementsContract
  BY BreakerInside, Implements

-----------------------------------------------------------------------------
LEMMA InitCheckInv == CheckInit => CheckInv
  <1> SUFFICES ASSUME CheckInit PROVE CheckInv
    OBVIOUS
  <1>1. CheckTypeOK
    BY SettingsAssumption, TriesAssumption DEF CheckInit, CheckTypeOK, Active
  <1>2. Linked /\ AcceptedTokenWasLive
    BY DEF CheckInit, Linked, AcceptedTokenWasLive
  <1>3. AttemptsInProxy
    <2> SUFFICES ASSUME NEW c \in Checks
                 PROVE  /\ Cardinality(InProxy(c)) <= tries[c]
                        /\ check[c] = "waiting" <=> asked[c] \in InProxy(c)
      BY DEF AttemptsInProxy
    <2>1. InProxy(c) = {}
      BY NameAssumption DEF InProxy, CheckInit
    <2>2. QED
      BY <2>1, FS_EmptySet DEF CheckInit
  <1>4. QED
    BY <1>1, <1>2, <1>3 DEF CheckInv

\* Nothing of CheckInv but the idle requests depends on the proxy's own state.
LEMMA SameTables ==
  ASSUME CheckInv, UNCHANGED <<check, tries, asked, token, owner>>,
         blamed' \in SUBSET Checks, causes' \in 0 .. FailureThreshold,
         \A r \in Requests : req'[r] = "idle" => owner[r] = Nobody
  PROVE  CheckInv'
  BY DEF CheckInv, CheckTypeOK, Linked, AttemptsInProxy, InProxy, AcceptedTokenWasLive

\* The set of a check's requests is finite, so its size is a number.
LEMMA ProxySize ==
  ASSUME NEW c
  PROVE  IsFiniteSet(InProxy(c)) /\ Cardinality(InProxy(c)) \in Nat
  BY TriesAssumption, FS_Subset, FS_CardinalityType DEF InProxy

\* The answer of r goes to its owner or, when the owner gave it up, to nobody.
LEMMA DeliverToOwner ==
  ASSUME CheckInv, NEW r \in Requests, owner[r] \in Checks, NEW v, Deliver(r, v)
  PROVE  IF asked[owner[r]] = r
           THEN /\ asked' = [asked EXCEPT ![owner[r]] = Nothing]
                /\ check' = [check EXCEPT ![owner[r]] = v]
           ELSE UNCHANGED <<check, asked>>
  <1>1. ASSUME NEW c \in Checks, asked[c] = r PROVE c = owner[r]
    BY <1>1, NameAssumption DEF CheckInv, Linked
  <1>2. CASE asked[owner[r]] = r
    <2>1. (CHOOSE c \in Checks : asked[c] = r) = owner[r]
      BY <1>1, <1>2
    <2>2. QED
      BY <1>2, <2>1 DEF Deliver
  <1>3. CASE asked[owner[r]] # r
    BY <1>1, <1>3 DEF Deliver
  <1>4. QED
    BY <1>2, <1>3

\* A request that leaves the proxy keeps CheckInv, wherever its answer goes.
LEMMA LeaveKeepsInv ==
  ASSUME CheckInv, TypeOK, NEW r \in Requests, owner[r] \in Checks,
         NEW v \in {"sending", "accepted", "denied", "unavailable"}, Deliver(r, v), Leave(r),
         v = "sending" => tries[owner[r]] < MaxTries,
         v = "accepted" => token[owner[r]] # "dead",
         req' = [req EXCEPT ![r] = "idle"],
         blamed' \in SUBSET Checks, causes' \in 0 .. FailureThreshold
  PROVE  CheckInv'
  <1> USE DEF CheckInv, Leave
  <1>1. IF asked[owner[r]] = r
           THEN /\ asked' = [asked EXCEPT ![owner[r]] = Nothing]
                /\ check' = [check EXCEPT ![owner[r]] = v]
           ELSE UNCHANGED <<check, asked>>
    BY DeliverToOwner
  <1>2. CheckTypeOK'
    BY <1>1 DEF CheckTypeOK, Active
  <1>3. Linked'
    BY <1>1, NameAssumption DEF Linked, CheckTypeOK, TypeOK
  <1>4. ASSUME NEW c \in Checks
        PROVE  Cardinality(InProxy(c)') <= tries'[c]
    <2>1. InProxy(c)' \subseteq InProxy(c)
      BY NameAssumption DEF InProxy, CheckTypeOK
    <2>2. Cardinality(InProxy(c)') <= Cardinality(InProxy(c))
      BY <2>1, ProxySize, FS_Subset
    <2>3. InProxy(c)' \in SUBSET InProxy(c) /\ Cardinality(InProxy(c)') \in Nat
      BY <2>1, ProxySize, FS_Subset, FS_CardinalityType
    <2>4. QED
      BY <2>2, <2>3, ProxySize DEF AttemptsInProxy, CheckTypeOK
  <1>5. ASSUME NEW c \in Checks
        PROVE  (check'[c] = "waiting") <=> asked'[c] \in InProxy(c)'
    BY <1>3, NameAssumption DEF Linked, InProxy
  <1>6. AcceptedTokenWasLive'
    BY <1>1 DEF AcceptedTokenWasLive, CheckTypeOK
  <1>7. QED
    BY <1>2, <1>3, <1>4, <1>5, <1>6 DEF AttemptsInProxy, InProxy

\* An attempt that the breaker lets in is one more request and one more try.
LEMMA AttemptKeepsInv ==
  ASSUME CheckInv, TypeOK, NEW c \in Checks, NEW r \in Requests, Attempt(c, r)
  PROVE  CheckInv'
  <1> USE DEF CheckInv, Attempt
  <1>1. owner[r] = Nobody /\ asked[c] = Nothing /\ tries[c] < MaxTries
    BY DEF Linked, Admit
  <1>2. CheckTypeOK'
    BY <1>1, TriesAssumption DEF CheckTypeOK, Active, blame
  <1>3. Linked'
    BY <1>1, NameAssumption DEF Linked, CheckTypeOK, TypeOK, Admit
  <1>4. ASSUME NEW d \in Checks
        PROVE  Cardinality(InProxy(d)') <= tries'[d]
    <2>1. CASE d = c
      <3>1. InProxy(c)' = InProxy(c) \union {r} /\ r \notin InProxy(c)
        BY <1>1, NameAssumption DEF InProxy, CheckTypeOK
      <3>2. Cardinality(InProxy(c)') = Cardinality(InProxy(c)) + 1
        BY <3>1, ProxySize, FS_AddElement
      <3>3. QED
        BY <2>1, <3>2, ProxySize DEF AttemptsInProxy, CheckTypeOK
    <2>2. CASE d # c
      <3>1. InProxy(d)' = InProxy(d)
        BY <1>1, <2>2, NameAssumption DEF InProxy, CheckTypeOK
      <3>2. QED
        BY <2>2, <3>1 DEF AttemptsInProxy, CheckTypeOK
    <2>3. QED
      BY <2>1, <2>2
  <1>5. ASSUME NEW d \in Checks
        PROVE  (check'[d] = "waiting") <=> asked'[d] \in InProxy(d)'
    BY <1>3, NameAssumption DEF Linked, InProxy
  <1>6. AcceptedTokenWasLive'
    BY DEF AcceptedTokenWasLive, CheckTypeOK
  <1>7. QED
    BY <1>2, <1>3, <1>4, <1>5, <1>6 DEF AttemptsInProxy, InProxy

\* A check that begins has nothing left in the proxy; one that fails or gives
\* up leaves there what it had.
LEMMA CheckStepKeepsInv ==
  ASSUME CheckInv, NEW c \in Checks,
         Begin(c) \/ TokenDies(c) \/ AttemptFails(c) \/ AttemptAbandoned(c)
  PROVE  CheckInv'
  <1> USE DEF CheckInv
  <1>1. \A d \in Checks : InProxy(d)' = InProxy(d)
    BY DEF InProxy, Begin, TokenDies, AttemptFails, AttemptAbandoned
  <1>2. CheckTypeOK'
    BY TriesAssumption DEF CheckTypeOK, Linked, Active, AfterFailure, blame,
       Begin, TokenDies, AttemptFails, AttemptAbandoned
  <1>3. Linked'
    BY TriesAssumption, NameAssumption DEF Linked, CheckTypeOK, Active, AfterFailure, vars,
       Begin, TokenDies, AttemptFails, AttemptAbandoned
  <1>4. ASSUME NEW d \in Checks
        PROVE  Cardinality(InProxy(d)') <= tries'[d]
    <2>1. CASE Begin(c) /\ d = c
      <3>1. InProxy(c) = {}
        BY <2>1 DEF Begin, InProxy
      <3>2. QED
        BY <1>1, <2>1, <3>1, FS_EmptySet DEF Begin, CheckTypeOK
    <2>2. CASE AttemptFails(c) /\ d = c
      BY <1>1, <2>2, ProxySize DEF AttemptFails, AttemptsInProxy, CheckTypeOK
    <2>3. CASE TokenDies(c) \/ AttemptAbandoned(c) \/ d # c
      BY <1>1, <2>3 DEF Begin, TokenDies, AttemptFails, AttemptAbandoned,
                        AttemptsInProxy, CheckTypeOK
    <2>4. QED
      BY <2>1, <2>2, <2>3
  <1>5. ASSUME NEW d \in Checks
        PROVE  (check'[d] = "waiting") <=> asked'[d] \in InProxy(d)'
    BY <1>3, NameAssumption DEF Linked, InProxy
  <1>6. AcceptedTokenWasLive'
    BY DEF AcceptedTokenWasLive, CheckTypeOK, AfterFailure, Active,
       Begin, TokenDies, AttemptFails, AttemptAbandoned
  <1>7. QED
    BY <1>1, <1>2, <1>3, <1>4, <1>5, <1>6 DEF AttemptsInProxy

\* Every step keeps CheckInv.
LEMMA CheckNextKeepsInv == CheckInv /\ TypeOK /\ [CheckNext]_allVars => CheckInv'
  <1> SUFFICES ASSUME CheckInv, TypeOK, [CheckNext]_allVars
               PROVE  CheckInv'
    OBVIOUS
  <1>1. blamed \in SUBSET Checks /\ causes \in 0 .. FailureThreshold
    BY DEF CheckInv, CheckTypeOK
  <1>2. \A r \in Requests : req[r] = "idle" => owner[r] = Nobody
    BY DEF CheckInv, Linked
  <1>3. CASE UNCHANGED allVars
    BY <1>1, <1>2, <1>3, SameTables DEF allVars, vars, checkVars, blame
  <1>4. CASE Second
    BY <1>1, <1>2, <1>4, SameTables DEF Second, Tick, checkVars, blame
  <1>5. ASSUME NEW c \in Checks, NEW r \in Requests, Attempt(c, r)
        PROVE  CheckInv'
    BY <1>5, AttemptKeepsInv
  <1>6. ASSUME NEW r \in Requests, ForeignIn(r) \/ Body(r)
        PROVE  CheckInv'
    <2>1. \A s \in Requests : req'[s] = "idle" => owner[s] = Nobody
      BY <1>2, <1>6 DEF ForeignIn, Body, Admit, Refuse, vars, BodyRead, BodyRejected, TypeOK
    <2>2. QED
      BY <1>1, <1>6, <2>1, SameTables DEF ForeignIn, Body, checkVars, blame
  <1>7. ASSUME NEW r \in Requests, ForeignOut(r)
        PROVE  CheckInv'
    <2>1. \A s \in Requests : req'[s] = "idle" => owner[s] = Nobody
      BY <1>2, <1>7 DEF ForeignOut, ServiceAnswered, ServiceFailed, TypeOK
    <2>2. blamed' \in SUBSET Checks /\ causes' \in 0 .. FailureThreshold
      BY <1>1, <1>7, SettingsAssumption DEF ForeignOut, Praised, Blame
    <2>3. QED
      BY <1>7, <2>1, <2>2, SameTables DEF ForeignOut, checkVars
  <1>8. ASSUME NEW r \in Requests, CheckEndsAtService(r)
        PROVE  CheckInv'
    <2>1. owner[r] \in Checks /\ req' = [req EXCEPT ![r] = "idle"] /\ Leave(r)
      BY <1>8 DEF CheckEndsAtService, TooMany, TokenChecked, CheckFails, ServiceAnswered,
                  ServiceFailed, CheckInv, CheckTypeOK
    <2>2. CASE TooMany(r)
      <3>1. blamed' \in SUBSET Checks /\ causes' \in 0 .. FailureThreshold
        BY <2>2, SettingsAssumption DEF TooMany, Praised
      <3>2. Deliver(r, "denied")
        BY <2>2 DEF TooMany
      <3>3. QED
        BY <2>1, <3>1, <3>2, LeaveKeepsInv
    <2>3. CASE TokenChecked(r)
      <3>1. blamed' \in SUBSET Checks /\ causes' \in 0 .. FailureThreshold
        BY <2>3, SettingsAssumption DEF TokenChecked, Praised
      <3>2. CASE token[owner[r]] = "live"
        <4>1. Deliver(r, "accepted")
          BY <2>3, <3>2 DEF TokenChecked
        <4>2. QED
          BY <2>1, <3>1, <3>2, <4>1, LeaveKeepsInv
      <3>3. CASE token[owner[r]] # "live"
        <4>1. Deliver(r, "denied")
          BY <2>3, <3>3 DEF TokenChecked
        <4>2. QED
          BY <2>1, <3>1, <4>1, LeaveKeepsInv
      <3>4. QED
        BY <3>2, <3>3
    <2>4. CASE CheckFails(r)
      <3>1. blamed' \in SUBSET Checks /\ causes' \in 0 .. FailureThreshold
        BY <1>1, <2>1, <2>4, SettingsAssumption DEF CheckFails, Blame
      <3>2. PICK again \in BOOLEAN :
              Deliver(r, IF again THEN AfterFailure(tries[owner[r]]) ELSE "denied")
        BY <2>4 DEF CheckFails
      <3>3. CASE again /\ tries[owner[r]] < MaxTries
        <4>1. Deliver(r, "sending")
          BY <3>2, <3>3 DEF AfterFailure
        <4>2. QED
          BY <2>1, <3>1, <3>3, <4>1, LeaveKeepsInv
      <3>4. CASE again /\ ~(tries[owner[r]] < MaxTries)
        <4>1. Deliver(r, "unavailable")
          BY <3>2, <3>4 DEF AfterFailure
        <4>2. QED
          BY <2>1, <3>1, <4>1, LeaveKeepsInv
      <3>5. CASE ~again
        <4>1. Deliver(r, "denied")
          BY <3>2, <3>5
        <4>2. QED
          BY <2>1, <3>1, <4>1, LeaveKeepsInv
      <3>6. QED
        BY <3>3, <3>4, <3>5
    <2>5. QED
      BY <1>8, <2>2, <2>3, <2>4 DEF CheckEndsAtService
  <1>9. QED
    BY <1>3, <1>4, <1>5, <1>6, <1>7, <1>8, CheckStepKeepsInv
       DEF CheckNext, CheckMoves, RequestEnds

\* CheckInv holds of every run; the proxy's types come from BreakerHolds.
LEMMA CheckInvariance == CheckSpec => []CheckInv
  <1>1. BreakerInv => TypeOK
    BY DEF BreakerInv
  <1>2. QED
    BY <1>1, InitCheckInv, CheckNextKeepsInv, BreakerHolds, PTL DEF CheckSpec

\* Types of the composition, for any number of checks and tries.
THEOREM CheckTypeCorrect == CheckSpec => []CheckTypeOK
  <1>1. CheckInv => CheckTypeOK
    BY DEF CheckInv
  <1>2. QED
    BY <1>1, CheckInvariance, PTL

\* When the breaker is stuck, no attempt of fast_api reaches the auth service and
\* no token is found good or bad any more, however often it is tried: a check that
\* ends then ends with a 503.
THEOREM StuckLocksOut ==
  CheckSpec =>
    [](Stuck => [][\A c \in Checks : check'[c] \in {check[c], "sending", "unavailable"}]_allVars)
  <1>1. ASSUME Stuck, CheckTypeOK, CheckNext, NEW c \in Checks
        PROVE  check'[c] \in {check[c], "sending", "unavailable"}
    <2>1. ASSUME NEW d \in Checks, Begin(d) \/ TokenDies(d) \/ AttemptFails(d) \/ AttemptAbandoned(d)
          PROVE  check'[c] \in {check[c], "sending", "unavailable"}
      BY <1>1, <2>1
      DEF CheckTypeOK, Begin, TokenDies, AttemptFails, AttemptAbandoned, AfterFailure
    <2>2. ASSUME NEW d \in Checks, NEW r \in Requests, Attempt(d, r)
          PROVE  FALSE
      BY <1>1, <2>2 DEF Stuck, Attempt, Admit, ClosedTry, OpenTry, HalfOpenTry
    <2>3. ASSUME NEW r \in Requests, RequestEnds(r)
          PROVE  FALSE
      BY <1>1, <2>3
      DEF Stuck, RequestEnds, CheckEndsAtService, ForeignOut, TooMany, TokenChecked, CheckFails,
          ServiceAnswered, ServiceFailed
    <2>4. ASSUME NEW r \in Requests, ForeignIn(r) \/ Body(r)
          PROVE  check'[c] \in {check[c], "sending", "unavailable"}
      BY <1>1, <2>4 DEF ForeignIn, Body, checkVars
    <2>5. CASE Second
      BY <1>1, <2>5 DEF Second, checkVars
    <2>6. QED
      BY <1>1, <2>1, <2>2, <2>3, <2>4, <2>5 DEF CheckNext, CheckMoves
  <1>2. Stuck /\ CheckTypeOK /\ [CheckNext]_allVars
          => [\A c \in Checks : check'[c] \in {check[c], "sending", "unavailable"}]_allVars
    BY <1>1
  <1>3. Stuck /\ [CheckNext]_allVars => Stuck'
    BY StuckStays, StepOfBreaker
  <1>4. QED
    BY <1>2, <1>3, CheckTypeCorrect, PTL DEF CheckSpec

\* However the retries, the timeouts and the late answers fall, a check has no
\* more requests in the proxy than attempts, and awaits one of its own.
THEOREM AttemptsBounded == CheckSpec => []AttemptsInProxy
  <1>1. CheckInv => AttemptsInProxy
    BY DEF CheckInv
  <1>2. QED
    BY <1>1, CheckInvariance, PTL

\* No answer to an attempt given up, or to another check's, accepts a token.
THEOREM AcceptedWasLive == CheckSpec => []AcceptedTokenWasLive
  <1>1. CheckInv => AcceptedTokenWasLive
    BY DEF CheckInv
  <1>2. QED
    BY <1>1, CheckInvariance, PTL

-----------------------------------------------------------------------------
(* The streak and its causes.  TripNeedsCauses is not inductive: a check     *)
(* that is blamed adds further failures to the streak without a new cause,   *)
(* so the account of every cause must cover those too (BlameAccounted).      *)

\* The failures to come are pairs of a check and a number: finitely many.
LEMMA SpareFinite ==
  ASSUME BlameAccounted
  PROVE  IsFiniteSet(Spare) /\ Cardinality(Spare) \in Nat
  <1>1. IsFiniteSet(1 .. MaxTries)
    BY TriesAssumption, FS_Interval
  <1>2. IsFiniteSet(blamed \X (1 .. MaxTries))
    BY <1>1, FS_Product DEF BlameAccounted
  <1>3. Spare \subseteq blamed \X (1 .. MaxTries)
    BY DEF Spare
  <1>4. QED
    BY <1>2, <1>3, FS_Subset, FS_CardinalityType

\* A step that leaves the streak alone, and nothing more to come, keeps the account.
LEMMA NothingToCome ==
  ASSUME CheckInv, TypeOK, BlameAccounted, UNCHANGED <<streak, causes>>,
         blamed' \subseteq blamed, Spare' \subseteq Spare
  PROVE  BlameAccounted'
  <1>0. blamed' \in SUBSET blamed /\ Spare' \in SUBSET Spare
    OBVIOUS
  <1>1. IsFiniteSet(blamed')
    BY <1>0, FS_Subset DEF BlameAccounted
  <1>2. Cardinality(Spare') \in Nat /\ Cardinality(Spare') <= Cardinality(Spare)
    BY <1>0, SpareFinite, FS_Subset, FS_CardinalityType
  <1>3. ASSUME causes < FailureThreshold
        PROVE  streak + Cardinality(Spare') <= MaxTries * causes
    <2>1. streak + Cardinality(Spare) <= MaxTries * causes
      BY <1>3 DEF BlameAccounted
    <2>2. streak \in Nat /\ causes \in Nat
      BY SettingsAssumption DEF TypeOK, CheckInv, CheckTypeOK
    <2> DEFINE limit == MaxTries * causes
    <2>3. limit \in Int
      BY <2>2, TriesAssumption
    <2> HIDE DEF limit
    <2>4. streak + Cardinality(Spare') <= limit
      BY <1>2, <2>1, <2>2, <2>3, SpareFinite DEF limit
    <2>5. QED
      BY <2>4 DEF limit
  <1>4. QED
    BY <1>1, <1>3 DEF BlameAccounted

\* An attempt is one more try and one more request: as much may come as before.
LEMMA AttemptKeepsAccount ==
  ASSUME CheckInv, TypeOK, BlameAccounted, NEW c \in Checks, NEW r \in Requests, Attempt(c, r)
  PROVE  BlameAccounted'
  <1>1. tries' = [tries EXCEPT ![c] = @ + 1] /\ blamed' = blamed /\ causes' = causes
        /\ streak' = streak
    BY DEF Attempt, Admit, blame
  <1>2. blamed \in SUBSET Checks /\ tries \in [Checks -> 0 .. MaxTries]
        /\ owner \in [Requests -> Checks \union {Nobody}] /\ owner[r] = Nobody
    BY DEF CheckInv, CheckTypeOK, Linked, Attempt, Admit
  <1>3. InProxy(c)' = InProxy(c) \union {r} /\ r \notin InProxy(c)
    BY <1>2, NameAssumption DEF InProxy, Attempt
  <1>4. Cardinality(InProxy(c)') = Cardinality(InProxy(c)) + 1
    BY <1>3, ProxySize, FS_AddElement
  <1>5. tries'[c] - Cardinality(InProxy(c)') = tries[c] - Cardinality(InProxy(c))
    BY <1>1, <1>2, <1>4, ProxySize
  <1>6. ASSUME NEW d \in Checks, d # c
        PROVE  tries'[d] = tries[d] /\ InProxy(d)' = InProxy(d)
    BY <1>2, <1>6, NameAssumption DEF InProxy, Attempt
  <1>7. \A d \in Checks :
          tries'[d] - Cardinality(InProxy(d)') = tries[d] - Cardinality(InProxy(d))
    BY <1>5, <1>6
  <1>8. Spare' \subseteq Spare
    BY <1>1, <1>2, <1>7 DEF Spare
  <1>9. QED
    BY <1>1, <1>8, NothingToCome

\* A check that begins anew is not blamed; one that fails uncounted by the proxy, or
\* gives an attempt up, has no more to add than before.
LEMMA CheckStepKeepsAccount ==
  ASSUME CheckInv, TypeOK, BlameAccounted, NEW c \in Checks,
         Begin(c) \/ TokenDies(c) \/ AttemptFails(c) \/ AttemptAbandoned(c)
  PROVE  BlameAccounted'
  <1>1. \A d \in Checks : InProxy(d)' = InProxy(d)
    BY DEF InProxy, Begin, TokenDies, AttemptFails, AttemptAbandoned
  <1>2. blamed' \subseteq blamed /\ UNCHANGED <<streak, causes>>
    BY DEF Begin, TokenDies, AttemptFails, AttemptAbandoned, vars, history, blame
  <1>3. tries \in [Checks -> 0 .. MaxTries] /\ blamed \in SUBSET Checks
    BY DEF CheckInv, CheckTypeOK
  <1>4. \A d \in blamed' : tries'[d] \in Nat /\ tries'[d] >= tries[d]
    BY <1>2, <1>3, TriesAssumption DEF Begin, TokenDies, AttemptFails, AttemptAbandoned
  <1>5. \A d \in blamed' :
          tries'[d] - Cardinality(InProxy(d)') >= tries[d] - Cardinality(InProxy(d))
    BY <1>1, <1>2, <1>3, <1>4, ProxySize
  <1>6. Spare' \subseteq Spare
    <2> SUFFICES ASSUME NEW d \in blamed', NEW n \in 1 .. MaxTries,
                        n > tries'[d] - Cardinality(InProxy(d)')
                 PROVE  <<d, n>> \in Spare
      BY DEF Spare
    <2>1. n > tries[d] - Cardinality(InProxy(d))
      BY <1>1, <1>2, <1>3, <1>4, <1>5, ProxySize, TriesAssumption
    <2>2. QED
      BY <1>2, <2>1 DEF Spare
  <1>7. QED
    BY <1>2, <1>6, NothingToCome

\* A success empties the account.
LEMMA PraiseKeepsAccount ==
  ASSUME TypeOK, NEW r \in Requests, ServiceAnswered(r), Praised
  PROVE  BlameAccounted'
  <1>1. Spare' = {} /\ blamed' = {} /\ causes' = 0 /\ streak' = 0
    BY DEF Spare, Praised, ServiceAnswered
  <1>2. MaxTries * 0 = 0
    BY TriesAssumption
  <1>3. QED
    BY <1>1, <1>2, FS_EmptySet DEF BlameAccounted

\* When a request of c leaves, c may add one failure less.
LEMMA LeaveSpends ==
  ASSUME CheckInv, NEW r \in Requests, Leave(r)
  PROVE  \A d \in Checks :
           /\ tries'[d] - Cardinality(InProxy(d)') =
                tries[d] - Cardinality(InProxy(d)) + (IF d = owner[r] THEN 1 ELSE 0)
           /\ tries[d] - Cardinality(InProxy(d)) \in 0 .. MaxTries
           /\ d = owner[r] => tries[d] - Cardinality(InProxy(d)) + 1 \in 1 .. MaxTries
  <1> SUFFICES ASSUME NEW d \in Checks
               PROVE  /\ tries'[d] - Cardinality(InProxy(d)') =
                           tries[d] - Cardinality(InProxy(d)) + (IF d = owner[r] THEN 1 ELSE 0)
                      /\ tries[d] - Cardinality(InProxy(d)) \in 0 .. MaxTries
                      /\ d = owner[r] => tries[d] - Cardinality(InProxy(d)) + 1 \in 1 .. MaxTries
    OBVIOUS
  <1>1. tries' = tries /\ tries[d] \in 0 .. MaxTries /\ owner' = [owner EXCEPT ![r] = Nobody]
        /\ owner \in [Requests -> Checks \union {Nobody}]
    BY DEF Leave, CheckInv, CheckTypeOK
  <1>2. Cardinality(InProxy(d)) \in Nat /\ Cardinality(InProxy(d)) <= tries[d]
    BY ProxySize DEF CheckInv, AttemptsInProxy
  <1>3. CASE d = owner[r]
    <2>1. InProxy(d)' = InProxy(d) \ {r} /\ r \in InProxy(d)
      BY <1>1, <1>3, NameAssumption DEF InProxy
    <2>2. Cardinality(InProxy(d)') = Cardinality(InProxy(d)) - 1
      BY <2>1, ProxySize, FS_RemoveElement
    <2>3. Cardinality(InProxy(d)) # 0
      BY <2>1, ProxySize, FS_EmptySet
    <2>4. QED
      BY <1>1, <1>2, <1>3, <2>2, <2>3, TriesAssumption
  <1>4. CASE d # owner[r]
    <2>1. InProxy(d)' = InProxy(d)
      BY <1>1, <1>4, NameAssumption DEF InProxy
    <2>2. QED
      BY <1>1, <1>2, <1>4, <2>1, TriesAssumption
  <1>5. QED
    BY <1>3, <1>4

\* A failure of a check that is blamed was still to come; of one that is not, it
\* opens an account of MaxTries, and the others of that check may follow.
LEMMA CheckFailsKeepsAccount ==
  ASSUME CheckInv, TypeOK, BlameAccounted, NEW r \in Requests, CheckFails(r)
  PROVE  BlameAccounted'
  <1> DEFINE c == owner[r]
             spent(d) == tries[d] - Cardinality(InProxy(d))
  <1>1. c \in Checks /\ Leave(r) /\ Blame(r) /\ blamed' = blamed \union {c}
        /\ blamed \in SUBSET Checks /\ causes \in 0 .. FailureThreshold
    BY DEF CheckFails, CheckInv, CheckTypeOK, Blame
  <1>2. \A d \in Checks : spent(d)' = spent(d) + (IF d = c THEN 1 ELSE 0)
        /\ spent(d) \in 0 .. MaxTries /\ (d = c => spent(d) + 1 \in 1 .. MaxTries)
    BY <1>1, LeaveSpends
  <1>3. IsFiniteSet(blamed')
    BY <1>1, FS_AddElement DEF BlameAccounted
  <1>4. streak \in Nat /\ streak' \in Nat /\ streak' <= streak + 1
    BY SettingsAssumption DEF TypeOK, CheckFails, ServiceFailed
  <1>5. CASE c \in blamed
    <2>1. blamed' = blamed /\ causes' = causes
      BY <1>1, <1>5 DEF Blame
    <2> DEFINE x == <<c, spent(c) + 1>>
    <2>2. x \in Spare
      BY <1>1, <1>2, <1>5 DEF Spare
    <2>3. Spare' \in SUBSET (Spare \ {x})
      BY <1>1, <1>2, <2>1, TriesAssumption DEF Spare
    <2>4. IsFiniteSet(Spare \ {x}) /\ Cardinality(Spare \ {x}) = Cardinality(Spare) - 1
      BY <2>2, SpareFinite, FS_RemoveElement
    <2>5. Cardinality(Spare') \in Nat /\ Cardinality(Spare') <= Cardinality(Spare) - 1
      BY <2>3, <2>4, FS_Subset, FS_CardinalityType
    <2>6. ASSUME causes < FailureThreshold
          PROVE  streak' + Cardinality(Spare') <= MaxTries * causes
      <3> DEFINE limit == MaxTries * causes
      <3>1. streak + Cardinality(Spare) <= limit /\ limit \in Int
        BY <1>1, <2>6, TriesAssumption, SettingsAssumption DEF BlameAccounted
      <3> HIDE DEF limit
      <3>2. streak' + Cardinality(Spare') <= limit
        BY <1>4, <2>5, <3>1, SpareFinite
      <3>3. QED
        BY <3>2 DEF limit
    <2>7. QED
      BY <1>3, <2>1, <2>6 DEF BlameAccounted
  <1>6. CASE c \notin blamed
    <2> DEFINE further == {c} \X (2 .. MaxTries)
    <2>1. Spare' \in SUBSET (Spare \union further)
      BY <1>1, <1>2, TriesAssumption DEF Spare
    <2>2. IsFiniteSet(further) /\ Cardinality(further) = MaxTries - 1
      <3>1. IsFiniteSet(2 .. MaxTries) /\ Cardinality(2 .. MaxTries) = MaxTries - 1
        BY TriesAssumption, FS_Interval
      <3>2. IsFiniteSet({c}) /\ Cardinality({c}) = 1
        BY FS_Singleton
      <3>3. IsFiniteSet(further) /\ Cardinality(further) = 1 * (MaxTries - 1)
        BY <3>1, <3>2, FS_Product
      <3>4. QED
        BY <3>3, TriesAssumption
    <2>3. /\ IsFiniteSet(Spare \union further)
          /\ Cardinality(Spare \union further) <= Cardinality(Spare) + MaxTries - 1
      <3>1. Cardinality(Spare \cap further) \in Nat
        BY SpareFinite, FS_Intersection, FS_CardinalityType
      <3>2. /\ IsFiniteSet(Spare \union further)
            /\ Cardinality(Spare \union further) =
                 Cardinality(Spare) + Cardinality(further) - Cardinality(Spare \cap further)
        BY <2>2, SpareFinite, FS_Union
      <3>3. QED
        BY <2>2, <3>1, <3>2, SpareFinite, TriesAssumption
    <2>4. Cardinality(Spare') \in Nat /\ Cardinality(Spare') <= Cardinality(Spare) + MaxTries - 1
      <3>1. Cardinality(Spare') \in Nat /\ Cardinality(Spare') <= Cardinality(Spare \union further)
        BY <2>1, <2>3, FS_Subset, FS_CardinalityType
      <3>2. Cardinality(Spare \union further) \in Nat
        BY <2>3, FS_CardinalityType
      <3>3. QED
        BY <2>3, <3>1, <3>2, SpareFinite, TriesAssumption
    <2>5. ASSUME causes' < FailureThreshold
          PROVE  streak' + Cardinality(Spare') <= MaxTries * causes'
      <3>1. causes' = causes + 1 /\ causes < FailureThreshold
        BY <1>1, <1>6, <2>5, SettingsAssumption DEF Blame
      <3> DEFINE limit == MaxTries * causes
      <3>2. streak + Cardinality(Spare) <= limit /\ limit \in Int
        BY <1>1, <3>1, TriesAssumption, SettingsAssumption DEF BlameAccounted
      <3>3. MaxTries * causes' = limit + MaxTries
        BY <1>1, <3>1, TriesAssumption, SettingsAssumption
      <3> HIDE DEF limit
      <3>4. streak' + Cardinality(Spare') <= limit + MaxTries
        BY <1>4, <2>4, <3>2, SpareFinite, TriesAssumption
      <3>5. QED
        BY <3>3, <3>4
    <2>6. QED
      BY <1>3, <2>5 DEF BlameAccounted
  <1>7. QED
    BY <1>5, <1>6

\* Another client's failure is a cause of its own.
LEMMA ForeignFailureKeepsAccount ==
  ASSUME CheckInv, TypeOK, BlameAccounted, NEW r \in Requests, ForeignOut(r), ServiceFailed(r), Blame(r)
  PROVE  BlameAccounted'
  <1>1. owner[r] = Nobody /\ blamed' = blamed /\ UNCHANGED <<tries, owner>>
    BY DEF ForeignOut, Blame, checkVars
  <1>2. Spare' = Spare
    BY <1>1 DEF Spare, InProxy
  <1>3. streak \in Nat /\ streak' \in Nat /\ streak' <= streak + 1
    BY SettingsAssumption DEF TypeOK, ServiceFailed
  <1>4. ASSUME causes' < FailureThreshold
        PROVE  streak' + Cardinality(Spare) <= MaxTries * causes'
    <2>1. Nobody \notin blamed /\ causes \in 0 .. FailureThreshold
      BY NameAssumption DEF CheckInv, CheckTypeOK
    <2>2. causes' = causes + 1 /\ causes < FailureThreshold
      BY <1>1, <1>4, <2>1, SettingsAssumption DEF Blame
    <2> DEFINE limit == MaxTries * causes
    <2>3. streak + Cardinality(Spare) <= limit /\ limit \in Int
      BY <2>1, <2>2, TriesAssumption, SettingsAssumption DEF BlameAccounted
    <2>4. MaxTries * causes' = limit + MaxTries
      BY <2>1, <2>2, TriesAssumption, SettingsAssumption
    <2> HIDE DEF limit
    <2>5. streak' + Cardinality(Spare) <= limit + MaxTries
      BY <1>3, <2>3, SpareFinite, TriesAssumption
    <2>6. QED
      BY <2>4, <2>5
  <1>5. QED
    BY <1>1, <1>2, <1>4 DEF BlameAccounted

LEMMA NextKeepsAccount ==
  CheckInv /\ TypeOK /\ BlameAccounted /\ [CheckNext]_allVars => BlameAccounted'
  <1> SUFFICES ASSUME CheckInv, TypeOK, BlameAccounted, [CheckNext]_allVars
               PROVE  BlameAccounted'
    OBVIOUS
  <1>1. ASSUME UNCHANGED <<streak, causes, blamed, tries, owner>>
        PROVE  BlameAccounted'
    BY <1>1, NothingToCome DEF Spare, InProxy
  <1>2. CASE UNCHANGED allVars \/ Second
    BY <1>1, <1>2 DEF allVars, vars, history, checkVars, blame, Second, Tick
  <1>3. ASSUME NEW r \in Requests, ForeignIn(r) \/ Body(r)
        PROVE  BlameAccounted'
    BY <1>1, <1>3 DEF ForeignIn, Body, Admit, Refuse, BodyRead, BodyRejected, vars, history,
                      checkVars, blame
  <1>4. ASSUME NEW r \in Requests, RequestEnds(r)
        PROVE  BlameAccounted'
    <2>1. CASE TooMany(r) \/ TokenChecked(r)
      BY <2>1, PraiseKeepsAccount DEF TooMany, TokenChecked
    <2>2. CASE CheckFails(r)
      BY <2>2, CheckFailsKeepsAccount
    <2>3. CASE ForeignOut(r)
      BY <2>3, PraiseKeepsAccount, ForeignFailureKeepsAccount DEF ForeignOut
    <2>4. QED
      BY <1>4, <2>1, <2>2, <2>3 DEF RequestEnds, CheckEndsAtService
  <1>5. QED
    BY <1>2, <1>3, <1>4, AttemptKeepsAccount, CheckStepKeepsAccount DEF CheckNext, CheckMoves

\* The account holds of every run, for any number of checks, requests and tries.
LEMMA AccountInvariance == CheckSpec => []BlameAccounted
  <1>1. CheckInit => BlameAccounted
    <2> SUFFICES ASSUME CheckInit PROVE BlameAccounted
      OBVIOUS
    <2>1. Spare = {} /\ streak = 0 /\ causes = 0 /\ blamed = {}
      BY DEF CheckInit, Init, Spare
    <2>2. MaxTries * 0 = 0
      BY TriesAssumption
    <2>3. QED
      BY <2>1, <2>2, FS_EmptySet DEF BlameAccounted
  <1>2. BreakerInv => TypeOK
    BY DEF BreakerInv
  <1>3. QED
    BY <1>1, <1>2, NextKeepsAccount, CheckInvariance, BreakerHolds, PTL DEF CheckSpec

\* The retries of one check add MaxTries failures at most to the streak that trips the
\* circuit (auth.py, backoff): it takes FailureThreshold / MaxTries causes, whatever
\* the attempts given up that fail late.
THEOREM TripIsShared == CheckSpec => []TripNeedsCauses
  <1>1. BlameAccounted /\ TypeOK /\ CheckInv => TripNeedsCauses
    <2> SUFFICES ASSUME BlameAccounted, TypeOK, CheckInv PROVE streak <= MaxTries * causes
      BY DEF TripNeedsCauses
    <2>1. streak \in 0 .. FailureThreshold /\ causes \in 0 .. FailureThreshold
      BY DEF TypeOK, CheckInv, CheckTypeOK
    <2> DEFINE limit == MaxTries * causes
    <2>2. limit \in Int
      BY <2>1, TriesAssumption, SettingsAssumption
    <2>3. CASE causes < FailureThreshold
      <3>1. streak + Cardinality(Spare) <= limit
        BY <2>3 DEF BlameAccounted
      <3> HIDE DEF limit
      <3>2. streak <= limit
        BY <2>1, <2>2, <3>1, SpareFinite, SettingsAssumption
      <3>3. QED
        BY <3>2 DEF limit
    <2>4. CASE causes = FailureThreshold
      <3>1. FailureThreshold <= MaxTries * FailureThreshold
        BY TriesAssumption, SettingsAssumption
      <3>2. QED
        BY <2>1, <2>4, <3>1, TriesAssumption, SettingsAssumption
    <2>5. QED
      BY <2>1, <2>3, <2>4, SettingsAssumption
  <1>2. BreakerInv => TypeOK
    BY DEF BreakerInv
  <1>3. QED
    BY <1>1, <1>2, AccountInvariance, CheckInvariance, BreakerHolds, PTL

=============================================================================
