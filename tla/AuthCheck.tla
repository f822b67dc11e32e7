------------------------------ MODULE AuthCheck ------------------------------
(***************************************************************************)
(* How fast_api asks the auth service about a token: authenticate_token    *)
(* (fast_api/services/auth.py) calls through the circuit breaker, retries   *)
(* with backoff what looks like a failure, and waits for each attempt less  *)
(* long than the breaker does, so that an attempt given up lives on in the   *)
(* breaker.                                                                 *)
(*                                                                         *)
(* CircuitBreaker is the proxy.  A request that no check owns is another    *)
(* client's: nginx and the admin panel use the same proxy.  The auth        *)
(* service may answer 429 at any time: its limiter (RateLimiter) counts all  *)
(* checks, and whatever else comes without x-real-ip, as one address.        *)
(***************************************************************************)
EXTENDS CircuitBreaker, FiniteSets

CONSTANTS
  Checks,  \* the checks that can be under way at a time
  MaxTries \* Settings.auth_service_max_retries, in attempts all told

\* fast_api/core/config.py: Field(ge=1); a process holds finitely many requests.
ASSUME TriesAssumption == MaxTries \in Nat \ {0} /\ IsFiniteSet(Requests)

VARIABLES
  check,  \* where each check is, or how it ended
  tries,  \* the attempts it has begun
  asked,  \* the request whose answer it awaits
  token,  \* its token: live, died since the check began, or dead before
  owner,  \* the check that sent each request of the proxy
  \* History, read by the properties only:
  blamed, \* checks with an attempt among the failures of the streak
  causes  \* checks and foreign requests with a failure in the streak

checkVars == <<check, tries, asked, token>>
blame == <<blamed, causes>>
allVars == <<vars, checkVars, owner, blame>>

Nobody == "nobody"   \* no check
Nothing == "nothing" \* no request
ASSUME NameAssumption == Nobody \notin Checks /\ Nothing \notin Requests

Active == {"sending", "waiting"}

CheckInit ==
  /\ Init
  /\ check = [c \in Checks |-> "unavailable"]
  /\ tries = [c \in Checks |-> 0]
  /\ asked = [c \in Checks |-> Nothing]
  /\ token = [c \in Checks |-> "dead"]
  /\ owner = [r \in Requests |-> Nobody]
  /\ blamed = {}
  /\ causes = 0

-----------------------------------------------------------------------------
(* authenticate_token and the retries around _call_auth_service.           *)

\* A name of Checks stands for the next check once nothing of the last one is
\* left in the proxy.
Begin(c) ==
  /\ check[c] \notin Active
  /\ \A r \in Requests : owner[r] # c
  /\ \E t \in {"live", "dead"} : token' = [token EXCEPT ![c] = t]
  /\ check' = [check EXCEPT ![c] = "sending"]
  /\ tries' = [tries EXCEPT ![c] = 0]
  /\ blamed' = blamed \ {c}
  /\ UNCHANGED <<vars, asked, owner, causes>>

\* The token expires or its session is closed.
TokenDies(c) ==
  /\ check[c] \in Active /\ token[c] = "live"
  /\ token' = [token EXCEPT ![c] = "died"]
  /\ UNCHANGED <<vars, check, tries, asked, owner, blame>>

AfterFailureOnceMore(n) == IF n <= MaxTries THEN "sending" ELSE "unavailable"

\* backoff: the check pauses and tries again, or gives up with a 503.
AfterFailure(n) == IF n < MaxTries THEN "sending" ELSE "unavailable"

\* The breaker lets the attempt in and the check waits for it.
Attempt(c, r) ==
  /\ check[c] = "sending"
  /\ Admit(r)
  /\ check' = [check EXCEPT ![c] = "waiting"]
  /\ tries' = [tries EXCEPT ![c] = @ + 1]
  /\ asked' = [asked EXCEPT ![c] = r]
  /\ owner' = [owner EXCEPT ![r] = c]
  /\ UNCHANGED <<token, blame>>

AttemptFailsUncounted(c) ==
  /\ check[c] = "sending"
  /\ UNCHANGED allVars

\* The breaker refuses with its 503, or the proxy cannot be reached.
AttemptFails(c) ==
  /\ check[c] = "sending"
  /\ tries' = [tries EXCEPT ![c] = @ + 1]
  /\ check' = [check EXCEPT ![c] = AfterFailure(tries[c] + 1)]
  /\ UNCHANGED <<vars, asked, token, owner, blame>>

AttemptAbandonedStillListening(c) ==
  /\ check[c] = "waiting"
  /\ check' = [check EXCEPT ![c] = AfterFailure(tries[c])]
  /\ UNCHANGED <<vars, tries, asked, token, owner, blame>>

\* auth_service_request_timeout_seconds, or a broken connection: the request
\* is left in the proxy, where nobody waits for it any more.
AttemptAbandoned(c) ==
  /\ check[c] = "waiting"
  /\ asked' = [asked EXCEPT ![c] = Nothing]
  /\ check' = [check EXCEPT ![c] = AfterFailure(tries[c])]
  /\ UNCHANGED <<vars, tries, token, owner, blame>>

\* What request r ends with reaches the check that awaits it, if one does.
Deliver(r, verdict) ==
  IF \E c \in Checks : asked[c] = r
    THEN LET c == CHOOSE c \in Checks : asked[c] = r IN
         /\ asked' = [asked EXCEPT ![c] = Nothing]
         /\ check' = [check EXCEPT ![c] = verdict]
    ELSE UNCHANGED <<check, asked>>

Leave(r) ==
  /\ owner' = [owner EXCEPT ![r] = Nobody]
  /\ UNCHANGED <<tries, token>>

-----------------------------------------------------------------------------
(* What the auth service makes of the request of a check.                  *)

\* History: a success ends the streak, a failure has one more cause, or not.
Praised == blamed' = {} /\ causes' = 0

TooManyTakenForSuccess(r) ==
  /\ owner[r] # Nobody
  /\ ServiceAnswered(r)
  /\ Deliver(r, "accepted")
  /\ Leave(r) /\ Praised

\* 429: an answer below 500, so a success to the breaker and a 401 to the user.
TooMany(r) ==
  /\ owner[r] # Nobody
  /\ ServiceAnswered(r)
  /\ Deliver(r, "denied")
  /\ Leave(r) /\ Praised

\* 200 when the token is good, 401 when it is not.
TokenChecked(r) ==
  /\ owner[r] # Nobody
  /\ ServiceAnswered(r)
  /\ Deliver(r, IF token[owner[r]] = "live" THEN "accepted" ELSE "denied")
  /\ Leave(r) /\ Praised

Blame(r) ==
  /\ causes' = IF owner[r] \in blamed \/ causes = FailureThreshold THEN causes ELSE causes + 1
  /\ blamed' = IF owner[r] = Nobody THEN blamed ELSE blamed \union {owner[r]}

\* A 502, 503 or 504, the proxy's own timeout included, is tried again; a 500
\* is a denial like any other status.
CheckFails(r) ==
  /\ owner[r] # Nobody
  /\ ServiceFailed(r)
  /\ \E again \in BOOLEAN :
       Deliver(r, IF again THEN AfterFailure(tries[owner[r]]) ELSE "denied")
  /\ Leave(r) /\ Blame(r)

CheckEndsAtService(r) == TooMany(r) \/ TokenChecked(r) \/ CheckFails(r)

-----------------------------------------------------------------------------
(* Requests of others, and time.                                           *)

ForeignIn(r) ==
  /\ Admit(r) \/ Refuse(r)
  /\ UNCHANGED <<checkVars, owner, blame>>

\* A check sends no body, which is read at once and cannot be refused.
Body(r) ==
  /\ BodyRead(r) \/ (owner[r] = Nobody /\ BodyRejected(r))
  /\ UNCHANGED <<checkVars, owner, blame>>

ForeignOut(r) ==
  /\ owner[r] = Nobody
  /\ \/ ServiceAnswered(r) /\ Praised
     \/ ServiceFailed(r) /\ Blame(r)
  /\ UNCHANGED <<checkVars, owner>>

Second == Tick /\ UNCHANGED <<checkVars, owner, blame>>

RequestEnds(r) == CheckEndsAtService(r) \/ ForeignOut(r)
CheckMoves(c) == AttemptFails(c) \/ AttemptAbandoned(c) \/ \E r \in Requests : Attempt(c, r)

CheckNext ==
  \/ \E c \in Checks : Begin(c) \/ TokenDies(c) \/ CheckMoves(c)
  \/ \E r \in Requests :
       ForeignIn(r) \/ Body(r) \/ RequestEnds(r)
  \/ Second

CheckSpec == CheckInit /\ [][CheckNext]_allVars

\* Every wait of fast_api has a timeout and every pause an end; the proxy has
\* the fairness of CircuitBreaker.
CheckFairSpec ==
  /\ CheckSpec
  /\ \A c \in Checks : WF_allVars(CheckMoves(c))
  /\ \A r \in Requests : WF_allVars(RequestEnds(r))
  /\ WF_allVars(Second)

-----------------------------------------------------------------------------
CheckTypeOK ==
  /\ check \in [Checks -> Active \union {"accepted", "denied", "unavailable"}]
  /\ tries \in [Checks -> 0 .. MaxTries]
  /\ asked \in [Checks -> Requests \union {Nothing}]
  /\ token \in [Checks -> {"live", "died", "dead"}]
  /\ owner \in [Requests -> Checks \union {Nobody}]
  /\ blamed \in SUBSET Checks
  /\ causes \in 0 .. FailureThreshold

InProxy(c) == {r \in Requests : owner[r] = c}

\* What a check leaves in the proxy is bounded by its attempts: when the
\* service hangs, each check holds at most MaxTries requests there until the
\* proxy's own timeout, and waits for one of them at the very most.
AttemptsInProxy ==
  \A c \in Checks :
    /\ Cardinality(InProxy(c)) <= tries[c]
    /\ check[c] = "waiting" <=> asked[c] \in InProxy(c)

\* The retries of one check cannot be told from failures of several clients,
\* but no check adds more than MaxTries to the streak that trips the circuit:
\* it takes FailureThreshold / MaxTries of them.
TripNeedsCauses == streak <= MaxTries * causes

\* Whatever is retried, abandoned or answered late, a check accepts a token
\* only if it was good at some moment since the check began.
AcceptedTokenWasLive ==
  \A c \in Checks : check[c] = "accepted" => token[c] # "dead"

\* A check is answered in the end, with the circuit open, closed or hanging.
CheckEnds == \A c \in Checks : check[c] \in Active ~> check[c] \notin Active

-----------------------------------------------------------------------------
\* The links between the two programs' tables that AttemptsInProxy rests on.
Linked ==
  /\ \A r \in Requests : req[r] = "idle" => owner[r] = Nobody
  /\ \A c \in Checks :
       /\ check[c] = "sending" => tries[c] < MaxTries
       /\ check[c] = "waiting" => asked[c] \in Requests /\ owner[asked[c]] = c
       /\ check[c] # "waiting" => asked[c] = Nothing

CheckInv == CheckTypeOK /\ Linked /\ AttemptsInProxy /\ AcceptedTokenWasLive

\* The failures that the blamed checks may still add to the streak: one for every
\* attempt of theirs whose outcome the proxy has not reported.
Spare ==
  {x \in blamed \X (1 .. MaxTries) : x[2] > tries[x[1]] - Cardinality(InProxy(x[1]))}

\* Why TripNeedsCauses: up to the threshold, each cause has MaxTries failures to its
\* account, and what the streak has not used of them covers what may still come.
BlameAccounted ==
  /\ IsFiniteSet(blamed)
  /\ causes < FailureThreshold => streak + Cardinality(Spare) <= MaxTries * causes

=============================================================================
