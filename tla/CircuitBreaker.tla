--------------------------- MODULE CircuitBreaker ---------------------------
(***************************************************************************)
(* The proxy of auth-circuit-breaker: the state objects of circuit.py and  *)
(* the handler of app.py that consults them around two awaits.  One worker *)
(* runs one event loop; the asyncio lock of CircuitBreaker holds no await, *)
(* so asking for permission and reporting an outcome are atomic, while     *)
(* everything between them interleaves.  A definition named for the fault   *)
(* it carries (ClosedTryWhileOpen, OpenTryIgnoringDeadline, ...) is a broken *)
(* variant of the one below it, used to show that the properties notice.   *)
(*                                                                         *)
(* time.monotonic() is a count of ticks; open_until_monotonic is kept as   *)
(* the time that is left until it (open_for), which is all the code ever   *)
(* compares.  A request to the auth service may take any time to be        *)
(* answered: request_timeout_seconds only makes it certain that it is.     *)
(***************************************************************************)
EXTENDS Integers

CONSTANTS
  Requests,         \* the requests that can be in the proxy at a time
  FailureThreshold, \* Settings.failure_threshold
  RecoveryTimeout,  \* Settings.recovery_timeout_seconds, in ticks
  HalfOpenProbes    \* Settings.half_open_probes

\* config.py: Field(..., ge=1) on every one of them.
ASSUME SettingsAssumption ==
  /\ FailureThreshold \in Nat \ {0}
  /\ RecoveryTimeout \in Nat \ {0}
  /\ HalfOpenProbes \in Nat \ {0}

VARIABLES
  cbState,              \* CircuitBreaker._state
  consecutive_failures, \* CircuitContext
  open_for,             \* CircuitContext.open_until_monotonic - now, from below at 0
  half_open_remaining,  \* CircuitContext
  req,                  \* where the handler of each request is suspended
  \* History, read by the properties only:
  streak,               \* failures reported since the last success, up to the threshold
  quiet,                \* ticks since the last failure reported, up to RecoveryTimeout
  admitted              \* requests admitted in the present half-open window

ctx == <<consecutive_failures, open_for, half_open_remaining>>
history == <<streak, quiet, admitted>>
vars == <<cbState, ctx, req, history>>

NoDeadline == -1   \* open_until_monotonic is None

-----------------------------------------------------------------------------
Init ==
  /\ cbState = "closed"
  /\ consecutive_failures = 0
  /\ open_for = NoDeadline
  /\ half_open_remaining = 0
  /\ req = [r \in Requests |-> "idle"]
  /\ streak = 0
  /\ quiet = RecoveryTimeout
  /\ admitted = 0

-----------------------------------------------------------------------------
(* try_get_permission_to_request of the three states.                      *)

ClosedTryWhileOpen == cbState \in {"closed", "open"} /\ UNCHANGED <<cbState, ctx>>
ClosedTry == cbState = "closed" /\ UNCHANGED <<cbState, ctx>>

OpenTryIgnoringDeadline ==
  /\ cbState = "open"
  /\ cbState' = "half_open"
  /\ half_open_remaining' = HalfOpenProbes - 1
  /\ UNCHANGED <<consecutive_failures, open_for>>

\* The permission that OpenState grants is asked again of HalfOpenState, which
\* spends the first probe of the quota just refilled.
OpenTry ==
  /\ cbState = "open" /\ open_for = 0
  /\ cbState' = "half_open"
  /\ half_open_remaining' = HalfOpenProbes - 1
  /\ UNCHANGED <<consecutive_failures, open_for>>

HalfOpenTry ==
  /\ cbState = "half_open" /\ half_open_remaining > 0
  /\ half_open_remaining' = half_open_remaining - 1
  /\ UNCHANGED <<cbState, consecutive_failures, open_for>>

Refused ==
  \/ cbState = "open" /\ open_for > 0
  \/ cbState = "half_open" /\ half_open_remaining <= 0

-----------------------------------------------------------------------------
(* on_success and on_failure of the three states.                          *)

ClosedOnSuccess ==
  /\ cbState = "closed"
  /\ consecutive_failures' = 0
  /\ UNCHANGED <<cbState, open_for, half_open_remaining>>

RecoverKeepingQuota ==
  /\ cbState \in {"open", "half_open"}
  /\ cbState' = "closed"
  /\ consecutive_failures' = 0
  /\ open_for' = NoDeadline
  /\ UNCHANGED half_open_remaining

\* OpenState.on_success and HalfOpenState.on_success are the same code.
Recover ==
  /\ cbState \in {"open", "half_open"}
  /\ cbState' = "closed"
  /\ consecutive_failures' = 0
  /\ open_for' = NoDeadline
  /\ half_open_remaining' = 0

ClosedCountFailure ==
  /\ cbState = "closed"
  /\ consecutive_failures + 1 < FailureThreshold
  /\ consecutive_failures' = consecutive_failures + 1
  /\ UNCHANGED <<cbState, open_for, half_open_remaining>>

ClosedTrip ==
  /\ cbState = "closed"
  /\ consecutive_failures + 1 >= FailureThreshold
  /\ cbState' = "open"
  /\ consecutive_failures' = 0
  /\ open_for' = RecoveryTimeout
  /\ UNCHANGED half_open_remaining

\* A straggler that fails while the circuit is open pushes the deadline back.
OpenOnFailure ==
  /\ cbState = "open"
  /\ open_for' = RecoveryTimeout
  /\ UNCHANGED <<cbState, consecutive_failures, half_open_remaining>>

HalfOpenOnFailureStaying ==
  /\ cbState = "half_open"
  /\ open_for' = RecoveryTimeout
  /\ UNCHANGED <<cbState, consecutive_failures, half_open_remaining>>

HalfOpenOnFailure ==
  /\ cbState = "half_open"
  /\ cbState' = "open"
  /\ open_for' = RecoveryTimeout
  /\ half_open_remaining' = 0
  /\ consecutive_failures' = 0

OnServiceSuccess == ClosedOnSuccess \/ Recover
OnServiceFailure ==
  ClosedCountFailure \/ ClosedTrip \/ OpenOnFailure \/ HalfOpenOnFailure

-----------------------------------------------------------------------------
(* proxy_handler.  A handler is "reading" between the permission and the   *)
(* end of `await request.read()', "upstream" until the auth service        *)
(* answered or the client session gave up.                                 *)

Admit(r) ==
  /\ req[r] = "idle"
  /\ ClosedTry \/ OpenTry \/ HalfOpenTry
  /\ req' = [req EXCEPT ![r] = "reading"]
  /\ admitted' = IF cbState' = "closed" THEN 0 ELSE admitted + 1
  /\ UNCHANGED <<streak, quiet>>

\* The client has its 503 at once; nothing of the breaker changes.
Refuse(r) == req[r] = "idle" /\ Refused /\ UNCHANGED vars

BodyRead(r) ==
  /\ req[r] = "reading"
  /\ req' = [req EXCEPT ![r] = "upstream"]
  /\ UNCHANGED <<cbState, ctx, history>>

\* request.read() raises: the body is over client_max_size, or the client is
\* gone.  The except clause names ClientError and TimeoutError only, so the
\* breaker is told nothing.
BodyRejected(r) ==
  /\ req[r] = "reading"
  /\ req' = [req EXCEPT ![r] = "idle"]
  /\ UNCHANGED <<cbState, ctx, history>>

\* An answer with a status below 500.
ServiceAnswered(r) ==
  /\ req[r] = "upstream"
  /\ OnServiceSuccess
  /\ req' = [req EXCEPT ![r] = "idle"]
  /\ streak' = 0
  /\ admitted' = 0
  /\ UNCHANGED quiet

\* A status of 500 or more, a ClientError, or the total timeout.
ServiceFailed(r) ==
  /\ req[r] = "upstream"
  /\ OnServiceFailure
  /\ req' = [req EXCEPT ![r] = "idle"]
  /\ streak' = IF streak < FailureThreshold THEN streak + 1 ELSE streak
  /\ quiet' = 0
  /\ admitted' = 0

Tick ==
  /\ open_for' = IF open_for > 0 THEN open_for - 1 ELSE open_for
  /\ quiet' = IF quiet < RecoveryTimeout THEN quiet + 1 ELSE quiet
  /\ UNCHANGED <<cbState, consecutive_failures, half_open_remaining, req, streak, admitted>>

Outcome(r) == ServiceAnswered(r) \/ ServiceFailed(r)

Next ==
  \/ \E r \in Requests :
       Admit(r) \/ Refuse(r) \/ BodyRead(r) \/ BodyRejected(r) \/ Outcome(r)
  \/ Tick

Spec == Init /\ [][Next]_vars

\* ClientTimeout(total=...) ends every request to the auth service; time passes.
Fairness ==
  /\ \A r \in Requests : WF_vars(Outcome(r))
  /\ WF_vars(Tick)

FairSpec == Spec /\ Fairness

-----------------------------------------------------------------------------
TypeOK ==
  /\ cbState \in {"closed", "open", "half_open"}
  /\ consecutive_failures \in 0 .. FailureThreshold - 1
  /\ open_for \in NoDeadline .. RecoveryTimeout
  /\ half_open_remaining \in 0 .. HalfOpenProbes
  /\ req \in [Requests -> {"idle", "reading", "upstream"}]
  /\ streak \in 0 .. FailureThreshold
  /\ quiet \in 0 .. RecoveryTimeout
  /\ admitted \in 0 .. HalfOpenProbes

\* Every field of CircuitContext that a state does not use is at rest, so no
\* order of late answers lets a count, a quota or a deadline of one state leak
\* into the next (circuit.py resets them by hand, in each state differently).
ContextCoherent ==
  /\ cbState = "closed" => open_for = NoDeadline
  /\ cbState = "open" => open_for >= 0
  /\ cbState = "half_open" => open_for = 0
  /\ cbState # "closed" => consecutive_failures = 0
  /\ cbState # "half_open" => half_open_remaining = 0

\* In a half-open window the requests admitted and the quota left always make
\* up HalfOpenProbes: no more than the quota is permitted in one window,
\* and a window never starts with quota that an earlier one left over.
ProbeQuota ==
  /\ cbState = "half_open" => admitted + half_open_remaining = HalfOpenProbes
  /\ cbState # "half_open" => admitted = 0

\* While the circuit is open the deadline is exactly RecoveryTimeout after the
\* last failure reported by anyone, stragglers included, and a half-open window
\* has seen no failure for that long.
QuietBeforeProbe ==
  /\ cbState = "open" => quiet + open_for = RecoveryTimeout
  /\ cbState = "half_open" => quiet = RecoveryTimeout

\* The closed circuit counts exactly the failures since the last success, so
\* it trips only after FailureThreshold of them in a row, whatever the order in
\* which concurrent requests come back.
CountsTheStreak ==
  cbState = "closed" => consecutive_failures = streak /\ streak < FailureThreshold

\* Together they are inductive: what one state of the circuit may rely on is what
\* every step of the others leaves behind (circuit.py, the fields of CircuitContext).
BreakerInv == TypeOK /\ ContextCoherent /\ ProbeQuota /\ QuietBeforeProbe /\ CountsTheStreak

-----------------------------------------------------------------------------
(* The breaker implements RecoveryWindow: the permission that the deadline  *)
(* and the quota decide is the one the contract gives, and what reaches the *)
(* auth service or is reported of it goes back to such a permission.        *)

WindowMode ==
  [closed |-> "serving", open |-> "blocked", half_open |-> "probing"][cbState]

Reading  == {r \in Requests : req[r] = "reading"}
Upstream == {r \in Requests : req[r] = "upstream"}

Contract == INSTANCE RecoveryWindow
              WITH mode <- WindowMode, permitted <- Reading, sent <- Upstream

\* Permissions are given as RecoveryWindow says, in whatever order the bodies of
\* earlier requests arrive and their outcomes are reported: none while the circuit
\* is open, HalfOpenProbes in a window, each used once at the most (circuit.py, the
\* three states).  When a permission is used is not part of it (app.py:47).
ImplementsContract == Contract!Spec

\* A half-open window that has a request on its way to the service is decided:
\* the client timeout ends the request, and any outcome ends the window.
WindowDecided ==
  (cbState = "half_open" /\ \E r \in Requests : req[r] = "upstream")
    ~> cbState # "half_open"

\* Late failures of requests admitted earlier push the deadline of an open
\* circuit back, but only so often: nobody new is admitted before it expires.
DeadlineReached == cbState = "open" ~> (cbState # "open" \/ open_for = 0)

\* A half-open window whose probes are all gone without an outcome: the quota is
\* spent and nobody is left to report one, which is all that would end it
\* (HalfOpenState has no deadline of its own).
Stuck == cbState = "half_open" /\ half_open_remaining = 0 /\ \A r \in Requests : req[r] = "idle"

=============================================================================
