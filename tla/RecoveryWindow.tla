--------------------------- MODULE RecoveryWindow ---------------------------
(***************************************************************************)
(* What the circuit breaker promises about permissions: when it gives one,  *)
(* what a request may do with it, and what an outcome does to the next.     *)
(* There is no counter of failures here, no deadline and no quota left to   *)
(* spend, only how long it has been quiet (no failure reported) and how     *)
(* many permissions were given since the service was last tried again.      *)
(*   serving  - permissions are given without limit;                       *)
(*   blocked  - none is given until it has been quiet for RecoveryTimeout;  *)
(*   probing  - at most HalfOpenProbes are given, and the next outcome      *)
(*              decides.                                                   *)
(* It is not a promise about when the service is left alone: a permission   *)
(* stays good until it is used, so Send is possible in every mode, blocked  *)
(* included.  What is promised of sending is that every request has its own *)
(* permission and uses it once.                                             *)
(* CircuitBreaker implements this module (CircuitBreaker!Contract).        *)
(***************************************************************************)
EXTENDS Integers

CONSTANTS Requests, RecoveryTimeout, HalfOpenProbes

VARIABLES
  mode, quiet, admitted,
  permitted,  \* requests with a permission they have not used yet
  sent        \* requests at the service

vars == <<mode, quiet, admitted, permitted, sent>>

Init ==
  /\ mode = "serving"
  /\ quiet = RecoveryTimeout
  /\ admitted = 0
  /\ permitted = {} /\ sent = {}

Permit(r) ==
  /\ r \notin permitted \cup sent
  /\ permitted' = permitted \cup {r}
  /\ UNCHANGED <<quiet, sent>>

Serve(r) == mode = "serving" /\ Permit(r) /\ UNCHANGED <<mode, admitted>>

\* The first permission after a quiet period opens a probing window.
FirstProbe(r) ==
  /\ mode = "blocked" /\ quiet = RecoveryTimeout
  /\ mode' = "probing" /\ admitted' = 1
  /\ Permit(r)

NextProbe(r) ==
  /\ mode = "probing" /\ admitted < HalfOpenProbes
  /\ admitted' = admitted + 1
  /\ Permit(r)
  /\ UNCHANGED mode

Send(r) ==
  /\ r \in permitted
  /\ permitted' = permitted \ {r} /\ sent' = sent \cup {r}
  /\ UNCHANGED <<mode, quiet, admitted>>

\* A permission that is given up without an outcome.
Lapse(r) ==
  /\ r \in permitted
  /\ permitted' = permitted \ {r}
  /\ UNCHANGED <<mode, quiet, admitted, sent>>

Report(r) == r \in sent /\ sent' = sent \ {r} /\ admitted' = 0 /\ UNCHANGED permitted

\* A failure may leave a serving circuit serving; it always ends a window.
Failure(r) ==
  /\ Report(r)
  /\ quiet' = 0
  /\ mode' \in (IF mode = "serving" THEN {"serving", "blocked"} ELSE {"blocked"})

\* In every mode: also a blocked circuit is closed by the success of a request
\* that was sent with an earlier permission.
Success(r) == Report(r) /\ mode' = "serving" /\ UNCHANGED quiet

Tick ==
  /\ quiet < RecoveryTimeout
  /\ quiet' = quiet + 1
  /\ UNCHANGED <<mode, admitted, permitted, sent>>

Next ==
  \/ \E r \in Requests :
       \/ Serve(r) \/ FirstProbe(r) \/ NextProbe(r)
       \/ Send(r) \/ Lapse(r)
       \/ Failure(r) \/ Success(r)
  \/ Tick

Spec == Init /\ [][Next]_vars

=============================================================================
