-------------------------- MODULE MCCircuitBreaker --------------------------
(***************************************************************************)
(* What the README of auth-circuit-breaker says of CircuitBreaker beyond   *)
(* the contract.                                                           *)
(***************************************************************************)
EXTENDS CircuitBreaker

\* Every body is read or refused in the end, and clients keep coming.
BusySpec ==
  /\ FairSpec
  /\ \A r \in Requests : WF_vars(BodyRead(r) \/ BodyRejected(r))
  /\ \A r \in Requests : WF_vars(Admit(r))

\* README.md:17 of the proxy: when the probes are used up, requests are refused
\* "until a new recovery cycle".  With clients that keep coming, there is one.
WindowEnds == cbState = "half_open" ~> cbState # "half_open"

\* README.md:16 of the proxy, of the state OPEN: "requests are not sent to the auth
\* service".  The permission is asked for before the body is awaited (app.py:38, 47).
NothingSentWhileOpen == [][\A r \in Requests : BodyRead(r) => cbState # "open"]_vars

=============================================================================
