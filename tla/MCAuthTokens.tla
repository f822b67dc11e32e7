---------------------------- MODULE MCAuthTokens ----------------------------
(***************************************************************************)
(* AuthTokens for TLC.  Two handlers race on one refresh token; three pairs *)
(* are a login and the two it can be exchanged for at once, or a chain of   *)
(* refreshes.                                                               *)
(***************************************************************************)
EXTENDS AuthTokens, TLC

\* No property names a handler, and none is a liveness property.
HandlerSymmetry == Permutations(Handlers)

=============================================================================
