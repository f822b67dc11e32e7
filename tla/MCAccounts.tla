----------------------------- MODULE MCAccounts -----------------------------
(***************************************************************************)
(* A superuser, two more accounts at the most, one external user, and two   *)
(* requests at a time.                                                      *)
(***************************************************************************)
EXTENDS Accounts, TLC

Symmetry == Permutations(Handlers)
=============================================================================
