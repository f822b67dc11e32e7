----------------------------- MODULE MCAdminFilms -----------------------------
(***************************************************************************)
(* AdminFilms with two tabs, three films on two pages, and one film that    *)
(* the ETL loads while the tabs are at work: it moves the others down, a    *)
(* deletion moves them up.                                                  *)
(***************************************************************************)
EXTENDS AdminFilms, TLC

\* No property and no action tells the tabs apart.
TabSymmetry == Permutations(Tabs)

=============================================================================
