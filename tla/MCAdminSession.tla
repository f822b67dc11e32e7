---------------------------- MODULE MCAdminSession ----------------------------
(* AdminSession with two tabs of one browser.                               *)
EXTENDS AdminSession, TLC

\* No property and no action tells the tabs apart.
TabSymmetry == Permutations(Handlers)

\* Neither AdminNext nor the properties of the run read what AuthTokens remembers of
\* a pair's origin and end; TokensInv does, and is no property of this run.
WithoutOrigins == <<expiry, redis, task, held, adminVars>>

=============================================================================
