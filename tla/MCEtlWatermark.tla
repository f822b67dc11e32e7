---------------------------- MODULE MCEtlWatermark ----------------------------
(* Two films, a person who plays in both, batches of one. *)
EXTENDS EtlWatermark, TLC

CONSTANTS f1, f2, p1

MCRows == {f1, f2, p1}
MCTable == (f1 :> "film_work") @@ (f2 :> "film_work") @@ (p1 :> "person")
MCLinks == {p1} \X {f1, f2}
MCBatchSize == [t \in Tables |-> 1]

\* "ETL увидит изменение по modified и переиндексирует документ": the ETL will
\* see the change (the soft deletion) by `modified` and reindex the document.
\* database_migrations/001_film_work_is_deleted.sql.
DeletionReindexed == \A f \in Films : f \in changed ~> <<f, f>> \in shows

=============================================================================
