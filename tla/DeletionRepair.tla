---------------------------- MODULE DeletionRepair ----------------------------
(***************************************************************************)
(* What the ETL promises of a film that is deleted, said only in terms of   *)
(* the row, the document and whether the row is above the watermark that    *)
(* is saved.  The document may be anything for a while: the DELETE may have *)
(* died before it marked it, and the ETL may write an old row over the      *)
(* mark.  But a document is written out of an old row only while the row is *)
(* due, and a row stops to be due only when its document tells the truth.   *)
(*                                                                         *)
(* `missed' are the rows that a watermark has passed by.  The promise does  *)
(* not cover them, and it tells when one may be missed: when it is deleted, *)
(* or when it is due and left out of a batch.                               *)
(*                                                                         *)
(* Two modules implement it: EtlWatermark, where a watermark, batches and a *)
(* file that is torn decide what is due, and FilmCatalog, which takes the   *)
(* set of due films for granted, misses none and has the DELETE as a second *)
(* writer of documents.                                                     *)
(***************************************************************************)
CONSTANT Films

VARIABLES
  deleted,  \* films whose row is deleted
  doc,      \* the document of each film: "absent", "live" or "deleted"
  due,      \* films whose row is above the saved watermark
  missed    \* films that a watermark has passed by

vars == <<deleted, doc, due, missed>>

\* The document tells what the row tells.
Truthful(f) == doc[f] = IF f \in deleted THEN "deleted" ELSE "live"

Init ==
  /\ deleted = {}
  /\ missed = {}
  /\ doc \in [Films -> {"absent", "live"}]
  /\ due \in SUBSET Films
  /\ \A f \in Films : doc[f] = "absent" => f \in due

\* The change puts the row above the watermark, or is missed.
Delete(f) ==
  /\ f \notin deleted
  /\ deleted' = deleted \cup {f}
  /\ due' \in {due, due \cup {f}}
  /\ missed' \in {missed, missed \cup {f}}
  /\ f \in due' \cup missed'
  /\ UNCHANGED doc

WriteTruth(f) ==
  /\ doc' = [doc EXCEPT ![f] = IF f \in deleted THEN "deleted" ELSE "live"]
  /\ UNCHANGED <<deleted, due, missed>>

\* An old row, fetched before the film was deleted.
WriteOld(f) ==
  /\ f \in deleted
  /\ f \in due \cup missed
  /\ doc' = [doc EXCEPT ![f] = "live"]
  /\ UNCHANGED <<deleted, due, missed>>

\* The watermark moves on.
Settle(films) ==
  /\ \A f \in films : Truthful(f) \/ f \in missed
  /\ due' = due \ films
  /\ UNCHANGED <<deleted, doc, missed>>

\* The watermark moves back, when the file is lost.
Reopen(films) ==
  /\ due' = due \cup films
  /\ UNCHANGED <<deleted, doc, missed>>

\* Rows that a batch leaves out and its watermark covers.
Overlook(films) ==
  /\ films \subseteq due
  /\ missed' = missed \cup films
  /\ UNCHANGED <<deleted, doc, due>>

Next ==
  \/ \E f \in Films : Delete(f) \/ WriteTruth(f) \/ WriteOld(f)
  \/ \E films \in SUBSET Films : Settle(films) \/ Reopen(films) \/ Overlook(films)

Spec == Init /\ [][Next]_vars

\* What follows for whoever looks a film up: a document that does not tell the
\* truth belongs to a film that the ETL will come for, or that was missed.
Covered == \A f \in Films : Truthful(f) \/ f \in due \cup missed

=============================================================================
