------------------------------ MODULE Credential ------------------------------
(***************************************************************************)
(* The life of a set of credentials, as whoever presents one sees it: it is *)
(* issued once, is accepted for a while, and once it has been refused it is *)
(* refused for ever.  Several may die in one step (time passes for all).   *)
(***************************************************************************)
CONSTANT Ids

VARIABLE status   \* "unissued", "valid" or "dead", for every id

Init == status = [i \in Ids |-> "unissued"]

MayBecome(old, new) ==
  \/ new = old
  \/ old = "unissued" /\ new = "valid"
  \/ old = "valid" /\ new = "dead"

Next ==
  /\ status' \in [Ids -> {"unissued", "valid", "dead"}]
  /\ \A i \in Ids : MayBecome(status[i], status'[i])

Spec == Init /\ [][Next]_status

=============================================================================
