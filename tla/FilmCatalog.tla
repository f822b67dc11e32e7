------------------------------ MODULE FilmCatalog ------------------------------
(***************************************************************************)
(* The soft deletion of films, from the DELETE of fast_api to the last copy *)
(* a client could still be shown.  A film is kept in four places: its row   *)
(* in Postgres, its document in Elasticsearch (as a get by id sees it, and  *)
(* as a search sees it since the last refresh), the entries of the Redis    *)
(* cache, and what is in the hands of whoever copies from one to the next:  *)
(* readers of fast_api/services/film.py and person.py, which fill the cache,*)
(* and the ETL, which writes documents out of rows it read some time ago.   *)
(*                                                                         *)
(* One key stands for each kind of cache entry.  An entry, a row or a       *)
(* document is reduced to which films it shows as not deleted.  Entries     *)
(* have a TTL of five minutes: they expire at any time.  `dirty` holds the  *)
(* films whose `modified` is above the saved watermark of film_work; that a *)
(* change is above every watermark saved before it was committed is taken   *)
(* for granted here (EtlWatermark says when it is not).  A definition named *)
(* for a fault (MarkWithoutRefresh, ...) is a broken variant of the one     *)
(* below it.                                                                *)
(***************************************************************************)
EXTENDS Integers

CONSTANTS
  Films,    \* the films that are looked at; others exist
  Pages,    \* the kinds of pages that are looked at
  Readers   \* requests of fast_api being served at a time

\* The keys "films:..." of a list, "films_person_..." and "person_...".
PageKinds == {"films", "films_person", "person"}

ASSUME KeysAssumption ==
  /\ "films" \in Pages
  /\ Pages \subseteq PageKinds
  /\ Films \cap PageKinds = {}

\* The key "film_<id>" is written as the film itself.
Keys == Films \cup Pages

VARIABLES
  pg_deleted, \* films whose row has is_deleted
  dirty,      \* films the ETL still has to pick up
  es,         \* document of each film: "absent", "live" or "deleted"
  seen,       \* the same, as searches see it
  cached,     \* keys that exist in Redis
  shown,      \* films that the entry of each key shows
  reader,     \* where each reader is suspended, its key, the films it holds
  deletion,   \* what the DELETE of each film does next
  etl,        \* the batch the ETL has in hand
  \* History, read by the properties only:
  marked,     \* films whose document the DELETE has marked
  overwritten,\* marked films that the ETL wrote back as live
  straggler,  \* readers that held the film when it was marked
  flushed,    \* keys that the DELETE of each film has deleted
  refilled    \* <<key, film>> put by a straggler

rows == <<pg_deleted, dirty>>
index == <<es, seen>>
redis == <<cached, shown>>
history == <<marked, overwritten, straggler, flushed, refilled>>
vars == <<rows, index, redis, reader, deletion, etl, history>>

EtlBatch(batch, own) ==
  [at |-> "fetch", own |-> own, batch |-> batch, live |-> {}, left |-> {}, again |-> {}]
NoEtlBatch == [at |-> "idle", own |-> FALSE, batch |-> {}, live |-> {}, left |-> {}, again |-> {}]
NoReader == [at |-> "idle", key |-> "films", films |-> {}]

-----------------------------------------------------------------------------
\* Some documents are not there yet; the ETL still has to pick those up.
Init ==
  /\ pg_deleted = {}
  /\ es \in [Films -> {"absent", "live"}]
  /\ seen = es
  /\ dirty = {f \in Films : es[f] = "absent"}
  /\ cached = {}
  /\ shown = [k \in Keys |-> {}]
  /\ reader = [r \in Readers |-> NoReader]
  /\ deletion = [f \in Films |-> "none"]
  /\ etl = NoEtlBatch
  /\ marked = {}
  /\ overwritten = {}
  /\ straggler = [f \in Films |-> {}]
  /\ flushed = [f \in Films |-> {}]
  /\ refilled = {}

-----------------------------------------------------------------------------
(* A reader looks its key up, reads Elasticsearch when it is not there, and *)
(* puts what it found: three suspensions, nothing between them rechecked.   *)

\* Answered out of the cache.
Hit(r, k) ==
  /\ reader[r].at = "idle"
  /\ k \in cached
  /\ UNCHANGED vars

Miss(r, k) ==
  /\ reader[r].at = "idle"
  /\ k \notin cached
  /\ reader' = [reader EXCEPT ![r] = [at |-> "read", key |-> k, films |-> {}]]
  /\ UNCHANGED <<rows, index, redis, deletion, etl, history>>

FoundDeletedToo(k) ==
  IF k \in Films THEN {f \in {k} : es[f] = "live"} ELSE {f \in Films : seen[f] # "absent"}

\* get by id sees the document as it is; a search (every page) as refreshed,
\* with the deleted ones filtered out.
Found(k) ==
  IF k \in Films THEN {f \in {k} : es[f] = "live"} ELSE {f \in Films : seen[f] = "live"}

Read(r) ==
  /\ reader[r].at = "read"
  /\ reader' = [reader EXCEPT ![r].at = "put", ![r].films = Found(reader[r].key)]
  /\ UNCHANGED <<rows, index, redis, deletion, etl, history>>

\* History: the reader is done, its entry is a straggler's or it is not.
Recorded(r, k, films) ==
  /\ straggler' = [f \in Films |-> straggler[f] \ {r}]
  /\ refilled' = {e \in refilled : e[1] # k} \cup {<<k, f>> : f \in {g \in films : r \in straggler[g]}}

\* A card is put when the film was found; a page may also show other films.
Put(r) ==
  LET k == reader[r].key  films == reader[r].films IN
  /\ reader[r].at = "put"
  /\ k \in Films => films # {}
  /\ cached' = cached \cup {k}
  /\ shown' = [shown EXCEPT ![k] = films]
  /\ reader' = [reader EXCEPT ![r] = NoReader]
  /\ Recorded(r, k, films)
  /\ UNCHANGED <<rows, index, deletion, etl, marked, overwritten, flushed>>

\* Nothing found, an error of a store, a client that left: nothing is put.
Leave(r) ==
  /\ reader[r].at # "idle"
  /\ reader' = [reader EXCEPT ![r] = NoReader]
  /\ straggler' = [f \in Films |-> straggler[f] \ {r}]
  /\ UNCHANGED <<rows, index, redis, deletion, etl, marked, overwritten, flushed, refilled>>

Drop(k) ==
  /\ cached' = cached \ {k}
  /\ shown' = [j \in Keys |-> IF j = k THEN {} ELSE shown[j]]
  /\ refilled' = {e \in refilled : e[1] # k}

Expire(k) ==
  /\ k \in cached
  /\ Drop(k)
  /\ UNCHANGED <<rows, index, reader, deletion, etl, marked, overwritten, straggler, flushed>>

-----------------------------------------------------------------------------
(* DELETE /api/v1/films/{id}: FilmsRepository.soft_delete, and then         *)
(* after_film_soft_delete.  A film already deleted is answered with 404 and *)
(* nothing else happens, so what an earlier DELETE left undone stays so.    *)

SoftDeleteUnmodified(f) ==
  /\ f \notin pg_deleted
  /\ pg_deleted' = pg_deleted \cup {f}
  /\ deletion' = [deletion EXCEPT ![f] = "mark"]
  /\ UNCHANGED <<dirty, index, redis, reader, etl, history>>

\* modified = now() puts the row above the watermark, also of a batch in hand.
SoftDelete(f) ==
  /\ f \notin pg_deleted
  /\ pg_deleted' = pg_deleted \cup {f}
  /\ dirty' = dirty \cup {f}
  /\ etl' = IF etl.at = "idle" THEN etl ELSE [etl EXCEPT !.again = @ \cup {f}]
  /\ deletion' = [deletion EXCEPT ![f] = "mark"]
  /\ UNCHANGED <<index, redis, reader, history>>

Marked(f) ==
  /\ marked' = marked \cup {f}
  /\ straggler' = [straggler EXCEPT ![f] = {r \in Readers : f \in reader[r].films}]
  /\ UNCHANGED <<overwritten, flushed, refilled>>

MarkWithoutRefresh(f) ==
  /\ deletion[f] = "mark"
  /\ deletion' = [deletion EXCEPT ![f] = "card"]
  /\ \/ /\ es[f] # "absent"
        /\ es' = [es EXCEPT ![f] = "deleted"]
        /\ seen' = seen
        /\ Marked(f)
     \/ UNCHANGED <<index, history>>
  /\ UNCHANGED <<rows, redis, reader, etl>>

\* mark_film_deleted_in_elasticsearch.  refresh=True makes the index visible
\* as it is; the NotFoundError of a missing document and a BadRequestError are
\* swallowed, and the deletion goes on with nothing marked.
Mark(f) ==
  /\ deletion[f] = "mark"
  /\ deletion' = [deletion EXCEPT ![f] = "card"]
  /\ \/ /\ es[f] # "absent"
        /\ es' = [es EXCEPT ![f] = "deleted"]
        /\ seen' = es'
        /\ Marked(f)
     \/ UNCHANGED <<index, history>>
  /\ UNCHANGED <<rows, redis, reader, etl>>

\* invalidate_caches_after_film_soft_delete, in its order.
AfterFlush == [card |-> "films", films |-> "films_person",
               films_person |-> "person", person |-> "done"]

Flush(f) ==
  LET k == IF deletion[f] = "card" THEN f ELSE deletion[f] IN
  /\ deletion[f] \in {"card", "films", "films_person", "person"}
  /\ Drop(k)
  /\ deletion' = [deletion EXCEPT ![f] = AfterFlush[@]]
  /\ flushed' = [flushed EXCEPT ![f] = @ \cup ({k} \cap Keys)]
  /\ UNCHANGED <<rows, index, reader, etl, marked, overwritten, straggler>>

\* A store raises or the process dies after the row was committed.
DeletionDies(f) ==
  /\ deletion[f] \notin {"none", "done", "dead"}
  /\ deletion' = [deletion EXCEPT ![f] = "dead"]
  /\ UNCHANGED <<rows, index, redis, reader, etl, history>>

-----------------------------------------------------------------------------
(* The ETL.  A batch of film_work is selected by `modified`, its rows are   *)
(* fetched by a second query, its documents replaced one by one, and then   *)
(* the watermark is saved that the first query returned.                    *)

EtlSelect(batch) ==
  /\ etl.at = "idle"
  /\ batch # {}
  /\ batch \subseteq dirty
  /\ etl' = EtlBatch(batch, TRUE)
  /\ UNCHANGED <<rows, index, redis, reader, deletion, history>>

\* Films of persons or genres that were modified; their watermark is another.
EtlSelectRelated(batch) ==
  /\ etl.at = "idle"
  /\ batch # {}
  /\ etl' = EtlBatch(batch, FALSE)
  /\ UNCHANGED <<rows, index, redis, reader, deletion, history>>

EtlFetch ==
  /\ etl.at = "fetch"
  /\ etl' = [etl EXCEPT !.at = "load", !.live = etl.batch \ pg_deleted, !.left = etl.batch]
  /\ UNCHANGED <<rows, index, redis, reader, deletion, history>>

EtlIndex(f) ==
  /\ etl.at = "load"
  /\ f \in etl.left
  /\ es' = [es EXCEPT ![f] = IF f \in etl.live THEN "live" ELSE "deleted"]
  /\ etl' = [etl EXCEPT !.left = @ \ {f}]
  /\ overwritten' = IF f \in etl.live /\ f \in marked THEN overwritten \cup {f} ELSE overwritten
  /\ UNCHANGED <<rows, seen, redis, reader, deletion, marked, straggler, flushed, refilled>>

\* The backoff of load_data sends the whole batch again.
EtlRetry ==
  /\ etl.at = "load"
  /\ etl' = [etl EXCEPT !.left = etl.batch]
  /\ UNCHANGED <<rows, index, redis, reader, deletion, history>>

EtlCommitAsFetched ==
  /\ etl.at = "load"
  /\ etl.left = {}
  /\ dirty' = IF etl.own THEN dirty \ etl.batch ELSE dirty
  /\ etl' = NoEtlBatch
  /\ UNCHANGED <<pg_deleted, index, redis, reader, deletion, history>>

\* set_state with the `modified` of the selection: a film modified since then
\* is still above it.
EtlCommit ==
  /\ etl.at = "load"
  /\ etl.left = {}
  /\ dirty' = IF etl.own THEN (dirty \ etl.batch) \cup etl.again ELSE dirty
  /\ etl' = NoEtlBatch
  /\ UNCHANGED <<pg_deleted, index, redis, reader, deletion, history>>

\* The pass ends in an error or the process is killed; nothing was saved.
EtlCrash ==
  /\ etl.at # "idle"
  /\ etl' = NoEtlBatch
  /\ UNCHANGED <<rows, index, redis, reader, deletion, history>>

\* refresh_interval: 1s.
Refresh ==
  /\ seen' = es
  /\ UNCHANGED <<rows, es, redis, reader, deletion, etl, history>>

-----------------------------------------------------------------------------
Next ==
  \/ \E r \in Readers : Read(r) \/ Put(r) \/ Leave(r)
  \/ \E r \in Readers : \E k \in Keys : Hit(r, k) \/ Miss(r, k)
  \/ \E k \in Keys : Expire(k)
  \/ \E f \in Films : SoftDelete(f) \/ Mark(f) \/ Flush(f) \/ DeletionDies(f) \/ EtlIndex(f)
  \/ \E batch \in SUBSET Films : EtlSelect(batch) \/ EtlSelectRelated(batch)
  \/ EtlFetch \/ EtlRetry \/ EtlCommit \/ EtlCrash
  \/ Refresh

Spec == Init /\ [][Next]_vars

\* Entries expire, requests end, Elasticsearch refreshes.  The ETL comes back
\* after every pass, and after every crash somebody restarts it; it takes the
\* oldest changes first, and not every pass of it fails.
Fairness ==
  /\ \A r \in Readers : WF_vars(Put(r) \/ Leave(r))
  /\ \A k \in Keys : WF_vars(Expire(k))
  /\ WF_vars(Refresh)
  /\ \A f \in Films : SF_vars(\E batch \in SUBSET Films : f \in batch /\ EtlSelect(batch))
  /\ SF_vars(EtlFetch)
  /\ \A f \in Films : SF_vars(EtlIndex(f))
  /\ SF_vars(EtlCommit)

FairSpec == Spec /\ Fairness

-----------------------------------------------------------------------------
TypeOK ==
  /\ pg_deleted \subseteq Films
  /\ dirty \subseteq Films
  /\ es \in [Films -> {"absent", "live", "deleted"}]
  /\ seen \in [Films -> {"absent", "live", "deleted"}]
  /\ cached \subseteq Keys
  /\ shown \in [Keys -> SUBSET Films]
  /\ reader \in [Readers -> [at : {"idle", "read", "put"}, key : Keys, films : SUBSET Films]]
  /\ deletion \in [Films -> {"none", "mark", "card", "films", "films_person", "person",
                             "done", "dead"}]
  /\ etl \in [at : {"idle", "fetch", "load"}, own : BOOLEAN, batch : SUBSET Films,
              live : SUBSET Films, left : SUBSET Films, again : SUBSET Films]
  /\ marked \subseteq Films
  /\ overwritten \subseteq marked
  /\ straggler \in [Films -> SUBSET Readers]
  /\ flushed \in [Films -> SUBSET Keys]
  /\ refilled \subseteq Keys \X Films
  /\ \A f \in Films \ pg_deleted : deletion[f] = "none"
  /\ \A k \in Keys \ cached : shown[k] = {}
  /\ \A k \in cached \cap Films : shown[k] = {k}
  /\ \A r \in Readers : reader[r].key \in Films => reader[r].films \subseteq {reader[r].key}

\* While a deleted film is live in Elasticsearch, for whatever reason (the
\* DELETE died, there was no document to mark, the ETL wrote an old row over
\* the mark), its row is still above the watermark: the ETL will come for it.
RepairPending == \A f \in pg_deleted : es[f] = "live" => f \in dirty

\* Why: an old row that the ETL has in hand belongs to a film modified since,
\* which the saved watermark will not cover, and what a batch has already
\* written is not live if the film was deleted before its row was fetched.
EtlInHand ==
  /\ etl.at = "idle" => etl = NoEtlBatch
  /\ \A f \in pg_deleted \cap etl.live : f \in dirty /\ f \in etl.again
  /\ etl.at = "load" =>
       \A f \in (etl.batch \ etl.left) \cap pg_deleted : es[f] # "live" \/ f \in etl.again
  /\ etl.again \subseteq dirty

\* Once a film is marked, and if no old row of the ETL undoes the mark, a key
\* that the DELETE has deleted shows the film again only where a reader put it
\* that had it in hand when it was marked.  The order of the DELETE gives that:
\* the refreshed index first, the cache after it.
OnlyStragglersRefill ==
  \A f \in marked \ overwritten : \A k \in flushed[f] :
    f \in shown[k] => <<k, f>> \in refilled

\* Why: after the mark neither a get nor a search finds the film, so whoever
\* holds it read it before.
StragglersHoldIt ==
  /\ \A f \in marked \ overwritten :
       /\ es[f] = "deleted" /\ seen[f] = "deleted"
       /\ \A r \in Readers : f \in reader[r].films => r \in straggler[f]
  /\ \A f \in Films : deletion[f] \in {"none", "mark"} => flushed[f] = {}

\* What documents tell: only rows that are deleted are written as such, and what a
\* batch has written exists.
IndexTells ==
  /\ \A f \in Films : es[f] = "deleted" => f \in pg_deleted
  /\ etl.at = "load" => /\ etl.left \subseteq etl.batch
                       /\ etl.batch \ etl.live \subseteq pg_deleted
                       /\ \A f \in etl.batch \ etl.left : es[f] # "absent"

\* What the three stores may differ in, and who still has it in hand: the ETL that
\* will repair the index, and the stragglers that may refill the cache.
CatalogInv ==
  /\ TypeOK
  /\ RepairPending /\ EtlInHand /\ IndexTells
  /\ OnlyStragglersRefill /\ StragglersHoldIt

\* No copy of a deleted film is left that shows it.
Hidden(f) ==
  /\ f \in pg_deleted
  /\ es[f] # "live" /\ seen[f] # "live"
  /\ f \notin etl.live
  /\ \A r \in Readers : f \notin reader[r].films
  /\ \A k \in Keys : f \notin shown[k]

\* A deleted film that is shown nowhere is never shown again, although the ETL
\* replaces whole documents and readers fill the cache all the time.
HiddenStaysHidden == [][\A f \in Films : Hidden(f) => Hidden(f)']_vars

\* The catalogue, the DELETE and the readers included, keeps the promise that
\* EtlWatermark makes for the ETL, and misses no film: what is taken for granted
\* of the ETL here is what that module delivers but for the missed rows.
Repair == INSTANCE DeletionRepair WITH deleted <- pg_deleted, doc <- es, due <- dirty, missed <- {}
ImplementsRepair == Repair!Spec

\* Every deleted film is shown nowhere in the end, whatever the DELETE did not
\* come to and whoever wrote an old copy after it.
EventuallyHidden == \A f \in Films : f \in pg_deleted ~> Hidden(f)

=============================================================================
