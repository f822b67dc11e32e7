-------------------------- MODULE FilmCatalogProofs --------------------------
(***************************************************************************)
(* CatalogInv of FilmCatalog is inductive.  It has two halves that do not   *)
(* need each other: EtlInHand carries RepairPending (what the ETL has in    *)
(* hand against the watermark), StragglersHoldIt carries                    *)
(* OnlyStragglersRefill (what readers have in hand against the mark).  Each *)
(* half is proved over the actions that touch its variables.  With          *)
(* IndexTells, the first half makes every step one of DeletionRepair.       *)
(***************************************************************************)
EXTENDS FilmCatalog, TLAPS

\* Nothing is deleted, cached or under way in the beginning.
LEMMA InitInv == Init => CatalogInv
  BY KeysAssumption
  DEF Init, CatalogInv, TypeOK, RepairPending, EtlInHand, IndexTells, OnlyStragglersRefill,
      StragglersHoldIt, NoEtlBatch, NoReader, Keys

-----------------------------------------------------------------------------
(* Types.                                                                   *)

\* The steps of a reader keep the types.
LEMMA ReaderTypes ==
  ASSUME TypeOK, NEW r \in Readers,
         Read(r) \/ Put(r) \/ Leave(r) \/ \E k \in Keys : Miss(r, k)
  PROVE  TypeOK'
  <1> USE KeysAssumption DEF TypeOK, rows, index, redis, history
  <1>0. NoReader \in [at : {"idle", "read", "put"}, key : Keys, films : SUBSET Films]
        /\ NoReader.key \notin Films
    BY DEF NoReader, Keys, PageKinds
  <1>1. CASE Read(r)
    <2>1. reader[r].key \in Keys /\ reader[r] \in [at : {"idle", "read", "put"}, key : Keys, films : SUBSET Films]
      BY DEF TypeOK
    <2>2. Found(reader[r].key) \subseteq Films
          /\ (reader[r].key \in Films => Found(reader[r].key) \subseteq {reader[r].key})
      BY <2>1 DEF Found
    <2>3. /\ reader'[r] = [at |-> "put", key |-> reader[r].key, films |-> Found(reader[r].key)]
          /\ \A q \in Readers \ {r} : reader'[q] = reader[q]
          /\ reader' = [q \in Readers |-> reader'[q]]
      BY <1>1, <2>1 DEF Read
    <2>4. \A q \in Readers : reader'[q] \in [at : {"idle", "read", "put"}, key : Keys, films : SUBSET Films]
      BY <2>1, <2>2, <2>3
    <2>5. \A q \in Readers : reader'[q].key \in Films => reader'[q].films \subseteq {reader'[q].key}
      BY <2>2, <2>3
    <2>6. reader' \in [Readers -> [at : {"idle", "read", "put"}, key : Keys, films : SUBSET Films]]
      BY <2>3, <2>4
    <2>7. QED
      BY <1>1, <2>5, <2>6 DEF Read
  <1>2. CASE Put(r)
    <2> DEFINE k == reader[r].key
    <2> DEFINE films == reader[r].films
    <2>1. k \in Keys /\ films \subseteq Films /\ (k \in Films => films = {k})
      BY <1>2 DEF Put
    <2>2. reader' = [reader EXCEPT ![r] = NoReader] /\ cached' = cached \cup {k}
          /\ shown' = [shown EXCEPT ![k] = films] /\ Recorded(r, k, films)
          /\ UNCHANGED <<rows, index, deletion, etl, marked, overwritten, flushed>>
      BY <1>2 DEF Put
    <2>3. shown' \in [Keys -> SUBSET Films] /\ cached' \subseteq Keys
          /\ (\A j \in Keys \ cached' : shown'[j] = {})
          /\ \A j \in cached' \cap Films : shown'[j] = {j}
      BY <2>1, <2>2
    <2>4. straggler' \in [Films -> SUBSET Readers] /\ refilled' \subseteq Keys \X Films
      BY <2>1, <2>2 DEF Recorded
    <2>5. reader' \in [Readers -> [at : {"idle", "read", "put"}, key : Keys, films : SUBSET Films]]
          /\ \A q \in Readers : reader'[q].key \in Films => reader'[q].films \subseteq {reader'[q].key}
      BY <1>0, <2>2
    <2>6. QED
      BY <2>2, <2>3, <2>4, <2>5
  <1>3. CASE Leave(r)
    BY <1>0, <1>3 DEF Leave
  <1>4. ASSUME NEW k \in Keys, Miss(r, k)
        PROVE  TypeOK'
    BY <1>4 DEF Miss
  <1>5. QED
    BY <1>1, <1>2, <1>3, <1>4

\* A key that is dropped shows nothing.
LEMMA DropTypes ==
  ASSUME TypeOK, NEW k, Drop(k)
  PROVE  /\ cached' \subseteq Keys
         /\ shown' \in [Keys -> SUBSET Films]
         /\ refilled' \subseteq Keys \X Films
         /\ \A j \in Keys \ cached' : shown'[j] = {}
         /\ \A j \in cached' \cap Films : shown'[j] = {j}
  BY DEF TypeOK, Drop, Keys

\* The steps of a deletion keep the types.
LEMMA DeletionTypes ==
  ASSUME TypeOK, NEW f \in Films,
         SoftDelete(f) \/ Mark(f) \/ Flush(f) \/ DeletionDies(f)
  PROVE  TypeOK'
  <1> USE DEF TypeOK, rows, index, redis, history
  <1>1. CASE SoftDelete(f)
    BY <1>1 DEF SoftDelete
  <1>2. CASE Mark(f)
    BY <1>2 DEF Mark, Marked
  <1>3. CASE Flush(f)
    <2> DEFINE k == IF deletion[f] = "card" THEN f ELSE deletion[f]
    <2>1. Drop(k) /\ flushed' = [flushed EXCEPT ![f] = @ \cup ({k} \cap Keys)]
          /\ UNCHANGED <<rows, index, reader, etl, marked, overwritten, straggler>>
      BY <1>3 DEF Flush
    <2>2. deletion' \in [Films -> {"none", "mark", "card", "films", "films_person", "person",
                                   "done", "dead"}]
      BY <1>3 DEF Flush, AfterFlush
    <2>3. \A g \in Films \ pg_deleted : deletion'[g] = "none"
      BY <1>3 DEF Flush
    <2>4. QED
      BY <2>1, <2>2, <2>3, DropTypes
  <1>4. CASE DeletionDies(f)
    BY <1>4 DEF DeletionDies
  <1>5. QED
    BY <1>1, <1>2, <1>3, <1>4

\* The steps of the ETL keep the types.
LEMMA EtlTypes ==
  ASSUME TypeOK,
         \/ \E batch \in SUBSET Films : EtlSelect(batch) \/ EtlSelectRelated(batch)
         \/ EtlFetch \/ EtlRetry \/ EtlCommit \/ EtlCrash
         \/ \E f \in Films : EtlIndex(f)
  PROVE  TypeOK'
  <1> DEFINE Etl == [at : {"idle", "fetch", "load"}, own : BOOLEAN, batch : SUBSET Films,
                     live : SUBSET Films, left : SUBSET Films, again : SUBSET Films]
  <1>0. NoEtlBatch \in Etl /\ etl \in Etl
    BY DEF NoEtlBatch, TypeOK
  <1> HIDE DEF Etl
  <1> USE DEF rows, index, redis, history
  <1>1. ASSUME NEW batch \in SUBSET Films, EtlSelect(batch) \/ EtlSelectRelated(batch)
        PROVE  TypeOK'
    <2>1. EtlBatch(batch, TRUE) \in Etl /\ EtlBatch(batch, FALSE) \in Etl
      BY DEF EtlBatch, Etl
    <2>2. etl' \in Etl
      BY <1>1, <2>1 DEF EtlSelect, EtlSelectRelated
    <2>3. QED
      BY <1>1, <2>2 DEF EtlSelect, EtlSelectRelated, TypeOK, Etl
  <1>2. CASE EtlFetch \/ EtlRetry
    <2>1. EtlFetch => etl' \in Etl
      <3>1. etl.batch \in SUBSET Films /\ etl.batch \ pg_deleted \in SUBSET Films
        BY <1>0 DEF Etl
      <3>2. QED
        BY <1>0, <3>1 DEF EtlFetch, Etl
    <2>2. EtlRetry => etl' \in Etl
      BY <1>0 DEF EtlRetry, Etl
    <2>3. etl' \in Etl
      BY <1>2, <2>1, <2>2
    <2>4. QED
      BY <1>2, <2>3 DEF EtlFetch, EtlRetry, TypeOK, Etl
  <1>3. CASE EtlCommit \/ EtlCrash
    <2>1. etl' \in Etl /\ dirty' \subseteq Films
      <3>1. etl.again \subseteq Films /\ dirty \subseteq Films
        BY <1>0 DEF Etl, TypeOK
      <3>2. QED
        BY <1>0, <1>3, <3>1 DEF EtlCommit, EtlCrash
    <2>2. QED
      BY <1>3, <2>1 DEF EtlCommit, EtlCrash, TypeOK, Etl
  <1>4. ASSUME NEW f \in Films, EtlIndex(f)
        PROVE  TypeOK'
    <2>1. etl' \in Etl
      BY <1>0, <1>4 DEF EtlIndex, Etl
    <2>2. es' \in [Films -> {"absent", "live", "deleted"}] /\ overwritten' \subseteq marked'
      BY <1>4 DEF EtlIndex, TypeOK
    <2>3. QED
      BY <1>4, <2>1, <2>2 DEF EtlIndex, TypeOK, Etl
  <1>5. QED
    BY <1>1, <1>2, <1>3, <1>4

\* Every step keeps the types.
LEMMA NextTypes == TypeOK /\ [Next]_vars => TypeOK'
  <1> SUFFICES ASSUME TypeOK, [Next]_vars
               PROVE  TypeOK'
    OBVIOUS
  <1>1. ASSUME NEW k \in Keys, Expire(k)
        PROVE  TypeOK'
    BY <1>1, DropTypes DEF Expire, TypeOK, rows, index
  <1>2. CASE Refresh
    BY <1>2 DEF Refresh, TypeOK, rows, redis, history
  <1>3. CASE UNCHANGED vars
    BY <1>3 DEF vars, rows, index, redis, history, TypeOK
  <1>4. QED
    BY <1>1, <1>2, <1>3, ReaderTypes, DeletionTypes, EtlTypes DEF Next, Hit

-----------------------------------------------------------------------------
(* The watermark: RepairPending and EtlInHand speak of rows, es and etl.    *)

WatermarkKept == RepairPending /\ EtlInHand

\* Every step keeps the repair of a deleted film pending.
LEMMA NextRepair == TypeOK /\ WatermarkKept /\ [Next]_vars => WatermarkKept'
  <1> SUFFICES ASSUME TypeOK, WatermarkKept, [Next]_vars
               PROVE  WatermarkKept'
    OBVIOUS
  <1> USE DEF WatermarkKept, RepairPending, EtlInHand
  <1>1. CASE UNCHANGED <<pg_deleted, dirty, es, etl>>
    BY <1>1
  <1>2. ASSUME NEW f \in Films, SoftDelete(f)
        PROVE  WatermarkKept'
    <2>1. pg_deleted' = pg_deleted \cup {f} /\ dirty' = dirty \cup {f} /\ es' = es
      BY <1>2 DEF SoftDelete, index
    <2>2. CASE etl.at = "idle"
      <3>1. etl' = etl /\ etl = NoEtlBatch
        BY <1>2, <2>2 DEF SoftDelete
      <3>2. QED
        BY <2>1, <3>1 DEF NoEtlBatch
    <2>3. CASE etl.at # "idle"
      <3>1. etl' = [etl EXCEPT !.again = @ \cup {f}]
        BY <1>2, <2>3 DEF SoftDelete
      <3>2. etl'.again = etl.again \cup {f} /\ etl'.at = etl.at /\ etl'.live = etl.live
            /\ etl'.batch = etl.batch /\ etl'.left = etl.left
        BY <3>1 DEF TypeOK
      <3>3. QED
        BY <2>1, <2>3, <3>2
    <2>4. QED
      BY <2>2, <2>3
  <1>3. ASSUME NEW f \in Films, Mark(f)
        PROVE  WatermarkKept'
    <2>1. UNCHANGED <<pg_deleted, dirty, etl>>
      BY <1>3 DEF Mark, rows
    <2>2. \A g \in Films : es'[g] = "live" => es[g] = "live"
      BY <1>3 DEF Mark, TypeOK, index
    <2>3. QED
      BY <2>1, <2>2 DEF TypeOK
  <1>4. ASSUME NEW batch \in SUBSET Films, EtlSelect(batch) \/ EtlSelectRelated(batch)
        PROVE  WatermarkKept'
    <2>1. UNCHANGED <<pg_deleted, dirty, es>>
      BY <1>4 DEF EtlSelect, EtlSelectRelated, rows, index
    <2>2. etl'.at = "fetch" /\ etl'.live = {} /\ etl'.again = {}
      BY <1>4 DEF EtlSelect, EtlSelectRelated, EtlBatch
    <2>3. QED
      BY <2>1, <2>2
  <1>5. CASE EtlFetch
    <2>1. UNCHANGED <<pg_deleted, dirty, es>>
      BY <1>5 DEF EtlFetch, rows, index
    <2>2. etl'.at = "load" /\ etl'.live = etl.batch \ pg_deleted /\ etl'.left = etl.batch
          /\ etl'.batch = etl.batch /\ etl'.again = etl.again
      BY <1>5 DEF EtlFetch, TypeOK
    <2>3. QED
      BY <2>1, <2>2
  <1>6. ASSUME NEW f \in Films, EtlIndex(f)
        PROVE  WatermarkKept'
    <2>1. UNCHANGED <<pg_deleted, dirty>>
      BY <1>6 DEF EtlIndex, rows
    <2>2. etl'.at = "load" /\ etl'.live = etl.live /\ etl'.left = etl.left \ {f}
          /\ etl'.batch = etl.batch /\ etl'.again = etl.again /\ etl.at = "load"
      BY <1>6 DEF EtlIndex, TypeOK
    <2>3. /\ \A g \in Films \ {f} : es'[g] = es[g]
          /\ es'[f] = "live" => f \in etl.live
      BY <1>6 DEF EtlIndex, TypeOK
    <2>4. RepairPending'
      BY <2>1, <2>2, <2>3 DEF TypeOK
    <2>5. EtlInHand'
      BY <2>1, <2>2, <2>3 DEF TypeOK
    <2>6. QED
      BY <2>4, <2>5
  <1>7. CASE EtlRetry
    <2>1. UNCHANGED <<pg_deleted, dirty, es>>
      BY <1>7 DEF EtlRetry, rows, index
    <2>2. etl'.at = "load" /\ etl'.live = etl.live /\ etl'.left = etl.batch
          /\ etl'.batch = etl.batch /\ etl'.again = etl.again
      BY <1>7 DEF EtlRetry, TypeOK
    <2>3. QED
      BY <2>1, <2>2
  <1>8. CASE EtlCommit
    <2>1. etl.at = "load" /\ etl.left = {} /\ UNCHANGED <<pg_deleted, es>> /\ etl' = NoEtlBatch
          /\ dirty' = IF etl.own THEN (dirty \ etl.batch) \cup etl.again ELSE dirty
      BY <1>8 DEF EtlCommit, index
    <2>2. RepairPending'
      BY <2>1
    <2>3. EtlInHand'
      BY <2>1 DEF NoEtlBatch
    <2>4. QED
      BY <2>2, <2>3
  <1>9. CASE EtlCrash
    BY <1>9 DEF EtlCrash, rows, index, NoEtlBatch
  <1>10. ASSUME NEW r \in Readers, Read(r) \/ Put(r) \/ Leave(r)
         PROVE  UNCHANGED <<pg_deleted, dirty, es, etl>>
    BY <1>10 DEF Read, Put, Leave, rows, index
  <1>11. ASSUME NEW f \in Films, Flush(f) \/ DeletionDies(f)
         PROVE  UNCHANGED <<pg_deleted, dirty, es, etl>>
    BY <1>11 DEF Flush, DeletionDies, rows, index
  <1>12. ASSUME NEW k \in Keys, Expire(k) \/ \E r \in Readers : Hit(r, k) \/ Miss(r, k)
         PROVE  UNCHANGED <<pg_deleted, dirty, es, etl>>
    BY <1>12 DEF Expire, Hit, Miss, vars, rows, index
  <1>13. Refresh \/ UNCHANGED vars => UNCHANGED <<pg_deleted, dirty, es, etl>>
    BY DEF Refresh, vars, rows, index
  <1>14. QED
    BY <1>1, <1>2, <1>3, <1>4, <1>5, <1>6, <1>7, <1>8, <1>9, <1>10, <1>11, <1>12, <1>13
    DEF Next

\* Every step keeps what documents tell.
LEMMA NextTells == TypeOK /\ IndexTells /\ [Next]_vars => IndexTells'
  <1> SUFFICES ASSUME TypeOK, IndexTells, [Next]_vars
               PROVE  IndexTells'
    OBVIOUS
  <1> USE DEF IndexTells
  <1>1. CASE UNCHANGED <<pg_deleted, es, etl>>
    BY <1>1
  <1>2. ASSUME NEW f \in Films, SoftDelete(f)
        PROVE  IndexTells'
    <2>1. pg_deleted \subseteq pg_deleted' /\ es' = es
      BY <1>2 DEF SoftDelete, index
    <2>2. etl'.at = etl.at /\ etl'.live = etl.live /\ etl'.batch = etl.batch /\ etl'.left = etl.left
      BY <1>2 DEF SoftDelete, TypeOK
    <2>3. QED
      BY <2>1, <2>2
  <1>3. ASSUME NEW f \in Films, Mark(f)
        PROVE  IndexTells'
    <2>1. UNCHANGED <<pg_deleted, etl>> /\ f \in pg_deleted
      BY <1>3 DEF Mark, rows, TypeOK
    <2>2. \A g \in Films : es'[g] = es[g] \/ (g = f /\ es'[g] = "deleted")
      BY <1>3 DEF Mark, TypeOK, index
    <2>3. QED
      BY <2>1, <2>2 DEF TypeOK
  <1>4. ASSUME NEW f \in Films, EtlIndex(f)
        PROVE  IndexTells'
    <2>1. UNCHANGED pg_deleted /\ etl.at = "load" /\ f \in etl.left
      BY <1>4 DEF EtlIndex, rows
    <2>2. etl'.at = "load" /\ etl'.live = etl.live /\ etl'.batch = etl.batch
          /\ etl'.left = etl.left \ {f}
      BY <1>4, <2>1 DEF EtlIndex, TypeOK
    <2>3. \A g \in Films :
            es'[g] = IF g = f THEN IF f \in etl.live THEN "live" ELSE "deleted" ELSE es[g]
      BY <1>4 DEF EtlIndex, TypeOK
    <2>4. f \notin etl.live => f \in pg_deleted
      BY <2>1
    <2>5. QED
      BY <2>1, <2>2, <2>3, <2>4 DEF TypeOK
  <1>5. ASSUME EtlFetch \/ EtlRetry
        PROVE  IndexTells'
    <2>1. UNCHANGED <<pg_deleted, es>>
      BY <1>5 DEF EtlFetch, EtlRetry, rows, index
    <2>2. etl'.batch = etl.batch /\ etl'.left = etl.batch
          /\ (EtlFetch => etl'.live = etl.batch \ pg_deleted)
          /\ (EtlRetry => etl'.live = etl.live /\ etl.at = "load")
      BY <1>5 DEF EtlFetch, EtlRetry, TypeOK
    <2>3. QED
      BY <1>5, <2>1, <2>2
  <1>6. ASSUME NEW batch \in SUBSET Films, EtlSelect(batch) \/ EtlSelectRelated(batch)
        PROVE  IndexTells'
    BY <1>6 DEF EtlSelect, EtlSelectRelated, EtlBatch, rows, index
  <1>7. CASE EtlCommit \/ EtlCrash
    BY <1>7 DEF EtlCommit, EtlCrash, NoEtlBatch, rows, index
  <1>8. ASSUME NEW r \in Readers, Read(r) \/ Put(r) \/ Leave(r)
        PROVE  UNCHANGED <<pg_deleted, es, etl>>
    BY <1>8 DEF Read, Put, Leave, rows, index
  <1>9. ASSUME NEW f \in Films, Flush(f) \/ DeletionDies(f)
        PROVE  UNCHANGED <<pg_deleted, es, etl>>
    BY <1>9 DEF Flush, DeletionDies, rows, index
  <1>10. ASSUME NEW k \in Keys, Expire(k) \/ \E r \in Readers : Hit(r, k) \/ Miss(r, k)
         PROVE  UNCHANGED <<pg_deleted, es, etl>>
    BY <1>10 DEF Expire, Hit, Miss, vars, rows, index
  <1>11. Refresh \/ UNCHANGED vars => UNCHANGED <<pg_deleted, es, etl>>
    BY DEF Refresh, vars, rows, index
  <1>12. QED
    BY <1>1, <1>2, <1>3, <1>4, <1>5, <1>6, <1>7, <1>8, <1>9, <1>10, <1>11 DEF Next

-----------------------------------------------------------------------------
(* The mark: OnlyStragglersRefill and StragglersHoldIt speak of the index,  *)
(* the cache, the readers and the history.                                  *)

Refill == OnlyStragglersRefill /\ StragglersHoldIt

\* Dropping a key puts nothing back.
LEMMA DropRefill ==
  ASSUME TypeOK, Refill, NEW k, Drop(k),
         UNCHANGED <<index, reader, marked, overwritten, straggler>>,
         \A f \in Films : flushed'[f] \subseteq (flushed[f] \cup {k}) \cap Keys,
         \A f \in Films : deletion'[f] \in {"none", "mark"} => flushed'[f] = {}
  PROVE  Refill'
  <1>1. StragglersHoldIt'
    BY DEF TypeOK, Refill, StragglersHoldIt, index
  <1>2. OnlyStragglersRefill'
    <2> SUFFICES ASSUME NEW f \in marked \ overwritten, NEW j \in flushed'[f], f \in shown'[j],
                        j \in Keys
                 PROVE  <<j, f>> \in refilled'
      BY DEF OnlyStragglersRefill, TypeOK, Drop
    <2>1. j # k /\ f \in shown[j]
      BY DEF Drop
    <2>2. f \in Films /\ j \in flushed[f]
      BY <2>1 DEF TypeOK
    <2>3. <<j, f>> \in refilled
      BY <2>1, <2>2 DEF Refill, OnlyStragglersRefill
    <2>4. QED
      BY <2>1, <2>3 DEF Drop
  <1>3. QED
    BY <1>1, <1>2 DEF Refill

\* Every step keeps refills to stragglers.
LEMMA NextRefill == TypeOK /\ Refill /\ [Next]_vars => Refill'
  <1> SUFFICES ASSUME TypeOK, Refill, [Next]_vars
               PROVE  Refill'
    OBVIOUS
  <1> USE DEF Refill, OnlyStragglersRefill, StragglersHoldIt
  <1>1. CASE UNCHANGED <<index, redis, reader, deletion, history>>
    BY <1>1 DEF index, redis, history
  <1>2. ASSUME NEW r \in Readers, Read(r)
        PROVE  Refill'
    <2>1. UNCHANGED <<index, redis, deletion, history>>
      BY <1>2 DEF Read
    <2>2. \A f \in marked \ overwritten : f \notin Found(reader[r].key)
      BY DEF Found, TypeOK
    <2>3. \A q \in Readers : reader'[q].films = IF q = r THEN Found(reader[r].key) ELSE reader[q].films
      BY <1>2 DEF Read, TypeOK
    <2>4. QED
      BY <2>1, <2>2, <2>3 DEF index, redis, history
  <1>3. ASSUME NEW r \in Readers, NEW k \in Keys, Miss(r, k)
        PROVE  Refill'
    <2>1. UNCHANGED <<index, redis, deletion, history>>
      BY <1>3 DEF Miss
    <2>2. \A q \in Readers : reader'[q].films \subseteq reader[q].films
      BY <1>3 DEF Miss, TypeOK
    <2>3. QED
      BY <2>1, <2>2 DEF index, redis, history
  <1>4. ASSUME NEW r \in Readers, Put(r)
        PROVE  Refill'
    <2> DEFINE k == reader[r].key
    <2> DEFINE films == reader[r].films
    <2>1. /\ UNCHANGED <<index, deletion, marked, overwritten, flushed>>
          /\ Recorded(r, k, films)
          /\ shown' = [shown EXCEPT ![k] = films]
          /\ reader' = [reader EXCEPT ![r] = NoReader]
      BY <1>4 DEF Put
    <2>2. k \in Keys /\ films \subseteq Films
      BY DEF TypeOK
    <2>3. \A f \in marked \ overwritten : f \in films => r \in straggler[f]
      OBVIOUS
    <2>4. OnlyStragglersRefill'
      <3> SUFFICES ASSUME NEW f \in marked \ overwritten, NEW j \in flushed[f], f \in shown'[j]
                   PROVE  <<j, f>> \in refilled'
        BY <2>1
      <3>1. j \in Keys /\ f \in Films
        BY DEF TypeOK
      <3>2. CASE j = k
        <4>1. f \in films
          BY <2>1, <2>2, <3>2 DEF TypeOK
        <4>2. QED
          BY <2>1, <2>3, <3>1, <3>2, <4>1 DEF Recorded
      <3>3. CASE j # k
        <4>1. f \in shown[j]
          BY <2>1, <3>1, <3>3 DEF TypeOK
        <4>2. QED
          BY <2>1, <3>1, <3>3, <4>1 DEF Recorded
      <3>4. QED
        BY <3>2, <3>3
    <2>5. StragglersHoldIt'
      <3>1. \A q \in Readers : reader'[q].films = IF q = r THEN {} ELSE reader[q].films
        BY <2>1 DEF TypeOK, NoReader
      <3>2. \A f \in Films : \A q \in Readers : q # r /\ q \in straggler[f] => q \in straggler'[f]
        BY <2>1 DEF Recorded
      <3>3. QED
        BY <2>1, <3>1, <3>2 DEF index, TypeOK
    <2>6. QED
      BY <2>4, <2>5
  <1>5. ASSUME NEW r \in Readers, Leave(r)
        PROVE  Refill'
    <2>1. UNCHANGED <<index, redis, deletion, marked, overwritten, flushed, refilled>>
      BY <1>5 DEF Leave
    <2>2. \A q \in Readers : reader'[q].films = IF q = r THEN {} ELSE reader[q].films
      BY <1>5 DEF Leave, TypeOK, NoReader
    <2>3. \A f \in Films : straggler'[f] = straggler[f] \ {r}
      BY <1>5 DEF Leave
    <2>4. QED
      BY <2>1, <2>2, <2>3 DEF index, redis, TypeOK
  <1>6. ASSUME NEW k \in Keys, Expire(k)
        PROVE  Refill'
    <2>1. Drop(k) /\ UNCHANGED <<index, reader, deletion, marked, overwritten, straggler, flushed>>
      BY <1>6 DEF Expire
    <2>2. \A f \in Films : flushed'[f] \subseteq (flushed[f] \cup {k}) \cap Keys
      BY <2>1 DEF TypeOK
    <2>3. \A f \in Films : deletion'[f] \in {"none", "mark"} => flushed'[f] = {}
      BY <2>1
    <2>4. QED
      BY <2>1, <2>2, <2>3, DropRefill
  <1>7. ASSUME NEW f \in Films, SoftDelete(f)
        PROVE  Refill'
    <2>1. UNCHANGED <<index, redis, reader, history>> /\ deletion' = [deletion EXCEPT ![f] = "mark"]
          /\ f \notin pg_deleted
      BY <1>7 DEF SoftDelete
    <2>2. QED
      BY <2>1 DEF TypeOK, index, redis, history
  <1>8. ASSUME NEW f \in Films, Mark(f)
        PROVE  Refill'
    <2>1. deletion[f] = "mark" /\ flushed[f] = {} /\ UNCHANGED <<redis, reader>>
          /\ \A g \in Films \ {f} : deletion'[g] = deletion[g]
      BY <1>8 DEF Mark, TypeOK
    <2>2. CASE UNCHANGED <<index, history>>
      BY <2>1, <2>2 DEF redis, index, history, TypeOK
    <2>3. CASE ~UNCHANGED <<index, history>>
      <3>1. /\ es' = [es EXCEPT ![f] = "deleted"] /\ seen' = es'
            /\ marked' = marked \cup {f} /\ UNCHANGED <<overwritten, flushed, refilled>>
            /\ straggler' = [straggler EXCEPT ![f] = {r \in Readers : f \in reader[r].films}]
        BY <1>8, <2>3 DEF Mark, Marked
      <3>2. OnlyStragglersRefill'
        BY <2>1, <3>1 DEF redis
      <3>3. StragglersHoldIt'
        BY <2>1, <3>1 DEF TypeOK
      <3>4. QED
        BY <3>2, <3>3
    <2>4. QED
      BY <2>2, <2>3
  <1>9. ASSUME NEW f \in Films, Flush(f)
        PROVE  Refill'
    <2> DEFINE k == IF deletion[f] = "card" THEN f ELSE deletion[f]
    <2>1. /\ Drop(k) /\ flushed' = [flushed EXCEPT ![f] = @ \cup ({k} \cap Keys)]
          /\ UNCHANGED <<index, reader, marked, overwritten, straggler>>
          /\ deletion[f] \in {"card", "films", "films_person", "person"}
          /\ deletion' = [deletion EXCEPT ![f] = AfterFlush[@]]
      BY <1>9 DEF Flush
    <2>2. deletion'[f] \notin {"none", "mark"}
      BY <2>1 DEF AfterFlush, TypeOK
    <2>3. \A g \in Films : flushed'[g] \subseteq (flushed[g] \cup {k}) \cap Keys
      BY <2>1 DEF TypeOK
    <2>4. \A g \in Films : deletion'[g] \in {"none", "mark"} => flushed'[g] = {}
      BY <2>1, <2>2 DEF TypeOK
    <2>5. QED
      BY <2>1, <2>3, <2>4, DropRefill
  <1>10. ASSUME NEW f \in Films, DeletionDies(f)
         PROVE  Refill'
    BY <1>10 DEF DeletionDies, TypeOK, index, redis, history
  <1>11. ASSUME NEW f \in Films, EtlIndex(f)
         PROVE  Refill'
    <2>1. UNCHANGED <<seen, redis, reader, deletion, marked, straggler, flushed, refilled>>
      BY <1>11 DEF EtlIndex
    <2>2. f \in etl.live /\ f \in marked => overwritten' = overwritten \cup {f}
      BY <1>11 DEF EtlIndex
    <2>3. overwritten \subseteq overwritten'
      BY <1>11 DEF EtlIndex
    <2>4. \A g \in Films : es'[g] = IF g = f THEN IF f \in etl.live THEN "live" ELSE "deleted" ELSE es[g]
      BY <1>11 DEF EtlIndex, TypeOK
    <2>5. \A g \in marked' \ overwritten' : es'[g] = "deleted"
      BY <2>1, <2>2, <2>3, <2>4 DEF TypeOK
    <2>6. QED
      BY <2>1, <2>3, <2>5 DEF redis
  <1>12. CASE Refresh
    BY <1>12 DEF Refresh, redis, history
  <1>13. ASSUME NEW batch \in SUBSET Films, EtlSelect(batch) \/ EtlSelectRelated(batch)
         PROVE  UNCHANGED <<index, redis, reader, deletion, history>>
    BY <1>13 DEF EtlSelect, EtlSelectRelated
  <1>14. EtlFetch \/ EtlRetry \/ EtlCommit \/ EtlCrash \/ UNCHANGED vars
         \/ (\E r \in Readers : \E k \in Keys : Hit(r, k))
           => UNCHANGED <<index, redis, reader, deletion, history>>
    BY DEF EtlFetch, EtlRetry, EtlCommit, EtlCrash, Hit, vars
  <1>15. QED
    BY <1>1, <1>2, <1>3, <1>4, <1>5, <1>6, <1>7, <1>8, <1>9, <1>10, <1>11, <1>12, <1>13, <1>14
    DEF Next

-----------------------------------------------------------------------------
\* CatalogInv holds in every reachable state.
THEOREM Invariance == Spec => []CatalogInv
  <1>1. CatalogInv /\ [Next]_vars => CatalogInv'
    BY NextTypes, NextRepair, NextTells, NextRefill DEF CatalogInv, WatermarkKept, Refill
  <1>2. QED
    BY InitInv, <1>1, PTL DEF Spec

\* The stores, the readers, the deletions and the ETL stay within their types,
\* for any films and readers.
THEOREM TypeCorrect == Spec => []TypeOK
  BY Invariance, PTL DEF CatalogInv

\* A deleted film that is live in Elasticsearch is always still above the
\* watermark, so the repair of a lost or undone mark is never lost itself.
THEOREM RepairStaysPending == Spec => []RepairPending
  BY Invariance, PTL DEF CatalogInv

\* With Elasticsearch marked before Redis is flushed, only a reader that held
\* the film when it was marked can put it back.
THEOREM RefillOnlyByStragglers == Spec => []OnlyStragglersRefill
  BY Invariance, PTL DEF CatalogInv

\* What a batch of the ETL has in hand or has written of deleted films is covered
\* by rows that it will read again.
THEOREM BatchesAreCovered == Spec => []EtlInHand
  BY Invariance, PTL DEF CatalogInv

\* Nobody but the readers that held a film when it was marked has it in hand.
THEOREM StragglersAreKnown == Spec => []StragglersHoldIt
  BY Invariance, PTL DEF CatalogInv

\* Once no copy shows a deleted film, none ever will: whatever the ETL loads
\* and the readers put comes from a place that does not show it either.
THEOREM HiddenForGood == Spec => HiddenStaysHidden
  <1>1. CatalogInv /\ [Next]_vars => \A f \in Films : Hidden(f) => Hidden(f)'
    <2> SUFFICES ASSUME TypeOK, [Next]_vars, NEW f \in Films, Hidden(f)
                 PROVE  Hidden(f)'
      BY DEF CatalogInv
    <2> USE DEF Hidden, rows, index, redis
    <2>1. ASSUME NEW r \in Readers, Read(r)
          PROVE  Hidden(f)'
      <3>1. f \notin Found(reader[r].key)
        BY DEF Found
      <3>2. UNCHANGED <<pg_deleted, es, seen, etl, shown>>
        BY <2>1 DEF Read
      <3>3. \A q \in Readers : reader'[q].films = IF q = r THEN Found(reader[r].key) ELSE reader[q].films
        BY <2>1 DEF Read, TypeOK
      <3>4. QED
        BY <3>1, <3>2, <3>3
    <2>2. ASSUME NEW r \in Readers, Put(r)
          PROVE  Hidden(f)'
      BY <2>2 DEF Put, NoReader, TypeOK
    <2>3. ASSUME NEW r \in Readers, Leave(r) \/ \E k \in Keys : Miss(r, k)
          PROVE  Hidden(f)'
      <3>1. \A q \in Readers : reader'[q].films \subseteq reader[q].films
        BY <2>3 DEF Leave, Miss, NoReader, TypeOK
      <3>2. UNCHANGED <<pg_deleted, es, seen, etl, shown>>
        BY <2>3 DEF Leave, Miss
      <3>3. QED
        BY <3>1, <3>2
    <2>4. ASSUME NEW k \in Keys, Expire(k)
          PROVE  Hidden(f)'
      BY <2>4 DEF Expire, Drop
    <2>5. ASSUME NEW g \in Films, SoftDelete(g)
          PROVE  Hidden(f)'
      BY <2>5 DEF SoftDelete, TypeOK
    <2>6. ASSUME NEW g \in Films, Mark(g)
          PROVE  Hidden(f)'
      BY <2>6 DEF Mark, TypeOK
    <2>7. ASSUME NEW g \in Films, Flush(g) \/ DeletionDies(g)
          PROVE  Hidden(f)'
      BY <2>7 DEF Flush, DeletionDies, Drop
    <2>8. ASSUME NEW batch \in SUBSET Films, EtlSelect(batch) \/ EtlSelectRelated(batch)
          PROVE  Hidden(f)'
      BY <2>8 DEF EtlSelect, EtlSelectRelated, EtlBatch
    <2>9. CASE EtlFetch
      <3>1. etl'.live = etl.batch \ pg_deleted
        BY <2>9 DEF EtlFetch, TypeOK
      <3>2. QED
        BY <2>9, <3>1 DEF EtlFetch
    <2>10. ASSUME NEW g \in Films, EtlIndex(g)
           PROVE  Hidden(f)'
      <3>1. etl'.live = etl.live
        BY <2>10 DEF EtlIndex, TypeOK
      <3>2. es'[f] # "live"
        BY <2>10 DEF EtlIndex, TypeOK
      <3>3. QED
        BY <2>10, <3>1, <3>2 DEF EtlIndex
    <2>11. CASE EtlRetry
      <3>1. etl'.live = etl.live
        BY <2>11 DEF EtlRetry, TypeOK
      <3>2. QED
        BY <2>11, <3>1 DEF EtlRetry
    <2>12. CASE EtlCommit \/ EtlCrash
      BY <2>12 DEF EtlCommit, EtlCrash, NoEtlBatch
    <2>13. CASE Refresh
      BY <2>13 DEF Refresh
    <2>14. CASE UNCHANGED vars
      BY <2>14 DEF vars
    <2>15. QED
      BY <2>1, <2>2, <2>3, <2>4, <2>5, <2>6, <2>7, <2>8, <2>9, <2>10, <2>11, <2>12, <2>13, <2>14
      DEF Next, Hit
  <1>2. QED
    BY <1>1, Invariance, PTL DEF Spec, HiddenStaysHidden

-----------------------------------------------------------------------------
(* DeletionRepair.  Its row is due while it is dirty, and none is missed.   *)

\* Some documents are not there yet, and the ETL has those to load.
LEMMA InitRepairs == Init => Repair!Init
  BY DEF Init, Repair!Init

\* The DELETE deletes and marks, the ETL writes and settles; whoever else moves,
\* readers, caches, refreshes and failures, changes nothing of it.
LEMMA NextRepairs == CatalogInv /\ [Next]_vars => [Repair!Next]_(Repair!vars)
  <1> SUFFICES ASSUME CatalogInv, [Next]_vars
               PROVE  Repair!Next \/ UNCHANGED Repair!vars
    OBVIOUS
  <1> USE DEF CatalogInv
  <1>1. CASE UNCHANGED <<pg_deleted, dirty, es>>
    BY <1>1 DEF Repair!vars
  <1>2. ASSUME NEW f \in Films, SoftDelete(f)
        PROVE  Repair!Delete(f)
    BY <1>2 DEF SoftDelete, index, Repair!Delete
  <1>3. ASSUME NEW f \in Films, Mark(f)
        PROVE  Repair!WriteTruth(f) \/ UNCHANGED <<pg_deleted, dirty, es>>
    <2>1. f \in pg_deleted /\ UNCHANGED <<pg_deleted, dirty>>
      BY <1>3 DEF Mark, TypeOK, rows
    <2>2. es' = [es EXCEPT ![f] = "deleted"] \/ es' = es
      BY <1>3 DEF Mark, index
    <2>3. QED
      BY <2>1, <2>2 DEF Repair!WriteTruth
  <1>4. ASSUME NEW f \in Films, EtlIndex(f)
        PROVE  Repair!WriteTruth(f) \/ Repair!WriteOld(f)
    <2>1. /\ UNCHANGED <<pg_deleted, dirty>> /\ etl.at = "load" /\ f \in etl.left
          /\ es' = [es EXCEPT ![f] = IF f \in etl.live THEN "live" ELSE "deleted"]
      BY <1>4 DEF EtlIndex, rows
    <2>2. CASE f \in etl.live /\ f \in pg_deleted
      <3>1. f \in dirty
        BY <2>2 DEF EtlInHand
      <3>2. QED
        BY <2>1, <2>2, <3>1 DEF Repair!WriteOld
    <2>3. CASE f \in etl.live /\ f \notin pg_deleted
      BY <2>1, <2>3 DEF Repair!WriteTruth
    <2>4. CASE f \notin etl.live
      <3>1. f \in pg_deleted
        BY <2>1, <2>4 DEF IndexTells
      <3>2. QED
        BY <2>1, <2>4, <3>1 DEF Repair!WriteTruth
    <2>5. QED
      BY <2>2, <2>3, <2>4
  <1>5. ASSUME EtlCommit
        PROVE  \E films \in SUBSET Films : Repair!Settle(films)
    <2>1. /\ UNCHANGED <<pg_deleted, es>> /\ etl.at = "load" /\ etl.left = {}
          /\ dirty' = IF etl.own THEN (dirty \ etl.batch) \cup etl.again ELSE dirty
      BY <1>5 DEF EtlCommit, index
    <2> DEFINE films == IF etl.own THEN etl.batch \ etl.again ELSE {}
    <2>2. films \in SUBSET Films
      BY DEF TypeOK
    <2>3. dirty' = dirty \ films
      BY <2>1 DEF EtlInHand
    <2>4. ASSUME NEW f \in films
          PROVE  Repair!Truthful(f)
      <3>1. f \in Films /\ es[f] # "absent" /\ (f \in pg_deleted => es[f] # "live")
        BY <2>1, <2>2 DEF IndexTells, EtlInHand
      <3>2. es[f] = "deleted" <=> f \in pg_deleted
        BY <3>1 DEF IndexTells, TypeOK
      <3>3. QED
        BY <3>1, <3>2 DEF Repair!Truthful, TypeOK
    <2>5. Repair!Settle(films)
      BY <2>1, <2>3, <2>4 DEF Repair!Settle
    <2>6. QED
      BY <2>2, <2>5
  <1>6. ASSUME NEW r \in Readers, Read(r) \/ Put(r) \/ Leave(r)
        PROVE  UNCHANGED <<pg_deleted, dirty, es>>
    BY <1>6 DEF Read, Put, Leave, rows, index
  <1>7. ASSUME NEW f \in Films, Flush(f) \/ DeletionDies(f)
        PROVE  UNCHANGED <<pg_deleted, dirty, es>>
    BY <1>7 DEF Flush, DeletionDies, rows, index
  <1>8. ASSUME NEW k \in Keys, Expire(k) \/ \E r \in Readers : Hit(r, k) \/ Miss(r, k)
        PROVE  UNCHANGED <<pg_deleted, dirty, es>>
    BY <1>8 DEF Expire, Hit, Miss, vars, rows, index
  <1>9. ASSUME NEW batch \in SUBSET Films, EtlSelect(batch) \/ EtlSelectRelated(batch)
        PROVE  UNCHANGED <<pg_deleted, dirty, es>>
    BY <1>9 DEF EtlSelect, EtlSelectRelated, rows, index
  <1>10. EtlFetch \/ EtlRetry \/ EtlCrash \/ Refresh \/ UNCHANGED vars
           => UNCHANGED <<pg_deleted, dirty, es>>
    BY DEF EtlFetch, EtlRetry, EtlCrash, Refresh, vars, rows, index
  <1>11. QED
    BY <1>1, <1>2, <1>3, <1>4, <1>5, <1>6, <1>7, <1>8, <1>9, <1>10 DEF Next, Repair!Next

\* The catalogue, with the DELETE of fast_api and its readers around the ETL, keeps
\* the promise of DeletionRepair and misses no film.
THEOREM Repairs == Spec => ImplementsRepair
  BY InitRepairs, NextRepairs, Invariance, PTL DEF Spec, ImplementsRepair, Repair!Spec

\* What DeletionRepair gives to whoever looks a film up.
LEMMA PromiseCovers == Repair!Spec => []Repair!Covered
  <1> DEFINE Told == es \in [Films -> {"absent", "live", "deleted"}] /\ Repair!Covered
  <1>1. Repair!Init => Told
    BY DEF Repair!Init, Repair!Covered, Repair!Truthful
  <1>2. Told /\ [Repair!Next]_(Repair!vars) => Told'
    <2> SUFFICES ASSUME Told, [Repair!Next]_(Repair!vars)
                 PROVE  Told'
      OBVIOUS
    <2> USE DEF Repair!Covered, Repair!Truthful
    <2>1. ASSUME NEW f \in Films, Repair!Delete(f)
          PROVE  Told'
      BY <2>1 DEF Repair!Delete
    <2>2. ASSUME NEW f \in Films, Repair!WriteTruth(f) \/ Repair!WriteOld(f)
          PROVE  Told'
      BY <2>2 DEF Repair!WriteTruth, Repair!WriteOld
    <2>3. ASSUME NEW films \in SUBSET Films,
                 Repair!Settle(films) \/ Repair!Reopen(films) \/ Repair!Overlook(films)
          PROVE  Told'
      BY <2>3 DEF Repair!Settle, Repair!Reopen, Repair!Overlook
    <2>4. CASE UNCHANGED Repair!vars
      BY <2>4 DEF Repair!vars
    <2>5. QED
      BY <2>1, <2>2, <2>3, <2>4 DEF Repair!Next
  <1>3. QED
    BY <1>1, <1>2, PTL DEF Repair!Spec

\* So a document that does not tell what the row tells, missing, live or deleted,
\* belongs to a film that the ETL will come for.
THEOREM DeletionsCovered == Spec => []Repair!Covered
  BY Repairs, PromiseCovers DEF ImplementsRepair

=============================================================================
