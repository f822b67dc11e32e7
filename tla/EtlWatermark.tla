----------------------------- MODULE EtlWatermark -----------------------------
(***************************************************************************)
(* How etl_service finds out what changed: by the column `modified` of each *)
(* row and a watermark per table that it keeps in a JSON file.  A pass      *)
(* walks the tables in order; of each it selects the rows above the         *)
(* watermark, oldest first and at most a batch of them, loads their         *)
(* documents and then those of the films related to them, and saves the     *)
(* `modified` of the last row as the new watermark.                         *)
(*                                                                         *)
(* A change carries the time its transaction began (now() of Postgres) and  *)
(* is seen when it commits, so changes do not appear in the order of their  *)
(* `modified`.  One change per row is looked at: for a film that is all     *)
(* there is (the soft deletion of FilmsRepository), genres and persons are  *)
(* changed by whoever has access to the database.  Documents are written    *)
(* here by the ETL only; FilmCatalog has the other writers.  A definition   *)
(* named for a fault is a broken variant of the one below it.               *)
(***************************************************************************)
EXTENDS Integers, FiniteSets

CONSTANTS
  Rows,             \* rows of the three tables; each has a document of its own
  Table,            \* the table of each row
  Links,            \* <<row, film>>: the film's document shows the row too
  BatchSize,        \* rows of a selection, per table
  BaseBatchSize,    \* related films fetched at a time
  Loaded,           \* when the rows had been loaded from the dump
  MaxTime,          \* bound of the clock
  MaxFailures       \* bound of the failures that are looked at

Tables == {"film_work", "genre", "person"}
Films == {r \in Rows : Table[r] = "film_work"}

ASSUME WatermarkAssumption ==
  /\ Table \in [Rows -> Tables]
  /\ Links \subseteq (Rows \ Films) \X Films
  /\ BatchSize \in [Tables -> Nat \ {0}]
  /\ BaseBatchSize \in Nat \ {0}
  /\ Loaded \in Nat \ {0}
  /\ MaxTime \in Nat /\ Loaded <= MaxTime
  /\ MaxFailures \in Nat

VARIABLES
  \* Postgres:
  now,       \* its clock
  modified,  \* of each row
  changed,   \* rows whose change is committed
  pending,   \* <<row, time>> of the transactions that have not ended
  \* The state file: what a start would read from it.
  file,
  \* The ETL:
  at,        \* "idle", "select", "fetch", "load" or "write"
  state,     \* StateManager.state
  table,     \* the table it is at
  batch,     \* rows selected
  last,      \* `modified` of the last of them
  todo,      \* related films still to be fetched
  bulk,      \* documents of the bulk request in hand
  left,      \* those of them not written yet
  fetched,   \* rows that were changed when they were fetched
  \* Elasticsearch:
  indexed,   \* documents that exist
  shows,     \* <<document, row>>: the document shows the row as changed
  failures,  \* failures so far
  \* History, read by the properties only:
  late,      \* rows whose change committed below a watermark already reached
  tied       \* rows left out of a batch that ends at their very time

postgres == <<now, modified, changed, pending>>
work == <<table, batch, last, todo, bulk, left, fetched>>
elastic == <<indexed, shows>>
vars == <<postgres, file, at, state, work, elastic, failures, late, tied>>

\* No file, an empty one or broken JSON: every table starts at datetime.min.
NoState == [t \in Tables |-> 0]

\* The rows a document is made of.
Parts(d) == {d} \cup {r \in Rows : <<r, d>> \in Links}

-----------------------------------------------------------------------------
Init ==
  /\ now = Loaded
  /\ modified \in [Rows -> 1..Loaded]
  /\ \A r, s \in Rows : Table[r] = Table[s] /\ r # s => modified[r] # modified[s]
  /\ changed = {}
  /\ pending = {}
  /\ file = NoState
  /\ at = "idle"
  /\ state = NoState
  /\ table = "film_work"
  /\ batch = {}
  /\ last = 0
  /\ todo = {}
  /\ bulk = {}
  /\ left = {}
  /\ fetched = {}
  /\ indexed = {}
  /\ shows = {}
  /\ failures = 0
  /\ late = {}
  /\ tied = {}

-----------------------------------------------------------------------------
(* Transactions that change a row.                                          *)

Tick ==
  /\ now < MaxTime
  /\ now' = now + 1
  /\ UNCHANGED <<modified, changed, pending, file, at, state, work, elastic, failures, late, tied>>

\* now() is the time of this step.
Begin(r) ==
  /\ r \notin changed
  /\ pending' = pending \cup {<<r, now>>}
  /\ UNCHANGED <<now, modified, changed, file, at, state, work, elastic, failures, late, tied>>

\* The watermark of a table that a start, or the running pass, goes on from.
Reached(t) == IF at = "idle" THEN file[t] ELSE state[t]

\* The same, with the batch in hand counted as done.
Horizon(t) == IF t = table /\ at \in {"fetch", "load"} THEN last ELSE Reached(t)

\* Others that wait for the row then find is_deleted set and match nothing.
Commit(r, time) ==
  /\ <<r, time>> \in pending
  /\ modified' = [modified EXCEPT ![r] = time]
  /\ changed' = changed \cup {r}
  /\ pending' = {p \in pending : p[1] # r}
  /\ late' = IF time <= Horizon(Table[r]) /\ ~(at = "fetch" /\ r \in batch)
             THEN late \cup {r} ELSE late
  /\ UNCHANGED <<now, file, at, state, work, elastic, failures, tied>>

Rollback(r, time) ==
  /\ <<r, time>> \in pending
  /\ pending' = pending \ {<<r, time>>}
  /\ UNCHANGED <<now, modified, changed, file, at, state, work, elastic, failures, late, tied>>

-----------------------------------------------------------------------------
(* A pass of load_from_postgres_to_elastic.                                 *)

PassStart ==
  /\ at = "idle"
  /\ at' = "select"
  /\ state' = file
  /\ UNCHANGED <<postgres, file, work, elastic, failures, late, tied>>

Due == {r \in Rows : Table[r] = table /\ modified[r] > state[table]}

SelectUnordered(ids) ==
  /\ at = "select"
  /\ ids # {} /\ ids \subseteq Due
  /\ Cardinality(ids) <= BatchSize[table]
  /\ ids # Due => Cardinality(ids) = BatchSize[table]
  /\ \E r \in ids : /\ \A s \in ids : modified[s] <= modified[r]
                    /\ last' = modified[r]
  /\ at' = "fetch"
  /\ batch' = ids
  /\ todo' = {f \in Films : \E r \in ids : <<r, f>> \in Links}
  /\ tied' = tied \cup {s \in Due \ ids : modified[s] = last'}
  /\ UNCHANGED <<postgres, file, state, table, bulk, left, fetched, elastic, failures, late>>

\* WHERE modified > %s ORDER BY modified LIMIT %s.
Select(ids) ==
  /\ at = "select"
  /\ ids # {} /\ ids \subseteq Due
  /\ Cardinality(ids) <= BatchSize[table]
  /\ ids # Due => Cardinality(ids) = BatchSize[table]
  /\ \A r \in ids, s \in Due \ ids : modified[r] <= modified[s]
  /\ \E r \in ids : /\ \A s \in ids : modified[s] <= modified[r]
                    /\ last' = modified[r]
  /\ at' = "fetch"
  /\ batch' = ids
  /\ todo' = {f \in Films : \E r \in ids : <<r, f>> \in Links}
  /\ tied' = tied \cup {s \in Due \ ids : modified[s] = last'}
  /\ UNCHANGED <<postgres, file, state, table, bulk, left, fetched, elastic, failures, late>>

\* The function is left; nothing in memory outlives it.
Ended ==
  /\ at' = "idle"
  /\ state' = NoState
  /\ table' = "film_work"
  /\ batch' = {}
  /\ last' = 0
  /\ todo' = {}
  /\ bulk' = {}
  /\ left' = {}
  /\ fetched' = {}

NextTable == [film_work |-> "genre", genre |-> "person"]

NothingDue ==
  /\ at = "select"
  /\ Due = {}
  /\ IF table = "person"
     THEN Ended
     ELSE /\ table' = NextTable[table]
          /\ UNCHANGED <<at, state, batch, last, todo, bulk, left, fetched>>
  /\ UNCHANGED <<postgres, file, elastic, failures, late, tied>>

FetchSelectedOnly ==
  /\ at = "fetch"
  /\ at' = "load"
  /\ fetched' = changed \cap batch
  /\ bulk' = batch
  /\ left' = batch
  /\ UNCHANGED <<postgres, file, state, table, batch, last, todo, elastic, failures, late, tied>>

Fetch ==
  /\ at = "fetch"
  /\ at' = "load"
  /\ fetched' = changed
  /\ bulk' = batch
  /\ left' = batch
  /\ UNCHANGED <<postgres, file, state, table, batch, last, todo, elastic, failures, late, tied>>

\* The ids of the related films are read once, their rows batch by batch.
FetchRelated(films) ==
  /\ at = "load" /\ left = {}
  /\ films # {} /\ films \subseteq todo
  /\ Cardinality(films) <= BaseBatchSize
  /\ films # todo => Cardinality(films) = BaseBatchSize
  /\ fetched' = changed
  /\ bulk' = films
  /\ left' = films
  /\ todo' = todo \ films
  /\ UNCHANGED <<postgres, file, at, state, table, batch, last, elastic, failures, late, tied>>

\* A bulk writes whole documents, one after the other.
Index(d) ==
  /\ at = "load"
  /\ d \in left
  /\ indexed' = indexed \cup {d}
  /\ shows' = {p \in shows : p[1] # d} \cup {<<d, r>> : r \in Parts(d) \cap fetched}
  /\ left' = left \ {d}
  /\ UNCHANGED <<postgres, file, at, state, table, batch, last, todo, bulk, fetched, failures, late, tied>>

\* The backoff of load_data sends the bulk again.
LoadAgain ==
  /\ at = "load" /\ left # {}
  /\ failures < MaxFailures
  /\ failures' = failures + 1
  /\ left' = bulk
  /\ UNCHANGED <<postgres, file, at, state, table, batch, last, todo, bulk, fetched, elastic, late, tied>>

SetStateBeforeRelated ==
  /\ at = "load" /\ left = {}
  /\ at' = "write"
  /\ state' = [state EXCEPT ![table] = last]
  /\ file' = NoState
  /\ UNCHANGED <<postgres, work, elastic, failures, late, tied>>

\* set_state, up to the open() that truncates the file ...
SetState ==
  /\ at = "load" /\ left = {} /\ todo = {}
  /\ at' = "write"
  /\ state' = [state EXCEPT ![table] = last]
  /\ file' = NoState
  /\ UNCHANGED <<postgres, work, elastic, failures, late, tied>>

WriteNewest ==
  /\ at = "write"
  /\ at' = "select"
  /\ file' = [t \in Tables |-> last]
  /\ batch' = {} /\ bulk' = {} /\ fetched' = {} /\ last' = 0
  /\ UNCHANGED <<postgres, state, table, todo, left, elastic, failures, late, tied>>

\* ... and the json.dump that fills it; the loop goes on with what it has in
\* memory.
WriteState ==
  /\ at = "write"
  /\ at' = "select"
  /\ file' = state
  /\ batch' = {} /\ bulk' = {} /\ fetched' = {} /\ last' = 0
  /\ UNCHANGED <<postgres, state, table, todo, left, elastic, failures, late, tied>>

\* An error that ends the pass, or a kill.  The next pass starts from the file,
\* whether the backoff of the function, the loop or the container calls it.
Fail ==
  /\ at # "idle"
  /\ failures < MaxFailures
  /\ failures' = failures + 1
  /\ Ended
  /\ UNCHANGED <<postgres, file, elastic, late, tied>>

-----------------------------------------------------------------------------
EtlStep ==
  \/ PassStart \/ NothingDue \/ Fetch \/ SetState \/ WriteState
  \/ \E ids \in SUBSET Rows : Select(ids) \/ FetchRelated(ids)
  \/ \E d \in Rows : Index(d)

Next ==
  \/ Tick
  \/ \E r \in Rows : Begin(r)
  \/ \E r \in Rows, time \in 1..MaxTime : Commit(r, time) \/ Rollback(r, time)
  \/ EtlStep
  \/ LoadAgain \/ Fail

Spec == Init /\ [][Next]_vars

\* The ETL runs for ever, one pass a minute, and stops failing in the end
\* (MaxFailures).  Nothing is asked of the transactions.
FairSpec == Spec /\ WF_vars(EtlStep)

-----------------------------------------------------------------------------
TypeOK ==
  /\ now \in 1..MaxTime
  /\ modified \in [Rows -> 1..MaxTime]
  /\ changed \subseteq Rows
  /\ pending \subseteq Rows \X (1..MaxTime)
  /\ \A p \in pending : p[1] \notin changed /\ p[2] \in modified[p[1]]..now
  /\ \A r \in Rows : modified[r] <= now
  /\ file \in [Tables -> 0..MaxTime]
  /\ state \in [Tables -> 0..MaxTime]
  /\ at \in {"idle", "select", "fetch", "load", "write"}
  /\ table \in Tables
  /\ batch \subseteq Rows
  /\ last \in 0..MaxTime
  /\ todo \subseteq Films
  /\ bulk \subseteq Rows
  /\ left \subseteq bulk
  /\ (batch \cup bulk) \cap todo = {}
  /\ at # "load" => left = {}
  /\ at \notin {"load", "write"} => bulk = {}
  /\ at \notin {"fetch", "load"} => todo = {}
  /\ fetched \subseteq changed
  /\ indexed \subseteq Rows
  /\ shows \subseteq indexed \X changed
  /\ \A p \in shows : p[2] \in Parts(p[1])
  /\ failures \in 0..MaxFailures
  /\ late \subseteq Rows
  /\ tied \subseteq Rows

Passed == late \cup tied

\* The document shows the row as it is.
Current(d, r) == d \in indexed /\ (r \in changed => <<d, r>> \in shows)

\* Whatever a document does not show yet, the ETL will still come for: its row
\* is above the watermark in the file, so that neither a crash, nor a torn
\* file, nor a batch cut short loses a change.  There are two exceptions and
\* no other: a change that committed below a watermark already reached, and
\* one that has the very time a batch ended at.
ChangesPending ==
  \A d \in Rows : \A r \in Parts(d) :
    Current(d, r) \/ r \in Passed \/ modified[r] > file[Table[r]]

\* Why: the same holds of the watermark in memory, which is never behind the
\* file; and up to the end of the batch in hand every row is shown, or is in
\* the batch with its document still to be written.
WatermarkInMemory ==
  /\ \A t \in Tables : file[t] <= Reached(t)
  /\ \A d \in Rows : \A r \in Parts(d) :
       Current(d, r) \/ r \in Passed \/ modified[r] > Reached(Table[r])

Remaining == todo \cup (IF at = "fetch" THEN batch ELSE left)

BatchInHand ==
  /\ at \in {"fetch", "load"} =>
       /\ last > state[table]
       /\ \A d \in Rows : \A r \in Parts(d) :
            Table[r] = table /\ modified[r] <= last /\ r \notin Passed
              => Current(d, r) \/ d \in Remaining
  /\ at = "fetch" => \A r \in batch : /\ Table[r] = table
                                      /\ modified[r] > state[table]
                                      /\ \A d \in Rows : r \in Parts(d) => d \in Remaining
  /\ at = "load" =>
       /\ \A r \in changed \ fetched : r \in Passed \/ modified[r] > Horizon(Table[r])
       /\ \A p \in shows : p[2] \in fetched

\* The documents, the batch in hand, the watermark in memory and that in the file
\* fit together in every phase of a pass, so that it may end anywhere.
EtlInv == TypeOK /\ ChangesPending /\ WatermarkInMemory /\ BatchInHand

\* A document never goes back to the old content of a row, although each one
\* is replaced as a whole, also by passes over other tables.
DocumentsOnlyAdvance == [][shows \subseteq shows']_vars

\* Seen through the films alone, with persons, batches, the state file and its loss
\* behind the scenes: no document of a deleted film goes back to the old row, and no
\* film falls out of the selections, while nothing will come to repair it.
FilmDocument(f) ==
  IF f \notin indexed THEN "absent" ELSE IF <<f, f>> \in shows THEN "deleted" ELSE "live"

Repair == INSTANCE DeletionRepair WITH
  deleted <- changed \cap Films,
  doc <- [f \in Films |-> FilmDocument(f)],
  due <- {f \in Films : modified[f] > file[Table[f]]},
  missed <- Passed \cap Films

ImplementsRepair == Repair!Spec

\* Again and again every document shows every committed change of its rows,
\* with the two exceptions above: whatever the ETL failed at, it catches up.
CaughtUp ==
  \A d \in Rows : \A r \in Parts(d) : r \in changed => Current(d, r) \/ r \in Passed

EventuallyIndexed == []<>CaughtUp

=============================================================================
