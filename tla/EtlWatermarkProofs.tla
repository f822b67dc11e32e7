-------------------------- MODULE EtlWatermarkProofs --------------------------
(***************************************************************************)
(* EtlInv of EtlWatermark is inductive.  What matters is BatchInHand: up to *)
(* the time the batch ends at, every row is shown by its documents, or the  *)
(* documents are among those still to be written.  When none remain, the    *)
(* watermark may move there.  A change that commits meanwhile is above that *)
(* time, or it is in the batch and not fetched yet, or it is late.          *)
(*                                                                          *)
(* The same three make each step one of DeletionRepair: a film that is      *)
(* written from an old row is above the file's watermark, which is behind   *)
(* the pass; and the file takes over only what documents show.              *)
(***************************************************************************)
EXTENDS EtlWatermark, TLAPS

\* The actions of a pass, each with its arguments.
Passes ==
  \/ PassStart \/ NothingDue \/ Fetch \/ SetState \/ WriteState \/ LoadAgain \/ Fail
  \/ \E ids \in SUBSET Rows : Select(ids) \/ FetchRelated(ids)
  \/ \E d \in Rows : Index(d)

\* An ETL that has read nothing has everything above its watermark.
LEMMA InitInv == Init => EtlInv
  <1> SUFFICES ASSUME Init PROVE EtlInv
    OBVIOUS
  <1> USE WatermarkAssumption DEF Init
  <1>1. TypeOK
    BY DEF TypeOK, NoState, Tables, Films
  <1>2. \A t \in Tables : file[t] <= Reached(t)
    BY DEF Reached, NoState
  <1>3. \A d \in Rows : \A r \in Parts(d) : modified[r] > 0 /\ Table[r] \in Tables
    BY DEF Parts, Films, Tables
  <1>4. ChangesPending /\ WatermarkInMemory
    BY <1>2, <1>3 DEF ChangesPending, WatermarkInMemory, Reached, NoState
  <1>5. BatchInHand
    BY DEF BatchInHand
  <1>6. QED
    BY <1>1, <1>4, <1>5 DEF EtlInv

-----------------------------------------------------------------------------
(* Types.                                                                   *)

\* Films are rows, rows have tables, and a film is one of its parts.
LEMMA RowTypes ==
  /\ Films \subseteq Rows
  /\ \A r \in Rows : Table[r] \in Tables
  /\ \A d \in Rows : Parts(d) \subseteq Rows /\ d \in Parts(d)
  BY WatermarkAssumption DEF Films, Parts

\* Transactions of the admin panel keep the types.
LEMMA TransactionTypes ==
  ASSUME TypeOK, NEW r \in Rows, NEW time \in 1..MaxTime,
         Begin(r) \/ Commit(r, time) \/ Rollback(r, time)
  PROVE  TypeOK'
  <1> USE WatermarkAssumption DEF TypeOK, work, elastic
  <1>2. CASE Begin(r)
    BY <1>2 DEF Begin
  <1>3. CASE Commit(r, time)
    <2>1. /\ time <= now
          /\ modified' \in [Rows -> 1..MaxTime] /\ now' = now
          /\ \A s \in Rows : modified'[s] = IF s = r THEN time ELSE modified[s]
      BY <1>3 DEF Commit, postgres
    <2>2. \A p \in pending' : p \in pending /\ p[1] \notin changed' /\ p[2] \in modified'[p[1]]..now'
      BY <1>3, <2>1 DEF Commit
    <2>3. \A s \in Rows : modified'[s] <= now'
      BY <2>1
    <2>4. late' \subseteq Rows /\ changed' \subseteq Rows /\ changed \subseteq changed'
      BY <1>3 DEF Commit
    <2>5. QED
      BY <1>3, <2>1, <2>2, <2>3, <2>4 DEF Commit
  <1>4. CASE Rollback(r, time)
    BY <1>4 DEF Rollback
  <1>5. QED
    BY <1>2, <1>3, <1>4

\* The clock keeps the types.
LEMMA TickTypes ==
  ASSUME TypeOK, Tick
  PROVE  TypeOK'
  BY WatermarkAssumption DEF TypeOK, Tick, work, elastic

\* A pass that ends or dies forgets its work and keeps the types.
LEMMA EndedTypes ==
  ASSUME TypeOK, Ended, UNCHANGED <<postgres, file, elastic, late, tied>>,
         failures' \in 0..MaxFailures
  PROVE  TypeOK'
  BY WatermarkAssumption DEF TypeOK, Ended, postgres, elastic, NoState, Tables

\* The steps of a pass keep the types.
LEMMA PassTypes ==
  ASSUME TypeOK, Passes
  PROVE  TypeOK'
  <1> USE WatermarkAssumption, RowTypes DEF postgres, work, elastic
  <1>1. CASE PassStart
    BY <1>1 DEF TypeOK, PassStart
  <1>2. CASE NothingDue
    <2>1. CASE table = "person"
      BY <1>2, <2>1, EndedTypes DEF NothingDue, TypeOK
    <2>2. CASE table # "person"
      BY <1>2, <2>2 DEF NothingDue, TypeOK, NextTable, Tables
    <2>3. QED
      BY <2>1, <2>2
  <1>3. CASE Fetch
    BY <1>3 DEF TypeOK, Fetch
  <1>4. CASE SetState
    <2>1. state' \in [Tables -> 0..MaxTime] /\ file' \in [Tables -> 0..MaxTime]
      BY <1>4 DEF SetState, TypeOK, NoState
    <2>2. QED
      BY <1>4, <2>1 DEF TypeOK, SetState
  <1>5. CASE WriteState
    BY <1>5 DEF TypeOK, WriteState
  <1>6. CASE LoadAgain
    BY <1>6 DEF TypeOK, LoadAgain
  <1>7. CASE Fail
    <2>1. failures' \in 0..MaxFailures
      BY <1>7 DEF Fail, TypeOK
    <2>2. QED
      BY <1>7, <2>1, EndedTypes DEF Fail
  <1>8. ASSUME NEW ids \in SUBSET Rows, Select(ids)
        PROVE  TypeOK'
    <2>1. last' \in 0..MaxTime
      BY <1>8 DEF Select, TypeOK
    <2>2. todo' \subseteq Films /\ tied' \subseteq Rows /\ batch' \subseteq Rows
      BY <1>8 DEF Select, TypeOK, Due
    <2>3. batch' \cap todo' = {}
      BY <1>8 DEF Select, Due, Films
    <2>4. left = {} /\ bulk = {}
      BY <1>8 DEF Select, TypeOK
    <2>5. QED
      BY <1>8, <2>1, <2>2, <2>3, <2>4 DEF Select, TypeOK
  <1>9. ASSUME NEW ids \in SUBSET Rows, FetchRelated(ids)
        PROVE  TypeOK'
    BY <1>9 DEF FetchRelated, TypeOK
  <1>10. ASSUME NEW d \in Rows, Index(d)
         PROVE  TypeOK'
    <2>1. shows' \subseteq indexed' \X changed /\ \A p \in shows' : p[2] \in Parts(p[1])
      BY <1>10 DEF Index, TypeOK
    <2>2. QED
      BY <1>10, <2>1 DEF Index, TypeOK
  <1>11. QED
    BY <1>1, <1>2, <1>3, <1>4, <1>5, <1>6, <1>7, <1>8, <1>9, <1>10 DEF Passes

-----------------------------------------------------------------------------
(* The watermark and the batch in hand.                                     *)

\* A watermark in memory that is safe makes the one in the file safe.
LEMMA MemoryGivesPending ==
  ASSUME TypeOK, WatermarkInMemory
  PROVE  ChangesPending
  <1> SUFFICES ASSUME NEW d \in Rows, NEW r \in Parts(d),
                      ~Current(d, r), r \notin Passed
               PROVE  modified[r] > file[Table[r]]
    BY DEF ChangesPending
  <1>1. r \in Rows /\ Table[r] \in Tables
    BY RowTypes
  <1>2. modified[r] > Reached(Table[r]) /\ file[Table[r]] <= Reached(Table[r])
    BY <1>1 DEF WatermarkInMemory
  <1>3. modified[r] \in Int /\ file[Table[r]] \in Int /\ Reached(Table[r]) \in Int
    BY <1>1 DEF TypeOK, Reached
  <1>4. QED
    BY <1>2, <1>3

\* Transactions in progress are of no concern to the ETL.
LEMMA UncommittedInv ==
  ASSUME WatermarkInMemory, BatchInHand,
         \/ Tick
         \/ \E r \in Rows, time \in 1..MaxTime : Rollback(r, time)
         \/ \E r \in Rows : Begin(r)
  PROVE  WatermarkInMemory' /\ BatchInHand'
  <1>1. UNCHANGED <<modified, changed, file, at, state, work, elastic, late, tied>>
    BY DEF Tick, Begin, Rollback
  <1>2. QED
    BY <1>1 DEF WatermarkInMemory, BatchInHand, Current, Passed, Reached, Horizon, Remaining, work, elastic

\* A commit lands above what the ETL has reached, or is late.
LEMMA CommitSeen ==
  ASSUME TypeOK, WatermarkInMemory, BatchInHand,
         NEW r \in Rows, NEW time \in 1..MaxTime, Commit(r, time)
  PROVE  time > Reached(Table[r]) \/ r \in Passed'
  <1>1. time >= modified[r] /\ modified[r] \in Int
    BY DEF Commit, TypeOK
  <1>2. time <= Horizon(Table[r]) /\ ~(at = "fetch" /\ r \in batch) => r \in late'
    BY DEF Commit
  <1>3. Table[r] \in Tables /\ \A t \in Tables : Reached(t) \in Int
    BY RowTypes DEF Reached, TypeOK
  <1>4. \A t \in Tables : Horizon(t) >= Reached(t) /\ Horizon(t) \in Int
    BY <1>3 DEF Horizon, BatchInHand, Reached, TypeOK
  <1>5. CASE time > Horizon(Table[r])
    BY <1>3, <1>4, <1>5
  <1>6. CASE time <= Horizon(Table[r]) /\ at = "fetch" /\ r \in batch
    <2>1. modified[r] > Reached(Table[r])
      BY <1>6 DEF BatchInHand, Reached
    <2>2. QED
      BY <1>1, <1>3, <2>1
  <1>7. QED
    BY <1>2, <1>3, <1>4, <1>5, <1>6 DEF Passed

\* A commit lands above the watermark and the batch, or is seen by the fetch
\* that is still to come, or is late.
LEMMA CommitInv ==
  ASSUME TypeOK, WatermarkInMemory, BatchInHand,
         NEW r \in Rows, NEW time \in 1..MaxTime, Commit(r, time)
  PROVE  WatermarkInMemory' /\ BatchInHand'
  <1>1. /\ UNCHANGED <<now, file, at, state, work, elastic, tied>>
        /\ \A s \in Rows : modified'[s] = IF s = r THEN time ELSE modified[s]
        /\ changed' = changed \cup {r}
        /\ late \subseteq late'
        /\ time <= Horizon(Table[r]) /\ ~(at = "fetch" /\ r \in batch) => r \in late'
    BY DEF Commit, TypeOK
  <1>2. time >= modified[r] /\ modified[r] \in Int
    BY DEF Commit, TypeOK
  <1>3. \A d \in Rows : \A s \in Parts(d) : s \in Rows /\ Table[s] \in Tables
    BY RowTypes
  <1>4. \A d \in Rows : \A s \in Parts(d) : s # r => (Current(d, s)' <=> Current(d, s))
    BY <1>1, <1>3 DEF Current, elastic
  <1>5. \A t \in Tables : Reached(t)' = Reached(t) /\ Reached(t) \in Int
    BY <1>1 DEF Reached, TypeOK
  <1>6. Passed \subseteq Passed' /\ Remaining' = Remaining
    BY <1>1 DEF Passed, Remaining, work
  <1>7. \A t \in Tables : Horizon(t) >= Reached(t) /\ Horizon(t) \in Int
    BY <1>5 DEF Horizon, BatchInHand, Reached, TypeOK
  <1>8. time > Reached(Table[r]) \/ r \in Passed'
    BY CommitSeen
  <1>9. WatermarkInMemory'
    <2>1. \A t \in Tables : file'[t] <= Reached(t)'
      BY <1>1, <1>5 DEF WatermarkInMemory
    <2>2. ASSUME NEW d \in Rows, NEW s \in Parts(d)
          PROVE  Current(d, s)' \/ s \in Passed' \/ modified'[s] > Reached(Table[s])'
      BY <1>1, <1>3, <1>4, <1>5, <1>6, <1>8 DEF WatermarkInMemory
    <2>3. QED
      BY <2>1, <2>2 DEF WatermarkInMemory
  <1>10. BatchInHand'
    <2>1. at \in {"fetch", "load"} /\ Table[r] = table /\ time <= last /\ r \notin Passed'
            => at = "fetch" /\ r \in batch
      BY <1>1 DEF Horizon, Passed
    <2>2. ASSUME at \in {"fetch", "load"}, NEW d \in Rows, NEW s \in Parts(d),
                 Table[s] = table, modified'[s] <= last, s \notin Passed'
          PROVE  Current(d, s)' \/ d \in Remaining
      <3>1. CASE s = r
        BY <1>1, <1>3, <2>1, <2>2, <3>1 DEF BatchInHand
      <3>2. CASE s # r
        BY <1>1, <1>3, <1>4, <1>6, <2>2, <3>2 DEF BatchInHand
      <3>3. QED
        BY <3>1, <3>2
    <2>3. ASSUME at = "fetch", NEW s \in batch
          PROVE  modified'[s] > state[table]
      <3>1. s \in Rows /\ modified[s] > state[table] /\ state[table] \in Int /\ modified[s] \in Int
        BY <2>3 DEF BatchInHand, TypeOK
      <3>2. QED
        BY <1>1, <1>2, <3>1
    <2>4. ASSUME at = "load", NEW s \in changed' \ fetched
          PROVE  s \in Passed' \/ modified'[s] > Horizon(Table[s])
      <3>1. s \in Rows /\ Table[s] \in Tables /\ Horizon(Table[s]) \in Int
        BY <1>1, <1>7, RowTypes DEF TypeOK
      <3>2. CASE s = r
        BY <1>1, <1>7, <2>4, <3>1, <3>2 DEF Passed
      <3>3. CASE s # r
        BY <1>1, <1>6, <2>4, <3>1, <3>3 DEF BatchInHand
      <3>4. QED
        BY <3>2, <3>3
    <2>5. \A t \in Tables : Horizon(t)' = Horizon(t)
      BY <1>1, <1>5 DEF Horizon, work
    <2>6. QED
      BY <1>1, <1>3, <1>6, <2>2, <2>3, <2>4, <2>5, RowTypes DEF BatchInHand, TypeOK, work, elastic
  <1>11. QED
    BY <1>9, <1>10

\* Leaving the function gives up what was not saved, never more.
LEMMA EndedInv ==
  ASSUME TypeOK, WatermarkInMemory, Ended, UNCHANGED <<postgres, file, elastic, late, tied>>
  PROVE  WatermarkInMemory' /\ BatchInHand'
  <1>1. \A t \in Tables : Reached(t)' = file[t]
    BY DEF Ended, Reached
  <1>2. \A d \in Rows : \A r \in Parts(d) :
          Current(d, r) \/ r \in Passed \/ modified[r] > file[Table[r]]
    BY MemoryGivesPending DEF ChangesPending
  <1>3. \A t \in Tables : file[t] <= file[t]
    BY DEF TypeOK
  <1>4. WatermarkInMemory'
    BY <1>1, <1>2, <1>3, RowTypes
    DEF WatermarkInMemory, Current, Passed, postgres, elastic
  <1>5. BatchInHand'
    BY DEF Ended, BatchInHand
  <1>6. QED
    BY <1>4, <1>5

\* A batch that was just selected holds every row the watermark will pass.
LEMMA SelectInv ==
  ASSUME TypeOK, WatermarkInMemory, NEW ids \in SUBSET Rows, Select(ids)
  PROVE  WatermarkInMemory' /\ BatchInHand'
  <1>1. /\ UNCHANGED <<modified, changed, file, state, table, left, elastic, late>>
        /\ at = "select" /\ at' = "fetch" /\ batch' = ids /\ ids \subseteq Due
        /\ todo' = {f \in Films : \E r \in ids : <<r, f>> \in Links}
        /\ tied' = tied \cup {s \in Due \ ids : modified[s] = last'}
    BY DEF Select, postgres
  <1>2. PICK top \in ids : (\A s \in ids : modified[s] <= modified[top]) /\ last' = modified[top]
    BY DEF Select
  <1>3. \A r \in Due \ ids : modified[top] <= modified[r]
    BY <1>2 DEF Select
  <1>4. \A r \in Due : r \in Rows /\ Table[r] = table /\ modified[r] > state[table]
    BY DEF Due
  <1>5. WatermarkInMemory'
    <2>1. \A t \in Tables : Reached(t)' = Reached(t)
      BY <1>1 DEF Reached
    <2>2. \A d \in Rows : \A r \in Parts(d) : Current(d, r)' = Current(d, r)
      BY <1>1 DEF Current, elastic
    <2>3. Passed \subseteq Passed'
      BY <1>1 DEF Passed
    <2>4. QED
      BY <1>1, <2>1, <2>2, <2>3, RowTypes DEF WatermarkInMemory
  <1>6. \A r \in ids : \A d \in Rows : r \in Parts(d) => d \in Remaining'
    BY <1>1, WatermarkAssumption DEF Parts, Remaining
  <1>7. ASSUME NEW d \in Rows, NEW r \in Parts(d),
               Table[r] = table, modified[r] <= last', r \notin Passed', ~Current(d, r)
        PROVE  d \in Remaining'
    <2>1. r \in Rows /\ modified[r] \in Int /\ modified[top] \in Int
      BY <1>1, <1>2, RowTypes DEF TypeOK
    <2>2. r \notin Passed
      BY <1>1, <1>7 DEF Passed
    <2>3. modified[r] > state[table]
      BY <1>1, <1>7, <2>1, <2>2 DEF WatermarkInMemory, Reached
    <2>4. r \in Due
      BY <1>7, <2>1, <2>3 DEF Due
    <2>5. r \in ids
      BY <1>1, <1>2, <1>3, <1>7, <2>1, <2>4 DEF Passed
    <2>6. QED
      BY <1>6, <2>5
  <1>8. BatchInHand'
    <2>1. last' > state'[table']
      BY <1>1, <1>2, <1>4
    <2>2. \A d \in Rows : \A r \in Parts(d) : Current(d, r)' = Current(d, r)
      BY <1>1 DEF Current, elastic
    <2>3. QED
      BY <1>1, <1>4, <1>6, <1>7, <2>1, <2>2 DEF BatchInHand
  <1>9. QED
    BY <1>5, <1>8

\* A document just written shows every row that was fetched, so it needs no
\* second visit up to the end of the batch.
LEMMA IndexInv ==
  ASSUME TypeOK, WatermarkInMemory, BatchInHand, NEW d \in Rows, Index(d)
  PROVE  WatermarkInMemory' /\ BatchInHand'
  <1>1. /\ UNCHANGED <<modified, changed, file, at, state, table, batch, last, todo, fetched, late, tied>>
        /\ at = "load" /\ d \in left /\ left' = left \ {d}
        /\ indexed' = indexed \cup {d}
        /\ shows' = {p \in shows : p[1] # d} \cup {<<d, r>> : r \in Parts(d) \cap fetched}
    BY DEF Index, postgres
  <1>2. \A t \in Tables : Reached(t)' = Reached(t)
    BY <1>1 DEF Reached
  <1>3. Passed' = Passed
    BY <1>1 DEF Passed
  <1>4. \A e \in Rows : \A r \in Parts(e) : Current(e, r) => Current(e, r)'
    <2>1. SUFFICES ASSUME NEW e \in Rows, NEW r \in Parts(e), Current(e, r)
                   PROVE  Current(e, r)'
      OBVIOUS
    <2>2. <<e, r>> \in shows => r \in fetched
      BY <1>1 DEF BatchInHand
    <2>3. QED
      BY <1>1, <2>1, <2>2 DEF Current
  <1>5. \A r \in Parts(d) : (r \in changed => r \in fetched) => Current(d, r)'
    BY <1>1 DEF Current
  <1>6. WatermarkInMemory'
    BY <1>1, <1>2, <1>3, <1>4, RowTypes DEF WatermarkInMemory
  <1>7. BatchInHand'
    <2>1. ASSUME NEW e \in Rows, NEW r \in Parts(e),
                 Table[r] = table, modified[r] <= last, r \notin Passed
          PROVE  Current(e, r)' \/ e \in Remaining'
      <3>1. CASE e = d
        <4>1. Horizon(Table[r]) = last /\ modified[r] \in Int /\ last \in Int
          BY <1>1, <2>1, RowTypes DEF Horizon, TypeOK
        <4>2. r \in changed => r \in fetched
          BY <1>1, <2>1, <4>1 DEF BatchInHand
        <4>3. QED
          BY <1>1, <1>5, <3>1, <4>2
      <3>2. CASE e # d
        BY <1>1, <1>4, <2>1, <3>2 DEF BatchInHand, Remaining
      <3>3. QED
        BY <3>1, <3>2
    <2>2. \A p \in shows' : p[2] \in fetched
      BY <1>1 DEF BatchInHand
    <2>3. \A t \in Tables : Horizon(t)' = Horizon(t)
      BY <1>1, <1>2 DEF Horizon
    <2>4. QED
      BY <1>1, <1>3, <2>1, <2>2, <2>3, RowTypes DEF BatchInHand, TypeOK
  <1>8. QED
    BY <1>6, <1>7

\* The steps of a pass keep the watermark in memory safe.
LEMMA PassInv ==
  ASSUME TypeOK, WatermarkInMemory, BatchInHand, Passes
  PROVE  WatermarkInMemory' /\ BatchInHand'
  <1> USE RowTypes DEF postgres, work, elastic
  <1>1. CASE PassStart
    BY <1>1 DEF PassStart, TypeOK, WatermarkInMemory, BatchInHand, Reached, Current, Passed
  <1>2. CASE NothingDue
    <2>1. CASE table = "person"
      BY <1>2, <2>1, EndedInv DEF NothingDue
    <2>2. CASE table # "person"
      BY <1>2, <2>2 DEF NothingDue, WatermarkInMemory, BatchInHand, Reached, Current, Passed
    <2>3. QED
      BY <2>1, <2>2
  <1>3. CASE Fetch
    <2>1. Remaining' = Remaining
      BY <1>3 DEF Fetch, Remaining
    <2>2. WatermarkInMemory'
      BY <1>3 DEF Fetch, WatermarkInMemory, Reached, Current, Passed
    <2>3. BatchInHand'
      BY <1>3, <2>1 DEF Fetch, TypeOK, BatchInHand, Current, Passed
    <2>4. QED
      BY <2>2, <2>3
  <1>4. CASE SetState
    <2>1. /\ UNCHANGED <<modified, changed, indexed, shows, late, tied>>
          /\ at = "load" /\ at' = "write" /\ left = {} /\ todo = {}
          /\ state' = [state EXCEPT ![table] = last] /\ file' = NoState
      BY <1>4 DEF SetState
    <2>2. /\ table \in Tables /\ last \in Nat
          /\ \A t \in Tables : state'[t] = IF t = table THEN last ELSE state[t]
          /\ \A t \in Tables : state[t] \in Nat
      BY <2>1 DEF TypeOK
    <2>3. \A d \in Rows : \A r \in Parts(d) :
            Current(d, r) \/ r \in Passed \/ modified[r] > state'[Table[r]]
      <3>1. SUFFICES ASSUME NEW d \in Rows, NEW r \in Parts(d), ~Current(d, r), r \notin Passed
                     PROVE  modified[r] > state'[Table[r]]
        OBVIOUS
      <3>2. r \in Rows /\ modified[r] \in Int
        BY DEF TypeOK
      <3>3. CASE Table[r] = table
        <4>1. ~(modified[r] <= last)
          BY <2>1, <3>1, <3>3 DEF BatchInHand, Remaining
        <4>2. QED
          BY <2>2, <3>2, <3>3, <4>1
      <3>4. CASE Table[r] # table
        BY <2>1, <2>2, <3>1, <3>2, <3>4 DEF WatermarkInMemory, Reached
      <3>5. QED
        BY <3>3, <3>4
    <2>4. \A t \in Tables : file'[t] <= Reached(t)'
      BY <2>1, <2>2 DEF Reached, NoState
    <2>5. WatermarkInMemory'
      BY <2>1, <2>3, <2>4 DEF WatermarkInMemory, Reached, Current, Passed
    <2>6. BatchInHand'
      BY <2>1 DEF BatchInHand
    <2>7. QED
      BY <2>5, <2>6
  <1>5. CASE WriteState
    <2>1. \A t \in Tables : state[t] \in Nat
      BY DEF TypeOK
    <2>2. QED
      BY <1>5, <2>1 DEF WriteState, WatermarkInMemory, BatchInHand, Reached, Current, Passed
  <1>6. CASE LoadAgain
    <2>1. Remaining \subseteq Remaining'
      BY <1>6 DEF LoadAgain, Remaining, TypeOK
    <2>2. WatermarkInMemory'
      BY <1>6 DEF LoadAgain, WatermarkInMemory, Reached, Current, Passed
    <2>3. BatchInHand'
      BY <1>6, <2>1 DEF LoadAgain, BatchInHand, Current, Passed, Horizon, Reached
    <2>4. QED
      BY <2>2, <2>3
  <1>7. CASE Fail
    BY <1>7, EndedInv DEF Fail
  <1>8. ASSUME NEW ids \in SUBSET Rows, FetchRelated(ids)
        PROVE  WatermarkInMemory' /\ BatchInHand'
    <2>1. Remaining' = Remaining
      BY <1>8 DEF FetchRelated, Remaining
    <2>2. WatermarkInMemory'
      BY <1>8 DEF FetchRelated, WatermarkInMemory, Reached, Current, Passed
    <2>3. BatchInHand'
      BY <1>8, <2>1 DEF FetchRelated, TypeOK, BatchInHand, Current, Passed
    <2>4. QED
      BY <2>2, <2>3
  <1>9. QED
    BY <1>1, <1>2, <1>3, <1>4, <1>5, <1>6, <1>7, <1>8, SelectInv, IndexInv DEF Passes

-----------------------------------------------------------------------------
\* Every step keeps the strengthened invariant.
LEMMA StepInv == EtlInv /\ [Next]_vars => EtlInv'
  <1> SUFFICES ASSUME EtlInv, [Next]_vars PROVE EtlInv'
    OBVIOUS
  <1> USE DEF EtlInv
  <1>1. ASSUME NEW r \in Rows, NEW time \in 1..MaxTime,
               Commit(r, time) \/ Rollback(r, time)
        PROVE  EtlInv'
    <2>1. TypeOK'
      BY <1>1, TransactionTypes
    <2>2. WatermarkInMemory' /\ BatchInHand'
      BY <1>1, UncommittedInv, CommitInv
    <2>3. QED
      BY <2>1, <2>2, MemoryGivesPending, PTL
  <1>2. CASE Passes
    BY <1>2, PassTypes, PassInv, MemoryGivesPending, PTL
  <1>3. CASE UNCHANGED vars
    BY <1>3 DEF vars, postgres, work, elastic, TypeOK, ChangesPending, WatermarkInMemory,
                BatchInHand, Reached, Horizon, Current, Passed, Remaining
  <1>4. CASE Tick
    BY <1>4, TickTypes, UncommittedInv, MemoryGivesPending, PTL
  <1>5. ASSUME NEW r \in Rows, Begin(r)
        PROVE  EtlInv'
    <2>1. 1 \in 1..MaxTime
      BY WatermarkAssumption
    <2>2. TypeOK'
      BY <1>5, <2>1, TransactionTypes
    <2>3. WatermarkInMemory' /\ BatchInHand'
      BY <1>5, UncommittedInv
    <2>4. QED
      BY <2>2, <2>3, MemoryGivesPending, PTL
  <1>6. QED
    BY <1>1, <1>2, <1>3, <1>4, <1>5 DEF Next, EtlStep, Passes

\* Documents, batch, memory and file (extractor.py, loader.py, state_storage.py) fit
\* together in every phase of a pass, for any rows, links and batch sizes.
THEOREM Invariance == Spec => []EtlInv
  BY InitInv, StepInv, PTL DEF Spec

\* The variables of Postgres, of the ETL and of Elasticsearch have their types,
\* and the phase of a batch says which of its parts are in use.
THEOREM TypeCorrect == Spec => []TypeOK
  BY Invariance, PTL DEF EtlInv

\* Neither a failure at any point nor a torn state file nor a batch that LIMIT
\* cut short makes etl_service lose a change: what a document does not show yet
\* is above the watermark in the file, unless it committed late or tied.
THEOREM NoChangeLost == Spec => []ChangesPending
  BY Invariance, PTL DEF EtlInv

\* Up to the time the batch in hand ends at, nothing is missing but what is
\* still to be written.
THEOREM BatchCovers == Spec => []BatchInHand
  BY Invariance, PTL DEF EtlInv

\* The file is never ahead of what the running pass has reached.
THEOREM MemoryCovers == Spec => []WatermarkInMemory
  BY Invariance, PTL DEF EtlInv

\* Only the ETL writes documents here, each from rows read after those of the
\* document it replaces: a change once shown stays shown.
THEOREM NeverBack == Spec => DocumentsOnlyAdvance
  <1>1. EtlInv /\ [Next]_vars => [shows \subseteq shows']_vars
    <2> SUFFICES ASSUME EtlInv, Next PROVE shows \subseteq shows'
      BY DEF vars
    <2>1. ASSUME NEW d \in Rows, Index(d)
          PROVE  shows \subseteq shows'
      <3>1. SUFFICES ASSUME NEW p \in shows PROVE p \in shows'
        OBVIOUS
      <3>2. p[2] \in fetched /\ p = <<p[1], p[2]>>
        BY <2>1 DEF EtlInv, BatchInHand, TypeOK, Index
      <3>3. p[2] \in Parts(p[1])
        BY DEF EtlInv, TypeOK
      <3>4. QED
        BY <2>1, <3>2, <3>3 DEF Index
    <2>2. CASE ~(\E d \in Rows : Index(d))
      BY <2>2 DEF Next, EtlStep, Tick, Begin, Commit, Rollback, PassStart, NothingDue, Fetch,
                  SetState, WriteState, Select, FetchRelated, LoadAgain, Fail, elastic
    <2>3. QED
      BY <2>1, <2>2
  <1>2. QED
    BY <1>1, Invariance, PTL DEF Spec, DocumentsOnlyAdvance

-----------------------------------------------------------------------------
(* DeletionRepair, which sees the films and their own rows only.            *)

\* What the promise speaks of.
repair == <<modified, changed, file, indexed, shows, late, tied>>

\* A step that touches none of it is none of the promise's.
LEMMA NothingRepaired == UNCHANGED repair => UNCHANGED Repair!vars
  BY DEF repair, Repair!vars, FilmDocument, Passed

\* Nothing is indexed in the beginning, and everything is above the watermark.
LEMMA InitRepairs == Init => Repair!Init
  <1> SUFFICES ASSUME Init PROVE Repair!Init
    OBVIOUS
  <1>1. \A f \in Films : modified[f] > file[Table[f]] /\ FilmDocument(f) = "absent"
    BY WatermarkAssumption, RowTypes DEF Init, NoState, FilmDocument
  <1>2. QED
    BY <1>1 DEF Init, Repair!Init, Passed

\* The file is behind the running pass, so what that has not reached is due.
LEMMA AheadIsDue ==
  ASSUME TypeOK, WatermarkInMemory, NEW f \in Films, modified[f] > Reached(Table[f])
  PROVE  modified[f] > file[Table[f]]
  <1>1. f \in Rows /\ Table[f] \in Tables
    BY RowTypes
  <1>2. modified[f] \in Int /\ file[Table[f]] \in Int /\ Reached(Table[f]) \in Int
    BY <1>1 DEF TypeOK, Reached
  <1>3. QED
    BY <1>1, <1>2 DEF WatermarkInMemory

\* A change of a film is due or missed; one of a person or a genre is not seen.
LEMMA CommitRepairs ==
  ASSUME TypeOK, WatermarkInMemory, BatchInHand,
         NEW r \in Rows, NEW time \in 1..MaxTime, Commit(r, time)
  PROVE  UNCHANGED Repair!vars \/ (r \in Films /\ Repair!Delete(r))
  <1>1. /\ \A s \in Rows : modified'[s] = IF s = r THEN time ELSE modified[s]
        /\ changed' = changed \cup {r} /\ UNCHANGED <<file, indexed, shows, tied>>
        /\ late' \in {late, late \cup {r}}
        /\ r \notin changed /\ time >= modified[r] /\ modified[r] \in Int
    BY DEF Commit, TypeOK, elastic
  <1>2. \A f \in Films : FilmDocument(f)' = FilmDocument(f)
    BY <1>1 DEF FilmDocument
  <1>3. CASE r \notin Films
    BY <1>1, <1>2, <1>3, RowTypes DEF Repair!vars, Passed
  <1>4. CASE r \in Films
    <2>1. time > file[Table[r]] \/ r \in Passed'
      <3>1. CASE time > Reached(Table[r])
        <4>1. Table[r] \in Tables
          BY RowTypes
        <4>2. file[Table[r]] \in Int /\ Reached(Table[r]) \in Int
          BY <4>1 DEF TypeOK, Reached
        <4>3. QED
          BY <3>1, <4>1, <4>2 DEF WatermarkInMemory
      <3>2. QED
        BY <3>1, CommitSeen
    <2>2. {f \in Films : modified'[f] > file'[Table[f]]}
            = IF time > file[Table[r]] THEN {f \in Films : modified[f] > file[Table[f]]} \cup {r}
                                      ELSE {f \in Films : modified[f] > file[Table[f]]}
      <3>1. file[Table[r]] \in Int
        BY RowTypes DEF TypeOK
      <3>2. QED
        BY <1>1, <1>4, <3>1, RowTypes
    <2>3. Passed' \cap Films \in {Passed \cap Films, (Passed \cap Films) \cup {r}}
      BY <1>1, <1>4 DEF Passed
    <2>4. changed' \cap Films = (changed \cap Films) \cup {r} /\ r \notin changed \cap Films
      BY <1>1, <1>4
    <2>5. r \in {f \in Films : modified'[f] > file'[Table[f]]} \cup (Passed' \cap Films)
      BY <1>4, <2>1, <2>2
    <2>6. QED
      BY <1>2, <1>4, <2>2, <2>3, <2>4, <2>5 DEF Repair!Delete
  <1>5. QED
    BY <1>3, <1>4

\* A film is written out of its row as it is, or it is due or missed; the other
\* documents are none of a film's.
LEMMA IndexRepairs ==
  ASSUME TypeOK, WatermarkInMemory, BatchInHand, NEW d \in Rows, Index(d)
  PROVE  UNCHANGED Repair!vars \/ (d \in Films /\ (Repair!WriteTruth(d) \/ Repair!WriteOld(d)))
  <1>1. /\ UNCHANGED <<modified, changed, file, late, tied>> /\ at = "load"
        /\ indexed' = indexed \cup {d}
        /\ shows' = {p \in shows : p[1] # d} \cup {<<d, r>> : r \in Parts(d) \cap fetched}
    BY DEF Index, postgres
  <1>2. \A f \in Films \ {d} : FilmDocument(f)' = FilmDocument(f)
    BY <1>1 DEF FilmDocument
  <1>3. CASE d \notin Films
    BY <1>1, <1>2, <1>3 DEF Repair!vars, Passed
  <1>4. CASE d \in Films
    <2>1. FilmDocument(d)' = IF d \in fetched THEN "deleted" ELSE "live"
      BY <1>1, RowTypes DEF FilmDocument
    <2>2. [f \in Films |-> FilmDocument(f)']
            = [[f \in Films |-> FilmDocument(f)] EXCEPT ![d] = FilmDocument(d)']
      BY <1>2, <1>4
    <2>3. UNCHANGED <<changed \cap Films, {f \in Films : modified[f] > file[Table[f]]}, Passed \cap Films>>
      BY <1>1 DEF Passed
    <2>4. CASE d \in fetched \/ d \notin changed
      <3>1. d \in fetched <=> d \in changed \cap Films
        BY <1>4, <2>4 DEF TypeOK
      <3>2. QED
        BY <1>4, <2>1, <2>2, <2>3, <3>1 DEF Repair!WriteTruth
    <2>5. CASE d \in changed \ fetched
      <3>1. d \in Passed \/ modified[d] > Horizon(Table[d])
        BY <1>1, <2>5 DEF BatchInHand
      <3>2. modified[d] > Horizon(Table[d]) => modified[d] > Reached(Table[d])
        BY <1>1, RowTypes DEF Horizon, Reached, BatchInHand, TypeOK
      <3>3. d \in {f \in Films : modified[f] > file[Table[f]]} \cup (Passed \cap Films)
        BY <1>4, <3>1, <3>2, AheadIsDue
      <3>4. QED
        BY <1>4, <2>1, <2>2, <2>3, <2>5, <3>3 DEF Repair!WriteOld
    <2>6. QED
      BY <2>4, <2>5
  <1>5. QED
    BY <1>3, <1>4

\* A film that its document shows as it is.
LEMMA CurrentIsTruthful ==
  ASSUME TypeOK, NEW f \in Films, Current(f, f)
  PROVE  Repair!Truthful(f)
  BY DEF TypeOK, Current, FilmDocument, Repair!Truthful

\* The file takes over what the pass has reached, and that is safe.
LEMMA WriteRepairs ==
  ASSUME TypeOK, WatermarkInMemory, WriteState
  PROVE  \E films \in SUBSET Films : Repair!Settle(films)
  <1> DEFINE films == {f \in Films : ~(modified[f] > state[Table[f]])}
  <1>1. UNCHANGED <<modified, changed, indexed, shows, late, tied>> /\ file' = state /\ at = "write"
    BY DEF WriteState, postgres, elastic
  <1>2. \A t \in Tables : Reached(t) = state[t]
    BY <1>1 DEF Reached
  <1>3. {f \in Films : modified'[f] > file'[Table[f]]}
          = {f \in Films : modified[f] > file[Table[f]]} \ films
    BY <1>1, <1>2, RowTypes, AheadIsDue
  <1>4. ASSUME NEW f \in films
        PROVE  Repair!Truthful(f) \/ f \in Passed \cap Films
    <2>1. f \in Films /\ f \in Rows /\ f \in Parts(f) /\ Table[f] \in Tables
      BY RowTypes
    <2>2. Current(f, f) \/ f \in Passed
      BY <1>2, <2>1 DEF WatermarkInMemory
    <2>3. QED
      BY <2>1, <2>2, CurrentIsTruthful
  <1>5. UNCHANGED <<changed \cap Films, [f \in Films |-> FilmDocument(f)], Passed \cap Films>>
    BY <1>1 DEF FilmDocument, Passed
  <1>6. films \in SUBSET Films
    OBVIOUS
  <1>7. QED
    BY <1>3, <1>4, <1>5, <1>6 DEF Repair!Settle

\* The file that is torn takes the watermarks back to the beginning.
LEMMA TearRepairs ==
  ASSUME TypeOK, SetState
  PROVE  Repair!Reopen(Films)
  <1>1. UNCHANGED <<modified, changed, indexed, shows, late, tied>> /\ file' = NoState
    BY DEF SetState, postgres, elastic
  <1>2. {f \in Films : modified'[f] > file'[Table[f]]} = Films
    BY <1>1, RowTypes DEF NoState, TypeOK
  <1>3. UNCHANGED <<changed \cap Films, [f \in Films |-> FilmDocument(f)], Passed \cap Films>>
    BY <1>1 DEF FilmDocument, Passed
  <1>4. QED
    BY <1>2, <1>3 DEF Repair!Reopen

\* The rows that tie with the end of a batch, if they are films, were due.
LEMMA SelectRepairs ==
  ASSUME TypeOK, WatermarkInMemory, NEW ids \in SUBSET Rows, Select(ids)
  PROVE  \E films \in SUBSET Films : Repair!Overlook(films)
  <1> DEFINE films == {s \in Due \ ids : modified[s] = last'} \cap Films
  <1>1. /\ UNCHANGED <<modified, changed, file, indexed, shows, late>> /\ at = "select"
        /\ tied' = tied \cup {s \in Due \ ids : modified[s] = last'}
    BY DEF Select, postgres, elastic
  <1>2. films \subseteq {f \in Films : modified[f] > file[Table[f]]}
    BY <1>1, AheadIsDue DEF Due, Reached
  <1>3. Passed' \cap Films = (Passed \cap Films) \cup films
    BY <1>1 DEF Passed
  <1>4. UNCHANGED <<changed \cap Films, [f \in Films |-> FilmDocument(f)],
                    {f \in Films : modified[f] > file[Table[f]]}>>
    BY <1>1 DEF FilmDocument
  <1>5. Repair!Overlook(films)
    BY <1>2, <1>3, <1>4 DEF Repair!Overlook
  <1>6. QED
    BY <1>5

\* Every step is one of the promise or none of it.
LEMMA NextRepairs == EtlInv /\ [Next]_vars => [Repair!Next]_(Repair!vars)
  <1> SUFFICES ASSUME EtlInv, [Next]_vars
               PROVE  Repair!Next \/ UNCHANGED Repair!vars
    OBVIOUS
  <1> USE DEF EtlInv
  <1>1. ASSUME NEW r \in Rows, NEW time \in 1..MaxTime, Commit(r, time)
        PROVE  Repair!Next \/ UNCHANGED Repair!vars
    BY <1>1, CommitRepairs DEF Repair!Next
  <1>2. ASSUME NEW d \in Rows, Index(d)
        PROVE  Repair!Next \/ UNCHANGED Repair!vars
    BY <1>2, IndexRepairs DEF Repair!Next
  <1>3. CASE WriteState
    BY <1>3, WriteRepairs DEF Repair!Next
  <1>4. CASE SetState
    BY <1>4, TearRepairs DEF Repair!Next
  <1>5. ASSUME NEW ids \in SUBSET Rows, Select(ids)
        PROVE  Repair!Next
    BY <1>5, SelectRepairs DEF Repair!Next
  <1>6. ASSUME \/ Tick \/ PassStart \/ NothingDue \/ Fetch \/ LoadAgain \/ Fail \/ UNCHANGED vars
               \/ \E r \in Rows : Begin(r)
               \/ \E r \in Rows, time \in 1..MaxTime : Rollback(r, time)
               \/ \E ids \in SUBSET Rows : FetchRelated(ids)
        PROVE  UNCHANGED Repair!vars
    <2>1. UNCHANGED repair
      BY <1>6 DEF Tick, PassStart, NothingDue, Fetch, LoadAgain, Fail, Begin, Rollback,
                  FetchRelated, vars, postgres, elastic, repair
    <2>2. QED
      BY <2>1, NothingRepaired
  <1>7. QED
    BY <1>1, <1>2, <1>3, <1>4, <1>5, <1>6 DEF Next, EtlStep

\* The ETL, with its watermarks, batches, crashes and torn files, keeps the promise
\* of DeletionRepair, and misses only what committed late or tied: what FilmCatalog
\* takes for granted of it.
THEOREM Repairs == Spec => ImplementsRepair
  BY InitRepairs, NextRepairs, Invariance, PTL DEF Spec, ImplementsRepair, Repair!Spec

\* So a film whose document does not tell what its row tells is above the watermark
\* in the file, or was missed (the films' part of ChangesPending).
THEOREM DeletionsCovered == Spec => []Repair!Covered
  <1>1. TypeOK /\ ChangesPending => Repair!Covered
    BY RowTypes, CurrentIsTruthful DEF ChangesPending, Repair!Covered
  <1>2. QED
    BY <1>1, TypeCorrect, NoChangeLost, PTL

=============================================================================
