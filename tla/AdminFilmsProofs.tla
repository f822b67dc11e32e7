--------------------------- MODULE AdminFilmsProofs ---------------------------
(***************************************************************************)
(* FilmsInv of AdminFilms is inductive.  A deletion is reported once because *)
(* the tab that waits for the report is the one that deleted the row        *)
(* (RowsInv); most steps leave the tabs that wait alone (Settles).  That    *)
(* nothing joins the films a tab is asked for follows from the types.       *)
(*                                                                          *)
(* The pages: the place of a film in a set numbers the set from 0 without a *)
(* gap (PlacesAreFilled), so the size of a page depends on the size of the  *)
(* set alone, and a count that is fresh foretells it (CountIsFresh).        *)
(***************************************************************************)
EXTENDS AdminFilms, FiniteSetTheorems, TLAPS

-----------------------------------------------------------------------------
\* A set of films is finite, and has at most NumFilms of them.
LEMMA FilmsCount ==
  ASSUME NEW S \in SUBSET Films
  PROVE  Cardinality(S) \in 0 .. NumFilms
  <1>1. IsFiniteSet(Films) /\ Cardinality(Films) = NumFilms
    BY ListAssumption, FS_Interval DEF Films
  <1>2. Cardinality(S) \in Nat /\ Cardinality(S) <= NumFilms
    BY <1>1, FS_Subset, FS_CardinalityType
  <1>3. QED
    BY <1>2, ListAssumption

LEMMA InitInv == Init => RowsInv
  <1> SUFFICES ASSUME Init PROVE RowsInv
    OBVIOUS
  <1>1. NoPage \in Pages
    BY ListAssumption DEF NoPage, Pages
  <1>2. Closed \in TabStates
    BY <1>1, ListAssumption DEF Closed, TabStates
  <1>3. TypeOK
    BY <1>1, <1>2 DEF Init, TypeOK, Films, Closed
  <1>4. QED
    BY <1>3 DEF Init, RowsInv, ReportedOnce, WaiterDeleted, Closed

-----------------------------------------------------------------------------
\* A step that reports nothing and makes no tab wait keeps RowsInv.
LEMMA Settles ==
  ASSUME RowsInv, deleted' = deleted, credited' = credited, index' \subseteq Films,
         cached' \in [ApiPages -> Pages], tab' \in [Tabs -> TabStates],
         \A u \in Tabs : tab'[u].at = "waiting" =>
           tab[u].at = "waiting" /\ tab'[u].asked = tab[u].asked
  PROVE  RowsInv'
  <1>1. TypeOK'
    BY DEF RowsInv, TypeOK
  <1>2. ReportedOnce'
    BY DEF RowsInv, ReportedOnce
  <1>3. WaiterDeleted'
    BY DEF RowsInv, WaiterDeleted, First
  <1>4. QED
    BY <1>1, <1>2, <1>3 DEF RowsInv

\* A step of one tab that does not leave it waiting.
LEMMA TabSettles ==
  ASSUME RowsInv, NEW t \in Tabs, NEW x \in TabStates, tab' = [tab EXCEPT ![t] = x],
         x.at # "waiting", deleted' = deleted, credited' = credited, index' = index,
         cached' \in [ApiPages -> Pages]
  PROVE  RowsInv'
  <1>1. tab' \in [Tabs -> TabStates] /\ index' \subseteq Films
    BY DEF RowsInv, TypeOK
  <1>2. \A u \in Tabs : tab'[u].at = "waiting" =>
          tab[u].at = "waiting" /\ tab'[u].asked = tab[u].asked
    BY DEF RowsInv, TypeOK
  <1>3. QED
    BY <1>1, <1>2, Settles

\* When the index changes, no tab changes but for what it has counted.
LEMMA MovedTabs ==
  ASSUME TypeOK
  PROVE  /\ Moved \in [Tabs -> TabStates]
         /\ \A u \in Tabs : Moved[u].at = tab[u].at /\ Moved[u].asked = tab[u].asked
  BY DEF TypeOK, TabStates, Moved

\* Closed is a state of a tab, and shows no page.
LEMMA ClosedType == Closed \in TabStates /\ NoPage \in Pages /\ Closed.at = "idle" /\ Closed.asked = {}
  <1>1. NoPage \in Pages
    BY ListAssumption DEF NoPage, Pages
  <1>2. QED
    BY <1>1, ListAssumption DEF Closed, TabStates

\* What a listed page makes of its tab: it neither waits nor searches, and is asked
\* for no film it was not asked for before.
ListedTab(t, x) ==
  /\ x \in TabStates /\ x.at \notin {"waiting", "search"} /\ x.asked \subseteq tab[t].asked
  /\ tab' = [tab EXCEPT ![t] = x]

LEMMA ListedTypes ==
  ASSUME TypeOK, NEW t \in Tabs, NEW pg \in Pages, Listed(t, pg)
  PROVE  \E x : ListedTab(t, x)
  <1> DEFINE tb == tab[t]
             rows == IF tb.goal = "view" THEN pg.items ELSE Pick(pg.items, tb.asked)
             base == [tb EXCEPT !.page = NoPage, !.even = TRUE]
             x == IF (pg.total > PageSize /\ tb.p > PageCount(pg.total)) \/ rows = {} THEN Closed
                  ELSE CASE tb.goal = "view" -> [base EXCEPT !.at = "shown", !.page.items = rows]
                         [] tb.goal = "confirm" -> [base EXCEPT !.at = "confirm", !.asked = rows]
                         [] tb.goal = "delete" -> [Closed EXCEPT !.at = "deleting", !.asked = rows]
  <1>1. tb \in TabStates
    BY DEF TypeOK
  <1>2. rows \in SUBSET Films /\ (tb.goal # "view" => rows \subseteq tb.asked)
    BY <1>1 DEF Pages, TabStates, Pick
  <1>3. base \in TabStates /\ base.asked = tb.asked /\ base.page = NoPage
    BY <1>1, ClosedType DEF TabStates
  <1>4. [base EXCEPT !.at = "shown", !.page.items = rows] \in TabStates
    BY <1>2, <1>3, ClosedType DEF TabStates, Pages
  <1>5. x \in TabStates /\ x.at \notin {"waiting", "search"} /\ x.asked \subseteq tb.asked
    <2>1. tb.goal \in {"view", "confirm", "delete"}
      BY <1>1 DEF TabStates
    <2> HIDE DEF rows, base
    <2>2. CASE x = Closed
      BY <2>2, ClosedType
    <2>3. CASE tb.goal = "view" /\ x = [base EXCEPT !.at = "shown", !.page.items = rows]
      BY <2>3, <1>3, <1>4 DEF TabStates
    <2>4. CASE tb.goal = "confirm" /\ x = [base EXCEPT !.at = "confirm", !.asked = rows]
      BY <2>4, <1>2, <1>3 DEF TabStates
    <2>5. CASE tb.goal = "delete" /\ x = [Closed EXCEPT !.at = "deleting", !.asked = rows]
      BY <2>5, <1>2, ClosedType DEF TabStates
    <2>6. QED
      BY <2>1, <2>2, <2>3, <2>4, <2>5
  <1>6. tab' = [tab EXCEPT ![t] = x]
    BY DEF Listed
  <1>7. QED
    BY <1>5, <1>6 DEF ListedTab

-----------------------------------------------------------------------------
(* The steps.  Of each of a tab's steps short of the deletion: it does not   *)
(* wait after it, and changes nothing but its own state and the cache.       *)

TabMoves(t, x) ==
  /\ x \in TabStates /\ x.at # "waiting"
  /\ tab' = [tab EXCEPT ![t] = x]
  /\ deleted' = deleted /\ credited' = credited /\ index' = index
  /\ cached' \in [ApiPages -> Pages]

\* A tab is opened, posts what was ticked or confirmed, ends or is abandoned.
LEMMA PageTypes ==
  ASSUME TypeOK, NEW t \in Tabs,
         \/ \E p \in 0 .. MaxLink : Open(t, p)
         \/ \E some \in SUBSET Films : Tick(t, some)
         \/ Confirm(t) \/ Finish(t) \/ Abandon(t)
  PROVE  \E x : TabMoves(t, x) /\ (tab[t].at # "shown" => x.asked \subseteq tab[t].asked)
  <1>1. tab[t] \in TabStates /\ cached \in [ApiPages -> Pages]
    BY DEF TypeOK
  <1>2. ASSUME NEW p \in 0 .. MaxLink, Open(t, p)
        PROVE  TabMoves(t, [tab[t] EXCEPT !.at = "list", !.p = p])
    BY <1>1, <1>2 DEF Open, TabMoves, TabStates, stores
  <1>3. ASSUME NEW some \in SUBSET Films, Tick(t, some)
        PROVE  TabMoves(t, [tab[t] EXCEPT !.at = "list", !.goal = "confirm", !.page = NoPage,
                                          !.asked = some])
    BY <1>1, <1>3, ClosedType DEF Tick, TabMoves, TabStates, stores
  <1>4. ASSUME Confirm(t)
        PROVE  TabMoves(t, [tab[t] EXCEPT !.at = "list", !.goal = "delete"])
    BY <1>1, <1>4 DEF Confirm, TabMoves, TabStates, stores
  <1>5. ASSUME Finish(t) \/ Abandon(t)
        PROVE  TabMoves(t, Closed)
    BY <1>1, <1>5, ClosedType DEF Finish, Abandon, TabMoves, stores
  <1>6. CASE \E p \in 0 .. MaxLink : Open(t, p)
    <2>1. PICK p \in 0 .. MaxLink : Open(t, p)
      BY <1>6
    <2> DEFINE x == [tab[t] EXCEPT !.at = "list", !.p = p]
    <2>2. TabMoves(t, x)
      BY <1>2, <2>1
    <2>3. x.asked = tab[t].asked
      BY <1>1 DEF TabStates
    <2>4. QED
      BY <2>2, <2>3
  <1>7. CASE \E some \in SUBSET Films : Tick(t, some)
    BY <1>3, <1>7 DEF Tick
  <1>8. CASE Confirm(t)
    <2> DEFINE x == [tab[t] EXCEPT !.at = "list", !.goal = "delete"]
    <2>1. TabMoves(t, x)
      BY <1>4, <1>8
    <2>2. x.asked = tab[t].asked
      BY <1>1 DEF TabStates
    <2>3. QED
      BY <2>1, <2>2
  <1>9. CASE Finish(t) \/ Abandon(t)
    BY <1>5, <1>9, ClosedType
  <1>10. QED
    BY <1>6, <1>7, <1>8, <1>9

\* A page is put, and listed.
LEMMA PutTypes ==
  ASSUME TypeOK, NEW t \in Tabs, NEW pg \in Pages, Put(t, pg),
         UNCHANGED <<deleted, index, credited>>
  PROVE  \E x : TabMoves(t, x) /\ x.asked \subseteq tab[t].asked
  <1>1. PICK x : ListedTab(t, x)
    BY ListedTypes DEF Put
  <1>2. cached' \in [ApiPages -> Pages]
    BY DEF Put, TypeOK
  <1>3. QED
    BY <1>1, <1>2 DEF ListedTab, TabMoves

\* The steps of a list request.
LEMMA ListTypes ==
  ASSUME TypeOK, NEW t \in Tabs, ListStep(t)
  PROVE  \E x : TabMoves(t, x) /\ x.asked \subseteq tab[t].asked
  <1>0. tab[t] \in TabStates /\ cached \in [ApiPages -> Pages] /\ NoPage \in Pages
    BY ClosedType DEF TypeOK
  <1>1. ASSUME NEW pg \in Pages, Listed(t, pg), UNCHANGED <<stores, credited>>
        PROVE  \E x : TabMoves(t, x) /\ x.asked \subseteq tab[t].asked
    BY <1>0, <1>1, ListedTypes DEF ListedTab, TabMoves, stores
  <1>2. CASE ListHit(t)
    <2>1. ApiPage(tab[t].p) \in ApiPages
      BY <1>0, ListAssumption DEF TabStates, ApiPage, ApiPages
    <2>2. cached[ApiPage(tab[t].p)] \in Pages
      BY <1>0, <2>1
    <2>3. QED
      BY <1>1, <1>2, <2>2 DEF ListHit
  <1>3. CASE ListFails(t)
    BY <1>0, <1>1, <1>3 DEF ListFails
  <1>4. CASE Count(t)
    <2> DEFINE total == Cardinality(index)
    <2>1. total \in 0 .. NumFilms
      BY FilmsCount DEF TypeOK
    <2>2. CASE total = 0
      BY <1>1, <1>0, <1>4, <2>2 DEF Count, Counted, stores
    <2>3. CASE total # 0 /\ Start(ApiPage(tab[t].p)) >= total
      <3>1. [NoPage EXCEPT !.total = total] \in Pages
        BY <2>1, <1>0 DEF Pages
      <3>2. Put(t, [NoPage EXCEPT !.total = total]) /\ UNCHANGED <<deleted, index, credited>>
        BY <1>4, <2>3 DEF Count, Counted
      <3>3. QED
        BY <3>1, <3>2, PutTypes
    <2>4. CASE total # 0 /\ ~(Start(ApiPage(tab[t].p)) >= total)
      <3> DEFINE x == [tab[t] EXCEPT !.at = "search", !.page.total = total]
      <3>1. x \in TabStates /\ x.at = "search" /\ x.asked = tab[t].asked
        BY <1>0, <2>1 DEF TabStates, Pages
      <3>2. tab' = [tab EXCEPT ![t] = x] /\ cached' = cached
            /\ UNCHANGED <<deleted, index, credited>>
        BY <1>4, <2>4 DEF Count, Counted
      <3>3. QED
        BY <1>0, <3>1, <3>2 DEF TabMoves
    <2>5. QED
      BY <2>2, <2>3, <2>4
  <1>5. CASE Search(t)
    <2>1. tab[t].page \in Pages
      BY <1>0 DEF TabStates
    <2>2. Slice(index, ApiPage(tab[t].p)) \in SUBSET Films
      BY DEF TypeOK, Slice
    <2>3. [tab[t].page EXCEPT !.items = Slice(index, ApiPage(tab[t].p))] \in Pages
      BY <2>1, <2>2 DEF Pages
    <2>4. QED
      BY <1>5, <2>1, <2>3, PutTypes DEF Search
  <1>6. CASE ListMiss(t)
    <2> DEFINE x == [tab[t] EXCEPT !.at = "count"]
    <2>1. x \in TabStates /\ x.at = "count" /\ x.asked = tab[t].asked
      BY <1>0 DEF TabStates
    <2>2. tab' = [tab EXCEPT ![t] = x] /\ UNCHANGED <<stores, credited>>
      BY <1>6 DEF ListMiss
    <2>3. QED
      BY <1>0, <2>1, <2>2 DEF TabMoves, stores
  <1>7. QED
    BY <1>2, <1>3, <1>4, <1>5, <1>6 DEF ListStep

\* The steps that lead to a deletion, and those that list it, keep RowsInv.
LEMMA MoveKeepsInv ==
  ASSUME RowsInv, NEW t \in Tabs, NEW x, TabMoves(t, x)
  PROVE  RowsInv'
  BY TabSettles DEF TabMoves

\* DeleteRefused is such a step too.
LEMMA RefusedTypes ==
  ASSUME TypeOK, NEW t \in Tabs, NEW f \in Films, DeleteRefused(t, f)
  PROVE  \E x : TabMoves(t, x) /\ x.asked \subseteq tab[t].asked
  <1> DEFINE x == [tab[t] EXCEPT !.asked = @ \ {f}]
  <1>1. tab[t] \in TabStates /\ cached \in [ApiPages -> Pages] /\ tab[t].at = "deleting"
    BY DEF TypeOK, DeleteRefused
  <1>2. x \in TabStates /\ x.at = "deleting" /\ x.asked \subseteq tab[t].asked
    BY <1>1 DEF TabStates
  <1>3. tab' = [tab EXCEPT ![t] = x]
    BY <1>1 DEF DeleteRefused
  <1>4. QED
    BY <1>1, <1>2, <1>3 DEF TabMoves, DeleteRefused, stores

\* The UPDATE found the row alive: nobody waits for this film but the tab.
LEMMA SoftDeleteKeepsInv ==
  ASSUME RowsInv, NEW t \in Tabs, NEW f \in Films, SoftDelete(t, f)
  PROVE  RowsInv'
  <1> USE DEF SoftDelete, Deletes
  <1> DEFINE x == [tab[t] EXCEPT !.at = "waiting"]
  <1>1. tab[t] \in TabStates /\ x \in TabStates /\ x.asked = tab[t].asked /\ f \in x.asked
    BY DEF RowsInv, TypeOK, TabStates, First
  <1>2. tab' = [tab EXCEPT ![t] = x] /\ tab \in [Tabs -> TabStates]
    BY DEF RowsInv, TypeOK
  <1>3. TypeOK'
    BY <1>1, <1>2 DEF RowsInv, TypeOK
  <1>4. ReportedOnce'
    BY DEF RowsInv, ReportedOnce
  <1>5. \A u \in Tabs, g \in Films : First(u, g)' <=> First(u, g)
    BY <1>1, <1>2 DEF First
  <1>6. \A g \in Films : First(t, g) => g = f
    BY DEF First, Films
  <1>7. credited[f] = 0
    BY DEF RowsInv, TypeOK, ReportedOnce
  <1>8. WaiterDeleted'
    BY <1>2, <1>5, <1>6, <1>7 DEF RowsInv, WaiterDeleted
  <1>9. QED
    BY <1>3, <1>4, <1>8 DEF RowsInv

\* What an answer leaves of the tabs: the one that waited goes on without the film,
\* or is closed; the others are as they were, but for what they have counted.
Answers(t, f) == GoOn(t, f) \/ tab' = [Moved EXCEPT ![t] = Closed]

LEMMA AnswerTypes ==
  ASSUME TypeOK, NEW t \in Tabs, NEW f \in Films, Answers(t, f)
  PROVE  /\ tab' \in [Tabs -> TabStates]
         /\ tab'[t].at # "waiting"
         /\ \A u \in Tabs : tab'[u].asked \subseteq tab[u].asked
         /\ \A u \in Tabs \ {t} : tab'[u].at = tab[u].at /\ tab'[u].asked = tab[u].asked
  <1> DEFINE x == [tab[t] EXCEPT !.at = "deleting", !.asked = @ \ {f}]
  <1>1. tab[t] \in TabStates
    BY DEF TypeOK
  <1>2. x \in TabStates /\ x.at # "waiting" /\ x.asked \subseteq tab[t].asked
    BY <1>1 DEF TabStates
  <1>3. Closed.asked \subseteq tab[t].asked /\ Closed.at # "waiting"
    BY ClosedType
  <1>4. PICK y \in {x, Closed} : tab' = [Moved EXCEPT ![t] = y]
    BY DEF Answers, GoOn
  <1>5. y \in TabStates /\ y.at # "waiting" /\ y.asked \subseteq tab[t].asked
    BY <1>2, <1>3, ClosedType
  <1> HIDE DEF x
  <1>6. QED
    BY <1>4, <1>5, MovedTabs

\* An answer without success, and a step of the ETL, leave RowsInv as it is.
LEMMA UnansweredKeepsInv ==
  ASSUME RowsInv, NEW t \in Tabs, NEW f \in Films, DelistUnanswered(t, f)
  PROVE  RowsInv'
  <1>1. Answers(t, f) /\ deleted' = deleted /\ credited' = credited
    BY DEF DelistUnanswered, Answers
  <1>2. index' \subseteq Films
    BY DEF DelistUnanswered, RowsInv, TypeOK
  <1>3. cached' \in [ApiPages -> Pages]
    BY ClosedType DEF DelistUnanswered, RowsInv, TypeOK
  <1>4. TypeOK
    BY DEF RowsInv
  <1>5. QED
    BY <1>1, <1>2, <1>3, <1>4, AnswerTypes, Settles

LEMMA EtlKeepsInv ==
  ASSUME RowsInv, NEW f \in Films, EtlIndexes(f)
  PROVE  RowsInv'
  <1>1. index' \subseteq Films /\ cached' \in [ApiPages -> Pages]
    BY DEF EtlIndexes, RowsInv, TypeOK
  <1>2. TypeOK
    BY DEF RowsInv
  <1>3. QED
    BY <1>1, <1>2, MovedTabs, Settles DEF EtlIndexes

\* The success is reported to the one tab that waits for this film.
LEMMA DelistKeepsInv ==
  ASSUME RowsInv, NEW t \in Tabs, NEW f \in Films, Delist(t, f)
  PROVE  RowsInv'
  <1>1. TypeOK /\ Answers(t, f) /\ deleted' = deleted
        /\ credited' = [credited EXCEPT ![f] = @ + 1]
    BY DEF Delist, Answers, RowsInv
  <1>2. /\ tab' \in [Tabs -> TabStates] /\ tab'[t].at # "waiting"
        /\ \A u \in Tabs \ {t} : tab'[u].at = tab[u].at /\ tab'[u].asked = tab[u].asked
    BY <1>1, AnswerTypes
  <1>3. tab[t].at = "waiting" /\ First(t, f)
    BY DEF Delist
  <1>4. f \in deleted /\ credited[f] = 0
        /\ \A u \in Tabs \ {t} : ~(tab[u].at = "waiting" /\ First(u, f))
    BY <1>3 DEF RowsInv, WaiterDeleted
  <1>5. index' \subseteq Films /\ cached' \in [ApiPages -> Pages]
    BY ClosedType DEF Delist, RowsInv, TypeOK
  <1>6. credited' \in [Films -> Nat] /\ \A g \in Films : credited'[g] = IF g = f THEN 1 ELSE credited[g]
    BY <1>1, <1>4 DEF TypeOK
  <1>7. TypeOK'
    BY <1>1, <1>2, <1>5, <1>6 DEF TypeOK
  <1>8. ReportedOnce'
    BY <1>1, <1>4, <1>6 DEF RowsInv, ReportedOnce
  <1>9. WaiterDeleted'
    BY <1>1, <1>2, <1>4, <1>6 DEF RowsInv, WaiterDeleted, First
  <1>10. QED
    BY <1>7, <1>8, <1>9 DEF RowsInv

-----------------------------------------------------------------------------
LEMMA NextKeepsInv == RowsInv /\ [Next]_vars => RowsInv'
  <1> SUFFICES ASSUME RowsInv, [Next]_vars PROVE RowsInv'
    OBVIOUS
  <1>0. TypeOK
    BY DEF RowsInv
  <1>1. CASE \E t \in Tabs : \/ \E p \in 0 .. MaxLink : Open(t, p)
                            \/ \E some \in SUBSET Films : Tick(t, some)
                            \/ Confirm(t) \/ Finish(t) \/ Abandon(t)
    BY <1>0, <1>1, PageTypes, MoveKeepsInv
  <1>2. CASE \E t \in Tabs : ListStep(t)
    BY <1>0, <1>2, ListTypes, MoveKeepsInv
  <1>3. CASE \E t \in Tabs, f \in Films : DeleteStep(t, f)
    <2>1. PICK t \in Tabs, f \in Films : DeleteStep(t, f)
      BY <1>3
    <2>2. CASE SoftDelete(t, f)
      BY <2>2, SoftDeleteKeepsInv
    <2>3. CASE DeleteRefused(t, f)
      BY <1>0, <2>3, RefusedTypes, MoveKeepsInv
    <2>4. CASE Delist(t, f)
      BY <2>4, DelistKeepsInv
    <2>5. CASE DelistUnanswered(t, f)
      BY <2>5, UnansweredKeepsInv
    <2>6. QED
      BY <2>1, <2>2, <2>3, <2>4, <2>5 DEF DeleteStep
  <1>4. CASE \E a \in ApiPages : Expire(a)
    <2>1. PICK a \in ApiPages : Expire(a)
      BY <1>4
    <2>2. cached' \in [ApiPages -> Pages] /\ index' \subseteq Films /\ tab \in [Tabs -> TabStates]
      BY <2>1, ClosedType DEF RowsInv, TypeOK, Expire
    <2>3. deleted' = deleted /\ credited' = credited /\ tab' = tab
      BY <2>1 DEF Expire
    <2>4. QED
      BY <2>2, <2>3, Settles
  <1>5. CASE \E f \in Films : EtlIndexes(f)
    BY <1>5, EtlKeepsInv
  <1>6. CASE UNCHANGED vars
    BY <1>6 DEF vars, stores, RowsInv, TypeOK, ReportedOnce, WaiterDeleted, First
  <1>7. QED
    BY <1>1, <1>2, <1>3, <1>4, <1>5, <1>6 DEF Next

\* Rows, tabs and the reports of their DELETEs fit together (admin.py, films.py), for
\* any number of tabs, films and any page size.
LEMMA RowsInvariance == Spec => []RowsInv
  BY InitInv, NextKeepsInv, PTL DEF Spec

\* Pages of films of the catalogue, and no waiting without a film to wait for
\* (admin.py, delete_queryset), for any number of tabs, films and any page size.
THEOREM FilmsTypeCorrect == Spec => []TypeOK
  <1>1. RowsInv => TypeOK
    BY DEF RowsInv
  <1>2. QED
    BY <1>1, RowsInvariance, PTL

\* A deletion is answered with success once at most, for a deleted film: the row
\* count of FilmsRepository.soft_delete decides between any number of tabs.
THEOREM ReportedOnlyOnce == Spec => []ReportedOnce
  <1>1. RowsInv => ReportedOnce
    BY DEF RowsInv
  <1>2. QED
    BY <1>1, RowsInvariance, PTL

\* A tab that waits for after_film_soft_delete has deleted the film, alone.
THEOREM WaiterKnows == Spec => []WaiterDeleted
  <1>1. RowsInv => WaiterDeleted
    BY DEF RowsInv
  <1>2. QED
    BY <1>1, RowsInvariance, PTL

-----------------------------------------------------------------------------
\* One step deletes only what a tab is asked for, and adds nothing to that.
StepDeletesTicked ==
  /\ \A f \in deleted' \ deleted : \E t \in Tabs : f \in tab[t].asked
  /\ \A t \in Tabs : tab[t].at # "shown" => tab'[t].asked \subseteq tab[t].asked

\* So it is with the steps that one tab makes on its own page.
LEMMA MoveJoinsNothing ==
  ASSUME TypeOK, NEW t \in Tabs, NEW x, TabMoves(t, x),
         tab[t].at # "shown" => x.asked \subseteq tab[t].asked
  PROVE  StepDeletesTicked
  <1>1. \A u \in Tabs : tab[u].at # "shown" => tab'[u].asked \subseteq tab[u].asked
    BY DEF TypeOK, TabMoves
  <1>2. QED
    BY <1>1 DEF TabMoves, StepDeletesTicked

LEMMA NextJoinsNothing == TypeOK /\ [Next]_vars => [StepDeletesTicked]_vars
  <1> SUFFICES ASSUME TypeOK, Next PROVE StepDeletesTicked
    BY DEF StepDeletesTicked, vars, stores
  <1>1. CASE \E t \in Tabs : \/ \E p \in 0 .. MaxLink : Open(t, p)
                            \/ \E some \in SUBSET Films : Tick(t, some)
                            \/ Confirm(t) \/ Finish(t) \/ Abandon(t)
    BY <1>1, PageTypes, MoveJoinsNothing
  <1>2. CASE \E t \in Tabs : ListStep(t)
    BY <1>2, ListTypes, MoveJoinsNothing
  <1>3. CASE \E t \in Tabs, f \in Films : DeleteStep(t, f)
    <2>1. PICK t \in Tabs, f \in Films : DeleteStep(t, f)
      BY <1>3
    <2>2. CASE SoftDelete(t, f)
      <3>1. f \in tab[t].asked /\ deleted' = deleted \union {f}
        BY <2>2 DEF SoftDelete, Deletes, First
      <3>2. \A u \in Tabs : tab'[u].asked \subseteq tab[u].asked
        BY <2>2 DEF SoftDelete, Deletes, TypeOK, TabStates
      <3>3. QED
        BY <3>1, <3>2 DEF StepDeletesTicked
    <2>3. CASE DeleteRefused(t, f)
      BY <2>3, RefusedTypes, MoveJoinsNothing
    <2>4. CASE Delist(t, f) \/ DelistUnanswered(t, f)
      <3>1. Answers(t, f) /\ deleted' = deleted
        BY <2>4 DEF Delist, DelistUnanswered, Answers
      <3>2. QED
        BY <3>1, AnswerTypes DEF StepDeletesTicked
    <2>5. QED
      BY <2>1, <2>2, <2>3, <2>4 DEF DeleteStep
  <1>4. CASE \E a \in ApiPages : Expire(a)
    BY <1>4 DEF Expire, StepDeletesTicked
  <1>5. CASE \E f \in Films : EtlIndexes(f)
    BY <1>5, MovedTabs DEF EtlIndexes, StepDeletesTicked
  <1>6. QED
    BY <1>1, <1>2, <1>3, <1>4, <1>5 DEF Next

\* Nothing joins the ticked films up to the last DELETE, and nothing else is
\* deleted (querysets.py, filter), however the catalogue moves in between.
THEOREM NothingJoins == Spec => OnlyTickedDeleted
  <1>1. TypeOK /\ [Next]_vars => [StepDeletesTicked]_vars
    BY NextJoinsNothing
  <1>2. Spec => [][StepDeletesTicked]_vars
    BY <1>1, FilmsTypeCorrect, PTL DEF Spec
  <1>3. QED
    BY <1>2 DEF OnlyTickedDeleted, StepDeletesTicked

-----------------------------------------------------------------------------
(* Places and pages.  A film's place numbers the films of any set from 0     *)
(* without a gap, so a page has as many films as there are places on it that *)
(* the set fills: its size depends on the size of the set alone.             *)

LEMMA FiniteFilms ==
  ASSUME NEW S \in SUBSET Films
  PROVE  IsFiniteSet(S) /\ Cardinality(S) \in Nat
  <1>1. IsFiniteSet(Films)
    BY ListAssumption, FS_Interval DEF Films
  <1>2. IsFiniteSet(S)
    BY <1>1, FS_Subset
  <1>3. QED
    BY <1>2, FS_CardinalityType

\* The place of a film in a set is below the size of the set.
LEMMA PlaceBound ==
  ASSUME NEW S \in SUBSET Films, NEW f \in S
  PROVE  Place(f, S) \in 0 .. Cardinality(S) - 1
  <1>1. {g \in S : g < f} \in SUBSET (S \ {f})
    BY DEF Films
  <1>2. IsFiniteSet(S \ {f}) /\ Cardinality(S \ {f}) = Cardinality(S) - 1
    BY FiniteFilms, FS_RemoveElement
  <1>3. Place(f, S) \in Nat /\ Place(f, S) <= Cardinality(S) - 1
    BY <1>1, <1>2, FS_Subset, FS_CardinalityType DEF Place
  <1>4. QED
    BY <1>3, FiniteFilms

\* A film further down has a greater place.
LEMMA PlaceGrows ==
  ASSUME NEW S \in SUBSET Films, NEW f \in S, NEW g \in S, f < g
  PROVE  Place(f, S) < Place(g, S)
  <1> DEFINE above(h) == {k \in S : k < h}
  <1>1. above(f) \union {f} \in SUBSET above(g) /\ f \notin above(f)
    <2>1. \A k \in S : k \in Int
      BY ListAssumption DEF Films
    <2>2. \A k \in S : k < f => k < g
      BY <2>1
    <2>3. ~(f < f)
      BY <2>1
    <2>4. QED
      BY <2>2, <2>3
  <1>2. IsFiniteSet(above(f)) /\ IsFiniteSet(above(g))
    <2>1. above(f) \in SUBSET S /\ above(g) \in SUBSET S
      OBVIOUS
    <2> HIDE DEF above
    <2>2. QED
      BY <2>1, FiniteFilms, FS_Subset
  <1>3. Cardinality(above(f) \union {f}) = Cardinality(above(f)) + 1
    BY <1>1, <1>2, FS_AddElement
  <1>4. Cardinality(above(f) \union {f}) <= Cardinality(above(g))
    BY <1>1, <1>2, FS_Subset
  <1>5. Cardinality(above(f)) \in Nat /\ Cardinality(above(g)) \in Nat
    BY <1>2, FS_CardinalityType
  <1>6. Cardinality(above(f)) < Cardinality(above(g))
    BY <1>3, <1>4, <1>5
  <1>7. QED
    BY <1>6 DEF Place

\* So every place below the size is some film's, and only one film's.
LEMMA PlacesAreFilled ==
  ASSUME NEW S \in SUBSET Films
  PROVE  [f \in S |-> Place(f, S)] \in Bijection(S, 0 .. Cardinality(S) - 1)
  <1> DEFINE places == 0 .. Cardinality(S) - 1
             number == [f \in S |-> Place(f, S)]
  <1>1. number \in [S -> places]
    BY PlaceBound
  <1>2. ASSUME NEW f \in S, NEW g \in S, number[f] = number[g]
        PROVE  f = g
    <2>1. ~(f < g) /\ ~(g < f)
      BY <1>1, <1>2, PlaceGrows, PlaceBound
    <2>2. QED
      BY <2>1 DEF Films
  <1>3. number \in Injection(S, places)
    BY <1>1, <1>2 DEF Injection, IsInjective
  <1>4. IsFiniteSet(places) /\ Cardinality(places) = Cardinality(S)
    <2>1. Cardinality(S) \in Nat
      BY FiniteFilms
    <2>2. QED
      BY <2>1, FS_Interval
  <1> HIDE DEF number, places
  <1>5. number \in Surjection(S, places)
    BY <1>3, <1>4, FS_Injection
  <1>6. QED
    BY <1>3, <1>5 DEF Bijection, number, places

\* A page has as many films as it has places that are filled.
LEMMA SliceSize ==
  ASSUME NEW S \in SUBSET Films, NEW page
  PROVE  Cardinality(Slice(S, page)) =
           Cardinality((Start(page) .. Start(page) + PageSize - 1) \cap (0 .. Cardinality(S) - 1))
  <1> DEFINE window == Start(page) .. Start(page) + PageSize - 1
             places == 0 .. Cardinality(S) - 1
             part == Slice(S, page)
             number == [f \in S |-> Place(f, S)]
             there == [f \in part |-> Place(f, S)]
  <1>1. part = {f \in S : Place(f, S) \in window}
    BY DEF Slice
  <1> HIDE DEF window, part
  <1>2. number \in Bijection(S, places)
    BY PlacesAreFilled
  <1>3. there \in [part -> window \cap places]
    BY <1>1, PlaceBound
  <1>4. \A f, g \in part : there[f] = there[g] => f = g
    BY <1>1, <1>2 DEF Bijection, Injection, IsInjective
  <1>5. \A n \in window \cap places : \E f \in part : there[f] = n
    <2> SUFFICES ASSUME NEW n \in window, n \in places
                 PROVE  \E f \in part : there[f] = n
      OBVIOUS
    <2>1. PICK f \in S : number[f] = n
      BY <1>2 DEF Bijection, Surjection
    <2>2. f \in part
      BY <1>1, <2>1
    <2>3. QED
      BY <2>1, <2>2
  <1>6. there \in Bijection(part, window \cap places)
    BY <1>3, <1>4, <1>5 DEF Bijection, Injection, IsInjective, Surjection
  <1>7. IsFiniteSet(part)
    <2>1. part \in SUBSET S
      BY <1>1
    <2>2. QED
      BY <2>1, FiniteFilms, FS_Subset
  <1>8. ExistsBijection(part, window \cap places)
    BY <1>6 DEF ExistsBijection
  <1>9. QED
    BY <1>7, <1>8, FS_Bijection DEF window, part

\* The page of a set is as long as that of the films 1 .. its size.
LEMMA SliceOfCount ==
  ASSUME NEW S \in SUBSET Films, NEW page
  PROVE  Cardinality(Slice(S, page)) = Cardinality(Slice(1 .. Cardinality(S), page))
  <1>1. Cardinality(S) \in 0 .. NumFilms
    BY FilmsCount
  <1>2. 1 .. Cardinality(S) \in SUBSET Films
    BY <1>1, ListAssumption DEF Films
  <1>3. Cardinality(1 .. Cardinality(S)) = Cardinality(S)
    BY <1>1, ListAssumption, FS_Interval
  <1>4. QED
    BY <1>2, <1>3, SliceSize

\* A page that starts beyond the films has none of them.
LEMMA SliceBeyond ==
  ASSUME NEW n \in 0 .. NumFilms, NEW page \in Nat, Start(page) >= n
  PROVE  Slice(1 .. n, page) = {}
  <1>1. 1 .. n \in SUBSET Films /\ Cardinality(1 .. n) = n
    BY ListAssumption, FS_Interval DEF Films
  <1>2. \A f \in 1 .. n : Place(f, 1 .. n) \in 0 .. n - 1
    BY <1>1, PlaceBound
  <1>3. Start(page) \in Int
    BY ListAssumption DEF Start
  <1>4. QED
    BY <1>2, <1>3, ListAssumption DEF Slice

-----------------------------------------------------------------------------
\* The page of a film is its place by the size of a page, which the last link
\* reaches (pagination.py, get_results): no film of the index is out of the list.
LEMMA EveryFilmHasLink == TypeOK => EveryFilmListed
  <1> SUFFICES ASSUME TypeOK, NEW f \in index
               PROVE  \E p \in Links(Cardinality(index)) : f \in Slice(index, ApiPage(p))
    BY DEF EveryFilmListed
  <1> DEFINE n == Cardinality(index)
             k == Place(f, index)
             p == k \div PageSize
  <1>1. k \in Nat /\ n \in Nat /\ k <= n - 1
    <2>1. index \in SUBSET Films
      BY DEF TypeOK
    <2>2. k \in 0 .. n - 1 /\ n \in Nat
      BY <2>1, PlaceBound, FiniteFilms
    <2>3. QED
      BY <2>2
  <1> HIDE DEF n, k
  <1>2. p \in Nat /\ p * PageSize <= k /\ k <= p * PageSize + PageSize - 1
    BY <1>1, ListAssumption
  <1>3. p <= (n + PageSize - 1) \div PageSize
    BY <1>1, ListAssumption
  <1>4. (n + PageSize - 1) \div PageSize \in Nat
    BY <1>1, ListAssumption
  <1>5. n # 0
    BY <1>1
  <1> HIDE DEF p
  <1>6. p \in Links(n)
    BY <1>2, <1>3, <1>4, <1>5 DEF Links, PageCount
  <1>7. ApiPage(p) - 1 = p
    BY <1>2 DEF ApiPage
  <1>8. Start(ApiPage(p)) = p * PageSize
    BY <1>7 DEF Start
  <1>9. p * PageSize \in Int
    BY <1>2, ListAssumption
  <1>10. k \in Start(ApiPage(p)) .. Start(ApiPage(p)) + PageSize - 1
    BY <1>1, <1>2, <1>8, <1>9, ListAssumption
  <1>11. f \in Slice(index, ApiPage(p))
    BY <1>10 DEF Slice, k
  <1>12. QED
    BY <1>6, <1>11 DEF n

\* Every film that a search finds is on a page that the panel can ask for, for any
\* number of films and any page size.
THEOREM AllListed == Spec => []EveryFilmListed
  BY EveryFilmHasLink, FilmsTypeCorrect, PTL

-----------------------------------------------------------------------------
(* What a tab has counted.                                                  *)

\* A step of one tab, the index being what it was.
LEMMA OwnPage ==
  ASSUME CountIsFresh, TypeOK, NEW t \in Tabs, NEW x, tab' = [tab EXCEPT ![t] = x],
         Fresh(x, index), index' = index
  PROVE  CountIsFresh'
  <1>1. \A u \in Tabs : tab'[u] = IF u = t THEN x ELSE tab[u]
    BY DEF TypeOK
  <1>2. \A u \in Tabs : Fresh(tab'[u], index)
    BY <1>1 DEF CountIsFresh
  <1>3. QED
    BY <1>2 DEF CountIsFresh

LEMMA ClosedFresh == \A S : Fresh(Closed, S)
  BY DEF Fresh, Closed

\* A listed page leaves nothing counted.
LEMMA ListedFresh ==
  ASSUME TypeOK, NEW t \in Tabs, NEW pg, Listed(t, pg)
  PROVE  \E x : tab' = [tab EXCEPT ![t] = x] /\ Fresh(x, index)
  <1> DEFINE tb == tab[t]
             rows == IF tb.goal = "view" THEN pg.items ELSE Pick(pg.items, tb.asked)
             base == [tb EXCEPT !.page = NoPage, !.even = TRUE]
             x == IF (pg.total > PageSize /\ tb.p > PageCount(pg.total)) \/ rows = {} THEN Closed
                  ELSE CASE tb.goal = "view" -> [base EXCEPT !.at = "shown", !.page.items = rows]
                         [] tb.goal = "confirm" -> [base EXCEPT !.at = "confirm", !.asked = rows]
                         [] tb.goal = "delete" -> [Closed EXCEPT !.at = "deleting", !.asked = rows]
  <1>1. tb \in TabStates /\ tb.goal \in {"view", "confirm", "delete"}
    BY DEF TypeOK, TabStates
  <1>2. Fresh([base EXCEPT !.at = "shown", !.page.items = rows], index)
    BY <1>1 DEF Fresh, TabStates
  <1>3. Fresh([base EXCEPT !.at = "confirm", !.asked = rows], index)
    BY <1>1 DEF Fresh, TabStates
  <1>4. Fresh([Closed EXCEPT !.at = "deleting", !.asked = rows], index)
    BY DEF Fresh, Closed
  <1>5. tab' = [tab EXCEPT ![t] = x]
    BY DEF Listed
  <1> HIDE DEF rows, base
  <1>6. Fresh(x, index)
    BY <1>1, <1>2, <1>3, <1>4, ClosedFresh
  <1>7. QED
    BY <1>5, <1>6

\* The count is fresh when it is taken; every other step of a list request lists.
LEMMA ListKeepsCount ==
  ASSUME CountIsFresh, TypeOK, NEW t \in Tabs, ListStep(t)
  PROVE  CountIsFresh'
  <1>0. index' = index
    BY DEF ListStep, ListHit, ListMiss, ListFails, Count, Counted, Search, stores
  <1>1. ASSUME NEW pg, Listed(t, pg)
        PROVE  CountIsFresh'
    BY <1>0, <1>1, ListedFresh, OwnPage
  <1>2. CASE ListHit(t) \/ ListFails(t) \/ Search(t)
    BY <1>1, <1>2 DEF ListHit, ListFails, Search, Put
  <1>3. CASE Count(t)
    <2> DEFINE x == [tab[t] EXCEPT !.at = "search", !.page.total = Cardinality(index)]
    <2>1. CASE tab' = [tab EXCEPT ![t] = x]
      <3>1. tab[t] \in TabStates /\ tab[t].page = NoPage
        BY <1>3 DEF Count, Counted, CountIsFresh, Fresh, TypeOK
      <3>2. Fresh(x, index)
        BY <3>1 DEF Fresh, TabStates, NoPage
      <3>3. QED
        BY <1>0, <2>1, <3>2, OwnPage
    <2>2. CASE \E pg : Listed(t, pg)
      BY <1>1, <2>2
    <2>3. tab' = [tab EXCEPT ![t] = x] \/ \E pg : Listed(t, pg)
      <3>1. CASE Cardinality(index) = 0
        BY <1>3, <3>1 DEF Count, Counted
      <3>2. CASE Cardinality(index) # 0 /\ Start(ApiPage(tab[t].p)) >= Cardinality(index)
        BY <1>3, <3>2 DEF Count, Counted, Put
      <3>3. CASE Cardinality(index) # 0 /\ ~(Start(ApiPage(tab[t].p)) >= Cardinality(index))
        BY <1>3, <3>3 DEF Count, Counted
      <3>4. QED
        BY <3>1, <3>2, <3>3
    <2>4. QED
      BY <2>1, <2>2, <2>3
  <1>4. CASE ListMiss(t)
    <2> DEFINE x == [tab[t] EXCEPT !.at = "count"]
    <2>1. tab[t] \in TabStates /\ tab[t].at = "list" /\ Fresh(tab[t], index)
      BY <1>4 DEF ListMiss, TypeOK, CountIsFresh
    <2>2. Fresh(x, index)
      BY <2>1 DEF Fresh, TabStates
    <2>3. QED
      BY <1>0, <1>4, <2>2, OwnPage DEF ListMiss
  <1>5. QED
    BY <1>2, <1>3, <1>4 DEF ListStep

\* The other steps of a tab that leave the index alone have counted nothing.
LEMMA TabKeepsCount ==
  ASSUME CountIsFresh, TypeOK, NEW t \in Tabs,
         \/ \E p \in 0 .. MaxLink : Open(t, p)
         \/ \E some \in SUBSET Films : Tick(t, some)
         \/ Confirm(t) \/ Finish(t) \/ Abandon(t)
         \/ \E f \in Films : SoftDelete(t, f) \/ DeleteRefused(t, f)
  PROVE  CountIsFresh'
  <1>0. index' = index /\ tab[t] \in TabStates /\ Fresh(tab[t], index)
    BY DEF Open, Tick, Confirm, Finish, Abandon, SoftDelete, Deletes, DeleteRefused, stores,
           TypeOK, CountIsFresh
  <1>1. CASE \E p \in 0 .. MaxLink : Open(t, p)
    <2>1. PICK p \in 0 .. MaxLink : Open(t, p)
      BY <1>1
    <2> DEFINE x == [tab[t] EXCEPT !.at = "list", !.p = p]
    <2>2. Fresh(x, index) /\ tab' = [tab EXCEPT ![t] = x]
      BY <1>0, <2>1 DEF Open, Fresh, TabStates, TypeOK
    <2>3. QED
      BY <1>0, <2>2, OwnPage
  <1>2. CASE \E some \in SUBSET Films : Tick(t, some)
    <2>1. PICK some \in SUBSET Films : Tick(t, some)
      BY <1>2
    <2> DEFINE x == [tab[t] EXCEPT !.at = "list", !.goal = "confirm", !.page = NoPage,
                                   !.asked = some]
    <2>2. Fresh(x, index) /\ tab' = [tab EXCEPT ![t] = x]
      BY <1>0, <2>1 DEF Tick, Fresh, TabStates, TypeOK
    <2>3. QED
      BY <1>0, <2>2, OwnPage
  <1>3. CASE Confirm(t)
    <2> DEFINE x == [tab[t] EXCEPT !.at = "list", !.goal = "delete"]
    <2>1. Fresh(x, index) /\ tab' = [tab EXCEPT ![t] = x]
      BY <1>0, <1>3 DEF Confirm, Fresh, TabStates, TypeOK
    <2>2. QED
      BY <1>0, <2>1, OwnPage
  <1>4. CASE Finish(t) \/ Abandon(t)
    BY <1>0, <1>4, ClosedFresh, OwnPage DEF Finish, Abandon
  <1>5. CASE \E f \in Films : SoftDelete(t, f)
    <2> DEFINE x == [tab[t] EXCEPT !.at = "waiting"]
    <2>1. Fresh(x, index) /\ tab' = [tab EXCEPT ![t] = x]
      BY <1>0, <1>5 DEF SoftDelete, Deletes, Fresh, TabStates, TypeOK
    <2>2. QED
      BY <1>0, <2>1, OwnPage
  <1>6. CASE \E f \in Films : DeleteRefused(t, f)
    <2>1. PICK f \in Films : DeleteRefused(t, f)
      BY <1>6
    <2> DEFINE x == [tab[t] EXCEPT !.asked = @ \ {f}]
    <2>2. Fresh(x, index) /\ tab' = [tab EXCEPT ![t] = x]
      BY <1>0, <2>1 DEF DeleteRefused, Fresh, TabStates, TypeOK
    <2>3. QED
      BY <1>0, <2>2, OwnPage
  <1>7. QED
    BY <1>1, <1>2, <1>3, <1>4, <1>5, <1>6

\* A tab that has counted knows when the index is another.
LEMMA MovedFresh ==
  ASSUME CountIsFresh, TypeOK, NEW u \in Tabs
  PROVE  Fresh(Moved[u], index')
  <1>1. tab[u] \in TabStates /\ Fresh(tab[u], index)
    BY DEF TypeOK, CountIsFresh
  <1>2. Moved[u] = [tab[u] EXCEPT !.even = @ /\ (tab[u].at = "search" => index' = index)]
    BY DEF Moved
  <1>3. /\ Moved[u].at = tab[u].at /\ Moved[u].page = tab[u].page
        /\ Moved[u].at = "search" /\ Moved[u].even => tab[u].even /\ index' = index
    BY <1>1, <1>2 DEF TabStates
  <1>4. QED
    BY <1>1, <1>3 DEF Fresh

LEMMA AnswerKeepsCount ==
  ASSUME CountIsFresh, TypeOK, NEW t \in Tabs, NEW f \in Films, tab[t].at = "waiting", Answers(t, f)
  PROVE  CountIsFresh'
  <1> DEFINE x == [tab[t] EXCEPT !.at = "deleting", !.asked = @ \ {f}]
  <1>1. tab[t] \in TabStates /\ Fresh(tab[t], index)
    BY DEF TypeOK, CountIsFresh
  <1>2. Fresh(x, index')
    BY <1>1 DEF Fresh, TabStates
  <1>3. PICK y \in {x, Closed} : tab' = [Moved EXCEPT ![t] = y]
    BY DEF Answers, GoOn
  <1>4. Fresh(y, index')
    BY <1>2, ClosedFresh
  <1> HIDE DEF x
  <1>5. \A u \in Tabs : tab'[u] = IF u = t THEN y ELSE Moved[u]
    BY <1>3 DEF Moved
  <1>6. \A u \in Tabs : Fresh(tab'[u], index')
    BY <1>4, <1>5, MovedFresh
  <1>7. QED
    BY <1>6 DEF CountIsFresh

LEMMA NextKeepsCount == CountIsFresh /\ TypeOK /\ [Next]_vars => CountIsFresh'
  <1> SUFFICES ASSUME CountIsFresh, TypeOK, [Next]_vars PROVE CountIsFresh'
    OBVIOUS
  <1>1. ASSUME NEW t \in Tabs, NEW f \in Films, Delist(t, f) \/ DelistUnanswered(t, f)
        PROVE  CountIsFresh'
    BY <1>1, AnswerKeepsCount DEF Delist, DelistUnanswered, Answers
  <1>2. ASSUME NEW f \in Films, EtlIndexes(f)
        PROVE  CountIsFresh'
    BY <1>2, MovedFresh DEF EtlIndexes, CountIsFresh
  <1>3. CASE UNCHANGED vars \/ \E a \in ApiPages : Expire(a)
    BY <1>3 DEF vars, stores, Expire, CountIsFresh
  <1>4. QED
    BY <1>1, <1>2, <1>3, ListKeepsCount, TabKeepsCount DEF Next, DeleteStep

\* The inductive invariant whole (admin.py, querysets.py, films.py): rows, tabs, reports
\* and counts fit together, for any number of tabs, films and any page size.
THEOREM Invariance == Spec => []FilmsInv
  <1>1. Init => CountIsFresh
    BY ClosedFresh DEF Init, CountIsFresh
  <1>2. Spec => []CountIsFresh
    BY <1>1, NextKeepsCount, FilmsTypeCorrect, PTL DEF Spec
  <1>3. RowsInv /\ CountIsFresh => FilmsInv
    BY DEF FilmsInv
  <1>4. QED
    BY <1>2, <1>3, RowsInvariance, PTL

-----------------------------------------------------------------------------
\* One step puts only pages that fit their total, or whose count is out of date or
\* whose search was refused.
StepFits ==
  \A a \in ApiPages :
    cached'[a] \notin {cached[a], NoPage} =>
      \/ Cardinality(cached'[a].items) = Cardinality(Slice(1 .. cached'[a].total, a))
      \/ \E t \in Tabs : /\ tab[t].at = "search" /\ ApiPage(tab[t].p) = a
                         /\ tab'[t].at # "search"
                         /\ ~tab[t].even \/ cached'[a].items = {}

\* A page counted and found empty has no films before its start.
LEMMA CountFits ==
  ASSUME TypeOK, NEW t \in Tabs, Count(t)
  PROVE  StepFits
  <1> DEFINE n == Cardinality(index)
             q == ApiPage(tab[t].p)
             pg == [NoPage EXCEPT !.total = n]
  <1>1. n \in 0 .. NumFilms
    BY FilmsCount DEF TypeOK
  <1>2. q \in ApiPages /\ q \in Nat
    BY ListAssumption DEF TypeOK, TabStates, ApiPage, ApiPages
  <1>3. CASE cached' = cached
    BY <1>3 DEF StepFits
  <1>4. CASE Start(q) >= n /\ cached' = [cached EXCEPT ![q] = pg]
    <2>1. pg.total = n /\ pg.items = {}
      BY DEF NoPage
    <2>2. Cardinality(pg.items) = Cardinality(Slice(1 .. pg.total, q))
      BY <1>1, <1>2, <1>4, <2>1, SliceBeyond
    <2>3. \A a \in ApiPages : cached'[a] = IF a = q THEN pg ELSE cached[a]
      BY <1>4 DEF TypeOK
    <2> HIDE DEF q, pg
    <2>4. QED
      BY <2>2, <2>3 DEF StepFits
  <1>5. QED
    BY <1>3, <1>4 DEF Count, Counted, Put, stores

\* What a search finds has the size that the count foretells.
LEMMA SearchFits ==
  ASSUME CountIsFresh, TypeOK, NEW t \in Tabs, Search(t)
  PROVE  StepFits
  <1> DEFINE q == ApiPage(tab[t].p)
             pg == [tab[t].page EXCEPT !.items = Slice(index, q)]
  <1>1. /\ tab[t].at = "search" /\ tab[t].page \in Pages /\ tab[t].page.items = {}
        /\ tab[t].even => tab[t].page.total = Cardinality(index)
    BY DEF Search, CountIsFresh, Fresh, TypeOK, TabStates
  <1>0. tab'[t].at # "search"
    <2>1. Slice(index, q) \in SUBSET Films
      BY DEF TypeOK, Slice
    <2>2. pg \in Pages
      BY <1>1, <2>1 DEF Pages
    <2>3. PICK z \in Pages : Listed(t, z)
      BY <1>1, <2>2 DEF Search, Put
    <2>4. PICK x : ListedTab(t, x)
      BY <2>3, ListedTypes
    <2>5. QED
      BY <2>4 DEF ListedTab, TypeOK
  <1>2. PICK y \in {pg, tab[t].page} : cached' = [cached EXCEPT ![q] = y]
    BY DEF Search, Put
  <1>3. \A a \in ApiPages : cached'[a] = IF a = q THEN y ELSE cached[a]
    BY <1>2 DEF TypeOK
  <1>4. \/ Cardinality(y.items) = Cardinality(Slice(1 .. y.total, q))
        \/ ~tab[t].even \/ y.items = {}
    <2>1. pg.items = Slice(index, q) /\ pg.total = tab[t].page.total
      BY <1>1 DEF Pages
    <2>2. ASSUME tab[t].even
          PROVE  Cardinality(pg.items) = Cardinality(Slice(1 .. pg.total, q))
      BY <1>1, <2>1, <2>2, SliceOfCount DEF TypeOK
    <2>3. QED
      BY <1>1, <2>2
  <1> HIDE DEF pg
  <1>5. ASSUME NEW a \in ApiPages, cached'[a] # cached[a]
        PROVE  \/ Cardinality(cached'[a].items) = Cardinality(Slice(1 .. cached'[a].total, a))
               \/ \E u \in Tabs : /\ tab[u].at = "search" /\ ApiPage(tab[u].p) = a
                                  /\ tab'[u].at # "search"
                                  /\ ~tab[u].even \/ cached'[a].items = {}
    <2>1. a = q /\ cached'[a] = y
      BY <1>3, <1>5
    <2>2. QED
      BY <1>0, <1>1, <1>4, <2>1
  <1>6. QED
    BY <1>5 DEF StepFits

LEMMA NextFits == TypeOK /\ CountIsFresh /\ [Next]_vars => [StepFits]_vars
  <1> SUFFICES ASSUME TypeOK, CountIsFresh, Next PROVE StepFits
    OBVIOUS
  <1>1. ASSUME \A a \in ApiPages : cached'[a] \in {cached[a], NoPage}
        PROVE  StepFits
    BY <1>1 DEF StepFits
  <1>2. CASE UNCHANGED cached
    BY <1>1, <1>2
  <1>3. ASSUME NEW t \in Tabs, NEW f \in Films, DeleteStep(t, f)
        PROVE  StepFits
    BY <1>1, <1>3 DEF DeleteStep, SoftDelete, Deletes, DeleteRefused, Delist, DelistUnanswered,
                      stores
  <1>4. ASSUME NEW t \in Tabs, ListStep(t)
        PROVE  StepFits
    BY <1>2, <1>4, CountFits, SearchFits DEF ListStep, ListHit, ListMiss, ListFails, stores
  <1>5. ASSUME NEW a \in ApiPages, Expire(a)
        PROVE  StepFits
    BY <1>1, <1>5 DEF Expire, TypeOK
  <1>6. ASSUME NEW t \in Tabs,
               \/ \E p \in 0 .. MaxLink : Open(t, p)
               \/ \E some \in SUBSET Films : Tick(t, some)
               \/ Confirm(t) \/ Finish(t) \/ Abandon(t)
        PROVE  StepFits
    BY <1>2, <1>6 DEF Open, Tick, Confirm, Finish, Abandon, stores
  <1>7. ASSUME NEW f \in Films, EtlIndexes(f)
        PROVE  StepFits
    BY <1>2, <1>7 DEF EtlIndexes
  <1>8. QED
    BY <1>3, <1>4, <1>5, <1>6, <1>7 DEF Next

\* A page goes to the cache with as many films as its total foretells, unless the index
\* moved between the two requests or refused the second (films.py,
\* _get_films_by_filters), for any number of tabs, films and any page size.
THEOREM PagesFit == Spec => PageFitsTotal
  <1>1. FilmsInv => TypeOK /\ CountIsFresh
    BY DEF FilmsInv, RowsInv
  <1>2. Spec => [][StepFits]_vars
    BY <1>1, NextFits, Invariance, PTL DEF Spec
  <1>3. QED
    BY <1>2 DEF PageFitsTotal, StepFits

===============================================================================
