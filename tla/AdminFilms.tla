------------------------------ MODULE AdminFilms ------------------------------
(***************************************************************************)
(* The film list of the admin panel: pages of fast_api's catalogue shown as *)
(* a Django change list (users/admin.py, querysets.py, pagination.py), and   *)
(* the bulk deletion over it.  Every request of the change list asks         *)
(* fast_api for its page again: the one that shows the rows, the POST of the *)
(* ticked rows, and the POST that confirms them; in between the catalogue    *)
(* moves, by other tabs and by the ETL, and rows change their page.          *)
(*                                                                         *)
(* A film is its place in the order of the list (rating, best first).  Of    *)
(* the stores there is what the pages need: the rows, the index as searches  *)
(* see it, the cached pages (FilmCatalog has the stores in full).  A page is *)
(* looked up in the cache, counted and searched in three steps.              *)
(***************************************************************************)
EXTENDS Integers, FiniteSets

CONSTANTS
  Tabs,      \* tabs of the panel
  NumFilms,  \* films of the catalogue
  PageSize,  \* list_per_page
  MaxLink,   \* bound on the page numbers that a tab opens
  NewFilms,  \* films that the ETL has not loaded at first
  OldRows    \* films whose row, fetched before a deletion, the ETL may load after it

ASSUME ListAssumption ==
  /\ NumFilms \in Nat \ {0}
  /\ PageSize \in Nat \ {0}
  /\ MaxLink \in Nat
  /\ NewFilms \subseteq 1 .. NumFilms /\ OldRows \subseteq 1 .. NumFilms

VARIABLES
  deleted,  \* films whose row is deleted
  index,    \* films a search finds
  cached,   \* the entry of every page of the API, if any
  tab,      \* what each tab is at
  \* History, read by the properties only:
  credited  \* how often a DELETE of each film was answered with success

stores == <<deleted, index, cached>>
vars == <<stores, tab, credited>>

Films == 1 .. NumFilms

-----------------------------------------------------------------------------
(* The pages.                                                               *)

PageCount(total) == IF total = 0 THEN 1 ELSE (total + PageSize - 1) \div PageSize

ApiPages == 1 .. MaxLink + 1

Start(page) == (page - 1) * PageSize
Place(f, S) == Cardinality({g \in S : g < f})
Slice(S, page) == {f \in S : Place(f, S) \in Start(page) .. Start(page) + PageSize - 1}

ApiPageDefaultingToOne(p) == (IF p = 0 THEN 1 ELSE p) + 1

\* p is 0 when the URL has none.
ApiPage(p) == p + 1

\* The links below the list (Django counts its pages from 1), and the list
\* without a number.
Links(total) == 0 .. PageCount(total)

\* filter(pk__in=...) returned the whole page once.
PickPage(rows, pks) == rows
Pick(rows, pks) == rows \cap pks

-----------------------------------------------------------------------------
NoPage == [total |-> 0, items |-> {}]

\* `asked': the films ticked, then those confirmed, then those left to delete.
\* `even': the index has not changed since it was counted.
Closed == [at |-> "idle", goal |-> "view", p |-> 0, page |-> NoPage, even |-> TRUE, asked |-> {}]

Init ==
  /\ deleted = {}
  /\ index = Films \ NewFilms
  /\ cached = [a \in ApiPages |-> NoPage]
  /\ tab = [t \in Tabs |-> Closed]
  /\ credited = [f \in Films |-> 0]

\* The tabs when the index changes: some have counted and not yet searched.
Moved == [t \in Tabs |-> [tab[t] EXCEPT !.even = @ /\ (tab[t].at = "search" => index' = index)]]

-----------------------------------------------------------------------------
(* FilmListingAdmin.get_queryset: GET /api/v1/films/, that is, list_films    *)
(* and FilmService._get_films_by_filters, and what the change list then does *)
(* with the rows.                                                           *)

Open(t, p) ==
  /\ tab[t].at = "idle"
  /\ tab' = [tab EXCEPT ![t].at = "list", ![t].p = p]
  /\ UNCHANGED <<stores, credited>>

\* The action posted for some rows of the page, or for all films of the list:
\* then it gets the rows of the page, whichever they are by then.
Tick(t, some) ==
  /\ tab[t].at = "shown"
  /\ tab[t].page.items \intersect some # {}
  /\ some \subseteq tab[t].page.items \/ some = Films
  /\ tab' = [tab EXCEPT ![t].at = "list", ![t].goal = "confirm", ![t].page = NoPage,
                        ![t].asked = some]
  /\ UNCHANGED <<stores, credited>>

\* The page of confirmation posts the rows it showed.
Confirm(t) ==
  /\ tab[t].at = "confirm"
  /\ tab' = [tab EXCEPT ![t].at = "list", ![t].goal = "delete"]
  /\ UNCHANGED <<stores, credited>>

\* ChangeList.get_results refuses a number beyond the last page of a list of
\* several; without rows there is nothing to tick and nothing to delete.
Listed(t, pg) ==
  LET tb == tab[t]
      refused == pg.total > PageSize /\ tb.p > PageCount(pg.total)
      rows == IF tb.goal = "view" THEN pg.items ELSE Pick(pg.items, tb.asked)
      base == [tb EXCEPT !.page = NoPage, !.even = TRUE] IN
  tab' = [tab EXCEPT ![t] =
    IF refused \/ rows = {} THEN Closed
    ELSE CASE tb.goal = "view" -> [base EXCEPT !.at = "shown", !.page.items = rows]
           [] tb.goal = "confirm" -> [base EXCEPT !.at = "confirm", !.asked = rows]
           [] tb.goal = "delete" -> [Closed EXCEPT !.at = "deleting", !.asked = rows]]

ListHit(t) ==
  LET e == cached[ApiPage(tab[t].p)] IN
  /\ tab[t].at = "list" /\ e # NoPage
  /\ Listed(t, e)
  /\ UNCHANGED <<stores, credited>>

ListMiss(t) ==
  /\ tab[t].at = "list" /\ cached[ApiPage(tab[t].p)] = NoPage
  /\ tab' = [tab EXCEPT ![t].at = "count"]
  /\ UNCHANGED <<stores, credited>>

\* Another status than 200, or an exception: an empty list of no films.
ListFails(t) ==
  /\ tab[t].at \in {"list", "count", "search"}
  /\ Listed(t, NoPage)
  /\ UNCHANGED <<stores, credited>>

\* _put_films_to_cache, and the answer.
Put(t, pg) ==
  /\ cached' = [cached EXCEPT ![ApiPage(tab[t].p)] = pg]
  /\ Listed(t, pg)

\* A page beyond the films is put without a search.
Counted(t, total) ==
  /\ tab[t].at = "count"
  /\ IF total = 0 THEN Listed(t, NoPage) /\ UNCHANGED cached
     ELSE IF Start(ApiPage(tab[t].p)) >= total THEN Put(t, [NoPage EXCEPT !.total = total])
     ELSE /\ tab' = [tab EXCEPT ![t].at = "search", ![t].page.total = total]
          /\ UNCHANGED cached
  /\ UNCHANGED <<deleted, index, credited>>

CountDeletedToo(t) == Counted(t, Cardinality(index \union deleted))

\* The cache had no entry, and the films are counted.
Count(t) == Counted(t, Cardinality(index))

\* A search that is refused (BadRequestError, NotFoundError) finds no films.
Search(t) ==
  /\ tab[t].at = "search"
  /\ \/ Put(t, [tab[t].page EXCEPT !.items = Slice(index, ApiPage(tab[t].p))])
     \/ Put(t, tab[t].page)
  /\ UNCHANGED <<deleted, index, credited>>

Expire(a) ==
  /\ cached[a] # NoPage
  /\ cached' = [cached EXCEPT ![a] = NoPage]
  /\ UNCHANGED <<deleted, index, tab, credited>>

-----------------------------------------------------------------------------
(* delete_queryset: one DELETE after the other, best rated first; a failure  *)
(* is counted and the rest goes on, an exception ends the page.             *)

First(t, f) == f \in tab[t].asked /\ \A g \in tab[t].asked : f <= g

Deletes(t, f) ==
  /\ tab[t].at = "deleting" /\ First(t, f)
  /\ deleted' = deleted \union {f}
  /\ tab' = [tab EXCEPT ![t].at = "waiting"]
  /\ UNCHANGED <<index, cached, credited>>

SoftDeleteAgain(t, f) == Deletes(t, f)

\* UPDATE ... WHERE NOT is_deleted, and the row count.
SoftDelete(t, f) == Deletes(t, f) /\ f \notin deleted

\* 404 for a film deleted before; 401, 403, 429, 503 or no token for any.
DeleteRefused(t, f) ==
  /\ tab[t].at = "deleting" /\ First(t, f)
  /\ tab' = [tab EXCEPT ![t].asked = @ \ {f}]
  /\ UNCHANGED <<stores, credited>>

\* Whatever the answer, the loop goes on to the next film.
GoOn(t, f) ==
  tab' = [Moved EXCEPT ![t] = [tab[t] EXCEPT !.at = "deleting", !.asked = @ \ {f}]]

\* after_film_soft_delete, in one step here: FilmCatalog has its steps.
Delist(t, f) ==
  /\ tab[t].at = "waiting" /\ First(t, f)
  /\ index' = index \ {f}
  /\ cached' = [a \in ApiPages |-> NoPage]
  /\ credited' = [credited EXCEPT ![f] = @ + 1]
  /\ GoOn(t, f)
  /\ UNCHANGED deleted

\* 500 after any part of it; or it ends like Delist, and its answer is lost.
DelistUnanswered(t, f) ==
  /\ tab[t].at = "waiting" /\ First(t, f)
  /\ \/ index' = index /\ cached' = cached
     \/ index' = index \ {f} /\ cached' \in {cached, [a \in ApiPages |-> NoPage]}
  /\ GoOn(t, f) \/ tab' = [Moved EXCEPT ![t] = Closed]
  /\ UNCHANGED <<deleted, credited>>

\* The messages, and a redirect to the list.
Finish(t) ==
  /\ tab[t].at = "deleting" /\ tab[t].asked = {}
  /\ tab' = [tab EXCEPT ![t] = Closed]
  /\ UNCHANGED <<stores, credited>>

\* An exception of the client, a worker that is killed, a tab that is closed.
Abandon(t) ==
  /\ tab[t].at \notin {"idle", "waiting"}
  /\ tab' = [tab EXCEPT ![t] = Closed]
  /\ UNCHANGED <<stores, credited>>

\* ElasticLoader.load_data for one film: it is put into the index, over a deletion
\* too if its row is an old one, or taken out if the index was not told.
EtlIndexes(f) ==
  /\ f \in index => f \in deleted
  /\ f \notin index => f \in OldRows \/ f \notin deleted
  /\ index' = IF f \in index THEN index \ {f} ELSE index \union {f}
  /\ tab' = Moved
  /\ UNCHANGED <<deleted, cached, credited>>

ListStep(t) == ListHit(t) \/ ListMiss(t) \/ ListFails(t) \/ Count(t) \/ Search(t)
DeleteStep(t, f) ==
  SoftDelete(t, f) \/ DeleteRefused(t, f) \/ Delist(t, f) \/ DelistUnanswered(t, f)

Next ==
  \/ \E t \in Tabs, p \in 0 .. MaxLink : Open(t, p)
  \/ \E t \in Tabs, some \in SUBSET Films : Tick(t, some)
  \/ \E t \in Tabs : Confirm(t) \/ ListStep(t) \/ Finish(t) \/ Abandon(t)
  \/ \E t \in Tabs, f \in Films : DeleteStep(t, f)
  \/ \E a \in ApiPages : Expire(a)
  \/ \E f \in Films : EtlIndexes(f)

Spec == Init /\ [][Next]_vars

-----------------------------------------------------------------------------
Pages == [total : 0 .. NumFilms, items : SUBSET Films]
TabStates ==
  [at : {"idle", "list", "count", "search", "shown", "confirm", "deleting", "waiting"},
   goal : {"view", "confirm", "delete"}, p : 0 .. MaxLink, page : Pages, even : BOOLEAN,
   asked : SUBSET Films]

\* Every page is one of films of the catalogue, and a tab waits for an answer only
\* with a film left to delete.
TypeOK ==
  /\ deleted \subseteq Films /\ index \subseteq Films
  /\ cached \in [ApiPages -> Pages]
  /\ tab \in [Tabs -> TabStates]
  /\ credited \in [Films -> Nat]
  /\ \A t \in Tabs : tab[t].at = "waiting" => tab[t].asked # {}

\* Only films that a tab has been asked for are deleted, and from the ticks over
\* the page of confirmation to the last DELETE nothing joins them, whatever has
\* moved to the page: every request asks for the page again and filters its rows.
OnlyTickedDeleted ==
  [][/\ \A f \in deleted' \ deleted : \E t \in Tabs : f \in tab[t].asked
     /\ \A t \in Tabs : tab[t].at # "shown" => tab'[t].asked \subseteq tab[t].asked]_vars

\* However many tabs delete a film, and however often a deletion is repeated,
\* one DELETE at most reports it, and then it is deleted.
ReportedOnce == \A f \in Films : credited[f] <= 1 /\ (credited[f] = 1 => f \in deleted)

\* Why: a tab that waits for an answer has deleted its film, and nobody else has.
WaiterDeleted ==
  \A t \in Tabs, f \in Films :
    tab[t].at = "waiting" /\ First(t, f) =>
      /\ f \in deleted /\ credited[f] = 0
      /\ \A u \in Tabs \ {t} : ~(tab[u].at = "waiting" /\ First(u, f))

\* Why PageFitsTotal: between its two requests a tab has a count and no films, and
\* the count is the size of the index as long as that has not changed.
Fresh(tb, S) ==
  /\ tb.at \notin {"search", "shown"} => tb.page = NoPage
  /\ tb.at = "search" => tb.page.items = {} /\ (tb.even => tb.page.total = Cardinality(S))
CountIsFresh == \A t \in Tabs : Fresh(tab[t], index)

\* The rows, the tabs and the reports of their DELETEs fit together, and so do what
\* a tab has counted and the index.
RowsInv == TypeOK /\ ReportedOnce /\ WaiterDeleted
FilmsInv == RowsInv /\ CountIsFresh

\* A page goes to the cache with as many films as its total says, unless the
\* index was changed between the count and the search of the tab that puts it, or
\* refused that search.
PageFitsTotal ==
  [][\A a \in ApiPages :
       cached'[a] \notin {cached[a], NoPage} =>
         \/ Cardinality(cached'[a].items) = Cardinality(Slice(1 .. cached'[a].total, a))
         \/ \E t \in Tabs : /\ tab[t].at = "search" /\ ApiPage(tab[t].p) = a
                            /\ tab'[t].at # "search"
                            /\ ~tab[t].even \/ cached'[a].items = {}]_vars

\* Every film that a search finds is on a page that the panel can ask for.
EveryFilmListed ==
  \A f \in index : \E p \in Links(Cardinality(index)) : f \in Slice(index, ApiPage(p))

=============================================================================
