# Verification of the online cinema: breaker, limiter, tokens, accounts, catalogue, ETL, admin panel

TLA+ models of the concurrent and stateful parts of this repository, the TLC
runs that check them on small instances, and TLAPS proofs of their safety
properties for every value of the constants. All paths below are relative to
the root of the repository (`src/` in `PROJECT.json`).

    tlc -workers 2 -config AuthCheck.cfg AuthCheck
    tlapm AuthCheckProofs.tla

## The system

The repository holds a film catalogue and what surrounds it.

| component | state it keeps | operations | modelled in |
|---|---|---|---|
| `auth-circuit-breaker` (aiohttp proxy) | breaker state and counters in memory | ask for permission, forward, report the outcome | `CircuitBreaker`, `RecoveryWindow` |
| `auth-service`: tokens | Redis keys `access:<jti>` (revoked), `refresh:<jti>` (still valid) | login, refresh, logout, check of a token | `AuthTokens`, `Credential` |
| `auth-service`: accounts, roles, OAuth | tables users, roles, oauth_identities; Redis key of the one-time state | sign-up, OAuth start and callback, change of login and password, set/update/delete role, create_super_user | `Accounts` |
| `fast_api`: films, persons | Postgres row, Elasticsearch document, Redis cache | cached reads; DELETE of a film | `FilmCatalog` |
| `etl_service` | a JSON file with one watermark per table | select, fetch, bulk load, save the watermark, retry, restart | `EtlWatermark` (the protocol), `FilmCatalog` (against deletions), `DeletionRepair` (what both promise) |
| `shared/redis_rate_limit`, both middlewares | one Redis counter per client and second | INCR + EXPIRE, let through or refuse | `RateLimiter` |
| `fast_api/services/auth.py` | none | check a token over the breaker, with retries and timeouts | `AuthCheck`, over `CircuitBreaker` |
| `admin/users` (Django): session | the tokens in the session | login, call, refresh on 401, call again, logout | `AdminSession`, over `AuthTokens` |
| `admin/users` (Django): films | none; a page is asked of `fast_api` for every request | list, tick, confirm, delete one by one | `AdminFilms` |
| `fast_api`: genres | Redis cache with a TTL | cached reads | not modelled (no writer, no promise beyond the TTL) |
| set-up, logging, tracing, page layout, transformer, nginx, compose, tests | none of their own | | not modelled |

How they interact. nginx routes `/api` to `fast_api`, and everything for the
auth service to the circuit breaker, which forwards it. `fast_api` and the
admin panel check tokens by calling the auth service through the breaker.
`fast_api` serves films from Redis, then from Elasticsearch; only a DELETE
writes Postgres. The ETL polls Postgres for rows whose `modified` is above its
watermark and replaces whole documents in Elasticsearch. So Elasticsearch has
two writers (the DELETE marks, the ETL replaces) and Redis has two (readers
fill, the DELETE drops), and none of them holds a lock.

What is hard in it:

* *Interleaving at awaits.* Every service is asyncio: state read before an
  await is used after it (permission of the breaker, `exists` before `delete`
  of a refresh token, lookups before INSERT, Elasticsearch read before the
  cache is set).
* *Late outcomes.* A request may be answered when the breaker is in another
  state than the one that admitted it.
* *Death half way.* A DELETE, a token exchange, a sign-up and an ETL pass are
  several calls to several stores; the process may stop between any two.
* *Order of commits.* `modified` is the time a transaction began; the ETL sees
  it when the transaction commits.
* *Copies.* A tab works on a copy of the Django session and saves it as a whole;
  a page of films is asked for again by every request that acts on it.
* *Limits.* Probe quota, recovery deadline, TTLs computed as `exp - now`,
  `LIMIT` of a batch that cuts rows with equal times.

The full list, line by line, is under `hazards` in `PROJECT.json`, each with the
properties that would notice it going wrong.

## Conventions

An action is a handler from one suspension (await, call to a store) to the
next, so everything that can interleave does, and nothing else. Any action that
a failure can replace is paired with one (`Die`, `DeletionDies`, `EtlCrash`,
`Fail`, `Leave`). Time is in ticks. Variables under "History" are read by
properties only. Definitions such as `ClosedTryWhileOpen` or `InsertUserAnyway`
stand before the definition they spoil: each is a plausible bug in that piece of
code, and for every property of every passing run there is one that violates it
(`mutants` in `PROJECT.json`). They are used by nothing else.

The runs check the inductive invariants in one piece: `BreakerInv`, `LimiterInv`,
`TokensInv`, `CatalogInv`, `EtlInv`, `FilmsInv`, and of the panel `PanelInv`, what
`AdminInv` adds to the `TokensInv` beneath it. Each is the module's
`TypeOK` and the named parts that the modules' sections describe and the proofs take
apart (`ContextCoherent`, `EtlInHand`, `PairsTell` and so on); what a reader of the code wants to know of a component is checked by its own
name beside it. (`Accounts` is checked part by part; what its invariants need
beyond them is in its proofs.)

## CircuitBreaker (and RecoveryWindow)

`auth-circuit-breaker/src/circuit.py` and `app.py`. `cbState` and `ctx` are
`CircuitBreaker._state` and `CircuitContext`; `open_until_monotonic` is kept as
the time left until it. `*Try` are the three `try_get_permission_to_request`,
`On*` the three `on_service_success`/`on_service_failure`. A request is idle,
`reading` (between the permission and `await request.read()`) or `upstream`.
The asyncio lock holds no await inside, so permission and report are atomic.

Parts of `BreakerInv`:

* `ContextCoherent`: no count, quota or deadline of one state survives into
  another, whatever order answers come back in.
* `ProbeQuota`: admitted + quota left = `HalfOpenProbes` in every window.
* `QuietBeforeProbe`: the deadline is exactly `RecoveryTimeout` after the last
  failure anybody reported.
* `CountsTheStreak`: the closed breaker counts the failures since the last
  success.

And beside it:

* `ImplementsContract`: it refines `RecoveryWindow`, a contract about permissions:
  serving, blocked until it has been quiet, or probing with a quota, and the next
  answer decides. Its `permitted` is who may still send (`Reading`: the permission
  is given, the body has not arrived) and its `sent` who has (`Upstream`), so a send
  uses up one permission of its own and an answer belongs to a request that was
  sent. `Send` is possible in every mode, `blocked` too: the code asks once, before it
  awaits the body. (A late success may end `blocked` at once; the code does this
  on purpose, and the contract says so.)
* `WindowDecided`, `DeadlineReached` (liveness): a window with a request on its
  way ends; stragglers cannot push the deadline back for ever.

These are checked in the run `auth_check`, below, where `fast_api`'s checks are
among the clients of the proxy.

Fairness (`Fairness`): an outcome comes, because `ClientTimeout(total=...)` ends
every call; time passes. Nothing is asked of bodies that are still arriving.

Finding `breaker_window_stuck` (module `MCCircuitBreaker`, `WindowEnds`): a probe
whose body cannot be read reports nothing, and the half-open window refuses for
ever. Its diagnosis is proved: `Stuck` (the quota is spent and nobody is left who
could report) is never left (`StuckForGood`), a request whose body was not read is
the only way into it (`OnlyUnreadStick`), and while it lasts every check of
`fast_api` ends with a 503 (`StuckLocksOut`).

Finding `breaker_sends_while_open` (`NothingSentWhileOpen`): a request that was
permitted before the trip is sent while the circuit is open, as soon as its body
has arrived (`app.py:47`); `README.md:16` of the proxy says that requests are not
sent to the auth service then.

## AuthCheck

`fast_api/services/auth.py`: `authenticate_token` and the backoff around
`_call_auth_service`, as clients of the proxy. The module EXTENDS
`CircuitBreaker`; a step of a check that concerns the proxy conjoins the proxy's
own action. `check` is where a check is, `asked` the request it awaits, `owner`
who sent each request in the proxy. A check waits 5 s for an attempt and the proxy
up to 60 s, so `AttemptAbandoned` leaves the request where it is. `TooMany` is the
429 of the auth service's limiter, which may come at any time; `CheckFails` an
outcome of 500 or above, of which 502, 503 and 504 are retried. Requests without
an owner are other clients (nginx, the admin panel, other checks).

* `AttemptsInProxy`: a check has no more requests in the proxy than it made
  attempts, and awaits at most one of them, its own.
* `TripNeedsCauses`: the streak that trips the circuit is made of at least
  `FailureThreshold / MaxTries` different checks or foreign failures.
  `BlameAccounted` is why: the failures that the blamed checks may still add
  (`Spare`) are on the account of their causes too.
* `AcceptedTokenWasLive`: no late answer makes a check accept a token that was
  dead from the start.
* `CheckEnds` (liveness): every check is answered.

Run `auth_check`: 3 requests, threshold 3, recovery 3 ticks, 2 probes, 1 check of
2 tries. Three requests are a full window and a straggler of an earlier state, or
two attempts of the check, one of them abandoned, and a foreign client. Threshold 3
separates "one below" from "at" and "the first", and lies above what one check can
contribute. Other checks are foreign requests to this one.

Fairness: weak fairness of a check's own steps (`ClientTimeout(total=...)` ends
every wait, every backoff pause is finite), and that of the proxy.

## RateLimiter

`shared/redis_rate_limit/limiter.py` as both middlewares use it, for one address
and scope. The key carries the calendar second, read before the pipeline is
awaited; `pipe` is the age of the second under which a caller will be counted.
`EXPIRE 1` keeps a key that was touched in this second (`touched`) through the
next one at most; a late pipeline may meet a key that has expired and starts
again from 1. Counters stop at `Limit + 1`, all the comparison tells apart.

* `SecondHeld`: no second lets more than `Limit` through under its own key, nor
  under any older one.
* `LateBurstBounded`: pipelines that are late by `a` seconds stretch the limit of
  a key to `Limit * (a + 1)`, no further.
* `CounterTells`: why: what was let through is never ahead of the counter while
  the key is renewed.

Run `rate_limit`: 4 callers, limit 2, lag up to 2 seconds: twice the limit in
flight at once, and a key that can expire and be made again two times.

## AuthTokens (and Credential)

`auth-service/src/services/auth.py`, `auth/jwt.py`, `db/redis_db.py`. A *pair*
is an access and a refresh token issued together. `revoked` and `stored` are the
TTLs of their Redis keys, 0 when there is no key. `task` says where a handler
is suspended. `RefreshAnswerLost` is a client that never sees its new pair.

* `KeysMatchTokens`: a key of a revoked access token lives exactly as long as
  the token; a refresh key is gone or expires with its token.
* `ExchangedIsSpent`, `Exchanging`: an exchanged refresh token is not stored,
  and one exchanged twice was so by handlers that overlapped. (The code looks
  up and then deletes, so two overlapping handlers *can* both exchange it; the
  property says how far that goes.)
* `AccessLifecycle`, `RefreshLifecycle`: both kinds of token refine `Credential`:
  once refused, refused for ever, although for one kind it is the presence of a
  key that refuses and for the other its absence.
* `LoggedOutRefused`: a logged-out token passes only if it expired between its
  decoding and the lookup, taking its key along.

Run `tokens`: 2 handlers, 3 pairs (a login and the two it can be exchanged for
at once, or a chain), access 2 ticks and refresh 3, so that either may expire
first during any suspension. Handlers are symmetric: no property names one.

## AdminSession

`admin/users/auth_service.py`, `auth.py`, `admin_site.py`, `film_api.py`: the
panel as a client of `AuthTokens`. A page loads the session as a whole, calls an
API, on a 401 exchanges the refresh token and calls once more
(`with_token_refresh`), and at its end saves its copy as a whole if it changed
it. `session` is the row, `tab[t]` the page of a tab with its copy: `pair` the
tokens, `base` those it loaded, `dirty` whether it changed them, `stale` whether
the row was deleted meanwhile. The 401s come from the exception handlers of
`auth-service/src/main.py`, or from `fast_api` for whatever it could not check.
Django's `SessionMiddleware` is external: a modified session is saved unless the
status is 500, and one whose row is gone is not saved.

* `SpentHasHeir`: the session keeps a used-up refresh token only while the tab that
  used it up still runs and will save its heir, or after a failure (an answer that
  is lost, a page that ends in a 500).
* `SavedPairIsFresh`: no tab saves a used-up pair over another one.
* `OnlyLoginRevives`: a page that was loading during a logout does not bring the
  session back.
* `LoggedInHasTokens`: who is logged in has tokens; without them pages show
  nothing, and the logout raises `KeyError`.
* `CopiesTell`: what a copy says of the session, from which the others follow.

Run `admin_session`: 2 tabs, access 1 tick, refresh 2, 3 pairs: a login and an
exchange by each tab, or a second login. The tabs are symmetric. The view
`WithoutOrigins` leaves out `parent`, `author` and `logged_out` of `AuthTokens`:
history that neither an action nor a property of the run reads. Of `AdminInv` the
run therefore checks `PanelInv`, the part about the panel; `TokensInv`, which reads
that history, is checked by the run `tokens` and proved of the panel too
(`AdminInvariance`).

One restriction: a login is posted while all tabs are idle (`LoginPost`). A login
beside pages that are loading would need several rows of Django's session table, one
for each cookie that is still in use, and the module has the one that the
browser's cookie names.

## Accounts

`auth-service` routes users.py and oauth.py, `db/repository.py`,
`create_super_user.py`. Rows are numbers; `at`, `form` and `job` are where a
handler is, the account it is about to make and the role change it is about to
do. `InsertUser` is the flush: a flushed row is invisible but locks its login
and e-mail (`MustWait`); `CommitSignup` and `CommitExternal` are the commit with
the role and the identity. `Restart` kills every handler and runs the superuser
script again. `PasswordLogin` has the guard `Verified`, which is TRUE: that is
what the code tests (see Observations).

* `NoDuplicates`: no two accounts share a login, e-mail or identity; nor does an
  account with a row about to be committed, nor two such rows.
* `WholeAccounts`: every account has a role until somebody takes it away, and a
  way in: a password hash or an identity.
* `SameAccount`: an external user gets tokens of one account for ever, through
  renames here and at the provider.
* `RolesNotReplaced`: a role row is never replaced by another, and its role changes
  only by an `update_roles` that read this very row; of two `set_roles` that both
  found none, the second changes nothing.

That a lookup may be out of date when its handler commits is no property: the loser
of such a race gets a 500 instead of a 400 or 409, and the three properties above say
that this is all it gets.

Run `accounts`: 2 handlers, 3 logins (one of them the superuser's), 1 e-mail, 1
external user, 1 OAuth state, 3 accounts, 3 role rows: two first callbacks of
one user race, two sign-ups race for one login, a rename frees the login of the
superuser before a restart. One external user is enough: the conflicts are
between two callbacks of the same one.

## FilmCatalog

The soft deletion: `films.py` (route), `films_repository.py`, `services/film.py`,
`services/person.py`, and the ETL as the other writer. `es` is what a get sees,
`seen` what a search sees since the last refresh, `shown[k]` the films the
entry of a key shows, `dirty` the films above the watermark. A reader is three
steps: miss, read, put. `Mark` and `Flush` are `after_film_soft_delete` in its
order; a DELETE may die after the commit of the row and is never repeated (the
next one gets a 404). `Mark` may find no document or be refused (`BadRequestError`);
both are swallowed, and the caches are flushed with nothing marked.

* `RepairPending`, `EtlInHand`: a deleted film that is live in Elasticsearch, for
  whatever reason, is above the watermark: the ETL will come for it.
* `OnlyStragglersRefill`, `StragglersHoldIt`: after mark and flush, only a reader
  that held the film at the mark can put it back into the cache.
* `HiddenStaysHidden`: a deleted film that no copy shows is never shown again.
* `IndexTells`: only deleted rows are written as such, and what a batch has written
  exists.
* `ImplementsRepair`: the catalogue refines `DeletionRepair` (below), with `dirty` as
  what is due and nothing missed.
* `EventuallyHidden` (liveness): a deleted film is shown nowhere in the end,
  also when the DELETE died half way.

Run `catalog`: 1 film, 1 reader, a list page and a person page, no symmetry, because
of liveness. The reader is a straggler of one page and later a visitor of the other;
two readers never exchange anything but through the cache, and the safety properties
are proved for any number of them. One film is enough: films meet only in a page, and
a page shows each one independently of the others. Of the three kinds of pages two are
run; they differ only in their place in the order of `Flush`. The proofs are
about any subset that has the list page.

Fairness: entries expire (TTL of five minutes), requests end, Elasticsearch
refreshes every second. The ETL runs once a minute; each of its steps gets
strong fairness because a pass may fail any number of times, but not always.
That somebody restarts it after a crash is an assumption:
`docker-compose.yml` gives its container no restart policy.

Finding `catalog_refill`: a straggler fills the cache after the flush, which the
docstring of `after_film_soft_delete` says its order prevents.

## EtlWatermark

`etl_service/services/extractor.py`, `loader.py`, `core/state_storage.py`,
`core/backoff.py`. A pass walks the tables; `Select` is
`WHERE modified > %s ORDER BY modified LIMIT %s`, `Fetch` the second query,
`FetchRelated` the films of a person or a genre, `Index` one document of a bulk,
`SetState` and `WriteState` the truncation and the dump of the JSON file.
Transactions have the time they began (`Begin`), and appear when they `Commit`.

* `ChangesPending`: what a document does not show yet is above the watermark in
  the *file*, whatever crashed and whenever. Two exceptions, and no other:
  a change that committed below a watermark already reached (`late`), and one
  with the very time a batch ended at (`tied`).
* `WatermarkInMemory`, `BatchInHand`: why; these are the inductive part.
* `DocumentsOnlyAdvance`: no document goes back to the old content of a row.
* `ImplementsRepair`: seen through the films alone, it refines `DeletionRepair`.
* `EventuallyIndexed` (liveness): the ETL catches up again and again.

Run `etl`: two films and a person in both, batches of one row and one related
film, 3 ticks, one failure at any point. Batches of one make every selection
and every load of related films a cut one; the initial `modified` of the films
differ, which orders them; a tie arises by changing both in one tick.

Fairness: weak fairness of the ETL's own steps; failures end (`MaxFailures`
bounds them, so the run looks at one). Transactions need not end.

Finding `etl_late_commit`: a deletion that begins before and commits after
another one that the ETL has passed stays below the watermark for ever.

## DeletionRepair

What the ETL promises of a film that is deleted, in four variables: the row, the
document, whether the row is above the saved watermark (`due`), and whether a
watermark has passed it by (`missed`). A document may be written from an old row
only while the row is due or missed, and a row is settled only when its document
tells the truth or it was missed. `Covered` follows: a document that does not tell
what the row tells belongs to a film that the ETL will come for, or that was missed.

It ties two models of one program together. `FilmCatalog` takes it for granted that
a change is above every watermark saved before; `EtlWatermark` has the clock, the
batches, the related films and the state file, but neither the DELETE nor readers.
Both implement this module: there `missed` is empty, here it is `late` and `tied`, so
what `FilmCatalog` shows holds of the real ETL but for these two. A torn state file is
`Reopen`, which `FilmCatalog` has no need of: it makes more films due.

## AdminFilms

`admin/users/admin.py`, `querysets.py`, `pagination.py`: the change list of films
and its bulk deletion, over the list endpoint of `fast_api`
(`services/film.py`, `api/v1/films.py`) and its DELETE. Nothing is kept between
the page that is shown, the POST of the ticked rows and the POST that confirms
them: each asks the API for its page again (`Listed`) and filters the rows it gets
(`Pick`), while rows move between pages, by other tabs, by the ETL, and by cached
pages that grow stale. `delete_queryset` sends one DELETE after the other
(`First` is the next one); an answer may be an error, or be lost.

A film is its place in the order of the list. Counting and searching a page are
two requests to the index after the one to the cache, and three steps here; `even`
remembers whether the index changed between count and search. What `FilmCatalog` takes apart is one step: the mark, the
flush and the answer of `after_film_soft_delete` (`Delist`, `DelistUnanswered`),
and a search with the put of its page.

* `OnlyTickedDeleted`: only films a tab was asked for are deleted, and nothing
  joins them between the ticks and the last DELETE.
* `ReportedOnce`: of all the DELETEs of a film, in any tabs and however often
  repeated, one at most reports success. `WaiterDeleted` is why.
* `PageFitsTotal`: a page goes to the cache with as many films as its total says,
  unless the index changed between count and search of the tab that puts it, or
  refused the search.
* `EveryFilmListed`: every film is on a page that some link of the panel opens.
* `CountIsFresh` (in `FilmsInv`): why a page fits: while the index is `even` with a
  tab's count, that count is the number of films in it.

The ETL (`EtlIndexes`) loads a film that is new, takes out one whose deletion the
index was not told of, and writes an old row back over a deletion (`OldRows`).

Run `admin_films`: 2 tabs, 3 films in pages of 2, one of them loaded later by the
ETL, none of `OldRows` (one doubles the states; that the properties hold with any is
proved, and what becomes of such a film is `FilmCatalog`'s question), links 0 and 1 (the API's pages 1 and 2): a full page, a partial one and, after
a deletion, an empty one; films cross the page boundary in both directions. Two
tabs suffice: every property is about one tab and whoever interferes with it.

## What is proved

For every value of the constants (any number of requests, handlers, films,
readers, rows, links; any thresholds, lifetimes and batch sizes), from the named
`ASSUME` of each module, which TLC evaluates on each run:

| module | theorems | inductive invariant |
|---|---|---|
| `AuthCheckProofs`, the proxy | `TypeCorrect`, `Coherence`, `QuotaHolds`, `QuietHolds`, `StreakHolds`, `BreakerHolds`, `Implements`, `ContractInside`, `StuckForGood`, `OnlyUnreadStick` | `BreakerInv`: the five invariants together. The quota is right only because every other state leaves it at 0, the deadline only because it is `NoDeadline` in `closed`. `Implements` maps each action to one of `RecoveryWindow` or a stutter, a send to `Send`; `ContractInside` says so of the composition. |
| `AuthCheckProofs`, the checks | `BreakerInside`, `CheckTypeCorrect`, `AttemptsBounded`, `AcceptedWasLive`, `TripIsShared`, `StuckLocksOut` | `BreakerInside` maps each step of the composition to one of `CircuitBreaker`, so the row above holds of it too. `CheckInv`: `AttemptsInProxy` needs `Linked`, that the proxy's table and the checks' agree. `TripIsShared` needs `BlameAccounted`, an account of failures made and failures to come; its sum over the checks is the cardinality of a set of pairs (`Spare`), so that no induction is needed. |
| `RateLimiterProofs` | `CounterHolds`, `SecondIsHeld`, `Invariance`, `BurstIsBounded` | `LimiterInv == TypeOK /\ CounterTells`; the two limits follow from it. |
| `AuthTokensProofs` | `TypeCorrect`, `KeysMatch`, `ExchangeOnce`, `HandlersKnow`, `AccessCycle`, `RefreshCycle`, `Invariance`, `LoggedOutStaysOut` | `TokensInv`: `Exchanging` says what a suspended handler knows (the key it deleted stays deleted, it has made no pair of it yet); without it `ExchangedIsSpent` is not inductive. |
| `AdminSessionProofs` | `PanelIsClient`, `AdminInvariance`, `PanelHolds`, `PanelTypeCorrect`, `CopiesAlwaysTell`, `TokensStay`, `LogoutIsFinal`, `SpentPairHasHeir`, `SavedIsFresh` | `PanelIsClient` maps each step of a tab to one of `AuthTokens`, whose `TokensInv` therefore holds beneath. `SpentPairHasHeir` and `SavedIsFresh` rest on ownership (`PairsTell`): a pair a tab has got and not saved is known to that tab alone, so nobody else can use it up. |
| `AccountsProofs` | `TypeCorrect`, `NamesUnique`, `OneAccountForEver`, `NothingHalfMade`, `GrantsStand` | `NoDuplicates` counts the rows about to be committed (`PendingFree`, `PendingApart`), which is what makes it inductive; `SameAccount` needs that whoever was served has the identity still (`ServedKnown`). `GrantsStand` follows from the types, step by step. |
| `FilmCatalogProofs` | `TypeCorrect`, `RepairStaysPending`, `BatchesAreCovered`, `RefillOnlyByStragglers`, `StragglersAreKnown`, `Invariance`, `HiddenForGood`, `Repairs`, `DeletionsCovered` | `CatalogInv`: `RepairPending /\ EtlInHand` (an old row in the ETL's hands belongs to a film that will be selected again), `IndexTells`, and `OnlyStragglersRefill /\ StragglersHoldIt`, each inductive with the types. `Repairs` maps each step to one of `DeletionRepair`; `DeletionsCovered` is then proved of that module alone. |
| `EtlWatermarkProofs` | `TypeCorrect`, `NoChangeLost`, `BatchCovers`, `MemoryCovers`, `Invariance`, `NeverBack`, `Repairs`, `DeletionsCovered` | `EtlInv`: `WatermarkInMemory /\ BatchInHand`: the file is never ahead of memory, and up to the end of the batch nothing is missing but documents still to be written. `Repairs` uses all of it: a film written from an old row is above the file's watermark because the file is behind memory (`AheadIsDue`), and the file takes over only what is shown. |
| `AdminFilmsProofs` | `FilmsTypeCorrect`, `ReportedOnlyOnce`, `WaiterKnows`, `Invariance`, `NothingJoins`, `AllListed`, `PagesFit` | `FilmsInv == RowsInv /\ CountIsFresh`. `RowsInv`: a success is reported once because the tab that waits for it is the one whose UPDATE found the row. The places of the listed films number them from 0 without a gap (`PlacesAreFilled`), which gives the size of every page (`SliceSize`) for `PagesFit`, by `CountIsFresh`, and the link of every film for `AllListed`. `NothingJoins` is about single steps and needs the types only. |

The `Max*` bounds are constants of the proofs too: they hold for any bound.

Only model-checked: the liveness properties (`WindowDecided`, `DeadlineReached`,
`CheckEnds`, `EventuallyHidden`, `EventuallyIndexed`), because the prover handles
neither fairness nor ENABLED, and the four findings. Every invariant and every
action property of the passing runs, and every refinement, is a theorem.

## Observations

Behaviour met while modelling that no run is about:

* `auth-service/src/services/auth.py:194`: the logout looks for a refresh token
  in the header that carries the access token; the call raises and is logged, so
  of a session that is logged out the access token is revoked and the refresh token
  is valid to its end (`LogoutRevoke`). `routes/users.py:92` describes the route as
  "Сброс токенов." (resetting the tokens).
* `auth-service/src/core/security.py:7`: `verify_password` is a coroutine function
  and neither caller awaits it (`services/auth.py:30`); a coroutine object is true,
  so its result decides nothing. `Accounts` models what is tested (`Verified`).
* `fast_api/services/auth.py:45`: any status of the auth service but 200, 502, 503
  and 504 is an invalid token to the user; that includes the limiter's 429 and a
  500. The checks arrive from the breaker's address without `x-real-ip`, so they
  share one counter of the limiter.
* `admin/users/admin_site.py:9`: the logout ends the Django session whatever the
  auth service answered. A login that is rejected after the tokens were stored
  (`admin/users/auth.py:26`) leaves the tokens of the other account in the session.
* `admin/users/auth.py:46`: every account is given the same e-mail, which
  `models.py:28` declares unique: one account only can ever log in to the panel.
* `admin/users/admin.py:39`: Django counts its pages from 1 and shows page 1 when
  the URL has no number; adding 1 is right for that page alone. Link 1 shows the
  API's page 2, link 2 its page 3, the last link an empty page. `EveryFilmListed`
  says what holds nevertheless.
* "Select all" of the change list deletes the films of the current page only;
  ticked films that have moved to another page are skipped without a word; Django's
  own message of success appears whatever the DELETEs answered.
* `fast_api/services/film.py:162`: the list is sorted by rating without a
  tie-breaker; a search that the index refuses puts an empty page with a non-zero
  total into the cache for five minutes.

## Not modelled, and why

* The contents of tokens: a refresh copies the role claim of the old token, so a
  claim can outlive the role. `Accounts` assumes the worst (a superuser claim,
  once issued, is used for ever).
* The transformer and the index schemas: a document is the set of changes it
  shows. A row that fails validation ends the ETL at the same row after every
  start; both models assume rows that validate.
* Genres: the reader of `FilmCatalog` without anything that invalidates it; and
  the order among films of one rating, where the code promises none.
* `FilmListingAdmin.delete_model`: the list has no links to a film's own page and
  its queryset no `get()`, so Django cannot reach it.
* Unlinking a social account: `README.md` of the repository lists it, no code
  does it.
* Time-outs are nondeterministic; real durations play no role except the
  breaker's deadline, the TTLs and the seconds of the limiter.
* Header filtering of the breaker, settings, logging, tracing, page templates,
  response models, nginx and compose files: no state and no order of their own.

## Plan

Done, in this order: `CircuitBreaker` over `RecoveryWindow`; `AuthTokens` over
`Credential`; `FilmCatalog`; `EtlWatermark`; `Accounts`; `RateLimiter`;
`AuthCheck` over `CircuitBreaker`; `AdminSession` over `AuthTokens`; `AdminFilms`;
`DeletionRepair` under `FilmCatalog` and `EtlWatermark`.

Left, in the order of what it would add:

1. A row that the transformer refuses, in `EtlWatermark`: what the other tables
   miss while the pass ends at it (`services/transformer.py:37`).
2. Role claims in `AuthTokens`: for how long a claim outlives the role.
3. An abstract specification of the accounts (an external user is one account, or
   none yet) that `Accounts` implements.
4. Genres as a third kind of page of `FilmCatalog`.
