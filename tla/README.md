# Verification of the danmaku server and its administration console

TLA+ modules, TLC runs and TLAPS proofs kept beside the Go server of this
repository (`cmd/danmaku`, `internal/...`) and the React application that administers it
(`frontend/src`). The server stores "danmaku" (timed
comments) of its own videos, mirrors the comment pools of other providers, merges
the pools bound to a video, and serves the result to players. `PROJECT.json`
lists the runs, the mutants each property detects, the code lines every
definition stands for, the hazards of the code and the theorems.

## 1. The system

Paths are below `src/`. "State" names what survives between two calls.

| Component | Code | State | Operations | Interacts with |
|---|---|---|---|---|
| Process lifecycle | `cmd/danmaku/main.go` | signal context, HTTP server, repository | start, serve, Shutdown (15 s), deferred Close calls | everything |
| Passive refresh pool | `internal/api/refresh.go` | active keys, slots, wait group | `schedule`, `close` | called by every public read; runs the providers' `ensurePool` |
| Danmaku cache | `internal/store/redis_cache.go` | Redis revisions and entries, in-memory merged cache | `cachedDanmaku`, `CachedMergedDanmaku`, `invalidateDanmakuCache` | every read and every write of a pool |
| Provider pools (bilibili, iQIYI, DanDanPlay, Animeko, Bahamut, Tencent, Youku) | `internal/api/{bilibili,iqiyi,dandanplay,animeko,catalog}.go`, `internal/store/{bilibili,iqiyi,dandanplay,animeko,catalog}.go` | pool rows, sync times, danmaku rows, keywords, bindings | ensure, claim, fetch, merge, block, keywords, bind | PostgreSQL, upstream HTTP, cache |
| Segment fetchers | `internal/api/catalog_upstream.go`, `iqiyi.go` | none (goroutines of one call) | worker pools over segments, first error cancels / failed segments skipped | upstream HTTP |
| Native danmaku | `internal/store/postgres.go`, `native_rules.go` | `Danmaku`, `Video`, native rules | Insert, Edit, Delete, rules with historical scan | advisory locks, cache |
| Merged view | `internal/api/merged.go` | none | cross-pool de-duplication | cache, refresh pool |
| External pools | `internal/store/external.go`, `external_keyword.go` | imported pools | create, replace, append, keywords, bind | cache |
| Live groups | `internal/api/realtime.go` | group registry | connect, disconnect, send | - |
| Upstream metadata cache | `internal/store/postgres.go` (`Cache`) | `HttpClientCache` rows | read-through with stale fallback | bilibili metadata |
| Videos and bindings | `internal/store/video.go`, `external.go` | `Video`, binding tables | soft delete, restore, bind | merged view |
| Users and sessions | `internal/store/postgres.go`, `internal/api/users.go`, `auth.go`, `cas.go`, `internal/cas` | `User` rows | create, edit, disable, CAS login | - |
| Identifier and protocol codecs | `internal/domain/bilibili_id.go`, `internal/api/iqiyi.go` | none | AID/BVID, varint, protobuf fields | providers |
| Configuration | `internal/config` | none | load, validate | start-up |
| Schema migration | `internal/store/postgres.go` (`Initialize`), `catalog_db.go` | schema | one transaction at start | start-up |
| Administration console | `frontend/src/pages`, `hooks`, `lib`, `App.tsx`, `auth/session.tsx` | query cache, text of forms, page and filters of lists, a creation that is half done | queries, calls with their invalidations, open / submit / close, turn pages, create and bind | HTTP (admin API), TanStack Query |
| Console shell and component library | `frontend/src/components/ui`, `login-page.tsx`, `danmaku-import.ts` | what is on screen | layout, signing in, parsing of imported files | console |

### What is hard

* Every public read schedules a refresh that outlives the request; the refreshes
  share limits and must be joined before the repository closes.
* Reads fill two nested caches while writers commit and then invalidate; nothing
  is locked across the two steps, and Redis may fail in between.
* Pools are created and synced by several processes and requests together;
  advisory locks and single-statement claims are the only mutual exclusion.
* A submission, a rule change with a scan of history, an edit and a delete meet
  in the same rows with three kinds of lock.
* Upstream fetches run in worker pools whose error paths differ.
* In the console each of some fifty calls names by hand the cached queries it makes out of
  date, while screens of other pages show what it changed; a refetch races the answers
  that are under way.
* A dialog serves all rows of a list, can be closed while its call is pending, and keeps or
  loses its text in its own way; a late answer meets whatever is open then.
* Creating a pool and binding it are two calls behind one button, either of which can fail
  or be done without an answer; pressing the button again must do the rest and no more.

## 2. Structure

The work was ordered by how much depends on it: the pool of refreshes and the life of
the process, the caches every read goes through, the synchronisation of a pool, the
native danmaku with its locks, the fetchers below a synchronisation, and then the console
that drives all of it.

| Module | Of | Extends / implements | Status |
|---|---|---|---|
| `RefreshContract` | what a refresh pool promises | - | done |
| `BackgroundRefresh` | `refresh.go` | implements `RefreshContract` | done, proved |
| `ServiceLifecycle` | `main.go` with the refresh pool and requests | extends `BackgroundRefresh` | done, proved |
| `FreshReads` | what a cache promises to a read | - | done |
| `DanmakuCache` | Redis path of `redis_cache.go` | implements `FreshReads` | done, proved |
| `MergedMemoryCache` | in-process path of `redis_cache.go` | implements `FreshReads` | done, proved |
| `PoolSync` | `ensurePool` over PostgreSQL | - | done, proved |
| `NativeDanmaku` | `Insert`, `Edit`, `Delete`, rules, `Video` | - | done, proved |
| `SegmentFetch` | the two segment fetchers | the fetch of `PoolSync` | done, proved |
| `ConsoleScreens` | every component of the console: what it reads, calls and opens | - | tables, proved complete |
| `QueryCache` | an entry of the query cache with calls and fetches | extends `ConsoleScreens` | done, proved |
| `ConsoleForms` | the console's forms | - | done, proved |
| `ConsoleLists` | the console's paged lists | - | done, proved |
| `PoolCreation` | `pool-creation.ts`, `use-pool-video-binding.ts` | - | done, proved |
| `Console` | the four parts side by side | extends `QueryCache` and `PoolCreation`, instantiates `ConsoleForms` and `ConsoleLists` | run `console`, proved |

What would come next is in section 6.

## 3. The modules and the code

A definition whose name begins with `Mut_` is no part of a specification. It is the
definition below it with one plausible mistake (a guard dropped, a reset forgotten, two
steps swapped), and it is there so that each property can be seen to fail.

### BackgroundRefresh, RefreshContract

`active`, `wg`, `slots`, `closed` are the fields of `backgroundRefresh`; `cancelled` is
its context; `pc`, `key`, `expired` are a goroutine's place, key and timer. `Schedule` is
`schedule` up to the `go` statement, one step under the mutex. A goroutine then
does `AcquireSlot` or `GiveUp` (the `select`), `StartFetch` (the second look at
`ctx.Err`), `FetchReturns` (also with a panic), `ReleaseSlot`, `ClearKey` and `Leave`,
which are the deferred calls in the order they run. `CloseBegin` and `CloseJoin` are the two
halves of `close()`. `Expire` is the five-minute timer, `CancelParent` the
context of `run`.

`RefreshContract` knows only what a caller can see: a key is admitted, started,
finished and freed, and a stop that has returned leaves nothing behind.

### ServiceLifecycle

`main` is where `run()` is. Requests are idle, working, holding a connection
(reading or writing) or committed with their invalidation still to do. `Signal` and
`ListenerFails` end the wait; only the first goes through `BeginShutdown` and
`ShutdownReturns` or `ShutdownTimesOut`. Then the deferred calls: `CloseHandler`,
`JoinHandler` (the join of the refreshes), `CloseRedis`, `ClosePool` and
`PoolDrained`, which waits for the connections, and `Exit`.

### FreshReads, DanmakuCache, MergedMemoryCache

The content of a namespace is the number of changes committed to it, so "newer" is `>`.
`revision` and the two sets of entries are what Redis holds. A read takes
`GetPoolRevision`, `GetPoolEntry`, `Load` and `StorePool` as separate steps, and those of
the merged namespace around them; each may fail. A writer takes `Commit`, `IncrPool`,
`IncrMerged`; either INCR may fail and the writer may die in between. An entry may be
missed at any time, which stands for its TTL. The switches `ReadFaults`, `IncrFaults`,
`LookupFaults` and `Deaths` turn the faults on.

`MergedMemoryCache` is the path without Redis: `Lookup`, `Load` and `Store` of
`CachedMergedDanmaku`, the two critical sections of which compare revisions, and
`Invalidate`, which drops the map.

`FreshReads` promises that what a read returns lies between what had been invalidated when
it began and what is committed when it ends. Both caches implement it.

### PoolSync

`Call` to `Return` are the steps of `ensurePool`: `Lock`, `SelectPool`, `InsertPool`
(`EnsureCatalogPool`, one transaction under an advisory lock), `ReadTime` and `Claim`
(`ClaimCatalogPoolSync`: the time is read by the server, the decision is one statement),
`Fetch`, `InsertItem` for each danmaku of the batch and `CommitMerge`
(`MergeCatalogDanmaku`), `Invalidate`. `Fail` is an error or a cancelled context at any
of them and rolls the open transaction back. `End` forgets what a call has read. `SetBlocked`
is an administrator. `cached` is what readers are answered: it is out of date from a commit on
that changes their danmaku, and `Announce`, the invalidation, ends that unless its INCR fails,
which the code ignores; then it is `missed`, and nobody will say so. Time passes at any step
(`Tick`), also between `ReadTime` and `Claim`; `waited` is a history variable with the longest
that a forced claim stood between the two. Two
transactions that insert the same key wait for each other as PostgreSQL makes them
(`Waits`), and `BreakDeadlock` is its deadlock detector. iQIYI, DanDanPlay, Animeko and
bilibili have the same four steps with other names.

### NativeDanmaku

A submission is `Send` (the time is read here), `ReadRules` (shared rule lock), `LockPost`
(advisory lock of address, video and text), `FindVideo` (the row, `FOR UPDATE`),
`CheckDuplicate`, `Store` (INSERT and commit), `InvalidateSent`. A rule change is
`CallRule`, `LockRules` (exclusive), `Refuse`, `Create` (with or without the scan of
history) or `Remove`, `InvalidateScanned`. An edit is `Get`, then `Update`, which writes
the whole row back, then `InvalidateEdited`; `Delete` is one statement. `EnsureVideo` and
`SetVideoDeleted` are the other writers of `Video`; the latter changes what readers should be
answered and invalidates nothing, which leaves `cached` as `missed`. `cached` and `Announce`
are those of `PoolSync`. Two history variables tell who has written a danmaku: `touched`, those
that an edit wrote over, and `rewritten`, those to which a rule gave an author that had been
scanned for before, for the replacement of one rule may be the author of another.

The prefixes and keywords of a rule are the relation `Covers`; parsing and matching
are not modelled.

### SegmentFetch

`kind` chooses between `fetchCatalogSegments` ("strict") and iQIYI's `fetchSegments`
("tolerant"), which share their shape and differ in every error path. `Send` is a
rendezvous on the unbuffered channel. `fate` is a history variable with what became of
each segment. The second comparison with the size limit, in `Judge`, can never be true:
the counter of the workers has refused already.

### ConsoleScreens, QueryCache

`ConsoleScreens` has a record per component: the queries it reads, each a key with the
facts of the server its rendering uses; the calls it makes, each with the facts it changes
and the keys of its `invalidate`; and the components it opens above itself. The operators
are named for the components; `CatalogContent` and its panels take the source, as the page
does. `Views` is what can be on screen together. From the records follow the relations
`Affects` (an operation changes a fact that an entry shows), `Invalidates` and `Always`
(it names the key; `always` are the keys `usePoolVideoBinding` invalidates whatever became
of the creation), and `Together` (a screen offers the one and shows the other). A key is
its source and name, for TanStack Query compares prefixes and the rest of a key are pages
and filters.

`Gaps` is the list of pairs in `Affects` that the code does not invalidate: the views of
videos that iQIYI and bilibili leave alone, the choices of videos in dialogs, the lists of
videos behind a filter, the detail of an account, and so on. Two come from what a call may turn
out to do. A creation that names a pool which exists synchronises it like a forced refresh, and
no creation invalidates the pool's danmaku. The editor of a native danmaku invalidates its
detail by the id of the latest render, so an answer that comes after the editor was left, or
opened for another danmaku, tells the wrong entry or none (`"edit and leave"`, beside `"edit"`).
`Gaps` is an observation about the
code, not part of its behaviour: `Covered` says that it is complete, `TablesCovered` proves
it, and `ReportedIsShown` fails in the run as soon as a pair is taken out or a key is
dropped from a component, as its mutant does. `CatalogAssumption` says that the sources of
the catalog page (Bahamut, Tencent and Youku in `App.tsx`) have names of their own.

`QueryCache` takes any one entry of the cache and lets calls happen that have to do with it.
`Mount`, `Refetch`, `ServerReads`, `Arrives`, `Fails` and `Forget` are the fetches, with
their one retry; `Call`, `Apply`, `Refuse`, `Answer`, `Tidied` and `Refreshed` are a call
through `useApiMutation`: the server's commit, the answer or a lost connection, the keys of
the binding hook, the keys of the call, and the end of `isPending`. What an entry holds is
abstracted to `lacks`, the calls the server applied after the entry was read. Time is left
out: `staleTime` (twenty seconds) may or may not be over (`Mount`).

### ConsoleForms, ConsoleLists

Some thirty forms are written alike but not quite, so a record per form says what its
component does: whether its dialog can be closed while the call is pending (`lock`), whether
inputs are disabled meanwhile (`fixed`), what the text is when it opens (`start`), what a
success does (`closes`, `clears`, `tells`). The steps are those of one form: `Open`, `Close`,
`Type`, `Submit`, `Apply`, `Fail`, `RowArrives`, `DetailArrives`, `Done`. The text is
abstracted to the opening it was begun in and the version it was filled from.

The last field, `allows`, lists which of the three properties of a form its component does
not keep; a form is held to each of the others. "late answer": closing the dialog does not
stop its `onSuccess`, which then closes the dialog that is open by now. "carried": the text
outlives the closing and is submitted for the next row. "typed meanwhile": a success clears
what was typed since. "stale base" (`UserEditor` only): the detail of an account is not
invalidated by its own save, so the editor opened again starts from the old name. Taking
an entry out of `allows` gives the counterexample.

A record per list says which parameters its request has, which its key has and which return
it to the first page. `Change`, `StartOver`, `PreviousPage`, `NextPage` are the user, `Fetch`,
`Answer` and `Fail` the query. The dialogs that keep their page when they are opened for
another pool (all but bilibili's) are excepted from half of `PageIsOffered` (`Keeps`).

### PoolCreation

`Submit` is `poolCreationWorkflow.run` up to its first await, `Created` and `CreateFails` what
follows the creation, `BindFails` and `Succeed` what follows the binding; `CreatePool` and
`BindPool` are the server's. A failure may come before or after the server did it.
`OpenDialog` and `LeaveDialog` are the dialog with its `reset`; a page can be left while a
submit is pending, which then goes on without a dialog (`Here`). `lost` and `doubted`
are history variables: pools the workflow was never told of or has replaced by one of
another body, and bindings that were done but reported as failures.

## 4. What is checked

Each run explores all interleavings within its bounds.

| Run | Bounds | Shows |
|---|---|---|
| `refresh` | 3 keys, 3 goroutines, 1 slot, 2 admissions | limits, ownership, join; every key is freed, `close()` returns; implements `RefreshContract` |
| `lifecycle` | 2 requests, 2 goroutines, 2 keys | refreshes are joined before the repository closes on both ways out; a graceful stop loses nothing; the process ends |
| `cache_faults` | 1 read, 2 writers, 2 changes, all faults | an answer includes every change that was invalidated; implements `FreshReads` |
| `memory_cache` | 3 identities, 2 reads, 2 writers, 2 entries | no entry is stale, also when a full map is dropped; implements `FreshReads` |
| `pool_sync` | 2 calls, 1 administrator, 2 danmaku in any order, clock 0..1, window 1 | one row, exact counts, an invalidation for every change, passive fetches spaced but for the waits of forced claims, calls end in spite of advisory locks, row waits and deadlocks |
| `native_danmaku` | 2 submissions, 1 rule change, 1 edit, 1 video, 2 authors who replace each other, clock 0..2, window 1 | one danmaku per window, rules in force, complete scans, live videos, an invalidation for every write, no deadlock |
| `segment_fetch` | 2 workers, 0 to 4 segments, size limit 3, count limit 3 | complete or failed; no goroutine left; the caller returns |
| `console` | one entry of the cache and 2 calls; or one form, 3 openings, 3 versions; or one list, 2 values of a parameter, 2 pages; or a creation, 3 submits, 2 visits, 2 bodies, 2 videos | what is reported is shown; a creation that failed half way is shown; forms submit and close their own; rows and pages are those asked for; a retry neither repeats nor loses a creation |
| `cache_incr_lost`, `cache_keyword_lookup`, `native_edit_race` | 1 of each actor | see Findings |
| `pool_spacing` | 2 calls, clock 0..2, window 2 | see Findings |

Why the bounds are enough. A property of these relates at most two actors of a kind and
one of another: two goroutines with one key and a third that takes the slot, a read
with the change it might miss and one that interferes, two submissions with one rule
change. The bounds give each of them and make every queue one longer than its
limit. Two changes tell an older entry from a newer one. A clock of 0..2 with a window of
1 reaches the inside, the edge and the outside of the window of a submission. For a pool, whose
calls may come again and again, a clock of 0..1 with a window of 1 has a claim inside the window
and one at its edge, where it is over; `pool_spacing` needs one unit more, for the wait
of the forced claim. The rules an
earlier run left (`RuleTables`) let a rule be refused, removed and met by a submission
with one rule change only. For the theorems below, all of these are arbitrary.

In `console`, the initial states choose every pair of a cache entry and the operations that
have to do with it, every form and every list, so the tables are covered in full; two calls
are one and another that interferes. All catalog sources share one page, and the run takes
one of them. Three openings of a dialog are one that submits, one that is open
when the answer comes and one that starts from what was saved. Three submits of a creation
are one that fails after its creation, one that fails after its binding and one that succeeds.

Type invariants are not listed with the runs of modules that have a theorem for them:
`TypeCorrect` and its like prove them for all instances, and each is part of the
inductive invariant of its module. The same holds of three properties that are proved and
add little to their neighbours: `NoAddAfterClose`, `EntriesBounded`, `BlockedStays`.
`ReadSeesReturnedWrites` is proved for the cache without faults (`CacheSeesReturnedWrites`),
and the two runs that expect a violation show which of its assumptions the code lacks.

`CHECK_DEADLOCK` is off in every run: processes exit, calls end, and counters reach their
bounds (`MaxOpenings`, `MaxVersion`, `MaxPages`, `MaxAttempts`, `MaxVisits`, `MaxClock`,
`MaxChanges`, `MaxRevision`). What must not stop is stated as a liveness property or as `NobodyStuck`.

### Fairness

* Goroutines that can run do run (weak fairness of each step): the Go scheduler is
  preemptive. A goroutine that waits for a slot may be overtaken for ever, as Go promises
  nothing about the order of `select`; only its timer frees it.
* Timers fire. Work whose context is done returns, because every upstream and database
  call takes that context; work whose context is live owes nothing in
  `BackgroundRefresh`. In `SegmentFetch` a load ends, for the HTTP client has a timeout of
  its own.
* PostgreSQL serves lock queues and aborts one transaction of a circular wait. The steps of
  a call of `PoolSync` are one step for fairness (`CallStep`), and its fairness is strong,
  because the step that waits for a lock (`Lock`, `InsertItem`) is possible only now and then.
* A request owes nothing but to give back a connection when PostgreSQL answers;
  that is why `Shutdown` has a timeout, and the runs include it.
* The console's modules state no fairness: a user may go away and a connection may hang, and
  their properties are about what holds when an answer does arrive.

### Findings

* `cache_incr_lost`: an INCR that fails after the commit is ignored; the call
  succeeds while readers keep the old revision until its entries expire. The documentation says
  that a write takes effect at once.
* `cache_keyword_lookup`: a keyword is committed, the lookup that follows fails, and the
  invalidation behind it is skipped.
* `native_edit_race`: `Edit` reads without a lock and writes the whole row back. A scan
  that commits in between is undone for that danmaku. A comment says rule writes
  exclude exactly this for submissions; an edit is not excluded.

* `pool_spacing`: `ClaimCatalogPoolSync` reads `time.Now` before its UPDATE, and a forced claim
  writes that time unconditionally. One that waits in between, for a connection or for the
  row, sets `LastAttemptTime` back behind a later attempt, and the next passive call goes
  upstream inside the window that `docs/dandanplay.md` and `docs/catalog-providers.md` promise,
  early by at most the wait. `SpacedButForWaits` says how much is left of the promise.

## 5. What is proved

The proofs hold for all values of the constants that satisfy the named assumption of the
module, which TLC evaluates for the values of the runs. Every invariant and every action
property that a passing run checks is a theorem too, and so are the three refinements; what
is left to TLC alone is at the end of this section.

| Module | Theorems | Argument |
|---|---|---|
| `ServiceLifecycleProofs` | of the pool: `TypeCorrect`, `KeyRunsOnce`, `Bounded`, `Quiescence`, `WaitGroupOnlyDrains`, `HoldersOnlyAdvance`, `CloseEnds`, `CloseNeverStuck`, `PoolImplementsContract`; of the process: `ProcessRunsThePool`, `ProcessInvariance`, `RepositoryIsClosedLast`, `GracefulStop` | `wg`, `slots` and `active` are the number of running goroutines, of slot holders, and the keys of key holders: cardinalities that each step changes by one |
| `DanmakuCacheProofs` | `CacheInvariance`, `CacheTypeCorrect`, `CacheFresh`, `CacheSeesReturnedWrites`, `CacheImplementsContract` | see below |
| `MergedMemoryCacheProofs` | `MemoryTypeCorrect`, `MemoryFresh`, `MemoryEntriesCurrent`, `MemoryBounded`, `MemoryImplementsContract` | what a read loads is at least what was invalidated when it looked the revision up, and the revision moves with every invalidation |
| `NativeDanmakuProofs` | `NativeInvariance` and seven properties | see below |
| `PoolSyncProofs` | `Inductive` and seven properties | the lock is with the call between its `SELECT` and its `INSERT`; what a merge has inserted is in the table or among the rows it owns, and no two transactions own a row |
| `SegmentFetchProofs` | `SegmentInvariance` and six properties, `SegmentFetchEnds`, `SegmentNeverStuck` | a taken segment is with one worker; what became of it is in the data, on its way to `first`, or behind it; when all workers have gone nothing is on its way; `total` is the sum of what was loaded |
| `ConsoleProofs` | of the tables: `TablesCovered`; of the cache: `TypeCorrect`, `ReportedShown`, `CreatedShown`; of the lists: `RowsShown`, `PageOffered`; of the forms: `AnswersOwnOnly`, `OwnTextOnly`, `SavesOwnBase` | an entry that was told of a call it lacks is known to be out of date, or the call met a fetch that it could not replace; lists and forms: see below |
| `PoolCreationProofs` | `Inductive`, `TypeCorrect`, `CreatesOnceHolds`, `SucceedsAsAskedHolds` | what the server made in the visit on screen is saved, lost, or about to be reported |

`BackgroundRefresh` implements `RefreshContract` with the job of a key read off the
goroutine that holds it. The invariant says that there is one (`Ownership`), so a step of a
goroutine moves one job and no other (`OneJobMoves`), and the cardinalities of `Accounting`
are those the contract's limits speak of. `ServiceLifecycle` extends the pool:
`ProcessRunsThePool` shows that every step of the process is a step of the pool or leaves it
alone, so all results about the pool hold of the process. `LifeInv` adds where `main` is:
the repository closes only after `JoinHandler` has seen the pool joined, on either way out
(`RepositoryIsClosedLast`), and `graceful` is set only when no request was left to be cut
off (`GracefulStop`).

`DanmakuCache`. `FreshRead` speaks of answers, yet an answer may come from an entry that was
stored by a read that began long before under a revision read earlier still. The history
variables `poolBase` and `mergedBase` record, for each revision, how much had been committed
when it came into force. The invariant says that every entry, and every read that may yet
store one, is at least as new as the base of the revision it is stored under, and that what
was invalidated is at most the base of the present revision. `CacheSeesReturnedWrites` adds
that without faults every change whose call has returned was invalidated. For
`CacheImplementsContract` the same invariant gives the lower bound of the contract's
`Answer`, and `got` never exceeding `stored` the upper one; `MemoryImplementsContract` goes
the same way.

`NativeDanmaku`. `OnePerWindow` is not inductive: that two submissions cannot both find no
duplicate needs to be known from the locks. The invariant says who holds each lock
(`RuleHeld`, `PostHeld`, `VideoHeld`), that what was read under a lock is still true
(`RulesRead`), and that a submission about to insert has nothing equal within its window
behind it (`NothingNewer`). The proof shows that the row of the video alone already excludes
a second insert: `OnePerWindow` does not depend on the advisory lock of the text, nor on the
order of the times. `NobodyStuck` follows from the same facts, since the locks are taken in
one order and the rule lock comes first. `NativeScanIsComplete` does without an assumption on
the rules: when B is the replacement of A and has been scanned for itself, a submission by A
and a scan for A still produce danmaku of B, and these are the ones in `rewritten`. What it
rules out is a danmaku that kept B, or was stored as B by its own author, in spite of the scan
(`StoreGives`, with the rules that were read being those in force, `RulesRead`).

`PoolSync`. `SyncDelivers` and `CountsAddUp` speak of committed rows, and follow from what
holds of open transactions: a merge's rows so far are in the table or its own (`Delivered`),
its own rows are in no other transaction and not in the table (`Owned`), so a commit adds as
many rows as it reports and a rollback takes none away from another call.
`SpacedButForWaitsHolds` needs how far `LastAttemptTime` can lie behind the latest attempt:
only a forced claim moves it back, and by no more than it stood behind its own time
(`Attempts`, with `newest` and `waited`). `StaleIsPendingHolds` says that answers are `outdated`
only while an invalidation is to come; it does not say that it arrives (`missed`).

`SegmentFetch`. `SizeRespected` speaks of the sum of the sizes of all segments, while the
counter of the workers grows in the order they come in. `SizeOf` is a fold. Its value is
proved to be a cardinality, that of the set of pairs of a segment and a number up to its
size (`SumCountsItems`, by the smallest set for which it would fail); after that `SizeOf` of
one segment more is the cardinality of one set more (`SumOfOneMore`), and `Sized` says that
`total` is the sum of what has been loaded so far. A fetch that returns data has loaded
every segment; one that reports the limit has loaded a part that exceeds it (`SumOfPart`).

The tables of the console. `Shows` lists, per fact, the keys under which any screen shows
it; it does not mention calls. Each component is then checked by itself (`IsSound`): what it
reads is in the list, and for each fact its calls change, each key of the list is
invalidated or the pair is a gap. `ViewsSound` collects them, and a pair of any call with
any read, of pages that are never open together included, is covered (`TablesCovered`). The
proof is for whatever sources share the catalog page; the run takes one.

`QueryCache`. `ReportedIsShown` speaks of what is on screen at rest. The invariant follows
the out-of-date data: a call that has invalidated the entry (`Told`) is in the data, or the
entry is not valid, or it is in `overtaken` or `late` (`LacksInv`); and an entry on screen
that is not valid is being fetched or shows an error (`WatchInv`). `GapInv`, from
`TablesCovered`, says of the operations at hand that each one the entry depends on tells it
or is a gap. The three exceptions are exact: `role[c].gap`, the pairs of `Gaps`;
`overtaken`, an invalidation of an entry that is not watched or has no data while a fetch
that read the old state is under way, which TanStack Query does not replace; and `late`, a
call the server applies after the browser gave it up.

`ConsoleLists`, `ConsoleForms`. The tables are used only through what all their records have
in common (`ListsAreSound`, `FormsAreSound`): a list is keyed by all it fetches with; every
parameter but the page returns to the first page, or the list keeps its page for another
subject; a form that closes its dialog on success cannot be left while the call is pending
or is gone when it is left, one that clears its inputs disables them meanwhile, one that
keeps its text is on a page of its own, or its `allows` says otherwise. What is then proved
holds of any list or form of that kind. `PageIsOffered` is inductive with the types of the
list; `RowsAreAskedFor` follows from the key being what is fetched with. The form's
invariant `FormParts` says that a pending call is of an opening up to the present one and
that inputs which are disabled meanwhile leave it untouched (`CallInv`, `TypedInv`), that a
text which is not carried over is of this opening (`TextInv`), and that what a form shows is
at least what its last save stored (`BaseInv`), which is where the detail query has to be
told of the save.

`PoolCreation`. `CreatesOnce` depends on there being one submit under way in a visit
(`OneAtATime`), on `saved` being one pool of this visit that nobody has reported as bound
(`SavedIsOne`, `SavedIsUndone`), and on a submit that creates having found nothing to use
(`CreatesNew`). That no submit of a visit is forgotten is `VisitIsKnown`: what the server
made is saved, lost, or with the submit that will report it.

What only TLC checks is liveness: `KeyIsFreedAgain`, `CloseReturns`, `StopEndsTheProcess`,
`CallsEnd` and `Returns` rest on fairness, whose ENABLED conditions the provers used here do
not handle. For three of them what they rest on is proved, as safety, for all constants:

* `Returns`: every step of a fetch lowers `Left`, a natural number (`SegmentFetchEnds`), and
  until the call has returned its goroutine or a worker can take a step (`SegmentNeverStuck`).
  `Left` adds up where the caller is, the segments it has not offered, not checked, not
  tried and not settled, and the goroutines that have not ended.
* `CloseReturns`: once `close()` has begun every step of the pool lowers `ToGo`, the steps
  its goroutines and their timers still have (`CloseEnds`), and while it waits a goroutine
  can take a step that needs no slot, no timer and no answer (`CloseNeverStuck`).
* `KeyIsFreedAgain`: a goroutine with a key works for no other, is set back by no step, and
  the key is in the map exactly until it gives it back (`HoldersOnlyAdvance`).

What is left to TLC there is that a step which stays possible is taken, as the fairness says.
For `StopEndsTheProcess` and `CallsEnd` there is no number that every step lowers: while the
process stops its requests go on querying, and where Shutdown is skipped new ones go on
coming; a call that waits for a lock of PostgreSQL may be overtaken by others that begin
later, which is why its fairness is strong. Induction over data is possible only for one
definition at a time, by a smallest counterexample, as for the sum of `SegmentFetch`.

## 6. What is not modelled

Of the server:

* The merged view's de-duplication, the codecs (AID and BVID, varints) and the parsing of
  upstream answers: pure functions that change no state two actors share. The reads and the
  cache of the merged view are modelled.
* Bindings and external pools: single transactions, whose effect on the cache is that of the
  writer of `DanmakuCache`. A binding checks `Video.IsDelete` and inserts in a second
  statement (`internal/store/external.go:249`); the video may be deleted in between.
* What a read of a deleted video caches: `SetVideoDeleted` invalidates nothing, so an empty
  list that a read caches around the deletion outlives a restore until it expires. `NativeDanmaku`
  marks the change as `missed` and leaves the reads out.
* A commit whose answer is lost: PostgreSQL has committed, the driver returns an error and
  the invalidation is skipped. Transactions of the model end with a known answer.
* `HttpClientCache` and bilibili's resolution of BVID and AID: two requests that miss fetch
  both and write in any order (`internal/store/postgres.go:1124`), and an upstream answer that is
  no success is read as an empty list (`internal/api/bilibili.go:341`).
* The live groups, a registry under one mutex. `Connection` may add an entry after its
  client has gone, which is then never removed (`internal/api/realtime.go:17`).
* Keys that Redis loses or evicts. Whether a revision can restart below the revisions of
  entries that are still alive depends on how Redis is run.
* SQL of lists and searches, signatures of upstream requests, formatting. Configuration and
  the schema are initial states. Users, sessions and CAS are single statements over one row
  and signed cookies.

Of the console:

* Signing in and out, which pages a role sees, routing, and the 401 of the session
  query that leads to the login.
* Parsing of imported files and the searches of third-party catalogues, which fill a form.
* The time of `staleTime` and of garbage collection, and several browser windows: another
  window is a user whose calls do not invalidate this cache, like another administrator.
* Layout, wording, and the component library.

The order in which this would be continued: the read path of a video that is deleted and
restored, composed with `DanmakuCache`; `HttpClientCache` in front of `PoolSync`; an answer that
is lost at the commit; the pure functions.
