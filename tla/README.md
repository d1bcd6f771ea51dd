# TLA+ models of reserve-stats' trade-log crawler

These modules model the concurrent core of `reserve-stats`: the trade-logs
crawler. A planner hands out block windows. Each window is cut into fetcher
jobs. A worker pool fetches the jobs concurrently and commits them to storage
in job order, and errors abort the process. The modules also record what the
rest of the repository holds and what is still to be modelled.

## 1. Inventory (survey)

### Components and how they interact

| Part | Source | State | Operations |
|---|---|---|---|
| Crawl orchestrator | `src/tradelogs/cmd/trade-logs-crawler/main.go` `run` (219-304) | planner cursor, current window, done channel | next window; start the pool; submit goroutine; poll until done; `select` on done vs. error channel; `Shutdown` or `Fatalw` |
| Job planning | same file, `requiredWorkers` (171-179) and the submit loop (251-277) | none (pure) | pool size; cut a window into jobs, split at contract version starting blocks |
| Worker pool | `src/tradelogs/workers/workers.go` `NewPool`, `Run`, `Shutdown`, `ErrCh` (113-241) | unbuffered `jobCh`, `errCh` of capacity maxWorkers, `lastCompletedJobOrder` under a mutex, a WaitGroup | worker: take job, execute (with retry), wait for its turn, save, advance the counter, report errors |
| Fetcher job and retry | workers.go `retry`, `fetch`, `execute` (47-105) | attempt counter | up to `attempts` fetches, sleeping between them |
| Block range planner | not in the repository (`newCrawlerPlanner`) | cursor | next window or EOF (spec.md 4.1) |
| Trade-log storage | `storage/influx/influx.go`, `storage/postgres/tradelog.go` | DB rows; per-batch `traded` map | `SaveTradeLogs` with first-trade marking; `LastBlock` |
| Etherscan fetcher | `accounting/reserve-transaction-fetcher/fetcher/fetcher.go` | page counter | paginate until the "no transactions found" sentinel |
| Listed token storage | `accounting/listed-token-storage/listed_token_storage_postgres.go` | token rows | `CreateOrUpdate` (upsert), `GetTokens` (current plus old addresses) |
| Token info cache | `lib/blockchain/token_info.go` | `cachedSymbol`, `cachedName` (sync.Map) | `Symbol`, `Name`: load, resolve over two ABI variants, store |
| Cacher, nonce validator, HTTP servers, Huobi storage, rate fetcher | various | single SQL statements or I/O | lookups, I/O |

The crawler loop calls the planner for each window. It starts a pool of
`requiredWorkers` workers. A submitter goroutine hands the jobs over one at a
time through the unbuffered job channel, in job order. Each worker fetches on
its own schedule. It then busy-waits on the mutex-protected gate until
`order == lastCompletedJobOrder + 1`, and only then calls `SaveTradeLogs`.
When the last job is saved, the submitter signals `doneCh`, and main shuts the
pool down. If any error is reported, main calls `Fatalw` and the process ends.

### Hard behaviours

- Fetches finish in any order, but commits must happen in job order.
- A fetch can fail after its retries, and a save can fail. Both leave a gap
  that nothing may be committed past.
- The submitter blocks on the unbuffered channel when every worker has exited.
- Both the submitter and the gate wait by polling and sleeping.
- `select` picks at random when the done channel and the error channel are
  both ready.
- There are boundary cases in the job arithmetic: the loop bound
  `i <= toBlock`, the `min(i + maxBlocks, toBlock)` end, and a single cut at
  the version boundaries.

PROJECT.json "hazards" lists each of these at its source line.

## 2. Plan

Modules, in dependency order:

1. `JobPlan`: pure operators for `requiredWorkers` and the submit loop
   (`RECURSIVE SubmitRanges`). It also holds the predicates that state the
   spec's promise about a window's jobs.
2. `CrawlLog`: the abstract specification. Blocks reach storage in chain
   order, with no gaps, and the crawl ends either done with every block
   stored or aborted.
3. `Crawler`: the orchestrator, the submitter and the pool, composed. It uses
   JobPlan for its jobs and is shown to implement CrawlLog through
   `INSTANCE CrawlLog WITH log <- StoredBlocks, ...`.
4. `PaginatedFetch`: the accounting fetcher command, which runs three
   Etherscan fetches per address. It models each fetch's bound conversion
   and page loop.
5. `InfluxTradeStore` and `PgTradeStore`: the two `SaveTradeLogs`
   implementations, driven the way the gate drives them: one batch per job,
   in job order. A failed save ends the run, and the next run saves the same
   batch again.
6. `ListedTokens`: the listed-token storage. `CreateOrUpdate`'s transaction
   and `GetTokens`' assembly of old addresses, over any row order.
7. Done: an `Attempts = 0` run of Crawler (`SavedJobsWereFetched`).
8. `TokenInfo`: the token metadata cache, with concurrent callers.

## 3. Modules and their correspondence to the code

### JobPlan / MC_JobPlan

- `requiredWorkers` is main.go:171-179. `CeilDiv` models the float `Ceil`.
- `CrossedVersion` is the `switch` at main.go:255-273. It picks the first of
  V4, V3, V2 with `end >= V && i < V`.
- `IterationRanges` is one loop iteration: one range, or two ranges cut at V.
- `SubmitRanges` is the `for i <= toBlock` loop.
- `FetcherJobs` numbers the ranges as jobOrder 1, 2, ...

Jobs are read half-open, as in spec.md 3. `MC_JobPlan` chooses one input in
`Init` and never changes it. An input is a window of width 1..7 starting at
0..2, a maxBlocks of 1..3, and starting blocks V2 < V3 < V4 in 1..9. Each
distinct state is therefore one input, and every invariant is checked over
all of them.

### Crawler / MC_Crawler

State:

- `cursor` and `window` belong to the planner.
- `mainPc` is the main goroutine: planning, in the select, in Shutdown,
  fatal, or done.
- `subPc` and `next` belong to the submitter goroutine.
- `wpc[w]`, `wjob[w]` and `tries[w]` belong to each worker goroutine.
  `none` means it was not started, because the pool is smaller than
  MaxWorkers.
- `last` is `lastCompletedJobOrder`.
- `errCh` counts the errors buffered in the channel. `errClosed` and
  `jobClosed` say whether each channel has been closed.
- `stored` is the sequence of block ranges `SaveTradeLogs` has committed.

Actions, one per step of the code:

- Main goroutine:
  - `StartWindow` starts the pool for the next window. `NewPool(n)` is
    `workers.NewPool`: a fresh counter, an empty `errCh` and `n` workers.
  - `Completed` handles the planner's EOF.
  - `SignalDone` is the `doneCh` rendezvous followed by `close(jobCh)`.
  - `ShutdownWait` is `wg.Wait` followed by `close(errCh)`.
  - `ReceiveErr` is `Fatalw`.
  - `ReceiveClosed` handles the closed channel yielding `nil`.
- Submitter goroutine:
  - `Run(w)` is the rendezvous with a free worker.
  - `SubmitLoopEnd` ends the submit loop.
  - `AwaitCompleted` is the done poll, over `GetLastCompleteJobOrder`.
- Worker goroutines:
  - `FetchAttempt` and `RetriesExhausted` are `retry`.
  - `ReportFetchErr` sends the fetch error and exits.
  - `SaveTradeLogs` is the gate's critical section. The save either succeeds
    (append to `stored`, advance `last`) or fails.
  - `ReportSaveErr` is the send and the `break`.
  - `WorkerExit` runs when `range jobCh` ends.

Three things are abstracted:

- A fetch either succeeds or fails, and the trade-log data is not modelled.
- The sleeps of the polling loops are stutter steps.
- `PlannerNext` is modelled from spec.md 4.1, because the planner's code is
  not in the repository. It returns windows of at most MaxBlockSpan blocks,
  up to CrawlTo.

### PaginatedFetch / MC_PaginatedFetch

This module models `accounting/reserve-transaction-fetcher/fetcher/fetcher.go`
and the loop of `accounting-reserve-transaction-fetcher/main.go`.

- `ConvertBounds` is the part of `fetch` before its page loop. It checks that
  each bound passes `IsInt64` (the width is `IntBits`, so the edge is
  reachable) and turns the exclusive `to` into the inclusive `to - 1`.
- `FetchPage` is one iteration of the page loop. The no-transactions sentinel
  ends the loop, another error fails the fetch, and a page of results is
  appended.
- `NextFetch` and `ReturnError` are `run`'s loop over addresses and over the
  three fetch functions, in the order `Kinds` gives.
- Etherscan is the environment. It answers page `p` of the transactions with
  `startBlock <= b <= endBlock`, with `Offset` per page. When that page is
  empty it answers with the sentinel. It may also fail at any call.
- A transaction is abstracted to its block number.

`MC_PaginatedFetch` uses pages of 2 and two addresses. Each address has up to
5 transactions per kind, so some fetches span three pages. The int is 3 bits
wide (-4..3). The flags range over unset, 0, 1, 2, 3, 4 and 5, so the runs
include bounds that fit, bounds that are at the edge, and bounds that do not
fit.

### InfluxTradeStore / MC_InfluxTradeStore

This module models `storage/influx/influx.go`.

- A log is a user and its position `<<batch, k>>`, which is also its time.
  `db` is the set of points written, each with a measurement, a user and a time.
- `LogToPoint` is one iteration of `SaveTradeLogs`' loop, that is
  `tradeLogToPoint` with its helpers:
  - `NeedsFirstTrade` is `assembleFirstTradePoint`: the user is not in
    `is.traded`, and `userTraded` finds no `first_trades` point;
  - `AssembleKYCPoint` adds the kyced point.
  - The failure disjuncts are the conversion error, the `userTraded` query
    error, and the kyced `NewPoint` error. The last comes after `is.traded`
    was set.
- `Write` is `influxClient.Write(bp)`. On success it resets `is.traded`.
- `Restart` is the next run: `NewInfluxStorage` starts with an empty map,
  and the crawl resumes from `LastBlock`, the block of the latest `trades`
  point (0 when there is none). The planner that reads it is not in the
  repository, so the resumed job is either that block's job, which is then
  saved a second time, or the next one. The logs of job i are of block i.

`MC_InfluxTradeStore` has 3 users, 2 of them KYCed, and 4 batches. The same
user appears twice in a batch and again across batches. Up to 3 restarts are
allowed.

### PgTradeStore / MC_PgTradeStore

This module models `storage/postgres/tradelog.go`.

- `SaveReserve` is `saveReserve`, which runs outside the transaction.
- `BuildRecord` is one iteration of the records loop. The record's
  `IsFirstTrade` is `FirstTradeFlag`: false if the call's `users` map holds
  the user, else `isFirstTrade`, a query on `tldb.db`. That query sees only
  committed rows.
- `BeginTx` is `Beginx` plus `saveReserveAddress` and `saveTokens`. The
  errors of the last two are assigned to the `err` that the deferred call
  reads.
- `InsertRecord` inserts one record:
  - the user `NamedExec`, whose error rolls back;
  - `create_or_update_tradelogs`, whose error is a new `err` at line 135.
    Two outcomes are told apart. When the server rejects the call,
    PostgreSQL aborts the transaction, and the deferred `Commit` rolls it
    back (lib/pq returns `ErrInFailedTransaction`). When the call ran and
    `tx.Get` then fails on the client (no row, or a NULL `_id`), the
    deferred `CommitOrRollback` sees a nil `err` and commits, this record's
    row included.
  - The body of `create_or_update_tradelogs` is not in the repository. The
    model takes its name at its word: it replaces the row of a log already
    stored.
- `CommitBatch` is the normal return, which commits.
- `CommitOrRollback` is in `lib/pgsql`, outside `src/`. It is modelled from
  its call: it commits when `err` is nil.

`MC_PgTradeStore` has 2 users and the batches `<<u1, u2, u1>>`, `<<u1>>` and
`<<u2>>`, with up to 2 restarts.

### ListedTokens / MC_ListedTokens

This module models `accounting/listed-token-storage/listed_token_storage_postgres.go`.

- A row is an address, a key (symbol and name) and a timestamp.
- `Begin` is `Beginx`. When it fails, the call returns before the defer.
- `UpsertToken` is one token of the map, in Go's random map order:
  - `TokenRows` lists the rows it executes: the token's own row, then one
    row for each old address.
  - `Upsert` is `ON CONFLICT (address) DO NOTHING`.
  - Any exec can fail. `ExecErr` is the `err` that the deferred
    `CommitOrRollback` then reads.
- `Commit` is the normal return.
- `GetTokens` reads the committed rows in every order that `SetToSeqs` gives,
  and folds `AssembleRow` over a prefix of them with `FoldLeft`. A full
  prefix is a successful select. A shorter one is a select that failed after
  scanning that many rows: `Select` keeps the rows it appended, and the code
  logs the error, assembles what was read and returns a nil error.
  `complete` records which case the last read was.
- `snapshot` and `view` record what the last `GetTokens` read and returned.
- Old lists are compared as sets.

`MC_ListedTokens` has three token maps:

- a token that moved from a1 to a2;
- two plain tokens;
- a1 listed again at a later time, which `DO NOTHING` ignores.

Up to three calls are made.

### TokenInfo / MC_TokenInfo

This module models `lib/blockchain/token_info.go`.

- `cache` holds the two `sync.Map`s. `Init` seeds them as `NewTokenSymbol`
  does, from the deployment's symbols and the predefined names.
- `Call(c)` is the cache `Load` of `Symbol` or `Name`. A hit returns.
- `Resolve(c)` is one iteration of `getNameOrSymbol` together with what the
  method does with the outcome:
  - `FnStep` is the loop's `continue` or `break`;
  - an RPC error returns at once;
  - on success, `Result` converts the answer (`bytes32ToString`, a RECURSIVE
    translation of the counting loop, and `ToUpper` for symbols), then the
    value is stored and returned.
- Load and Store are different steps, so the two callers interleave between
  them.
- `returned` is a history variable: the values that calls returned without
  an error.
- Strings are sequences of characters over NUL, a lower-case letter and its
  upper case. A bytes32 has width 3.

`ReturnsResolved` compares every returned value with reference definitions:

- `CString` is the longest prefix with no NUL;
- `Resolved` is the predefined value, else the first variant that decodes.

`MC_TokenInfo` uses three tokens:

- one where both variants decode, but to different values;
- one that only the bytes32 variant decodes, and whose name is the empty
  string;
- one whose symbol is predefined and that no variant decodes.

The two callers are symmetric.

## 4. Runs

| Run | Checks | Result |
|---|---|---|
| `jobplan_tiling` (JobPlan_tile.cfg) | `JobsTileWindow`, `PoolHasWorker`, `JobsSplitWhenSpaced` | pass: the jobs tile each window in order, a window with jobs gets at least one worker, and no job spans a boundary when the versions start at least maxBlocks apart |
| `jobplan_close_versions` (JobPlan_straddle.cfg) | `JobsSplitAtBoundaries` with any versions | violation: a job keeps the older boundary inside it |
| `jobplan_empty_jobs` (JobPlan_empty.cfg) | `JobsNonEmpty` | violation: jobs `[toBlock, toBlock]` and `[V, V]` are submitted |
| `crawler_ordered_commit` (Crawler_safety.cfg) | `StoredInChainOrder`, `ImplementsCrawlLog` | pass: commits are gap-free and in order across windows and failures, and the crawl ends done or aborted |
| `paginated_fetch_range` (PaginatedFetch.cfg) | `TypeOK`, `FetchReturnsRange` | pass: every fetch that returns gives exactly the transactions of `[from, to)`, and only when the bounds fit an int |
| `influx_first_trade` (InfluxTradeStore.cfg) | `FirstTradeIsEarliest`, `ResumeSkipsNoJob` | pass: one `first_trades` point per trading user, at its earliest trade, across failures and restarts that re-save jobs already written; no job before the resume point is missing |
| `pg_first_trade_once` (Pg_FirstTradeAtMostOnce.cfg) | `FirstTradeAtMostOnce` | pass: no user gets two rows flagged as a first trade |
| `pg_first_trade_flagged` (Pg_FirstTradeFlagged.cfg) | `FirstTradeFlagged` | violation: a client-side `tx.Get` error after `create_or_update_tradelogs` ran commits the records written so far (the shadowed `err`); after the re-save, that user's first trade is not flagged |
| `crawler_zero_attempts` (Crawler_noattempts.cfg) | `SavedJobsWereFetched` | violation: with `Attempts = 0`, a job is saved without being fetched |
| `listed_tokens` (ListedTokens.cfg) | `TokensAssembled`, `CreateOrUpdateAtomic` | pass: every token and Old entry `GetTokens` returns is a row of its key, and after a complete select the token is the latest address and Old holds all the others, in any row order; a failed `CreateOrUpdate` changes nothing |
| `token_info_cache` (TokenInfo.cfg) | `ReturnsResolved` | pass: concurrent `Symbol` and `Name` callers only get the predefined value or the first decodable variant's, cut at the first NUL |
| `crawler_error_stops_worker` (Crawler_errstop.cfg) | `ErrorStopsWorker` | violation: after a save error the worker goes back to the job channel |

PROJECT.json "findings" records the violations:

- three divergences from spec.md: the job cut, the empty jobs, and the worker
  that goes on after a save error;
- two code bugs: `retry` with zero attempts, and the Postgres shadowed
  `err`, which commits part of a batch when `tx.Get` fails on the client
  side, and as a result loses a first-trade flag. A server-side error
  aborts the transaction and loses nothing.

Each property of a passing run has a mutant in PROJECT.json. A mutant
replaces one definition with a plausible bug, and TLC then finds the property
violated. The mutants are:

- a job count rounded down, for `PoolHasWorker`;
- a second job that starts one block after the cut, for `JobsTileWindow`;
- a switch with no V4 case, for `JobsSplitWhenSpaced`;
- a save with no gate, for `StoredInChainOrder`;
- a save error that is only logged and never sent, which leaves the crawl hanging, for `ImplementsCrawlLog`;
- paging that starts at 0, for the `TypeOK` of `PaginatedFetch`;
- bounds that wrap instead of failing the IsInt64 check, for `FetchReturnsRange`;
- a first-trade decision that ignores `is.traded`, for `FirstTradeIsEarliest`;
- a `Write` error that is logged and not returned, so the gate moves past the
  batch, for `ResumeSkipsNoJob`;
- `IsFirstTrade` taken from the users query without the call's map, for
  `FirstTradeAtMostOnce`;
- an assembly that replaces the token without moving it to Old, for
  `TokensAssembled`;
- an exec error declared with `:=`, so that the deferred call commits, for
  `CreateOrUpdateAtomic`;
- a `getNameOrSymbol` loop with no `break`, for `ReturnsResolved`.

### Bounds

`Crawler_safety.cfg` uses these bounds:

- blocks 0..4;
- windows of at most 2 blocks, which gives two or three windows;
- maxBlocks 1, so each window holds four jobs, two of them empty (the loop
  runs to `i <= toBlock`, and a cut at `V = end` adds `[V, V]`);
- up to 2 workers;
- 2 attempts per fetch;
- V3 = 3, which falls inside the crawl.

With these bounds, two workers race on the same window, and a fetch or save
failure can occur on either job. A later window starts only after the earlier
one is done. Larger windows add only more jobs of the same kind.

The JobPlan bounds cover windows that are multiples of maxBlocks and windows
that are not. They also cover one, two or three boundaries inside a window,
and boundaries on either end of a window.

### Fairness

`PaginatedFetch` has no liveness property and no fairness. Its page loop ends
only because Etherscan answers the page after the last with the sentinel,
which is a promise of the environment, not of the code.

`Fairness` gives weak fairness to the main goroutine, the submitter and each
worker. The Go scheduler eventually runs every runnable goroutine, and a
goroutine that sleeps in a poll loop wakes up again. No strong fairness is
assumed. The random choice of `select` is modelled by nondeterminism only.

## 5. Not modelled

- **Planner:** absent from `src/`, so it is spec-modelled.
- **Trade-log data, ABI decoding and query strings:** left out. The crawler
  properties are about block ranges and order. The storage properties need
  only the user and the time of each log.
- **Flag parsing, database and Influx set-up, continuous queries, HTTP
  servers, the rich-user cacher and the Huobi storage:** these are I/O or single
  statements. PROJECT.json "components" gives the reason for each.
- **A partial Influx write:** `Write` of a batch is taken as all or
  nothing. A server that stores part of a batch and then fails is not
  modelled.
- **Which errors commit a transaction:** `ExecErrShadowed`, the mutant of
  `ListedTokens`, commits part of a transaction. Under PostgreSQL that
  happens only for an error raised on the client; a server error aborts the
  transaction, and the deferred `Commit` rolls it back.
- **Termination of the page loop:** it ends only when Etherscan answers the
  page after the last with the sentinel. A source that returns empty pages
  without the sentinel would loop forever, but what Etherscan answers is
  outside the repository, so no property states termination.
- **Storage reads:** `LoadTradeLogs`, the stats queries and the
  field formatting of points (`burnfee.go`) are reads or conversions that no
  property tells apart. Token and reserve-address rows are reduced to their
  error paths.
- **Listed tokens:** `parent_id`, `Close` and `DeleteTable` are left out.
  The failed select that `GetTokens` swallows is modelled: it can return an
  older address as a key's current token, with a nil error. `TokensAssembled`
  checks only soundness for that case, and no violation run is spent on it.
  No run is spent either on `DO NOTHING` ignoring a later listing of a known
  address, although the comment says "add or edit". Both are plain in the
  code, and PROJECT.json lists them as hazards.
- **Token rate fetcher:** spec.md 1 excludes it, and `FetchRatesInRanges`,
  which does the work, is not in the repository. Its resume point skips the
  default start day when the database is empty. PROJECT.json lists this as a
  hazard.
- **Empty token names:** `Name` caches an empty name forever. The model
  reaches this state, but nothing says it is wrong, so no property states it.
- **`main.go:223-226`:** when `newCrawlerPlanner` fails, this returns `nil`
  instead of the error, so the process exits with success. It is a plain
  code bug that a reader can see, so no run is spent on it.
- **Call signatures:** `main.go` calls `workers.NewPool` with a big-volume
  threshold and `NewFetcherJob` with an Etherscan client and a proxy address,
  which the `workers.go` of this snapshot does not take. The model follows
  `workers.go`; the extra arguments are data no property reads.
