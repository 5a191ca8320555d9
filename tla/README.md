# Verification of noobDB

noobDB is a desktop database client: a React frontend (`src/src`) talks over
Tauri IPC to a Rust backend (`src/src-tauri/src`) that owns the connections,
runs the SQL and keeps local files. The backend is where the logic is hard to
get right: a command per IPC call, spawned streaming tasks and a scheduler run
concurrently on one tokio runtime and share sessions, caches, registries and
files; the user may stop any of them at any time.

This directory holds TLA+ modules translated from that code, TLC runs over
small instances, and TLAPS proofs for every instance. `PROJECT.json` says which
lines every definition stands for, which run checks which property, and which
hazards of the code the properties are aimed at.

Paths below are relative to `src/src-tauri/src` unless they begin with `src/`.

1. [Inventory](#1-inventory)
2. [How the modules model the code](#2-how-the-modules-model-the-code)
3. [The modules](#3-the-modules)
4. [The runs](#4-the-runs)
5. [What is proved](#5-what-is-proved)
6. [Where the code and its documentation differ](#6-where-the-code-and-its-documentation-differ)
7. [What is not modelled](#7-what-is-not-modelled)
8. [Plan](#8-plan)

## 1. Inventory

Each row: the component, the state it keeps, its operations and what it
interacts with, what is hard about it, and what makes it correct. The last
column names the module, or the planned one in italics.

| component | state | operations and neighbours | hard behaviour | correct when | module |
|---|---|---|---|---|---|
| Caches (`cache/mod.rs`) | entries per kind, in-flight table, generation | `get_or_fetch`, bulk stores, `invalidate_all` / `_table`; used by `commands/schema.rs` and the query commands | fetches racing with invalidation, shared flights, cancelled leaders | nothing stale is written back or served; every call returns; caps hold | `KeyedCache` |
| Session registry (`state.rs`, `commands/connection.rs`, `commands/listen.rs`) | sessions, streams, listeners, what is stored per session | connect, reconnect, disconnect; register / forget / cancel of streams; every command looks its session up here | a session that comes back, a leaked pool, a listener that outlives its session, reused ids | one owner for each connection; every running task can be cancelled; a disconnect leaves nothing | `SessionRegistry` |
| Streaming queries (`commands/query.rs`, `db/stream_batch.rs`) | one task per stream: batcher, counters, result handle | start, rows, flush, closing message, history; the tab in `src/src/App.tsx` | stop against completion, sends that fail, a commit that may not be cut off | counts mean what they say; what was committed is recorded | `QueryStream` |
| Server-side stop (`db/server_stop.rs`, drivers) | backend id, guards | register, fire, release; the connection pool | a kill names a connection and not a statement | a kill hits its own statement; the pool gets clean connections back | `StatementStop` |
| Explicit transactions and savepoints (`db/savepoint.rs`, `commands/query.rs`) | the pinned connection, open savepoints | begin, run, savepoint, commit, roll back | a statement that fails inside, a reconnect, a stop | no silent loss of a transaction | `ScriptRunner` (slot, begin, finish), *ExplicitTransaction* (savepoints, statements) |
| Connect attempts and health (`state.rs`, `ssm/keepalive.rs`) | attempts that can be cancelled, probes | connect, cancel, ping, keepalive | a cancel between two steps, an attempt id used twice | a cancelled attempt leaves no session and no tunnel | *ConnectAttempt* |
| Task scheduler (`tasks/`) | definitions, next run, running set, run log | tick, run now, cancel, save, retry, pause; sessions, stores | a run twice, a run never, a cancel that misses, a save under a running task | one run at a time per task; each due time at most once; a pause lasts | `TaskScheduler` |
| Local stores (`store_lock.rs`, `atomic_write.rs`, `json_store.rs`) | files | read, modify, write under a mutex and a file lock; used by all small stores | lost update, two processes, a crash between steps, a damaged file | no update is lost; a file is old or new, never torn | `JsonStore`, `AtomicStore` |
| Profiles, secrets, backup (`profiles/`) | JSON store and keyring | save, delete, export, import | one of the two writes fails | settings and secrets agree | *ProfileSecrets* |
| Query history (`history/`) | one SQLite file | insert, search, retention | best effort; only when it is written matters | a run is recorded once | `QueryStream` (when) |
| Small stores (snippets, assertions, timelapse, drift, plans, templates) | one JSON file each | read, modify, write | as local stores | as local stores | the pattern of `JsonStore` |
| Flight recorder (`flight_recorder/`) | before / after images of writes | capture, undo, redo | rows changed since, an undo that fails half way, the same undo twice | undo restores exactly, or changes nothing | `QueryStream` (capture), *FlightRecorder* |
| Sandbox (`commands/sandbox.rs`) | a local copy with a frozen base | clone, edit, three-way difference, write back | the source changed meanwhile, a write-back that stops half way | no change of somebody else is overwritten | *Sandbox* |
| Script runner (`commands/script.rs`) | position, its transaction | run, cancel, resume | cancellation between statements or in the commit | all or nothing in transaction mode; resume skips nothing | `ScriptRunner` |
| Import, bulk writes (`commands/import.rs`, `commands/bulk_write.rs`) | batches | insert batch after batch | partial failure | counted rows are written rows | *BulkWrite* |
| Table transfer (`commands/transfer.rs`) | reader, writer, channel | copy, cancel | a half-made table | what is left after a failure is what is reported | *BulkWrite* |
| Export, dump, file output | files | read, format, rename into place | formatting and I/O | – | – |
| Comparison and synchronisation (`commands/diff.rs`, `db/sync.rs`) | stored differences | compare, apply | pure comparisons; apply is a script | the store side is in `SessionRegistry` | `SessionRegistry` (store) |
| Result store (`db/result_store.rs`) | results under handles, a memory limit | put, page, release | eviction while a page is read | limit holds, a handle in use stays | *ResultStore* |
| Refresh by difference (`db/refresh_diff.rs`) | snapshot of the rows of a tab | refresh, patch, resync | a patch against the wrong snapshot | base and patch agree | `RefreshPatch` |
| SSH tunnels and host keys (`ssh/`) | known keys, forwards | open, trust, import, close | two prompts at once, a changed key | no key is accepted that was not confirmed | *KnownHosts* |
| SSM forwarding, AWS tokens (`ssm/`, `db/aws_iam.rs`) | a child process, tokens | start, stop, sign | outside processes and I/O | – | – |
| SQLite driver (`db/sqlite.rs`) | one file, a progress handler | as the other drivers | stopped by a flag, reaches no other connection | – | – |
| Driver façade, SQL classification (`db/mod.rs`) | none | split, classify, captured writes | the captured write; the rest is text | – | `QueryStream` (captured write) |
| Catalogue, search, advisor, inspector, masking, AI | ledgers and snapshots | read-only queries, requests to a service | none that other parts rely on | – | – |
| User interface (`src/src`) | tabs, panels, the connection bar | stop and refresh of a tab, LISTEN panel, resuming a script | the half of a protocol that the backend relies on | both halves agree | `QueryStream`, `RefreshPatch`, `ScriptRunner`, `SessionRegistry` (those halves) |
| Shell, logs, measurements, CI | – | – | – | – | – |

How they meet: every command looks its session up in the registry, clones the
`Arc` and works on it without a lock; so a disconnect or a reconnect can happen
under any command (`SessionRegistry`). A query takes a connection of the
session's pool and writes its backend id down for the stop (`StatementStop`),
streams rows to the tab over a channel, and finally invalidates the caches
(`KeyedCache`), writes the history, and hands over a result handle
(`QueryStream`); a tab that repeats its query gets the difference from its last
result instead of the rows (`RefreshPatch`). `cancel_stream` is the one way to
stop any of the tasks: it takes the abort handle out of the registry and aborts.
A script holds the driver's one transaction slot statement after statement,
beside a user who uses the same slot (`ScriptRunner`). The scheduler opens
sessions of its own for its runs and keeps what it knows in `tasks.json`
(`TaskScheduler`), a file that several processes read, change and replace under
one lock (`JsonStore`).

Two compositions are part of the modules: `TaskScheduler` takes each access to
`tasks.json` as one step, and `JsonStore` shows that it is one, by implementing
`AtomicStore`. `QueryStream` and `RefreshPatch` meet in the messages of one run:
the first follows its rows and counters, the second what successive runs of a tab
do to the rows it shows.

## 2. How the modules model the code

*A step* is what an actor does between two points at which another one can run:
an `.await` that may be pending, a lock, the load of a shared atomic. Guards
that are held across several statements make these statements one step. Where another
module shows that a longer operation is atomic, it is one step here.

*Cancellation.* Aborting a tokio task takes effect when the task is next polled:
it is dropped at its next `.await` that is not ready, and its destructors run
then. So an aborted task may take a few more steps. `Cancel` in `KeyedCache`,
`DropTask` in `SessionRegistry`, `Abandon` / `DropFuture` in `StatementStop`,
`Drop` in `QueryStream` and `RefreshPatch`, `CancelRun` in `TaskScheduler` and
`Cancel` in `ScriptRunner` are such drops, with the destructors' effect in the
same action (`FlightGuard`, `ReleaseGuard`, `StopGuard`, `RunGuard`, `TxGuard`),
and with the task a destructor spawns as an action of its own
(`DetachedDisconnect`, `RollbackTask`, `InvalTask`).

*Ends of the process.* Only files survive them: `Crash` and `Start` in
`TaskScheduler`, `Exit` and `Start` in `JsonStore`.

*Variants.* Beside some definitions stands a second one, marked "Variant for
mutation": what the code would do with a plausible bug. No specification uses
it; each property is checked to fail when the definition is replaced by it, so
that no property holds for want of a way to break it.

*Outside parts* (the pool of sqlx, tokio, the database server) are modelled from
how the code uses them and are marked external in the map.

*Data* is abstracted to what the properties tell apart: a cached value is the
version of the database item it was read from; rows are counted; a connection is
named by whoever opened it; a registration token is the identity of the
registration.

## 3. The modules

### KeyedCache — `cache/mod.rs`

One cache of one session, with all its kinds. `Slots` are the `KeyedCache`
fields of `SchemaCache` (or of `QueryResultCache`), an item is a kind and a key.

| state | code |
|---|---|
| `db`, `commits` | the database: version of every item (external) |
| `generation` | the `AtomicU64` of the cache |
| `present`, `expired`, `value` | `KeyedCache.map`, with `CacheEntry::is_expired` |
| `flights` | `KeyedCache.inflight` |
| `pc`, `item`, `gen`, `rx`, `val`, `outcome`, `result` | one call of `get_or_fetch`: its place, arguments, receiver, answer |
| `acked`, `floor` | history variables: the newest version whose invalidation has finished; what of that a call had seen when it began |

| actions | code |
|---|---|
| `Start`, `Lookup`, `LoadGeneration`, `JoinOrLead`, `Recheck` | `get_or_fetch` up to the fetch, once around its loop |
| `FetchAnswer`, `FetchError`, `FetchAndStore`, `Publish`, `Unlist`, `Close` | the leader: fetch, store unless the generation moved, publish, `FlightGuard::drop` in its order |
| `TakeShared`, `Retry`, `TakeError` | the waiter: `wait_for_flight` and the loop |
| `Cancel` | the call's future is dropped, with what `FlightGuard` does then |
| `Commit`, `Bump`, `ClearSlot`, `FinishWrite`, `AbortWrite` | a write that takes effect, then `invalidate_*`: generation first, one kind after the other; or it is aborted before (the query commands) |
| `BulkBegin`, `BulkAnswer`, `StoreMany`, `BulkAbandon` | `fetch_columns_bulk` / `fetch_indexes_bulk` with `store_many` |
| `Expire` | time passes |

The hazard is a fetch that reads the database before a write and stores after
its invalidation. The code answers with the generation, read before the fetch
and compared under the lock of the store. `CacheFresh` (no entry is older than a
finished invalidation), `ReadsFresh` (a hit or an own fetch is no older than the
writes that had returned before the call) and `SharedFetchFresh` (the same for a
value taken from another call's fetch) say what that is for. `SingleFlight` says
that before anything was invalidated two calls never fetch one key side by side,
and none fetches what another call has stored meanwhile and is still within its TTL
(as long as no bulk fetch, which takes no part in flights, is over),
`CapRespected` that no kind outgrows its cap, `EveryCallReturns` that the retry
loop ends. The reason it ends is `FlightsLive`, which is proved and not run: a
flight that is listed still has its sender.

### SessionRegistry — `state.rs`, `commands/connection.rs`, `commands/listen.rs`

| state | code |
|---|---|
| `registered` | `AppState.sessions`: the connection of each session |
| `open`, `dead`, `tx` | which connections are open, have died, have a transaction |
| `streams`, `listeners` | `AppState.streams`, `AppState.pg_listeners` |
| `task`, `aborted`, `dialed` | the spawned LISTEN task, its abort handle, the connection whose options it took (state that section 6 speaks of and no property) |
| `kept`, `ppc` | what a command has stored for its session |
| `pc`, `sess`, `conn`, `fresh`, `forced`, `victims`, `target` | where a command is, and its local variables |

| actions | code |
|---|---|
| `LookUp`, `Probe`, `Reopen`, `Replace`, `ClosePrev`, `CloseOrphan` | `reconnect_inner`: probe, open a new connection, swap it in with `AppState::replace`, stop the listeners, close the old one, or the new one if the session is gone |
| `DropDiffs`, `Remove`, `Release`, `DropAdvice`, `CloseRemoved` | `disconnect` and `AppState::remove` in its order |
| `Collect`, `Delist`, `TakeStream`, `Stopped` | `stop_pg_listeners_for_session` and `cancel_stream`, shared by reconnect, disconnect, a start that finds its session gone, and the user's cancel |
| `Spawn`, `RegisterStream`, `Enlist`, `Verify`, `OpenGate` | `start_pg_listen`: the task waits at its gate until everything is registered |
| `ListenerEnds`, `ForgetListener`, `ForgetStream`, `DropTask` | the task ends by itself, or is dropped |
| `UserStops`, `Recheck` | `PgListenPanel.tsx`: cancel, and cancel again if the start returned afterwards |
| `Begin`, `Store` | a command that looks its session up, works, and stores a result, a difference or an advisor snapshot for it |
| `BeginTransaction`, `FinishTransaction`, `Die` | the user's transaction; a connection that dies |

`ConnectionsOwned` ties the table to the connections: each one that is open is
in the table, or known to a reconnect that will install or close it, or to a
command that is about to close it, and none in the table is closed. It is the
property that two concurrent reconnects, or a reconnect under a disconnect,
could break. `NoResurrection` says a reconnect never brings back a session that
was removed. `StreamsExact` says the stream table is exact: a task that runs can be reached
through its id, whoever used the id before, and an entry stands for a task that
has not ended. `NoListenerAfterDisconnect` says a disconnect and a start that
race cannot both miss the listener, and `ListenersEnd` that it really ends, with
its session and with the user's stop, wherever the start call was.
`RemovalReleases` says that what was stored before a disconnect is gone after it.

### StatementStop — `db/server_stop.rs`, `db/mysql.rs`, `db/postgres.rs`, `commands/query.rs`

| state | code |
|---|---|
| `place`, `serving`, `altered` | the pool: where a connection is, whose statement the server runs on it, whether a run's timeout is set in its session |
| `pc`, `conn` | a run: how far its future is, the connection it holds |
| `armed` | `ReleaseGuard::arm` (`close_on_drop`) |
| `mode` | what `spawn_preview_stream` does with that future: polls it, stops, drains |
| `backend`, `kill` | the id in `ServerStopCtx`; the kill that is on its way |

`Plain` runs are query streams: their future is dropped with the connection
armed, so it is closed and never borrowed again (`Abandon`). `Previews` are dry
runs: the transaction owns the connection and gives it back, so the code sends
the kill first and waits for it (`TimeUp`, `GiveUp`, `DropFuture`,
`CancelPreview`). `Others` are every other user of the pool. `Acquire`,
`Refused`, `Register`, `Execute`, `Complete`, `BatchFails`, `Finish` are the
driver's steps; `KillLands` and `KillLost` the outcomes of a kill; `ServerEnds`,
`BackToPool`, `Leave` belong to the server, the pool and the other users.

Taken for granted: the server does not give one backend id to two connections
of an instance, and a kill that was given up after `KILL_TIMEOUT` is not carried
out later.

### QueryStream — `commands/query.rs`, `db/stream_batch.rs`, `db/mod.rs`, `src/src/App.tsx`

One run of `run_query_stream`, a select (`spawn_query_stream`) or a write that
the flight recorder captures (`spawn_captured_write`).

| state | code |
|---|---|
| `read`, `pending`, `batch`, `sentOnce`, `source` | rows from the driver, in `StreamBatcher`, in the hand of whoever sends |
| `counted`, `reached` | `delivered_rows`; rows the channel took |
| `pc`, `result`, `detached` | the task; whether it is past the point where it may be aborted |
| `verdict`, `reported`, `kept` | the closing message, its row count, the result handle |
| `registered`, `aborted` | the stream entry and its abort handle |
| `written`, `invalidated`, `recorded`, `logged` | a captured write, the caches, the recorder, the history |
| `attached`, `shown`, `told`, `stop`, `claim` | the tab and its `cancel_stream` |

| actions | code |
|---|---|
| `Register`, `Start` | `run_query_stream`: the task waits for the registration |
| `Push`, `Tick`, `Count`, `Send` | rows into the batcher; a full batch or the ticker takes it; `send_rows` counts before it sends and takes back what failed |
| `ExecEnds`, `Flush`, `Settle` | the end of the execution, the last batch, the verdict |
| `Prepare`, `Autocommit`, `Staged`, `StageFails`, `Commit` | the captured write: its transaction, or autocommit when the recorder declines |
| `Invalidate`, `Report`, `Persist`, `RecordHistory`, `ForgetStream` | what follows |
| `Drop` | the aborted task is dropped |
| `ShowRows`, `ShowVerdict`, `UserStops`, `CancelStream`, `ReadCount` | the tab: it detaches first, then cancels, then reads the count |

`CountsExact` and `ClaimCovers` say what the three numbers the user sees mean,
whatever sends fail and whenever the stop comes: an error or timeout message
gives exactly the rows the channel took, a select that is done has sent every
row, and a stop never claims fewer rows than the tab has shown.
`CommittedIsRecorded` says that after the commit no stop prevents the
invalidation, the record and the history, `KeptIsAnnounced` that a result handle
is not left behind by a run that ends, `StopEnds` that a stop ends the run. It is
assumed that the connection does not break between a commit on the server and
its answer; what a refreshed tab asks for instead of rows is in `RefreshPatch`.

### TaskScheduler — `tasks/`, `commands/tasks.rs`

The loop that looks at `tasks.json` every few seconds, the runs it and "run now"
start, the commands of the task manager, and a process that ends at any moment.

| state | code |
|---|---|
| `now` | the clock |
| `saved`, `enabled`, `paused`, `next`, `fails`, `limit`, `every`, `missed` | `tasks.json`: the definitions and the setting `catch_up_missed`; all that survives an end of the process |
| `pc`, `tick`, `copy`, `todo`, `cur` | the scheduler loop: the copy a tick works on, the tasks it has yet to look at, the due task in hand |
| `running` | `RUNNING`, the tasks with a `RunGuard` |
| `started`, `task`, `due`, `phase`, `tries`, `result` | the runs: `run_once`, then the recording |
| `open`, `closing`, `adrift` | the session of a run: registered; handed to a detached disconnect; left by a cancel before its guard was armed |
| `skipped` | rows of `task_runs.sqlite` for firings that were given up |
| `origin`, `written`, `begunOn`, `bootAt`, `bootErrors`, `edits`, `crashes`, `ioErrors`, `used` | history |

| actions | code |
|---|---|
| `TickStart`, `TickFails`, `ConsumeDue`, `Reschedule`, `Fire`, `FindRunning`, `RecordSkipped`, `TickEnd` | one tick: read everything once; per task, write the next run first, then start the run or record that the last one is still on |
| `Connected`, `KeepaliveStarted`, `ConnectFails`, `RetryLater`, `RetryNow` | connecting, with the retry that reads the definition again after its wait |
| `WorkEnds`, `Disconnected`, `RecordOutcome`, `Finish` | the action, the disconnect, the recording with its streak of failures and the automatic pause, the end of the guard |
| `CancelRun`, `DetachedDisconnect` | the user cancels a run started by hand: its future is dropped, its guard disconnects in a task of its own |
| `RunNow`, `SaveTask`, `SetTaskEnabled`, `DeleteTask`, `SetSchedulerSettings` | the commands |
| `Clock`, `Crash`, `Start` | time passes; the process ends and is started again |

`NoOverlap`: two runs of one task are never on together. `FiresOnce`: a due time
leads to one run or to one skipped row and never to a second, though the tick
works on a copy others have changed and the process may end at any point.
`SessionsAreOwned`: an open session is the run's to close, or a detached
disconnect's. `MissedIsSkipped`: what fell due while the application was closed
is run only by a tick told to catch up. `PauseIsDeserved`: failures stop a task
only after as many as its limit says, none of them cancelled, no success between.
`EditsAreKept`: neither the old copy of a tick nor the result of an old run
undoes what the user saved. `RunsEnd` and `DueIsTaken` are the liveness of runs
and of due tasks.

### JsonStore and AtomicStore — `store_lock.rs`, `tasks/store.rs`, `atomic_write.rs`

`AtomicStore` is what a store promises: a call takes effect at once or not at
all, whichever process it comes from. Its variables are the document, where each
call is, its arguments and its answer; its actions are `Call`, `Load`, `Change`,
`Fail`, and `Ends` (the process of some calls ends). Because the code makes it,
there is one allowance: a call may be *blind* to a part of the file it should
have kept (`Misses`, `Forget`), when the operation that was to read that part
failed and the call did not notice.

`JsonStore` is how the code does it.

| state | code |
|---|---|
| `main`, `tmp`, `backups` | `tasks.json`, the temporary files by name (process id and counter), the contents put aside |
| `fileLock`, `mutex` | the lock on the lock file, `STORE_LOCK` of each process |
| `up`, `pid`, `seq` | the processes, their ids, their counters of temporary files |
| `pc`, `proc`, `op`, `arg`, `result`, `got` | a call: its place, process, operation, answer |
| `loaded`, `body`, `name`, `repair` | its locals: what it read and changed, what it writes and where, whether it repairs first |
| `blind` | the parts that were there and that it did not see |

| actions | code |
|---|---|
| `Begin`, `GetMutex`, `GetFileLock`, `LockFails` | a public function, `acquire` |
| `ReadFile`, `ReadFails`, `StatFails`, `Quarantine`, `Repair` | `load_file_at`: parse, move a damaged file aside, copy one with damaged settings aside and write it again |
| `LoadOnly`, `Modify`, `Refuse` | `load_all`, the change given to `update_all` |
| `AddRaw`, `Create`, `Write`, `WriteFails`, `Rename`, `RenameFails` | `save_file_at`, `write_atomic`: the elements this version cannot parse are read again and kept; new temporary file, sync, rename |
| `DropFileLock`, `DropMutex` | the guard, its fields in their order |
| `Exit`, `Start` | a process ends at any step and is started again, perhaps with the id of an older one |

`Refinement` is `AtomicStore`'s specification under the mapping `doc <-
Meaning(main)` (what the file says) and `state <- Status` (where the call is, as
its caller sees it): no update is lost, none is half done, none is applied to a
state another process had changed. `NothingOverwritten`: contents that cannot be
read are put aside before anything takes their place. `EveryCallReturns`:
whoever holds the locks and whoever ends with them.

### ScriptRunner — `commands/script.rs`, `tx_*` of the drivers, `src/src/scriptRun.ts`

One script in one session, run once and then resumed where its result page
offers it, beside a user who begins and finishes a transaction of their own. A
script is a sequence of writes, DDL, BEGIN, COMMIT and ROLLBACK; a mode says
whether it is a batch, goes on after errors, runs in one outer transaction, and
what becomes of a transaction it leaves open.

| state | code |
|---|---|
| `slot`, `txState`, `inTx` | the driver's explicit transaction: whose, whether DDL has ended it or an error aborted it, what is in it |
| `kept`, `before`, `stale` | what this run and earlier ones made durable; the caches do not know it yet |
| `pc`, `op`, `answer`, `seen`, `startAt`, `skipping`, `external` | the runner: its call under way, its place in the script |
| `active`, `pending`, `txBegin`, `unsafe` | `TxGuard`, `pending_in_tx`, `tx_begin_index`, `tx_restart_unsafe` |
| `wrote`, `committed`, `outcome`, `offer` | what is reported, and where the page offers to resume |
| `rollbackTask`, `invalTask` | tasks spawned by the destructors of a cancelled run |
| `uiTx`, `userOp` | the transaction bar, the user's command under way |

| actions | code |
|---|---|
| `Start`, `Resume` | the start, refused for a file while a transaction is open; the user takes the offer |
| `Exec`, `Begin`, `Finish` | the server, per driver: autocommit, statements in the transaction, MySQL's implicit commit, PostgreSQL's aborted transaction; a COMMIT whose answer is an error may have been done |
| `SkipStatement`, `TakeStatement`, `TakeControl`, `NestedBegin`, `ReadError` | `run_statement` up to its await; the guard is disarmed before COMMIT and ROLLBACK |
| `Begun`, `WrapFails`, `BeginFails`, `Succeeded`, `StatementFails`, `Committed`, `CommitFails`, `RolledBack`, `RollbackFails`, `BatchRolledBack` | ... and after it, with what a failure means in each mode |
| `CloseAtEnd`, `Closed`, `CloseFails`, `NothingOpen`, `Aborted`, `Invalidate` | the end of the run |
| `Cancel`, `RollbackTask`, `InvalTask` | the run is dropped at an await; its destructors' tasks |
| `ClickBegin`, `UserBegin`, `ClickFinish`, `UserFinish`, `UserAnswer` | the transaction bar |

`OwnTransactions`: no script and no clean-up of one ends the user's transaction,
and the interface shows one exactly when there is one. `NothingTwice`: a resumed
run repeats nothing that is durable. `ResumeExact`: a script that came to its
end, resumed or not, has made durable exactly what `Reference` computes for one
undisturbed run. `AllOrNothing`: the outer transaction keeps everything or
nothing. `ClaimHolds`: the count reported on a cancel is durable. `CachesFollow`:
after a run and its tasks the caches hold nothing it changed. `SlotFreed`: a
script's transaction does not stay in the session.

### RefreshPatch — `db/refresh_diff.rs`, `commands/query.rs`, `src/src/App.tsx`, `src/src/refreshPatch.ts`

A tab that repeats its query by itself. The backend keeps hashes of its last
result under an id; the tab ties the id to the array of rows it shows and asks
for a difference only as long as it shows that array.

| state | code |
|---|---|
| `db` | the table: the value of each row by its key (external) |
| `snap` | `RefreshSnapshotStore`: the snapshot of this tab |
| `task`, `aborted`, `prev`, `seen`, `answer` | the runs in the backend: `refresh_prev`, what was read, `snapshot_id` |
| `msgs` | what is on its way to a tab that still listens |
| `phase`, `victim`, `asks`, `base` | a call of `runQueryInTab`: whether it waits for the cancel of an older stream, whether it asks for a difference and from which snapshot |
| `rows`, `tag` | `tab.result.rows`, the id in the `WeakMap` |
| `streaming`, `cur`, `un`, `listening`, `stopping` | `tab.streaming`, `streamIdRef`, `streamUnlistenRef`, attached handlers, calls of `stopTab` |
| `edit` | an edit of a cell that is being applied |
| `torn`, `mute` | history: runs that could not send the tab the changes of their patch, or their closing message |
| `made`, `closed`, `truth`, `mixed` | history: what a snapshot was made of; what the last finished run had read; whether somebody else wrote the array |

| actions | code |
|---|---|
| `RunQuery`, `CancelReturns`, `Refused` | `runQueryInTab`, called by the user or the timer; it cancels first |
| `StopTab`, `StopReturns` | `stopTab`: detach, cancel, and only after that mark the tab |
| `BeginTask`, `Execute`, `Settle`, `ExecFails`, `Report`, `Drop` | `spawn_query_stream`: snapshot by id, rows or none, new snapshot, patch and `Done`, or an error; each of these three sends may fail, which is only logged |
| `Deliver` (`OnColumns`, `OnRows`, `OnPatch`, `OnDone`, `OnError`) | the handlers, `applyRefreshPatch`, `attachSnapshotId` |
| `EditStart`, `EditCommits`, `EditFails`, `EditLands` | a cell that is written at once, and copied into the rows when the server has answered |
| `Others` | other clients change the table |

`ShownIsTrue`: when a run has closed, the tab shows exactly what that run read,
and an array that carries the id of a snapshot is the result the snapshot was
made of. It excludes arrays that two writers reached, and rows whose patch was lost
while the `Done` after it was not (`mixed`, `torn`, section 6).
`StreamingHasEnd`: a tab that shows a running query has a call or a run that
will settle it, unless that run could not send its closing message (`mute`).

## 4. The runs

| run | instance | distinct states | question |
|---|---|---|---|
| `cache_calls` | 2 calls, 1 writer, 1 key | 29 000 | sharing, retry and cancellation against one invalidation: stale reads, double fetches, and every call returns |
| `cache_tables` | 1 call, 1 bulk fetch, 1 writer, 2 kinds × 2 keys, cap 1 | 535 000 | kinds cleared one after the other while single and bulk stores come in; the cap |
| `registry_conns` | 1 session, 2 reconnects, 2 disconnects, 1 producer, a transaction, mortal connections | 1 210 000 | ownership of connections, no resurrection, release |
| `registry_live` | 1 session, 1 reconnect, 1 disconnect, 1 start of a listener | 90 000 | the stream table, and that a listener ends with its session and with the user's stop |
| `stop` | 2 query streams (one timed), 1 timed dry run, 1 other user, pool of 2 out of 3 connections | 654 000 | whom a kill hits, what the pool gets back, timed runs end |
| `stream` | one run, up to 4 rows, both kinds | 25 000 | counts, completeness, what follows a commit, the stop ends |
| `tasks` | 1 task with an SSM profile, 2 runs, 1 retry, pause after 2 failures, 4 times, 1 upset | 153 000 | one run per firing, no overlap, sessions, edits and pauses kept, liveness |
| `store` | 2 calls in 2 processes, 1 element, 2 process ids, 3 temporary files, 1 upset | 443 000 | the atomic store is implemented, nothing unreadable is overwritten, every call returns |
| `script` | every script of 1 or 2 statements, of 3 that begins with BEGIN, 4 chosen of 5; 3 drivers, all modes, 3 runs, 1 transaction of the user | 1 640 000 | transactions, resumption, counts, caches, for every way a run can end |
| `refresh` | 1 row with 2 values, 3 runs, 1 change by others, 1 edit, 1 upset (a stop, a refusal, a failure, a message that cannot be sent) | 3 450 000 | what the tab shows is what was read; it never spins for ever |
| `stop_doc_preview`, `script_resume` | the smallest that shows it | – | the two differences of section 6 |

Why these bounds are enough to be telling. *Cache*: a stale read takes a leader, a
writer and a reader of the leader's result; a call that starts over is its own
third party. Kinds only interact through the order in which they are cleared, so
two are enough, and two keys tell a table from everything; a cap of 1 makes each
store evict or be refused. *Registry*: two reconnects and two disconnects cover
each pair of commands on one session; sessions share no state but the tables, so
one is enough. *Stop*: a kill needs a victim on the same connection; a pool of two
out of three connections makes runs wait, reuse a connection, and get a new one.
*Stream*: the batcher passes its first batch on at once and later ones when they
are full, when the ticker takes them or at the end, so four rows give one batch of
each kind. *Tasks*: tasks share nothing but the file, the loop that looks at them
one after the other, and the clock, so one task with two runs meets each
interference; an upset is a command that changes the file, a failed store
operation or an end of the process, and one falls on every step of every run.
Limit 2 with two runs makes a pause possible and not the normal case. *Store*: two
calls are the smallest lost update, two processes have two mutexes, and two process
ids let a new process meet the temporary file of an old one. *Script*: a
statement matters by its kind, by whether a transaction is open and by what
comes after it, which three statements show; the chosen ones of five have
statements before, in and after a transaction, DDL in it, and two transactions.
Three runs are two resumptions. *Refresh*: rows are patched key by key and only
through the snapshot their difference was made from, so one key with two values
and "absent" has each kind of change; three runs are a snapshot, a patch against
it and one that comes in between.

The names of calls, starts, connections and of the two values of a row are
symmetric; symmetry is used only in runs without a liveness property. Deadlock is not checked:
the instances have finite sets of calls that all end, and a state in which
nothing is left to do is the normal end. What is bounded is named in the modules:
`MaxRuns`, `MaxTime`, `MaxSeq`, `MaxWrites`, `MaxEdits`, `MaxBegins`,
`MaxUpsets`, and the finite sets of calls and commands.

### Fairness

* `KeyedCache.FairSpec`: each call that can take a step does (the runtime polls
  ready tasks; a driver answers or fails, it has timeouts). Not assumed:
  cancellation, expiry, writers.
* `SessionRegistry.FairSpec`: a command that was called runs to its end; the
  panel's second look is part of its start; the runtime drops an aborted task
  and polls an ended one. Not assumed: that a user stops, a listener ends, a
  connection dies or a command is called.
* `StatementStop.FairSpec`: timers fire (the query timeout, the drain limit,
  `KILL_TIMEOUT`) and a future that is to be dropped is dropped. Nothing is
  assumed of the server or the pool, and `TimedRunsEnd` holds all the same.
* `QueryStream.FairSpec`: the task is polled when it can go on, and dropped when
  it was aborted. Rows, the timer and the user are free.
* `TaskScheduler.FairSpec`: the loop goes on while the process lives, and each
  run takes its steps: a connect has a timeout, an action is cut off after
  `TASK_MAX_RUN_SECS`. Not assumed: that time passes, a command is called, a
  process that ended is started again.
* `JsonStore.FairSpec`: a call that can take a step does, and a lock that is free
  is handed to one that waits.
* `ScriptRunner.FairSpec`: the server answers, the runner is polled, a task
  spawned by a destructor runs. Nothing is assumed of the user.

`RefreshPatch` has no fairness: `StreamingHasEnd` says in each state who is going
to act, which a stuck tab violates at once.

## 5. What is proved

For every value of the constants that satisfies the named assumptions of each
module; `tlapm` checks every leaf.

| theorem | states |
|---|---|
| `TypeCorrect`, in each of the proof modules | `[]TypeOK`; so the runs leave the type invariants out |
| `KeyedCacheProofs`: `CacheNeverStale`, `ReadsNeverStale` | `[]CacheFresh`, `[]ReadsFresh` |
| `FlightsAlwaysLive`, `SharedFetchesFresh` | `[]FlightsLive`; the action property `SharedFetchFresh` |
| `FetchesSingleFlight`, `CapAlwaysRespected` | `[]SingleFlight`, `[]CapRespected` |
| `SessionRegistryProofs`: `NeverResurrected`, `ConnectionsAlwaysOwned` | the action property `NoResurrection`; `[]ConnectionsOwned` |
| `StreamsAlwaysExact` | `[]StreamsExact`, for any number of starts under one stream id |
| `NoListenerLeft` | `[]NoListenerAfterDisconnect`, if no stream id is used by two starts (the panel makes a new one for each) |
| `RemovalAlwaysReleases` | `RemovalReleases`, a property of two moments |
| `StopNeverLost` | once the user's stop and the panel's second look are done, the listener has ended or is aborted |
| `StatementStopProofs`: `KillsAlwaysHitOwn`, `PoolAlwaysClean` | `[]KillsHitOwn`, `[]PoolClean` |
| `NoConnectionLeaks` | a connection that is out of the pool and not closed is held by exactly one run under way |
| `QueryStreamProofs`: `CountsAlwaysExact`, `ClaimAlwaysCovers`, `KeptAlwaysAnnounced` | `[]CountsExact`, `[]ClaimCovers`, `[]KeptIsAnnounced` |
| `CommittedNeverDropped` | the safety half of `CommittedIsRecorded`: a captured write that committed is not dropped and its task does not end before it is recorded |
| `TaskSchedulerProofs`: `RunsStayApart`, `EveryDueFiresOnce`, `SessionsHaveOwners` | `[]NoOverlap`, `[]FiresOnce`, `[]SessionsAreOwned` |
| `MissedNeverRuns`, `PausedStaysOff` | `[]MissedIsSkipped`, `[]AutoPausedIsOff` |
| `EditsStay`, `PausesAreDeserved` | the action properties `EditsAreKept`, `PauseIsDeserved` |
| `GuardsNeverLeak` | the guards held are exactly those of the runs that are on |
| `JsonStoreProofs`: `FileStaysWhole`, `UnreadableIsKept` | `[]FileIsWhole`; the action property `NothingOverwritten` |
| `Refines` | `Refinement`: `JsonStore` implements `AtomicStore` |
| `LocksHaveHolders` | each lock is held by a call under way in a process that runs, the file lock only together with the mutex |
| `ScriptRunnerProofs`: `UserKeepsTransaction`, `ResumeRepeatsNothing`, `CachesAreInvalidated` | `[]OwnTransactions`, `[]NothingTwice`, `[]CachesFollow` |
| `ResumedRunIsExact`, `WrapKeepsAllOrNothing`, `ClaimIsTrue` | `[]ResumeExact`, `[]AllOrNothing`, `[]ClaimHolds` |
| `SlotHasOwner` | while a script holds the slot, something under way will free it |
| `RefreshPatchProofs`: `ShownAlwaysTrue`, `TabNeverHangs` | `[]ShownIsTrue`, `[]StreamingHasEnd` |

Assumptions: `CacheAssumption` (a cap of at least 1, scopes are sets of items,
`NoCall` is no call); `RegistryAssumption` (the kinds of processes are disjoint,
`None` is none of them, `StreamOf` and `KindOf` are functions into the right
sets); `DistinctKinds` and `NoneIsNothing`; `KnownKinds` and `SomeRows`;
`SchedulerAssumption` (some task, periods of at least 1, natural bounds);
`StoreAssumption` (some process and element, enough process ids for the processes
to differ); `ScriptAssumption` (scripts are sequences of the five kinds, modes
are those `validate_options` lets through); `Bounds` of `RefreshPatch`.

### Arguments

*KeyedCache.* `CacheFresh` is not inductive: it says nothing of a value that is
on its way. A value is *good for generation g* when it is at least as new as
each write of its item whose invalidation bumped the generation to g or less
(`GoodFor`). A value read after loading g is good for g, because a write commits
before it bumps (`FetchInv`, `BulkInv`). It is stored only if the generation is
still g; then every write that has bumped had bumped by then, so the entry is as
new as all of them (`StoredInv`, whose exception, kinds a writer has still to
clear, is what makes it hold during an invalidation). `GenInv` bounds the
generations in use, `WriteInv` gives the order within a write and `AckInv` ties
`acked` to a writer that is done. `ReadInv` adds what a call saw when it began.
For shared values `JoinInv` says that a waiter has the item and the generation of
its leader: the leader's value is good for the waiter's generation, and the
waiter takes it only if that is still the current one.
`LeadInv` says that before the first invalidation a leader is the one its key's
flight names, so a key has one. `MissInv` says that what is being fetched then has
no usable entry: `Recheck` has just seen that, and only the leader of that key, of
which there is one, could store it. `CapInv` adds to the cap that the entries are
finitely many and that a bulk answer is of one kind: the room left in that kind is
then enough for it, and removing entries never hurts (`FewerFit`). `BulkAnswer`
takes finite answers only, as a list is in the code; the constants may be infinite.

*SessionRegistry, connections.* A connection is handed from the reconnect that
opens it (`fresh`) to the table and from there to the one command that takes it
out and closes it. `ConnectionsOwned` alone does not exclude that two commands
close one connection, or that a fresh one is already in somebody's hands;
`TableInv`, `FreshInv` and `EarlyInv` do, and `OwnerInv` is the property itself.

*SessionRegistry, streams.* `EntryKept` (a live task that is past its
registration has its entry) and `EntryTrue` (an entry stands for a live,
registered task) imply each other's preservation when an id is reused, since
`register_stream` aborts what it replaces. Listeners: `Enlisted` (a waiting task
that was enlisted is listed or being taken), and `Doomed` (in a session that is
gone, somebody will stop it). The second is preserved when a session is removed
because the disconnect sweeps afterwards, and when a start goes past `Verify`
because it looks at the table after it enlisted: whichever comes second sees the
other one.
`StoppedInv` follows the two cancels of a user's stop: the second
comes after the start has returned, so that once both are done the stream id no
longer names that start's task, and by `EntryKept` the task is over or aborted.

*SessionRegistry, removal.* The product of a command that was stored before a
disconnect began cannot be stored again (`StoredOnce`). From then on it is where
the disconnect's program counter says: still to be dropped by the step that
empties its store, or gone. `RemovalReleases` is that, for each disconnect and
product.

*StatementStop.* A kill hits its own run because of who holds the connection:
one run at a time (`HoldInv`), the server works for the holder or on a
connection that nobody can borrow (`ServeInv`), a run that registered a backend
is armed (`ArmInv`), a backend id that may still be fired names the connection
held (`BackendInv`), and a kill on its way names a closed connection, or one
whose holder is waiting for it (`KillInv`). `AlteredInv` says only an armed
holder's connection has a changed timeout.
`HeldInv` is the way back from the connection to its run: one that is held has a
holder, and by `HoldInv` no second one.

*QueryStream.* Rows are somewhere: read = reached + pending + batch as long as
no send has failed (`RowInv`); the counter is what the channel took and the
batch being sent (`TallyInv`); `PhaseInv` says where in the task there is a
batch in hand, `VerdictInv` that nothing is sent after the closing message,
`ClaimInv` that the tab detached before the count was read.
`KeptInv` says that a result is stored when it is complete, and is still there
after the closing message only if that message said "done". `CaptureInv` goes
along the steps that follow a commit: past the stage the task is detached, so an
abort does not reach it, and each step finds the ones before it done.

*TaskScheduler.* Runs: a live run holds its task's guard, and what a detached
disconnect or a lost session belongs to is no longer executing (`RunInv`).
Firings: neither `FiresOnce` nor its history is inductive, because the tick works
on a copy. `DueInv` says that a due time that was taken up lies behind the clock,
behind the clock of the tick at work and before the next run of its task, in the
file *and* in the copy, as long as the task is still to be looked at (`Behind`); so
the next due time that is taken up is another one. That the next run is written
before the run starts is what keeps this through an end of the process.
`MissInv` says, while no store operation has failed since the start of the
process, which next runs lie before that start (those not `Fresh`): none in the
file after the first tick, only those of tasks still to be looked at during it, and
the one in hand only if missed runs are caught up. A step outside the tick makes
none (`OutsideTick`). `StreakInv` bounds a task's failures in a row by the failed
runs in the file since its last success. It holds because a result is settled
before it is written (`Judged`, `Settled`) and because the guard makes the runs of
a task end in the order they began.

*JsonStore.* One call at a time is inside the file lock (`LockInv`). What such a
call has read, changed and written so far is what the file still says, but for
the parts it is blind to (`CallInv`), because nobody else writes meanwhile. Hence
its rename is the abstract `Change`, applied to the present document; a repair
before that is `Forget` or a stutter, reading blindly is `Misses`, and all else
is a stutter or the call's own end. `FileInv` says a temporary file that is
renamed is whole.
`MutexInv` gives the order of the two locks: the process's mutex
is taken first and given back last, and both go with the process; hence whoever
holds one is a call that moves on, and no two wait for each other.

*ScriptRunner.* `SlotInv` says who holds the slot and who is still to free it: the
guard while it is armed, a COMMIT or ROLLBACK under way, or the task a cancel
left; and that none of them exists while the slot is the user's. `PlaceInv` says
where the durable statements lie: between the statement the run started at and
the one it is at, before what the page offers, and before the BEGIN that is kept
for a restart unless the restart is marked unsafe. `CacheInv` says that what the
caches have not heard of has set `wrote` or is about to.

*ScriptRunner, results.* `WrapInv` compares the statements that are durable or in
the transaction with those executed so far: in a run in one transaction they are
the same set, and where DDL commits nothing the durable ones are none or all.
`TallyInv` does the same with numbers: committed and pending are at most what is
durable, and at most what is durable or in the transaction. For `ResumeExact` the
run is compared with a *trace* (`IsTrace`): the states of one undisturbed run, a
function from the number of statements. `RefInv` says that at statement n the run
has made durable, with what earlier runs did, what the trace has there, and that
each place it may be resumed at is one where the trace has no open transaction
(`Restart`). That there is one trace only, that its durable statements never get
fewer, and that `Reference` is its last state are inductions over the script. The
library's induction takes an operator; `Induct` takes a set, and is proved from the
well-foundedness of < on the numbers (`WFMin`).

*RefreshPatch.* `ShownIsTrue` says nothing of what is on its way. `QueueInv` gives
the shape of a queue of messages: columns are followed by rows or an error, a
patch by `Done` with the same rows, each may be the last that was sent, and what
closes comes last; `LastSends` lists what a run sends when it ends. `RefInv` says
that whoever holds the id of a snapshot, the tab, a run that asks or answers or
the store, holds one that does not change any more (`Sealed`). `FitInv` says,
while no edit or second run got between, that one run at most writes the array,
and that the array is what this run's next message expects: empty for rows, the
base for a patch, the result for `Done` (unless the run is in `torn`), and the
base as long as the run may still ask for a patch. `TabInv` ties `cur` to a run
that is listened to, was not stopped and has not closed, or could not say so
(`mute`); a stop and a new run let go of it before anything else.

### Only model-checked

Liveness (`EveryCallReturns` of both modules, `ListenersEnd`, `TimedRunsEnd`,
`CommittedIsRecorded`, `StopEnds`, `RunsEnd`, `DueIsTaken`, `SlotFreed`) stays with
TLC: the prover handles neither fairness nor ENABLED. What such a property needs
and can be said without fairness is proved: somebody is always there to do what is
awaited, and nothing that was promised is dropped (`FlightsAlwaysLive`,
`LocksHaveHolders`, `SlotHasOwner`, `GuardsNeverLeak`, `CommittedNeverDropped`,
`StopNeverLost`, `NoConnectionLeaks`).

Every safety property of the passing runs is a theorem. One of them is proved for
less than all instances: `NoListenerAfterDisconnect` for stream ids that are used
once only, as the panel's are. With an id that two sessions use it does not hold,
since the second start replaces the entry of the first. No module declares a
RECURSIVE operator, which would cost the prover its arithmetic; `Reference` in
`ScriptRunner` is a recursive function.

## 6. Where the code and its documentation differ

Two of them are runs whose property states what a comment says.

* **The second stop of a dry run may hit somebody else's statement**
  (`stop_doc_preview`). `server_stop.rs:213-215` says the connection cannot be
  used again before the kill arrives. The stop at `commands/query.rs:2046` does
  not wait.
* **A script may be started again at a BEGIN whose statements are durable**
  (`script_resume`). `commands/script.rs:873-876` and `src/src/scriptRun.ts:191-192`
  say the restart repeats what was rolled back. MySQL commits the open
  transaction before it executes DDL, also when the DDL then fails; the flag that
  forbids the restart is set only after DDL that succeeded
  (`commands/script.rs:1091-1095`). `NothingTwice` therefore speaks of failing
  DDL that commits nothing.

Others a document contradicts, noticed while modelling and without a run of their
own:

* `cache/mod.rs:508` promises a call after an invalidation no stale value. A
  leader that loads the new generation before its kind is cleared finds the old
  entry in its second lookup (`cache/mod.rs:576`) and publishes it to a call that
  begins after the invalidation. What is *fetched* and shared is never stale
  (`SharedFetchFresh`).
* `commands/listen.rs:170` says a reconnect during the registrations of a listener
  is noticed. The check at line 171 only asks whether the session id is still
  registered: the listener may stay on the old connection (`dialed`).
* `commands/query.rs:1568-1575` excludes that a captured write is reported as
  failed and is written; a statement that the recorder declines runs in autocommit
  under the same timeout (`db/mod.rs:2135`).
* `tasks/mod.rs:274-276` describes what is done with firings that were missed
  while the application was closed. A first tick that cannot read or write the
  store leaves them to the next tick, which runs them without `catch_up_missed`
  (`tasks/scheduler.rs:124`; `origin` "broken", excluded in `MissedIsSkipped`).
* `tasks/store.rs:120-121` says elements that cannot be parsed are kept. If the
  second read of a save fails they are taken for none (`blind` "raw").
* `refreshPatch.ts:14-16` says the snapshot id falls off an array that was edited.
  An edit that lands while a patch is on its way changes the array, the patch is
  applied to it, and the new id attached to the outcome (excluded by `mixed`).
* `src/src/refreshPatch.ts:13-16` and `db/refresh_diff.rs:12-14` say that an id is
  valid for the array it was computed for, and for no other. When the patch message
  cannot be sent that is only logged, and `Done` follows with the new id
  (`commands/query.rs:1438-1461`): the id is attached to the old rows, and the next
  patch is applied to them (`torn`, excluded in `ShownIsTrue`).
* `tasks/executor.rs:166-167` says no connection stays when the future of a run is
  dropped. A cancel while the keepalive of an SSM session is being started comes
  before the guard is armed and leaves the session (`adrift`, excluded in
  `SessionsAreOwned`).
* `src/src/App.tsx:5204-5212` wants to prevent two writers of a tab. Run pressed
  twice while a stream is on: the first call waits for its cancel (line 4835), the
  second starts at once, the first then overwrites `streamIdRef`, and both
  listeners patch the tab (excluded by `mixed`).

Behaviours of the models with no document that says otherwise:

* *Registry.* A reconnect that finds the old connection dead or slow replaces it
  without looking at a transaction that was opened since the check
  (`commands/connection.rs:731`). A command that is still running when its session
  is disconnected stores its result afterwards and nobody releases it
  (`commands/query.rs:1356`, `state.rs:511`); `RemovalReleases` therefore speaks
  of what was stored before the disconnect began.
* *Cache.* A call that loaded an older generation may replace a newer flight in
  the in-flight table; two calls then fetch one key. `SingleFlight` therefore
  speaks of the time before the first invalidation. A write that is aborted after
  it took effect invalidates nothing (`commands/query.rs:1413`); `CacheFresh`
  speaks of invalidations that finished.
* *Stop.* When a batch cannot be sent, the run ends without firing the server's
  stop: the connection is closed and the statement runs on (`db/mysql.rs:295`).
  The kill itself borrows from the pool it frees (`db/mysql.rs:1987`): with every
  connection busy it waits, and is lost after its timeout.
* *Stream.* A result handle stored by a run that is cancelled before its last
  message is left in the store; `KeptIsAnnounced` speaks of runs that end.
* *Tasks.* `RUNNING` is per process, so two instances of the application may run
  one task side by side. A tick's old copy may start a task that was disabled or
  deleted since. An end of the process between the write of the next run and the
  start loses that firing, by design. `apply_run_result` clears the next run when
  it pauses a task, also after a run by hand. A tick's old copy may write the next
  run of the old schedule over the one saved with a new schedule
  (`tasks/scheduler.rs:198`); `EditsAreKept` does not speak of next runs.
* *Store.* `Path::exists` answers "no" when it cannot tell: the file is then taken
  for absent and written anew (`blind` "tasks"). A temporary file of an older
  process with the same process id costs one save, which returns an error.
* *Script.* After a COMMIT that failed in a run that goes on after errors, the
  statements of that transaction stay counted (`ClaimHolds` excludes it); what
  MySQL's DDL commits is counted too late. A cancel while START TRANSACTION is
  under way returns a connection with a transaction to the pool (`db/mysql.rs:172`).
* *Refresh.* A closing message that cannot be sent is only logged: the tab shows a
  running query until the user stops it (`mute`, excluded in `StreamingHasEnd`).
  `stopTab` clears the
  mark of a running query after its await, also that of a run that was started
  meanwhile. A run that is refused late detaches whatever listener is current
  (`src/src/App.tsx:5237-5261`). A cell written at once lands by its row index from
  before the awaits (`src/src/App.tsx:7918`), after a refresh in another row.
* *Connection bar* (`src/src/App.tsx`, read and not modelled): a health check that
  is answered after the user switched sessions (11340-11363), a reconnect loop
  that was superseded (4490-4495, against its comment at 4446-4448) and the
  `finally` of an older connect each touch the state of the newer attempt; two
  connects to one profile leave the first session behind.

## 7. What is not modelled

Within the modelled files:

* *Session registry*: connect attempts, health probes and the SSM keepalive
  (`state.rs`, `commands/connection.rs`).
* *Streaming queries*: `run_query` without a stream, paging over a result handle.
* *Server-side stop*: the SQLite side, which stops by a flag of its own file;
  everything in the drivers that is not the stop, the captured write or the
  transaction slot.
* *Explicit transactions*: savepoints, and statements the user runs in a
  transaction; `ScriptRunner` has its begin, its end and its place in the slot.
* *Tasks*: what an action does (a script, an export, a dump, a notification) is
  one step; the profile that a retry reads again; a failing write of
  `task_runs.sqlite`; calendars (`next` adds a period).
* *Stores*: the loss of a rename in a power failure; the steps of a copy to a
  backup. The other stores follow the same pattern and have no module of their own.
* *Scripts*: a forced reconnect during a script, double clicks on the transaction
  bar, `skip_statements` and a resumption that leaves the failed statement out,
  options changed between two runs, the answer of a statement that is lost outside
  COMMIT, a deadlock for which InnoDB rolls back the whole transaction.
* *Refresh*: the order of rows, repeated keys, changed columns, batches of rows,
  the priorities of React's updates; a cancel and its second try are one step.

Components without a module are listed in section 1 with the planned module, or
without one: exports, dumps, formatting and child processes are I/O; comparison,
classification, search, masking and the advisor are functions of their input
without state or concurrency; the AI client and the AWS parts are protocols of
outside services; most of the user interface, more than half of the lines of the
repository, is presentation and translation tables. The share of the code that
the modules stand for is therefore small; it is the part where steps of several
actors meet.

## 8. Plan

In this order, each with its runs and its proofs module.

1. **ConnectAttempt** (`state.rs`, `commands/connection.rs`, `src/src/App.tsx`): an
   attempt is cancelled at any step and leaves no session and no tunnel; the
   connection bar shows the session that is current.
2. **ExplicitTransaction** (`commands/query.rs`, `db/savepoint.rs`), over the slot of
   `ScriptRunner` and the connections of `SessionRegistry`: no silent roll back,
   the savepoints the user sees are the server's.
3. **FlightRecorder** (undo, redo, the guard on rows changed since), with bulk
   captures; **Sandbox** write-back; **BulkWrite** with import and transfer.
4. **ProfileSecrets** over `AtomicStore` and a keyring; **KnownHosts**.
5. **ResultStore** (limit and eviction order, composed with `SessionRegistry`'s
   `Release`).

What can go wrong in the planned parts, beside the hazards `PROJECT.json` lists:

* `tasks/executor.rs:220` — A retried connect reads the definition again after
  its wait: it must stop for a deleted or disabled task, and not for a file that
  could not be read.
* `tasks/schedule.rs:116` — The next daily time over weekday masks, time zones
  and hours that a clock change skips or repeats must lie after now.
* `commands/connection.rs:327` — Between the registration of an SSM session and
  its keepalive lies an await: a session that is dropped there gets none, one
  that is disconnected there must end it.
* `commands/query.rs:690` — While a transaction is open, other commands read and
  cache through the pool what it may change; everything cached then must be gone
  after it is finished.
* `commands/query.rs:752` — Savepoints are kept by the server and mirrored by
  the interface; rolling back to one, releasing one and a failed statement must
  keep both in step.
* `commands/profiles.rs:400` — The secrets of a profile are in the keyring and
  its settings in a file: one is written and the other fails, or two saves of
  one profile run at the same time.
* `ssh/known_hosts.rs:31` — The file of host keys is guarded by a mutex of the
  process only: two processes can lose an entry.
* `commands/flight_recorder.rs:352` — Two undos of one record both find it not
  undone and apply the reverse statements twice.
* `commands/flight_recorder.rs:397` — The reverse statements are committed and
  the record cannot be marked, so that it is offered for undo again.
* `commands/flight_recorder.rs:555` — A batch undoes its records without looking
  at rows that several of them touched.
* `flight_recorder/store.rs:216` — Retention and the limit of bytes remove
  records, members of a batch among them, but never pinned ones.
* `commands/sandbox.rs:945` — The difference is written to the source and the
  base is advanced by a second call: if that never comes, the next difference
  shows the same rows again, as conflicts or not.
* `commands/transfer.rs:500` — After a cancelled transfer the table it made must
  be dropped before the caches are invalidated and the history is written.
* `db/result_store.rs:172` — The memory limit of the results has to hold after
  every insert, and only results used longest ago may go.
* `commands/flight_recorder.rs:387` — The conflicts of an undo are found by
  reading the rows first and applying the reverse statements later, in another
  transaction: rows may change in between.
* `commands/sandbox.rs:697` — Conflicts with the source are found when the
  difference is shown; it is written back later, when the source may have
  changed again.
* `state.rs:635` — A connect is cancelled before it is registered, or after it
  has finished: nothing is found, and the session exists although the user gave
  up.

Abstract specifications worth stating, beside `AtomicStore`: a *fresh register* (a
read returns a value no older than what was acknowledged before it began)
implemented by `KeyedCache` without its shared hits; a *table of cancellable
tasks* (a task is absent, running or over; cancelling makes it over) implemented
by the stream side of `SessionRegistry`.

Theorems next: the two refinements above, `NoListenerLeft` for ids that are used
again by one session, and the invariants of the modules planned here.

Runs: one run per question. As modules are added, runs whose questions the
theorems of section 5 already answer for every instance are folded into their
neighbours, so that the whole project stays quick to check.
