# Formal models of SEP

TLA+ modules, TLC configurations and TLAPS proofs for the parts of SEP whose
correctness depends on what runs at the same time. The reference is the code
under `src/`; every definition that models code is listed in `PROJECT.json`
(`map`) with the lines it translates.

Check one configuration with `tlc -config MCLogWriter.cfg MCLogWriter`, the
proofs with `tlapm M.tla` for each of `LogWriterProofs`, `LogStoreProofs`,
`NomadLogSyncProofs`, `NomadLogProofs`, `TaskSyncProofs`, `DispatchProofs`,
`AppDrainProofs` and `AtwSendProofs`.

## 1. Inventory

SEP is three FastAPI services (tasks, inventory, SEP itself with its apps) and
their Celery workers over SQL databases, plus Nomad, PMM and an identity
provider as external systems. Concurrency comes from Celery workers and API
requests that work on the same rows, each in its own session.

| Component | State | Operations | Interacts with | What makes it correct |
|---|---|---|---|---|
| **Log store writer** `app/tasks/logs/log_writer.py`, managers in `app/tasks/crud.py` | per stream a state row (offsets, epoch, staging, version), chunk rows, the epoch mark of the task history | `append`, `drain_and_reset_allocation_frontier`, eviction | called by the Nomad sync, the Celery executor and failed dispatches | chunks tile the log; accepted bytes never change; superseded bytes never land; no lock is kept |
| **Nomad log sync** `app/tasks/execution/executors/nomad/models.py` | tracking data of the task history, cursors in the state rows | `_sync_task_history`: resolve, migrate, reset, fetch, append, drain, save | Nomad, the writer, `sync_queue_item` | every byte of an allocation arrives once, in order, and all of it before the task is finished |
| **Task status sync, stop, chains** `app/tasks/celery.py`, `routes.py`, `execution/models.py` | status, `sync_in_progress_started_at`, chain metadata | periodic claim, `sync_queue_item`, sync route, stop route, `maybe_dispatch_chain` | Nomad log sync, dispatch | the end of a job and a stop are recorded for good; one claimed sync per task; the next task of a chain starts once |
| **Task dispatch** `app/tasks/celery.py`, `routes.py` | history rows, dispatch locks, queued messages | execute, schedule, stop before the start, expiry, retry, dispatch | executors, chains | no two identical running tasks; one job per row; no job without a row; no lock without a holder |
| Nomad executor, jobs and files | none of its own | register, dispatch, stop, list files | Nomad HTTP API | |
| Celery executor | tracking data | run a callable, store its output | writer | |
| Log reader `logs/log_reader.py` | none | tail offsets, NDJSON stream | chunk rows | the tail starts at a line |
| Task CRUD, retention, log purge | rows | create, list, purge | cascades to logs | |
| Periodic tasks, beat | beat rows | CRUD | Celery beat | |
| Connectivity checks | cached results | probe, poll | dispatch | |
| Anonymizer | none | redact text | log sync | |
| Run results, annotations, alert hooks | rows, external events | after a save | PMM, alert providers | |
| **App lifecycle and drain** `app/sep/app_drain.py`, `api/routes/app_state.py`, `periodic_tasks.py` | lifecycle state, running-task rows, `enabled` of the beat schedules | enable, disable, force-disable, task start and end, finalize, reconcile, re-gate | Celery signals, routes, beat database | a disabled app runs nothing it was running before; schedules follow the state; ENABLING ends |
| **Settings overrides** `app/core/settings_override` | override rows, one snapshot per process | refresh, publish, change callbacks | every service | a snapshot never goes back in time |
| **ATW diagnostics send** `app/sep/apps/atw` | send rows, bundle files | request, enqueue, send, stale sweep, delete | drain, bundle upload, tasks API | a bundle reported as failed was not delivered |
| Bundle upload, inventory sync, snippets | rows, plans | upload steps, compare and apply, import | remote APIs | |
| Inventory service, app framework, plugin apps, authentication, HTTP clients, middleware, migrations, frontend | rows or none | CRUD, rendering | | |

The hard behaviours are in bold: sessions that read a row and write it later,
locks with a time to live, crashes between two commits, a job that moves to
another allocation, logs that arrive after the job ended. `PROJECT.json`
(`hazards`) has each at its line; the ones no property covers yet name the
planned module.

## 2. Plan

1. `LogWriter` with the abstract `LogStream`, its proofs, and `NomadLogSync` on
   top of it. **Done.** These carry the most intricate protocol of the system:
   optimistic versions, a row lock for one path only, epochs, two kinds of
   offsets, and crash recovery by cursors. The proofs go through to the syncs and
   to what they leave stored.
2. `TaskSync`: the claim with `SYNC_LOCK_TTL`, `sync_queue_item`, the sync
   route, the stop route, the connectivity poll and chains over one status row.
   **Done** with the proofs of its safety; its composition with the logs is left.
3. `Dispatch`: from a request to a running job: the dispatch lock with its 30
   seconds, the identical-task check, messages that expire, are retried or come
   twice, executor calls that fail or crash. **Done** with the proofs of its safety.
4. `AppDrain`: lifecycle, running-task rows, finalize, reconcile and the gate of
   the periodic schedules. **Done** with proofs.
5. `AtwSend`: the tasks of one app on top of `AppDrain`, of which it is proved to
   be an implementation. **Done** with proofs.
6. Left: `SettingsOverride` (refresher against publish), the log reader's tail
   computation, and the composition of `TaskSync` with the logs and with `Dispatch`.

## 3. Modules

### LogStream

What the store promises, without rows or sessions: per stream a set of placed
bytes and a high-water mark. A step appends to one stream and may evict bytes
more than `StreamCap` behind the end.

### LogWriter

| Model | Code |
|---|---|
| `rows` | `TaskHistoryLogState`, version 0 standing for "no row" as `build_default` does |
| `chunks` | `TaskHistoryLog`, keyed by start offset |
| `mark`, `lock` | `TaskHistory.log_allocation_epoch` and its `FOR UPDATE` lock |
| `pc`, `call`, `target`, `seen`, `tries` | the frame of one call: arguments, the rows it read, its lost races |
| `BeginAppend`, `ReadRow`, `LockFirstInsert`, `WriteRow`, `LoseRace` | `append` |
| `BeginReset`, `ResetLock`, `ResetList`, `ResetWrite`, `LoseDrain` | `drain_and_reset_allocation_frontier` |
| `Abort` | the session dies or an exception rolls back |

A step is what runs between two database round trips that other sessions can
interleave with. The chunk inserts, the version swap, the eviction and the commit
of `append` are one step (`WriteRow`): they are one transaction whose effect shows
at its commit, and whether it commits is decided by the version. Likewise for
`ResetWrite`. A lost race is a rollback (`LoseRace`, `LoseDrain`).

Abstractions. Bytes are values; the split of a chunk is at `ChunkBytes` exactly,
whereas the code moves it back by up to three bytes to a codepoint boundary,
which changes the size of a chunk and nothing the properties see. The age of the
staging buffer is a choice: an existing row may be found older than `MAX_AGE_SEC`
or not. A session that reads a stale row from its identity map or its database
snapshot is a session that read earlier: the version check covers both. On SQLite
the row lock does nothing and the database serialises writers instead; the model
is that of PostgreSQL and MySQL. Deletion of a task history is not modelled.

### NomadLogSync

Extends `LogWriter`: the state of the writer plus Nomad (`alloc`, `written`,
`dead`), the committed task history (`tracked`, `legacy`, `status`) and one sync
frame per session. The actions follow `_sync_task_history`: `StartSync` loads the
row, `Resolve` or `ResolveNothing`, `ListLegacy` and `Backfill`
(`backfill_legacy_logs`), `Reset`, `Offsets`, `Fetch`, `WriteDelta`, `Poll` (the
drain), `ListRows` and `FlushRow`, `Save`. Every append or reset is the writer's
own call: the sync goes on when the call is at rest (`At`), and raises when it
raised (`Raise`). Syncs of one session are sequential; two sessions are two
overlapping syncs, which the code allows once a claim is older than
`SYNC_LOCK_TTL`.

External: `LogmonWrites`, `Schedule`, `JobDies` and `JobPurged` are Nomad. An
allocation is named by its `CreateIndex`, which grows. The log file of an
allocation only grows, and `logmon` may write after the job is dead. Once the
terminal drain polls, a stream it has read nothing of may still begin, between any
two steps of the sync, in time for a poll that Nomad answers (`MayBegin`). That is
what `terminal_log_drain_interval` and the number of attempts are for: with later
writes no bounded drain could be complete. A stream that goes quiet after the drain
has read from it and then writes again is cut off by the code (the drain stops once every
stream has advanced and one poll was quiet) and is not modelled. A refused request is a
choice per stream, bounded by `MaxFetchErrors`.

Abstractions. Redaction maps a byte to itself, so the raw and the redacted offset
differ by what is withheld only; `LineEnds` says after which bytes a line ends.
Decoding is the identity on bytes: a fetch that ends inside a codepoint is not
modelled. The status is RUNNING, DONE (anything the allocation tells) or LOST
(anything its absence tells); a job that disappears between the two requests of
one `Resolve` is merged with one that disappears before or after. The streams of
one sync are written in any order, the code's fixed order among them. Every
stream of the model belongs to a started step. A stop is not modelled here.

### TaskSync

One task history row that has been dispatched, and everybody who writes its
status.

| Model | Code |
|---|---|
| `status`, `claimed` | `TaskHistory.status`; `sync_in_progress_started_at` set and younger than `SYNC_LOCK_TTL` (both claimants treat an older one as none) |
| `kind` | `_chain_task_names` and `_chain_on_failure` in the request's metadata; `"check"` is the task of a connectivity check |
| `queued` | `sync_task_history` messages in the broker |
| `frame` | the step of each worker or request and the status of its in-memory row |
| `SyncRunningItems`, `EnqueueFails` | `sync_running_items` |
| `Take`, `ClearClaim`, `Reload`, `Execute`, `SaveSync`, `RefreshAndChain` | `sync_queue_item`, `save`, `maybe_dispatch_chain` |
| `RouteLoad`, `RouteClaim`, then the same three, `RouteRaises` | the sync route |
| `StopLoad`, `Deregister`, `Execute`, `StopSave` | the stop route and `stop_task` |
| `Poll`, `Execute`, `PollSave` | the loop of `check_connectivity` |

A step ends at a commit or at a read that another process can make stale.
`save` commits the flagged columns by id and then reads the row back: these are
two steps, since the chain is decided by the second. The stop and the poll flag
no status column, so their saves write the status only where it differs from the
one they loaded.

External: `Finish` and `Purge` are Nomad. `job` is the status a sync would
derive from it: the allocation and the job are read one after the other, but a
mixed reading amounts to the earlier or the later one. LOST and STALE take the paths
of FAILED. A sync may derive FAILED of a job that is not over: one without an
allocation whose evaluation is blocked, not pending (`models.py:951`). `Verdicts`
has both, and a row given up so stays FAILED while its job goes on; `Dispatch` says
what becomes of that job. The claim does not name its holder, so `disowned` records that one was
dropped (by its time to live, or by a route that failed after its commit) while
the sync it stands for was under way, and `misread` that a sync read back what
another writer made of its row; both only appear in properties.

Not in the module: what a sync does to the log (`NomadLogSync`), stopping a
PENDING task, deletion of the row, building the chained task, alerts and
annotations.

### Dispatch

A set of task histories, some with an eta, some asking for the same thing (`KeyOf`),
and the processes that dispatch them.

| Model | Code |
|---|---|
| `status`, `track` | `TaskHistory.status`; `job_id` and `celery_task_id` of its tracking data |
| `lock` | `DispatchLock` rows by name; the name is the hash of the request (`Key`) |
| `queue` | `execute_task_queue` messages with their retries |
| `proc` | what a worker or handler is doing, with the history it holds in memory |
| `started`, `live` | the Nomad jobs registered for a history; those still registered and not over |
| `pending`, `blocked` | those of them with a pending evaluation; those whose evaluation found no room |
| `stopping` | stop requests under way: of a PENDING row, or of a job |
| `Execute`, `Schedule`, `Enqueue`, `SaveCeleryId` | `execute_task_name` with its two branches; `Execute` also stands for `execute_task_by_name` and a chained task |
| `StopLoad`, `StopDelete` | the stop route on a PENDING row |
| `StopJob`, `StopSave` | `stop_task` on a RUNNING one: deregister, then save STOPPED |
| `SyncEnds`, `SyncGivesUp` | what a sync finds of the tracked job: its end, or neither an allocation nor a pending evaluation |
| `Take`, `Retried`, `Expire` | `execute_task_queue`, `autoretry_for`, `task_revoked_handler` |
| `GateFails`, `Refuse`, `Lock`, `Check`, `Unlock`, `Fail` | `dispatch_queue_item` |
| `LockFails`, `UnlockFails` | `DispatchLockManager`'s `delete` and `create` before the `try`, and the `delete` of its `finally`, that raise before or after their commit |
| `StartJob`, `StartFails`, `Save`, `FailAfterStart` | `NomadExecutor.dispatch_task` inside it |

A step ends at a commit, at a call to Nomad or the broker, or at a read another
process can make stale. The lock row has an age (`AgeLock`: 30 seconds passed), not
an owner: the next dispatch deletes an old one, and a holder deletes whatever row
has its id. SQLite gives a deleted id again, PostgreSQL never does (`FreshId`); both
are checked. The ghosts say what happened to whom: `unguarded` keys lost their lock row
under a working holder, `leaked` ones have a row that a death, a `create` or a
`delete` that raised left behind, and `abandoned` jobs were given up by a sync.

A sync, and a stop up to its deregistration, is one step here: what overlapping syncs
do to the row is the subject of `TaskSync`. Which of them comes between which steps
of a dispatch is free. External: Nomad's evaluations (`Evaluate`), the broker
(`Redeliver`), death of a process (`Crash`). A job ends in the step that first sees
it over (`SyncEnds`, `StopJob`), since nothing else looks at it. A message whose worker died is not delivered again: Celery
acknowledges early, and the code sets no `acks_late`.

Abstractions. Two histories have the same key or not; the comparison of the JSON
fields is taken to agree with the hash. DONE is every terminal status. A history
that is refused before it has a row leaves none. The session of the execute route
reads and writes in one transaction where nothing commits between; MySQL's snapshot
reads inside it are not modelled.

### AppDrain

The life cycle of one app. Apps share no row, so one stands for each.

| Model | Code |
|---|---|
| `state`, `rows` | `AppState.lifecycle_state`, `AppRunningTask` rows |
| `armed` | `PeriodicTask.enabled` of the app's schedules, in the beat database |
| `Start`, `End` | the `task_prerun` and `task_postrun` receivers, and `track_app_task` |
| `Count`, `Flip` | `finalize_drain_if_complete`, run by a request, a task's end or the reconciler |
| `Reconcile` | `_reconcile_disabling_apps`: any rows may be older than `stale_task_ttl` |
| `Ask`, `Write`, `Refresh`, `GateRead`, `GateWrite` | `update_app_state` with `apply_effective_enabled` |
| `AskForce`, `Delete`, `ForceDisable` | `force_disable_app` |
| `Restart` | `sync_app_periodic_task_gating` when a process starts |

Every statement of a handler is a step: neither route takes a lock, the write of the
state does not compare it with the one that was checked. Tasks that `should_cancel`
stops are tasks that end. A revoked task dies (`Die`) or ends first. External: beat
(`SendTask`), a worker or handler that dies (`Die`, `HandlerDies`, `DriverDies`), a
receiver whose exception Celery logs (`StartUncounted`). The user's own toggle of a
schedule is left on.

### AtwSend

Extends `AppDrain`: a send is one of the app's tasks, the sweep is its periodic
task. `Request`, `Enqueue`, `EnqueueFails`, `Refuse` are `atw_start_send_job`;
`StartSend` to `Raise` are `send_incident_diagnostics` and `run_send`; `StartSweep`,
`FailStale`, `EndSweep` are `purge_atw_bundles` with `fail_stale_sends` (any active row
may be older than `stale_send_after`);
`DeleteIncident` cascades. Each send step that starts, ends or kills the task is the
step of `AppDrain` with what it does to the send row, so tasks are counted, drained
and terminated as there. The `fate` of a send says what the receiver and the readers
of the row were told, and in which race it happened. The upload is one step with
four outcomes (delivered, failed before the receiver had it, delivered and the
answer lost, the process died); its steps over HTTP are not modelled.

### Proof modules

`LogWriterProofs` (the invariants of the store), `LogStoreProofs` (its refinement
of `LogStream`), `NomadLogSyncProofs` (both, under the syncs that call the store),
`NomadLogProofs` (which bytes the syncs leave stored), `TaskSyncProofs`,
`DispatchProofs`, `AppDrainProofs` and `AtwSendProofs`: lemmas and theorems,
section 5.

## 4. Runs

| Run | Instance | Shows |
|---|---|---|
| `log_writer` | 2 sessions, 1 stream, 2 allocations of 2 bytes, chunks of 2, cap 2, one evicted row at a time, 2 attempts, up to version 3 | type, lock ownership, tiling, the inductive invariant, the epoch check up to the commit, the refinement of `LogStream`, and that every call ends |
| `reschedule` | 1 session, 2 streams (one anonymized, its first byte ends a line), 2 allocations of 2 bytes, 1 of them in the old format or none, 2 drain polls | each byte once but for those of the old log, in order, the last log complete |
| `crash` | 1 session, 2 streams of 2 bytes, 3 drain polls, 1 abort, 1 refused request | no byte twice, no hole and a complete last log through a crash, a refused request and a stream that begins while the drain polls, and a dead job is recorded |
| `overlap` | 2 sessions, 1 stream of 3 bytes, 2 attempts | no hole in a log, and the inductive invariant `LogSyncInv` |
| `overlap_migration` | the same with 1 byte of the old format | violated: section 6 |
| `legacy_twice` | 1 session, 2 bytes, 1 of them in the old format | violated: section 6 |
| `overlap_twice` | 2 sessions, 2 bytes | violated: section 6 |
| `unsaved_tracking` | 1 session, 2 allocations, 1 abort | violated: section 6 |
| `task_sync` | 1 worker, 1 route, 1 stop, 1 connectivity check, all kinds of chain, 1 failure, 1 early expiry | the inductive invariant; one sync at a time and one chain dispatch while claims hold, a verdict does not become RUNNING, a success is chained, the end of a job and a stop are recorded for good |
| `terminal_again` | 1 worker, 1 stop, no failure | violated: section 6 |
| `dispatch` | a scheduled and a direct history of one request, 2 processes, SQLite and PostgreSQL, 1 retry, 1 fault | identical histories do not run together, a row has one job, a running row names it, a lock row has its holder or was left by a named cause, deleted rows stay deleted, and a registered job has a row that follows it or was lost or given up by a named cause; with stops and syncs between the steps of the dispatches |
| `atw_send` | 1 send, the sweep, 1 admin with 2 requests, the reconciler, 1 fault | drains complete, ENABLING ends, schedules follow the state, a failed send was not delivered, and `AppDrain` is implemented |

Why the bounds are enough. Two sessions suffice for every race of the writer: a
step depends on one row, one lock and one mark, which a second session can move
at any point, several times (the other session starts new calls while the first
one waits). Logs of two or three bytes with chunks of two or three give a full
chunk, a remainder, an empty remainder and a remainder above and below
`MinFlush`; a cap of two bytes with one row per eviction makes eviction lag
behind. Two attempts reach both the retry and the give-up. Versions up to 3 allow
an insert, an append and a reset in any order and one more call on top;
`MaxVersion` bounds only the start of new calls. One abort lets a sync die at any
step, between any two streams, at any time of the job, with a refused request
before or after; more rest on the theorems. Two streams and three polls with one
refusal are the least in which a stream can begin late, while the drain waits for
the other. `ChunkBytes` is 3 in `reschedule`, where logs are 2 bytes long, so that
bytes stay in staging over several calls. Two overlapping syncs get 3 bytes:
with a migrated byte, what one of them stored and what the other skips, that is what
`overlap_migration` takes, and a log of two bytes hides it. `StreamCap` is 100 in the sync
runs: with eviction `PrefixKept` would not be meaningful. `MaxVersion` is not
used there; the number of bytes and allocations bounds the run.

In `task_sync` one worker and one route are two syncs that can overlap, loop
without bound and take each other's claims; a second worker and a second stop
request add no kind of step (the safety properties also hold with them). A stop
is one request: repeated stops of an allocation that is slow to end would only
repeat the race. `MaxAborts` is one failure of any process at any step, a message
that was never sent included.

In `dispatch` two processes and two histories of one key make every pair of
concurrent dispatches: lock against lock, check against save, a retry against a
stop. A third process only adds a second thief of the lock, which the theorems
cover. One fault is a crash, a failed save, a lock statement that fails before or
after its commit, or a redelivery; that they add up to
nothing worse rests on the theorems. Three lock ids are enough for fresh ones with two processes. In
`atw_send` two requests are a disable followed by a force-disable, or by an enable,
in every position; one admin cannot overlap itself, so the clauses about
overlapping requests and deaths of several handlers rest on the theorems, which
hold for any number. One fault is one death or one uncounted task.

The runs switch deadlock detection off: the instances stop when the bound is
reached or the task is finished. What must go on is stated as liveness.

Fairness. `CallsEnd` assumes that a session that can go on does, and strong
fairness of the two steps that take the row lock: the database serves lock
waiters in turn. `DeadJobFinishes` assumes weak fairness of starting and stepping
syncs: Celery beat schedules `sync_running_items` again and again and workers run
what they take. Nothing is assumed of Nomad. Aborts and refused requests are
bounded by constants, since a sync that fails for ever never finishes. `TaskSync` assumes weak
fairness of beat, of taking messages, of every request and worker that has begun
(dying is a step of its own), and of time passing for a claim nobody works
under; of Nomad only that a deregistered job ends. No request has to come, and a
task may run for ever.

Every property has a mutant in `PROJECT.json`: a plausible defect of the code
(a lock kept on an early return, an unlocked read, a drain or an append that
ignores the version, a cursor reset or set to the end of the file, a missed
reschedule, a drain that looks at one stream only or never counts its attempts,
a claim without its status filter or
without its age, a stop that leaves the job registered, a dispatch that does not
look at the status it loaded, a way out that keeps its lock, a sync that gives up a
job with a pending evaluation, an app that stays
ENABLING, a drain that counts nothing, a send that ignores a terminal row) that TLC
finds by that property.

## 5. Proofs

`LogWriterProofs` proves, for any sets of sessions, streams, bytes, epochs and
requests and any sizes that satisfy the named assumptions of `LogWriter`:

- `TypeCorrect`: `Spec => []TypeOK`
- `WriterInvariant`: `Spec => []WriterInv`
- `LockIsOwned`: `Spec => []LockOwned`
- `ChunksAlwaysTile`: `Spec => []ChunksTile`
- `StaleBytesAreDiscarded`: `Spec => StaleBytesDiscarded`

Assumptions: chunk size and retries are positive, epochs are positive (0 is the
code's sentinel), the value `Free` is no session, and a request's data ends at
its offset (`RequestsAssumption`, the caller's guarantee that
`_effective_new_bytes` documents).

The argument. Neither tiling nor the epoch check is inductive: both are broken by
a session whose knowledge is out of date. `WriterInv` says what every session may
rely on between its read and its commit:

- `SnapshotsAreVersioned`: a row it read has the present content if it has the
  present version, and an older version otherwise. Versions grow with every
  change (`VersionsGrow`), so equal versions mean equal rows.
- `MissingRowsAreDefault`: version 0 means that there is no row.
- `LockOwned` and `WaitersInsert`: whoever inserts the first row with an epoch
  holds the row lock, so the mark cannot move under it (`MarkMoves`).
- `WritersWereJudged`: a session about to write has passed the check, against
  the mark for a first row and against the row it read otherwise.

With it, `WriteRow` and `ResetWrite` act on the present row; what an append
flushes tiles exactly the offsets the row advances over (`FullChunksTile`,
`AppendTiles`), no stored chunk starts there (`InsertSettles`), and eviction
removes a chunk only after the ones before it (`EvictionSettles`, with
cardinalities of finite sets). `TypeStep`, `LockStep`, `WaitersStep`,
`JudgedStep`, `SnapshotsStep`, `MissingStep` and `TileStep` are the parts of the
invariant's step, `InvStep` puts them together.

`LogStoreProofs` proves from this invariant, under the same assumptions:

- `StoreIsAppendOnlyLog`: `Spec => IsAppendOnlyLog`

The argument. What a stream holds is what its chunks and its staging buffer hold
(`PlacedIsHeld`). An append puts the new bytes behind the buffer
(`WrittenConcat`); the full chunks and the remainder it cuts off are slices of that
buffer at the offsets they had in it (`FullChunksHold`, `RemainderHolds`,
`AppendWrites`), and as stored and fresh chunks do not meet, all of them are
inserted (`InsertsAll`). Eviction takes chunks that end more than the cap behind the
persisted offset (`EvictionDrops`). A reset that drains turns the buffer into a
chunk where it stands (`DrainKeeps`), and no other step touches a byte
(`ResetKeeps`). That no offset gets two bytes is tiling (`HeldOnce`). `StoreInit`
and `StoreStep` are the two halves of the refinement.

`NomadLogSyncProofs` proves the same of the store under the syncs that call it, for
any overlapping syncs, streams, allocations, crashes and refused requests:

- `LogSyncInvariant`: `SyncSpec => []LogSyncInv`
- `LogSyncTypeCorrect`: `SyncSpec => []SyncTypeOK`
- `SyncedChunksTile`: `SyncSpec => []ChunksTile`
- `SyncedLogIsAppendOnly`: `SyncSpec => IsAppendOnlyLog`

Assumptions: those of `LogWriter`, bytes are named by allocation and position,
`Streams` is finite, and `Requests` has the calls a sync may make
(`SyncRequestsAssumption`, which TLC evaluates in every run of the module). That a
sync makes no other call is proved, not assumed (`LegacyCall`, `DeltaCall`,
`FlushCall`), and with it the precondition `_effective_new_bytes` documents. It
needs the cursors: a fetch reads on from its cursor (`DeltasInStep`), and the
producer's cursor is never more than one log ahead of Nomad's (`RowsInStep`,
`CallsInStep`), though a migration moves the one without the other and overlapping
syncs may lower both. `FramesNameAllocations` says that whoever fetches or migrates
knows the allocation it names the bytes after. A sync that dies or raises gives its
session up wherever it is, which `QuitKeepsInv` covers beside the writer's own steps.

`NomadLogProofs` proves which bytes the syncs leave stored. That holds of no
instance whatsoever (four runs of section 6 show why), so each theorem has a scenario
as its hypothesis, and none of them a bound on bytes, streams, syncs or retries.
`BelowCap` says that no stream has grown beyond `StreamCap`, where eviction drops
bytes on purpose.

Syncs that overlap on one allocation, with no old log to migrate (`OneAllocation`),
any number of them and of crashes, lost races and refused requests:

- `OverlapKeepsPrefix`: `OneAllocation` proves `SyncSpec => [](BelowCap => PrefixKept)`

Syncs that follow one another (`OneByOne`), over any number of allocations and with
or without an old log; they may die at any point if there is one allocation:

- `AloneKeepsPrefix`: `SyncSpec => [](BelowCap => PrefixKept)`
- `AloneStoresOnce`: `SyncSpec => []FreshBytesOnce`
- `AloneStoresNothingTwice`: without an old log, `SyncSpec => []NoByteTwice`
- `AloneCompletesLog`: if the drain has polls enough (`DrainSuffices`),
  `SyncSpec => [](BelowCap => TerminalLogComplete)`

Each hypothesis has a run that breaks the property without it: `overlap_migration`
the old log under overlapping syncs, `unsaved_tracking` a crash with a second
allocation (and two overlapping syncs meet the same state: `overlap` with
`Epochs = {1, 2}` and two bytes violates `PrefixKept` within seconds),
`overlap_twice` the single session of `NoByteTwice`, `legacy_twice` its missing old
log. `DrainSuffices` asks for more polls than refused requests and, where a last
line is withheld, for an answer to the one request that fetches it: the hazard at
`models.py:1197`.

The arguments. `SharedInv`: nobody can say what a row will hold when a sync gets to
append to it, but every cursor that exists anywhere, in a row, in the delta of a sync
or in a call, counts the same for the producer and for Nomad (`InLockstep`), and the
store holds all that precedes it. So an append, which skips what the row covers,
leaves no hole (`CarriesOn`), even when it takes the row's cursors back; bytes may
come twice, which `overlap_twice` shows.

`AloneInv`: with one session what was read is current (`ReadsCurrent`), so every
delta and call matches the row it will meet (`FrameMatches`, `CallMatches`), a
stored byte belongs to the old log, to an earlier allocation, or to the part of its
own that the cursor covers (`Covers`), and the rows carry the allocation the task
history tracks or, once reset, the one of the sync (`RowsBelong`, `Known`). That
last part is what a crash before `Save` breaks, unless there is one allocation only.

`EndsInv`: a sync that drains has found the job dead, so a log grows no more, except
that a stream may begin while polls enough are left (`NomadStands`). A stream that is
not stored to its end, or about to be (`Caught`), is one that has not advanced, and
each poll that left it behind cost a refused request or came before the last moment
to begin (`DrainGoesOn`, where `PollsLeft` counts both); as there are more polls than
refusals, and the drain stops early only when every stream has advanced, all are
caught when it ends (`DrainHasRead`). The flush of the partial buffers then leaves none (`Flushed`, which
needs `MarkBelongs`: a flush is never discarded as superseded), and `Save` records the
end (`Completed`). A session after that never starts (`SessionEnds`).

`TaskSyncProofs` proves, for any finite sets of workers, sync requests, stop
requests and connectivity checks, any kinds of chain and any number of failures:

- `SyncTypeCorrect`: `Spec => []TypeOK`
- `SyncInvariant`: `Spec => []SyncInv`
- `OneSyncHolds`: `Spec => []OneSyncAtATime`
- `ChainOnceHolds`: `Spec => []ChainOnce`
- `VerdictHolds`: `Spec => VerdictStays`

Assumptions: the sets of processes are disjoint and finite. All of it speaks of
behaviours in which no claim was dropped early (`~disowned`): `SYNC_LOCK_TTL` is
the code's own bound on a sync, and `terminal_again` and section 6 show what
happens without a claim.

The argument. The claim names no holder, so it can only be counted: `ClaimCounts`
says that a row has one outstanding sync at most (enqueued, or begun and not yet
saved), and none when it is not claimed. `OneSyncAtATime` alone is not inductive:
a claimant could find the row free with a sync under way. The save of the one
outstanding sync leaves none, and no claim is taken on a row that is not RUNNING;
that gives `VerdictSettled` (a verdict in the row has no sync left that could
undo it; `VerdictStays` follows, since stops write STOPPED and polls belong to
checks, `OnlyChecksPolled`) and `ChainsCounted` (the dispatches made, and those
due from syncs that saved a terminal status and have not read it back, are one
together). `CountMoves` and `FrameMoves` relate the cardinalities to one process
that moves, `MoveFalls`, `OutsiderMoves` and `SyncGoesOn` treat the steps that
add no sync, `ClaimTaken`, `SaveSettles` and `ChainSettles` the three that matter.

`DispatchProofs` proves, for any histories, keys, processes, lock ids, retries and
faults and on every engine:

- `DispatchTypeCorrect`: `Spec => []TypeOK`
- `CancelledForGood`: `Spec => DeletedStaysDeleted`
- `JobsAreFew`: `Spec => []OneJobPerRow`
- `RunningJobsAreTracked`: `Spec => []JobIsTracked`
- `IdenticalExcluded`: `Spec => []OneRunningPerKey`
- `LocksReleased`: `Spec => []LockHeldOrLeaked`
- `RunningIsTracked`: `Spec => []RunningRowNamesJob`

Assumptions: `Scheduled` are items and every item has a key, lock ids are naturals,
and the engines are the two named ones.

The argument. `Typed` adds to the types where a process can be with which data
(`Sent`: only scheduled histories have messages). `Locked` carries the exclusion:
`HasRow` (whoever is inside the lock with a guarded key has the lock row there,
with its id), `Alone` (so there is one such process per key), `Checked` (after the
check no other history of the key is active, and none can become RUNNING but
through the lock). `Tracked` follows the job number from the process that started it
into the row (`Mine`), and that no route still holds older tracking data for a row a
worker took in time (`Unsent`). `unguarded` is the exact complement: it names the keys
whose row was deleted under a working holder, by age or by a reused id.
`LockHeldOrLeaked` is inductive by itself: a step that inserts a row makes its holder
or leaks it, one that removes a holder deletes the row with its id or leaks it, and
one that deletes a row ends both.

That a history gets one job is a matter of counting. Its message is a token
(`Tokens`): each copy is in the broker or with one process, and there is a second
copy only of what the broker delivered twice; a retry is the same copy again, and a
request that dispatches without a message counts as one. `Budget(i)` weighs the
tokens against the jobs: every job is lost, or in the hands of the dispatch that has
yet to save it (`StartedCopies`), or was saved; until a save the row may be loaded
PENDING again, and each copy that came to a save is not armed again
(`ArmedCopies`). `BudgetArms`, `BudgetStarts` and `BudgetEnds` are the three steps
that move a copy. With no job lost and no second delivery the budget is one. The
same counts say that the job of an armed dispatch is the history's first
(`FirstJob`), so the row that dispatch saves names the job that runs, which is what
`JobIsTracked` needs beside `Tracked`. A sync or a stop that makes the row terminal
speaks of the job the row names, which is the only one (`OnlyJob`): it is over, or given
up. A stop saves STOPPED later than it deregistered, and by then the history has no job
and gets none (`Deregistered`).

`AppDrainProofs` proves, for any tasks, admins, requests and faults:

- `DrainTypeCorrect`: `Spec => []TypeOK`
- `DrainComplete`: `Spec => DrainedBeforeDisabled`
- `EnablingIsBrief`: `Spec => []EnablingEnds`
- `SchedulesFollowState`: `Spec => []GateFollowsState`

Assumptions: tasks, admins and the reconciler are different, periodic tasks are
tasks. The argument. `Accounted`: every task in flight runs and has its
row; `Counts(x)`: whoever counted in the present cycle found no row then,
so the tasks of that drain that were counted are over, and a task that starts later
is not one of them. `Gated`: while requests come one at a time (`OneAtATime`), the
bit is what the state was when the last request read it (`Synced`), and the state
has not moved since between ENABLED and the rest (`Untouched`, `GateOf`).

`AtwSendProofs` proves, for any sets of sends:

- `SendImplementsDrain`: `SendSpec => IsAppDrain`, so every theorem of
  `AppDrainProofs` holds of the app with its sends
- `SendTypeCorrect`: `SendSpec => []SendTypeOK`
- `FailureIsHonest`: `SendSpec => []FailedMeansNotDelivered`

Assumptions: the app's tasks are its sends, which are not periodic, and the sweep.
The argument. `Told(s)` ties the `fate` of a send to its place: delivered only from
the upload on, reported only with a terminal row, and a row at work that the sweep
or a refused request may still fail is excused.

Model-checked only: liveness (`CallsEnd`, `DeadJobFinishes`, `SuccessIsChained`,
`EndIsRecorded`, `StopIsHonoured`), which the prover does not reach. Every invariant
and action property the runs check is stated by a theorem, those of the stored bytes
under the hypotheses above.

## 6. Disagreements with what the code says of itself

Each is a run that violates one property.

- `legacy_twice`: a task that was running when the new log store was deployed
  gets its log twice. `backfill_legacy_logs` stores the old log but leaves
  `nomad_offset` at 0 and the epoch at the trusted sentinel, so the same sync
  fetches from offset 0.
- `overlap_twice`: two overlapping terminal syncs. The one that fetched less
  writes its older offsets into the row (a forced append is never an early
  return), and what lies after them is fetched and stored again.
- `overlap_migration`: two overlapping first syncs of a task of the old release. The
  migration of the one comes after the other has migrated and read on: it takes the
  row's producer offset back, which Nomad's offset does not follow, and a later
  append skips bytes by that offset which nobody stored.
- `unsaved_tracking`: a first sync stores bytes and dies before tracking is
  saved; the job moves to another allocation. The next sync has no previous
  allocation, does not reset, fetches from 0 and has the first bytes dropped as
  already seen.
- `terminal_again`: a sync that found the job running saves RUNNING over the
  STOPPED a stop request committed meanwhile, though `is_terminal` promises no
  further transition. The job was deregistered, so a later sync repairs the row
  (`StopIsHonoured`). A chain that runs on failure is dispatched by that later
  sync, and not when no sync was under way.

Nine more were met and are in the hazard list without a run of their own; where a
property would hold but for them, it names the exception: `save` reads the row
back after it released the claim, so two syncs may both see the final status and
dispatch the chain twice; a crash between the save and the dispatch loses the
chain; a late
`reset_allocation_frontier` takes the rows' epochs back (only the task-level mark
is guarded), and a refused final `flush_partial` request loses the withheld line.
A sync that finds no allocation and no pending evaluation saves FAILED
(`_resolve_running_allocation`); a job whose evaluation is blocked for want of room, or
placed between the two requests, stays registered and may run with no row that follows
it (`JobIsTracked`, exception `abandoned`). A `create` of a dispatch lock whose refresh
fails after the commit, or a `delete` in the `finally` that fails, leaves the lock row,
which refuses identical requests for 30 seconds (`LockHeldOrLeaked`, exception
`leaked`).
Two overlapping requests may leave the schedules of a DISABLED app enabled, since the
bit is written by whoever read first and wrote last (`GateFollowsState`, exception
`overlapped`). `force_disable_app` deletes the rows of tasks that started after it
listed what to terminate, so they run on in a DISABLED app. The stale sweep
writes FAILED over the SUCCESS of a send that it listed while it was active, and a
task may deliver a bundle whose row the sweep or a refused request fails meanwhile
(`fate` "excused").

## 7. Not modelled

The components without a module are listed in `PROJECT.json` with the reason: plain
row operations (CRUD, inventory, periodic tasks), wrappers of remote APIs (the
executor's file calls, PMM, alerts, authentication), text processing (anonymizer,
snippets), generated or declarative code (migrations, app framework, plugin
apps, the settings registry) and the frontend and installer.

What has state of its own and is left out:

- Settings overrides: one snapshot per process, rebuilt by a refresher and by the
  handlers. The race at `lifecycle.py:87` is real (a refresh may publish an older
  snapshot after a newer one) and heals with the next refresh.
- Log reader: a view of committed chunks; what it relies on is `ChunksTile`.
- Retention (`delete_aged_batch`) and its cascade to logs while a sync appends.
- A broker that delivers a send's message twice.
- Progress of a drain. It needs the reconciler, the end of every task, and no
  handler that dies in ENABLING; the state space of `AtwSend` with fairness is
  beyond a run, and the safety of the drain does not depend on it.
- The content of messages, jobs, bundles and logs beyond what is said in section 3.
