# TLA+ models of Firebird's record-version engine (src/jrd/vio.cpp)

This directory holds TLA+ models of the multi-version record engine of the
repository: how a transaction finds the version of a row it may see, how
update/delete/lock detect conflicts, and how dead and obsolete versions are
backed out, purged, expunged and collected. The models are checked with TLC.

## 1. Inventory

### Components

| # | Component | Source | State it keeps | Operations |
|---|-----------|--------|----------------|------------|
| 1 | Transaction snapshot oracle | not under src/ (tra.cpp, tpc.cpp); interface in spec §6 | TIP state of each transaction, commit numbers, snapshot number, `tra_oldest_active`, lock data (oldest active at start) | `TRA_snapshot_state`, `TRA_wait`, start/commit/rollback |
| 2 | Version chain walker | `VIO_chase_record_version` vio.cpp:1129-1702, `check_precommitted` 5050, `checkGCActive` 718, `get_undo_data` 6004 | the caller's record_param (cursor on one version), page latches | one loop iteration per transaction state: dead → backout or step back; active → step back; us → return; committed → return, purge or expunge |
| 3 | Record mutation operators | `VIO_store` 4091, `VIO_erase` 1968, `VIO_modify` 3346, `VIO_writelock` 4864, `prepare_update` 6493, `check_prepare_result` 1911, `VIO_update_in_place` 7260, `replace_record` 7004 | the row's chain on pages; the staged back version; `update_conflict_trans` | insert; in-place update of own version; `DPM_chain` fast path; prepare_update loop (committed / us / active+wait / dead+backout) |
| 4 | Cleanup primitives | `VIO_backout` 818, `purge` 6921, `expunge` 5442, `garbage_collect` 5526, `delete_record` 5271, `VIO_garbage_collect` 2851 | the chain; the per-record GC lock and `rpb_gc_active` flag | backout of a dead head, purge of all back versions under a mature head, expunge of a mature delete stub |
| 5 | Intermediate GC | `VIO_intermediate_gc` 2625, `list_staying` 6248, `list_staying_fast` 6118, `delete_version_chain` 2559 | attachment's copy of active snapshots | classify versions into staying/going by active-snapshot bucket; rewrite the back chain if the head is unchanged |
| 6 | Background garbage collector | `notify_garbage_collector` 6430, `Database::garbage_collector` 5640 | `DBB_gc_pending`, `DBB_gc_active` flags, per-relation page bitmap with min transaction, semaphore | notify (mark page, set pending, maybe release semaphore); collector loop (take pages, walk their records as a sweeper, sleep 10 s on no work) |
| 7 | Sweep coordinator | `SweepTask` 188-600, `VIO_sweep` 4735 | `m_nextRelID`, per-slot `RelInfo{rel_id,countPP,nextPP,workers}`, `m_stop`, first error | `getWorkItem` (assign next pointer page, join an unfinished relation, start next relation), `handler` (walk a pointer-page range), `setError` |
| 8 | Savepoint undo log | `verb_post` 7402, `get_undo_data` 6004 (savepoint code itself is not under src/) | per-savepoint per-relation record bitmap and undo records | post an action; resolve own change under the current savepoint (udNone/udExists/udForceBack/udForceTwice) |
| 9 | System-relation bookkeeping | `dfw_should_know`, `protect_system_table_*`, `check_*`, `set_*` in vio.cpp, `dfw_proto.h` | none of its own (posts deferred work) | DFW posting and protection checks on catalog rows |
| 10 | Clumplet writer | `common/classes/ClumpletWriter.cpp` | byte buffer, current offset, kind, size limit | insert/delete clumplets, upgrade version, size overflow |
| 11 | Merge join | `jrd/recsrc/MergeJoin.cpp` | per-stream merge files, windows, record counts | sorted-stream merge of equal-key groups |
| 12 | Windowed stream | `jrd/recsrc/WindowedStream.cpp` | the buffered stream's position, partition and window blocks, `partitionPending`, `rangePending`, the accumulated aggregate | open, close, internalGetRecord (partition, frame bounds, aggregate reuse, winPass through SlidingWindow) |
| 13 | Blob wrapper | `common/classes/BlobWrapper.cpp` | blob handle, status | open/create/close/segment I/O forwarded to the API |
| 14 | Windows service control | `remote/server/os/win32/cntl.cpp` | service handle, stop event, guardian mutex | main thread start/wait/stop, control handler |
| 15 | Atomic counter | `common/classes/fb_atomic.h` | one `std::atomic` | load/store/CAS loops |
| 16 | Declarations only | `lock_proto.h`, `TraceObjects.h`, `burp_proto.h`, `iberror.h`, `for_each_i.hpp` | — | — |

### How they interact

Statements (select, update, delete, select-for-update) fetch a row through the
walker (2), which asks the oracle (1) for the state of each version's writer
and may call the cleanup primitives (4) on the way. Update and delete then run
the mutation operators (3): they compare what they read with the head they
re-fetch for write, wait on an active writer through the lock manager, back out
a dead head, and after replacing the head call intermediate GC (5) under the
cooperative policy or notify the background collector (6) under the background
policy. The background collector and the sweep (7) walk records as a
"sweeper", which makes the walker force cleanup. Shared state between actors:
the version chain on pages (protected by page latches, re-verified after every
release), the TIP (transaction states), the GC candidate bitmap and the
`dbb_flags` word (atomic bit operations).

### What is hard

* Every cleanup (backout, purge, expunge, intermediate GC) decides on data read
  under a shared latch, releases it, and re-verifies the head before writing.
  Any actor may change the chain in between; the re-verification is what keeps
  the chain correct.
* GC safety rests on `tra_oldest_active`, computed once when a transaction
  starts: a purge or expunge is legal only below it. A wrong or stale value
  removes a version a running snapshot still needs.
* prepare_update waits on an active writer and then has to tell a real commit
  (conflict) from a rollback that undid the writer's change (retry once,
  `update_conflict_trans`).
* A transaction's death leaves its versions on disk; they are backed out
  lazily by whoever meets them first, possibly several actors at once.
* The background collector's wake-up protocol (pending/active flags and a
  timed semaphore) and the sweep's work partitioning.
* The window stream reuses earlier work: peers of a RANGE row return the
  first peer's frame, and a frame containing the last one only adds rows to
  the last aggregate; the frame scans end one row past the bound and
  correct it, with NULL keys and offset 0 as special cases.

### Properties that make each component correct

* Walker: a snapshot transaction reads the same version of a row every time it
  looks (repeatable read), and that version is the one its snapshot defines,
  whatever cleanup ran meanwhile.
* Mutation: a transaction's new version is always chained on exactly the
  version it read (no lost update, first committer wins); a snapshot
  transaction never finds its row gone (BUGCHECK 186).
* Cleanup and intermediate GC: no version visible to a running transaction is
  ever removed from the chain.
* Background GC: a notified page is eventually collected; no lost wake-up.
* Sweep: every pointer page of every relation is handed to exactly one worker;
  the sweep terminates; after an error all workers stop.
* Record sources: a merge join returns exactly the inner join; a window
  stream returns each row with the aggregate over exactly its SQL frame.

## 2. Plan

Modules, in the order they were built, and what is left:

1. `Vio` — done: transactions (oracle, spec-modelled), record chains, the
   walker as a process whose loop iterations are actions, store, erase,
   modify and writelock with `DPM_chain` and the prepare_update loop with its
   waits, backout/purge/expunge, intermediate GC, VIO_garbage_collect,
   VIO_get_current, the sweeper's walk, rollback by death or undo, and crash.
   VIO_backout is split at `DPM_backout_mark` (the `rpb_gc_active` flag and
   the per-record GC lock), with `checkGCActive`/`waitGCActive` at the
   walker, prepare_update, VIO_get_current and VIO_garbage_collect.
   VIO_intermediate_gc is split at its re-fetch for write: the chain it
   classified with the active snapshots of that moment is installed only
   if the primary version is unchanged.
2. `SweepTask` — done: getWorkItem/handler/updateRelInfo with workers and
   relations; exactly-once coverage, termination, stop-on-error, and a
   refinement of the abstract sweep `SweepPages`.
3. `GarbageCollector` — done: the notify/collector wake-up protocol with the
   flags and the timed semaphore, validation and exceptions, start and stop.
4. `CntlService`, `BlobWrapper`, `MergeJoin` — done (see section 3).
5. `WindowedStream` — done: one window's internalGetRecord with its frame
   bounds checked against the SQL definition of the frame, checked with
   `MergeJoin` in one run (`MCRecordSources`).
6. Left for later sittings:
   * `IntermediateGC` as a pure algorithm: the staying/going classification
     checked against "keep, for every active snapshot, the version it sees"
     over all short chains (it is now an operator checked only inside `Vio`).
   * Read-committed modes of the walker beyond the NO_RECORD_VERSION wait:
     skip locked, NO_WAIT and lock-timeout waits (read_conflict), and the
     read-consistency restart in check_prepare_result and VIO_writelock.
   * An abstract "snapshot reads" specification that `Vio` refines (today the
     history variable `hist` plays that role inside `Vio`'s invariants).
   * `ClumpletWriter` over an existing buffer (the `create`/`reset(buffer)`
     constructors) and the SPB kinds.
   * Chained windows of `WindowedStream` (each window sorting the previous
     one's output), DESC keys and per-row frame offsets.
   The project is at the limit of 12 runs, so new questions have to be asked
   within existing runs or replace a weaker one.

## 3. Modules and runs

### `Vio` (components 1-5) — `Vio.tla`, `MCVio.tla`

State: the TIP (`tip`, `commitNo`, `lastCN`, `snapshotNo`, `lockData`,
`oldestSnap`: spec-modelled from spec §6, since tra.cpp is not under src/),
the version chain of each row (`chain`, primary first; a version is the
writing transaction and the delete flag), and one statement per transaction
(`pc`, `op` = the record_param and locals of the running loop). `hist`,
`seen` and `basis` are history variables used only by the properties.
The constant `Kinds` says which statements the clients issue; `RC` are the
read committed transactions and `NoRecVer` those of them started with
NO_RECORD_VERSION.

Actions: `Begin`/`Commit`/`RollbackDead`/`RollbackUndo`/`Crash` (oracle);
`Store` (VIO_store); `StartStatement` opens a fetch for select, modify,
erase or lock (VIO_writelock), and `NextRecord` (VIO_next_record) one record
of a sweep; each iteration of
`VIO_chase_record_version`'s loop is one action (`ChaseRefetch`, `ChaseDead`
= backout or step back, `ChaseActive`, `ChaseUs`, `ChaseCommitted` = return,
purge or expunge, `ChaseSweepGC` = the sweeper's intermediate GC). The write
step is one action per caller: VIO_erase's `WriteInPlace`, `WriteChain`
(`DPM_chain`) and `WritePrepare`; VIO_modify's `ModifyWrite`
(VIO_update_in_place, `InPlace`, or prepare_update); VIO_writelock's
`LockWrite` (LOCKED on its own version, or prepare_update). prepare_update is
`EnterPrepare`, one action per loop outcome (`PrepGone`, `PrepCommitted`,
`PrepActive`, `PrepDead`) and the wait (`Wait`, `WaitDeadlock`); `Replace`
writes the new head (`ReplaceRecord`) and, when the version read had a
back version and the attachment cleans up, starts intermediate GC.
VIO_intermediate_gc is two steps: `StartIGC` (list_staying, the refresh of
the active snapshots, the classification `IntermediateGC` with the
recursive operator `Staying`, and DPM_store of the new back chain, kept in
`op.igcNew` with the head and back chain it was computed from) and
`IGCInstall` (the re-fetch for write: the new chain is installed only if
the head's transaction and back chain are unchanged). `IGCGoing` is its
two early returns: a head marked rpb_gc_active, or nothing to collect.
Between the steps other transactions start, commit, purge, back out or
write the row, so the active-snapshot list of vio.cpp:2682 is stale when
the chain is installed. `GarbageCollect` is one pass of VIO_garbage_collect's loop;
`SweepAdvance` is VIO_sweep's refresh of `tra_oldest_active` from
`dbb_oldest_snapshot` between records. Only a transaction of `SweepTx` sweeps: the sweep transaction starts with `sweep_tpb` (read committed, rec_version, vio.cpp:293-297) and VIO_sweep returns at once under ATT_no_cleanup. On an active head with a back version the sweeper does not read the back version as a SELECT does: it notifies the collector and returns false (vio.cpp:1483-1492), which `ChaseActive` models. VIO_get_current is `GetCurrent`,
`CurrentTop` (one loop pass), `CurrentWait`, `CurrentDeadlock` and
`CurrentRefetch`. A read committed NO_RECORD_VERSION walker that meets an
active writer's version (not a backout in progress) waits on its lock
(`ChaseReadWait`, pc "rwait"), then restarts from the primary version
(`ReadWaitDone`) or is failed by the deadlock scan (`ReadWaitDeadlock`).

VIO_backout. Every caller releases the page before calling VIO_backout
(`CCH_RELEASE; VIO_backout`, vio.cpp:1439): `CallBackout` records the
version the caller saw (`op.bkTx`) and where to go back to (`op.ret`).
`StartBackout` is VIO_backout up to `DPM_backout_mark`: the re-fetched head
must still be that version and `lockGCActive` (`GCLocked`: another
transaction is between its mark and its finish on the row) must succeed,
else nothing is done; a deleted head is removed at once, any other is
marked `gc` (rpb_gc_active) and the backer keeps the lock. `FinishBackout`
re-fetches, clears the flag and removes the head under one page latch.
`GCActive` is `checkGCActive`: a marked head whose lock is held reads as
active (the walker steps past it, prepare_update and VIO_get_current wait
for the lock, VIO_garbage_collect and intermediate GC leave the row); a
mark left by a crash has no holder and reads as dead, so it is backed out
again.

| Run | cfg | Shows |
|-----|-----|-------|
| vio_snapshot | MCVio.cfg | three transactions (snapshot with ATT_no_cleanup, read committed, snapshot) on one stored row with updates, deletes, sweeps and re-inserts after an expunge (the sweep is run by the read committed transaction, which skips rows whose head is active), commits, deaths, undo and a crash: `GCSafe` (no cleanup, intermediate GC by writers or the sweeper included, removes a version a running transaction sees), `RepeatableRead` (each version a snapshot transaction's update or delete fetched is the one its snapshot defines), `NoLostUpdate`, `NoBugcheck` (BUGCHECK 186 unreachable), `StatementEnds` (every fetch/prepare/backout loop ends). `GCSafe` also covers intermediate GC installed from a stale classification (dropping its re-check lets a concurrent purge and delete stub be followed by the install of the old back chain, losing the version the sweeper's snapshot reads); `BackoutExclusive` (while a backer is between its mark and its finish, the row's head is still the version it marked: two transactions that both found the same dead head never back it out twice, and nobody replaces a head being backed out) |
| vio_wait_cycle | MCVioWait.cfg | a snapshot and a read committed NO_RECORD_VERSION transaction on two rows with updates, deletes, SELECT WITH LOCK, VIO_get_current and VIO_garbage_collect: `NoLostUpdate`, `GCSafe`, and `GetCurrentExact` — the unique-key check reports a row present exactly when its newest version not rolled back is live (or its writer is still active after a failed wait); `DeadlockBroken` — two transactions each waiting, directly or through others, on the other's record lock (for an update, or for a NO_RECORD_VERSION read) do not wait for ever: the lock manager fails one of them |

Bounds: 3 transactions and 1 row give every pair of (reader, writer) states
the walker distinguishes (us, active, dead, committed above and below the
oldest snapshot, seen or not by a read-committed reader) and chains of up to
four versions, enough for intermediate GC to drop a middle version; 2
transactions and 2 rows give a wait cycle. Two backers of one dead head
need three transactions (the dead writer and two others), so
`BackoutExclusive` is checked in vio_snapshot. vio_snapshot starts from the
row already stored (`MCStoredInit`): a row inserted by one of the three
transactions leaves only two to contend on it, and inserts (`Store`) are
exercised in vio_wait_cycle, whose second row starts absent. Fairness:
vio_snapshot (`MCFairSpec`, the statement fairness of `FairSpec`) assumes weak fairness on each transaction's statement step — a
latch-holding loop is never descheduled for ever; waits for other
transactions are not included. vio_wait_cycle (`LockFairSpec`) assumes only
weak fairness of the lock manager's deadlock scan (`DeadlockScan`), which
runs on its own timer once a request has waited the deadlock timeout;
`DeadlockBroken` needs nothing of the clients.

### `SweepTask` (component 7) — `SweepTask.tla`, `MCSweepTask.tla`

State: `nextRelID` (m_nextRelID), `relInfo` (the m_relInfo slots:
rel_id, countPP, nextPP, workers), `item` (each worker's Item: inuse, slot,
firstPP/lastPP), `stop` and `failed` (m_stop and the stored error), `wpc`
(where the worker is in the Task loop) and the history `swept`.
Actions: `GetNextChunk` and `GetOtherWork` are `getWorkItem` (its
updateRelInfo fast path, the join loop, starting the next relation, no free
slot); `HandlerStart` is the start of `handler` up to `countPP =
rel_pages->count()`, `HandlerWalk` its record loop, `HandlerFail` the
catch/setError path. The worker loop of common/Task.cpp is spec-modelled.

| Run | cfg | Shows |
|-----|-----|-------|
| sweep_task | MCSweepTask.cfg | 3 workers, 3 slots, 4 relations (one without pages), at most one error: `WorkersCounted` (a slot's `workers` equals the items holding it, so a slot is reused only when free), `NoDoubleSweep`, `SweepComplete` (no error ⇒ every page swept), `Termination`, `SweepRefinesPages` (below) |

Fairness: weak fairness per worker thread (each is a running thread that
takes the mutex in turn).

Refinement. `SweepPages.tla` is what the sweep promises whatever the number
of workers: each pointer page of each relation is walked at most once, and
all of them are walked unless the sweep is stopped; a stop does not undo
walks under way. `SweepTask` implements it under the mapping
`Page <- Pages` (the pairs of relation and pointer page), `walks <-` the
history `swept`, `stopped <- stop`; `SweepRefinesPages == Abs!Spec` is
checked as a property, fairness included.

### `GarbageCollector` (component 6) — `GarbageCollector.tla`, `MCGarbageCollector.tla`

State: `dbb_flags` bits as booleans (`running` = DBB_garbage_collector,
`starting`, `active`, `pending`), the semaphore count `sem`, the
GarbageCollector object (`gc`: allocated or deleted) and its candidate pages
with min transaction (`cand`), the collector's taken bitmap (`bitmap`) and
program counter (`cpc`), per notifier its pc `npc` and transaction `ntid`,
and `owed`, the pages notified and not yet walked (history). The oldest
active transaction and validation's GC lock are environment
(`AdvanceOldest`, `Validate`, spec-modelled); `validation` is chosen per
behaviour from the constant `Validations`, so one run covers databases with
and without online validation.
Actions follow the collector loop: `LoopTop`, `Scan` (getPages and the GC
lock), `Walk`/`WalkBreaks` (per page; gc_exit, rel_exit), `ClearPending`,
`ClearActive`, `Wake`/`Timeout` (tryEnter(10)), `Exception`, `Exit`;
notify_garbage_collector is `NotifyRead` (the unlocked read of
dbb_garbage_collector), `NotifyAddPage`, `NotifyPending`, `NotifyWake`;
start-up and shutdown are `VIOInit`, `CollectorInit`, `VIOFini`,
`FiniReturns`.

| Run | cfg | Expect | Shows |
|-----|-----|--------|-------|
| gc_wakeup | MCGarbageCollector.cfg | pass | with and without validation, with exceptions: `CandidatesKept` and `PendingPageCollected` (without validation; the 10 s timeout rescues a missed release), `FiniCompletes` (always) |
| gc_lost_notification | MCGarbageCollectorLost.cfg | violation | `CandidateCollected` fails: a page notified during an empty pass stays a candidate until the next notification (vio.cpp:5845) |
| gc_exit_use_after_free | MCGarbageCollectorExit.cfg | violation | `NoUseAfterFree` fails: a notifier uses `gc` after the exception exit deleted it (6462) |

Online validation taking the GC lock makes the collector drop the pages it
took (`continue` at 5749 and rel_exit); that is recorded as a hazard, and the
safety properties are stated for behaviours without validation.
Bounds: 2 pages, 2 notifiers, 2 transaction numbers plus MAX_TRA_NUMBER,
2 notifications (3 in the violation runs), semaphore count ≤ 2: enough for a
notification to land in every collector step, including between `Scan` and
`ClearPending`. Fairness: weak fairness on the collector thread, on each
notifier (a call in progress completes) and on VIO_fini's wait; the timed
wait makes `Timeout` always enabled while asleep.

### `CntlService` (component 14) — `CntlService.tla`

Three threads of the Windows service: the service main thread
(CNTL_main_thread: `mpc`), the SCM dispatcher running control_thread
(`hpc`), and the server thread that may call CNTL_shutdown_service
(`server`). Shared state: the status last accepted by SetServiceStatus
(`status`), `stop_event_handle` (`event`: none, open or closed), the guardian
mutex, the start-failure flag; `nCtl` and `nFail` bound the controls
delivered and the API failures injected (SetServiceStatus, CreateEvent,
Thread::start). `MainStep` and `HandlerStep` are the threads' steps;
`Deliver` is the SCM handing a control to the dispatcher.

| Run | cfg | Expect | Shows |
|-----|-----|--------|-------|
| cntl_faults | CntlServiceFaults.cfg | pass | with two failing calls anywhere and the server's fatal shutdown: `StopCompletes` — the service always reaches STOPPED |
| cntl_status_regress | CntlServiceRegress.cfg | violation | `StatusNeverRegresses` fails: an INTERROGATE in the dispatcher reports RUNNING after the server's shutdown reported STOP_PENDING (cntl.cpp:204) |
| cntl_stale_event | CntlServiceStale.cfg | violation | `NoStaleSetEvent` fails: SetEvent on the handle the main thread closed (cntl.cpp:115, 183) |

Fairness: weak fairness on the main thread and the dispatcher; the SCM and
the server thread act when they like.

### `BlobWrapper` (component 13) — `BlobWrapper.tla`, `MCBlobWrapper.tla`

State: `m_direction`, `m_blob` (an index into `handles`, every IBlob the
wrapper obtained with its content, cursor and open flag), the failures
injected, the last call and its result (history), and `DEV_BUILD`, chosen per
behaviour so one run covers both builds. Every method is an action; the
IBlob API is a nondeterministic call that may fail once. `getSize` parses
the engine's info answer (little-endian `isc_portable_integer`). The
engine's three answers always fit in the 64-byte buffer, so only that
well-formed answer is modelled.

| Run | cfg | Expect | Shows |
|-----|-----|--------|-------|
| blob | MCBlobWrapper.cfg | pass | `GetDataExact` (getData delivers exactly the separated segment stream and consumes what it delivers), `PutAccounted` (puts append exactly real_len bytes in API-sized segments), `InfoParsed` |
| blob_handle_leak | MCBlobWrapperLeak.cfg | violation | `NoLostHandle` fails: a failed close keeps `m_blob` but resets `m_direction`, so the next open overwrites the handle (BlobWrapper.cpp:80) |

### `ClumpletWriter` (component 10) — `ClumpletWriter.tla`, run in `MCBlobWrapper`

`MCBlobWrapper` checks the two buffer classes of `common/classes` in one run:
each behaviour uses either a BlobWrapper or a ClumpletWriter (variable
`source`), and the other stays as constructed. The two never call each other.
The blob properties keep their meaning, because clumplet steps leave the blob
variables unchanged. The leak run uses the same module with a one-call writer.

State: `writer` (a DPB with kind list `isc_dpb_version1` → Tagged,
`isc_dpb_version2` → WideTagged; a TPB of `isc_tpb_version3`; an info-items
buffer), `kind`, `buf` (`dynamic_buffer` as bytes, data bytes zero),
`cur` (`cur_offset`), `overflow` (`flag_overflow`), and the last call and its
result (history). ClumpletReader.cpp is not in this repository. The reader
operators (clumplet type, length bytes, size, the moveNext walk, find) are
therefore written from the buffer layout and marked spec_modelled.

Actions:
* `Insert` is insertBytesLengthCheck with every early return: write past EOF,
  the length check of the clumplet type, and `upgradeVersion` when that check
  fails.
* `Upgrade` re-encodes every clumplet into the newest kind. The copy may
  raise size_overflow. It then places the cursor on the clumplet the old
  cursor was on, or rewinds.
* `Put` is the final size check and the insertion at the cursor.
* The other actions are `InsertEndMarker`, `DeleteClumplet`, `DeleteWithTag`
  (the find/delete loop), `Reset` (including an unknown version, which raises
  invalid_structure), `Clear`, and the reader's `MoveNext`, `Rewind` and
  `Find`.

Bounds: a 262-byte limit and DPB data of 1, 255 and 256 bytes, with 4 calls.
Each of these cases happens:
* 256 forces the upgrade to the wide format, and from an empty buffer it
  fits exactly (1 + 261 = 262).
* A 255-byte and a 1-byte item fill the Tagged buffer to 261. The wide
  copy (267) then overflows.
* A 1-byte item before a 256-byte one upgrades, then overflows at the
  insert's own check.

| Run | cfg | Expect | Shows |
|-----|-----|--------|-------|
| blob | MCBlobWrapper.cfg | pass | `CWTypeOK`. `WellFormed`: the buffer is its version byte and whole clumplets, and the cursor is on a clumplet or at the end. `WithinLimit`: the buffer never exceeds `sizeLimit`. `ContentKept`: an insert adds exactly its clumplet, a delete removes exactly the one at the cursor, a raise keeps every clumplet, and an upgrade re-encodes without loss. |

Observation: neither upgrade failure loses a clumplet, but each leaves the
writer changed (hazard at ClumpletWriter.cpp:545).
* When the copy overflows, the copy loop has already moved `cur_offset` to
  the clumplet being copied. The old buffer stays, `flag_overflow` stays
  unset, and a writer whose cursor was at the end now has it inside the
  buffer.
* When the copy fits but the insert's own check fails, the buffer stays
  upgraded to the wide format.
* After an upgrade from the end of the buffer (no clumplet at the cursor),
  the code rewinds (`newPos` 0, line 561). The new clumplet therefore goes
  first, not last, despite the comment "Set pointer to correct position".
  Nothing in the repository says which position is meant, so no run reports
  this as a violation.

### `MergeJoin` (component 11) — `MergeJoin.tla`, run in `MCRecordSources`

State: each substream's sorted input and read position, the merge files
(`mfb`: equal_records, current_block, blocking_factor, the in-memory block
and the TempSpace), the irsb fields (`equal`, `equalEnd`, `equalCurrent`,
`lastFetched`, `order`), the loop variables of internalGetRecord (`pc`,
`idx`, `highest`, `recycle`, `groupKey`) and the history of returned
combinations `out`. `Open`, `Close` and `GetRecord` are the public calls;
`GetRecordStep` is one step of internalGetRecord: `FetchRecord` (the
odometer over irsb_mrg_order), `AdvanceStream`, the raise loop
(`AlignSkip`, `AlignRaise`, `AlignFetch`, `AlignDry`, `AlignEnd`), the group
loop (`GroupStart`, `GroupCollect`, with `AppendRecord` spilling full blocks
through `Flush`) and `OrderStreams` (ordering by merge blocks).
`compare()` is the recursive `Compare` (NULL lowest, NULL equal to NULL).

| Run | cfg | Expect | Shows |
|-----|-----|--------|-------|
| record_sources | MCRecordSources.cfg | pass | 3 streams, 1 key over {NULL, 1, 2}, up to 2 records each, blocking factors 1 and 2, open/read/reopen/close in any order: `JoinExact` (the combinations returned are exactly the reference join, none twice) and `GetRecordReturns`; the same run checks `WindowedStream` (below) |

### `WindowedStream` (component 12) — `WindowedStream.tla`, `MCRecordSources.tla`

The input is the buffered, sorted stream the constructor builds: `rows`,
sorted by partition key, then by the single ORDER BY key (ascending, NULLs
first); a row is its position. The plan is one window: `grouped` (PARTITION
BY), `ordered` (ORDER BY) and `frame` (ROWS or RANGE, each bound UNBOUNDED,
CURRENT ROW or `<n>` PRECEDING/FOLLOWING), chosen among the frames the SQL
parser accepts. State is the WindowStream's impure area: `pos` (the buffer's
position), `partition`, `partitionPending`, `rangePending`, `window` (the
window block, `NoBlock` when invalidated) and `acc`, the aggregate's rows:
the bag of rows `aggPass` was called for since `aggInit`, each row tagged
with the open it was read in (`gen`, modulo 2), so a reopened buffer holds
new rows. `out` records each returned row with its aggregate and LAG.

`Open` and `Close` are internalOpen and close. `GetRecordEOF` is a call
returning false (evaluateGroup finds no row; without PARTITION BY, the only
partition was returned). `GetRecordRow` is a whole internalGetRecord call:
`PartitionEnd` at a partition's first row, then, unless the row is a
pending peer, `FrameStart` and `FrameEnd` (`GetFrameValue` for ROWS,
`LocateFrameRange` for RANGE offsets, whose loops are the recursive
`FollowScan`, `PrecScan` and `PeerScan`), `RangePendingAfter`, and
`WindowAggregate` (restart, or extend the last aggregate by the rows it
lacks), and LAG through `MoveWithinPartition`. A call runs without waiting,
so it is one step. The code's `windowBlock.isValid()` tests before the
clipping read the block just assigned; they always hold, so an empty frame
always restarts the aggregate.

The reference `RefFrame(p)` is the SQL frame: the rows of p's partition
within the bounds, by position for ROWS and by key for RANGE (NULL keys are
peers of each other).

| Run | cfg | Expect | Shows |
|-----|-----|--------|-------|
| record_sources | MCRecordSources.cfg | pass | every accepted frame with offsets 0 and 1, with and without PARTITION BY and ORDER BY, on up to 3 rows in 2 partitions with keys NULL, 1, 2, 3, opened, read, closed and reopened: `WindowExact` (each row is returned once, in order, with the aggregate over exactly its frame, every frame row passed once, and its LAG; at the end every row was returned) and `AccMatchesWindow` (the accumulated aggregate is exactly the rows of the window block whenever the block is valid, across partitions, empty frames and reopens) |

`MCRecordSources` checks the two record sources in one run. Each behaviour
plans one of them and leaves the other one empty and never opened; the
planned one takes the steps its own specification allows, under the
merge join's fairness. Three rows give partitions of one to three rows,
peer groups, key gaps wider than the offset, empty frames (`0 PRECEDING AND
1 PRECEDING`), frames clipped at both ends of a partition, and reuse of
the last aggregate. Four rows give the same answers and take a minute on
their own.

### Not modelled

suspend_bgio (the collector's pause for backup), the collector's own
notifications during its walk, savepoint undo (code not under src/), the
DFW/system-table helpers (pure bookkeeping of catalog rows), fb_atomic
(a std::atomic), and the declaration-only headers. Of ClumpletWriter: the
constructors and `reset` over an existing buffer (they copy caller bytes and
only rewind), the copy constructors, the SPB kinds (StringSpb, IntSpb,
BigIntSpb, ByteSpb and adjustSpbState), and the value encodings of
insertInt/insertBigInt/insertDouble/insertTimeStamp (data is abstracted to
its length). Of WindowedStream: several windows chained
through `m_joinedStream` (each is one WindowStream over the previous one's
sorted output, so the single-window model covers each link), DESC keys and
keys of more than one column, frame offsets that vary per row (the
non-invariant `getFrameValue` calls) or are negative or NULL (the
`isc_window_frame_value_invalid` error), and winPass functions other than
LAG, whose code (WinNodes.cpp) is not under src/.
