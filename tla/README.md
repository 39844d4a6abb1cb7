# A TLA+ development of millpond

millpond reads JSON records from the Kafka partitions a StatefulSet ordinal owns,
buffers them as Arrow, and releases them into a lake table (DuckLake or hoglake),
committing Kafka offsets only after the write. This directory models that program:
what it promises about rows, offsets and files, and which orders of failures,
restarts and foreign changes that promise has to survive.

Paths below are relative to the repository root (`src/` in PROJECT.json).

## 1. Inventory

| Part | State it keeps | Operations | Hard behaviour | Correct when |
|---|---|---|---|---|
| Consume-write loop, `millpond/main.py` | `pending`, `offsets` (first and last per partition), `pending_bytes`, `shutdown`, `loop_error` | poll and accumulate, flush, `_write_with_retry`, offset commit, final flush, exit | crashes between write and commit, lost answers, SIGTERM at any point, an exception between noting offsets and buffering | no committed offset passes an unwritten row; a restart skips nothing; duplicates only from faults; the buffer is bounded; every row is written in the end |
| Kafka consumer, `consumer.py` | none of its own; the group's offsets | assign by ordinal, `_recover_stale_committed_offsets`, resume | committed offset below retention; watermarks read before they are used; no committed offset yet | it resumes at an offset that loses nothing the broker still has |
| Backpressure, `backpressure.py` | maximum batch size | `compute_batch_size` | the last poll before a flush | polls shrink with a filling buffer and never to zero |
| Hoglake sink, `hoglake.py` | table handle and uuid, live shape and its age, reconciliation verdict, prepared payload | `write`, `_ensure_table`, `_reconcile_specs`, evolution, `_prepare`, `_commit_prepared`, `reset_caches`, `close` | an outcome that is unknown; table altered, re-specced, dropped or recreated between read, upload and commit; two caches of one fact with different ages | a flush is published once per process; acknowledged means published; a file's partition values match its spec; every upload is accounted for |
| Include-values poller, `include_values.py` | served set, per-value absence countdown, ready event | poll (accept or refuse), start, stop | refusals, failures and flapping values between counted polls | additions apply at once; removals are damped; pins and scalar type hold |
| Sink contract, `sink.py` | - | `write` returns after publication or raises | - | used as the abstraction between loop and sink |
| DuckLake sink and its schema evolution, `ducklake.py`, `schema.py` | connection, the set of ensured tables, a cached schema | strip companions, ensure table, partition, align uuid, evolve, ensure VARIANT columns, insert, `reset_caches` | several pods, each DDL statement a transaction of its own, decisions from a cached schema, a fleet of mixed configuration | a retry recovers from every stale cache; a companion is only written where its type was verified; the table ends up partitioned |
| Maintenance tool, `tools/ducklake_maintenance.py` | a lock; all else is the DuckLake catalog and S3 | expire, dedup, heal, clean up, list and drop partitions, drop orphaned inlined tables; compact and rewrite through the engine | jobs share an advisory lock, the engine in the pods does not take it; direct SQL next to the engine's own transactions; crashes between deletion of an object and commit; retries of what was done | what a snapshot reads stays readable; nothing stored is forgotten; a drop takes whole aged leaves which every consumer has read, and keeps the row count; every command ends |
| Configuration, Arrow conversion, health server, metrics, logging, metrics exporter, test producer, manifests | - | parsing, per-batch data conversion, output | the flush-deadline arithmetic of `config.py` | not modelled, see section 7 |

How they interact. One thread runs the loop. It calls the consumer to poll, the
converter and filters on what it got, and at a flush `sink.write` followed by
`consumer.commit`. The include-values poller is a second thread, and shares one
immutable tuple with the loop, which is replaced whole. `_write_with_retry` calls
`sink.reset_caches` between attempts. SIGTERM sets a flag which the loop reads
before each poll; the shutdown path of `main` then flushes what is pending and
closes sink and consumer. Pods share no memory. They meet at the Kafka group (one
pod per partition) and at the destination's catalog, which operators and other pods
change as well.

`PROJECT.json` lists each hazard at its line with the properties that watch it.

## 2. Modules

| Module | What it is |
|---|---|
| `ConsumeLoop` | The loop of one pod, with start-up, shutdown, restarts, the Kafka log and an abstract destination |
| `HoglakeSink` | One pod's hoglake sink with its retry loop, a catalog and other writers of the table |
| `IncludeValues` | The include-values poller of one process and its restarts |
| `DuckLakeSink` | The DuckLake sink of several pods with its retry loop, over one table |
| `PartitionDrop` | `list-droppable-partitions` and `drop-partitions`, a drop of a leaf statement by statement, with the engine, the consumers' cursors and the other jobs around it |
| `RetainedTable` | What partition retention promises a reader; `PartitionDrop` implements it |
| `CatalogUpkeep` | The catalog jobs that share the advisory lock: expiry, queue repair, clean-up, inlined tables |
| `ConsumeLoopProofs`, `FlushProofs` | Theorems about `ConsumeLoop`: no loss, and what flushes, commits and the buffer keep |
| `HoglakeSinkProofs`, `IncludeValuesProofs`, `DuckLakeSinkProofs`, `PartitionDropProofs`, `CatalogUpkeepProofs` | Theorems about the module each is named for |
| `NumberLemmas` | Least and greatest elements of sets of numbers, and initial segments of them, for the proofs |
| `MC...` | What TLC needs for instances: symmetry sets, histories, batches |

`ConsumeLoop` sees a destination through `sink.write` alone: it counts how often each
row was published and, with `Keyed`, remembers the flush keys it has applied.
`HoglakeSink` opens that box, and closes the other one: there, the loop is reduced to
"begin a flush, retry it, commit it".

### ConsumeLoop

A record is a pair `<<partition, offset>>` with one of four kinds, which is what the
loop can tell apart: a `row`; a `drop`, which has a value but yields no row (it does
not decode, or a filter excludes it); a `tombstone` without a value, whose offset
`main` does not note; and a `poison` record, with which the conversion of its whole
poll batch raises. A "byte" of the buffer is a row.

| TLA+ | Code |
|---|---|
| `Start`, `Recovered`, `ResumeFrom`, `PositionReset` | `consumer.create`, `_recover_stale_committed_offsets`, `OFFSET_STORED`; any subset of partitions may fail its offset or watermark query, and the recovery commit may fail |
| `Poll` = `Consume(n, timeUp)` | one iteration of the loop, whole: batch size, messages, offsets, conversion, buffering, the flush decision. `n` is how many messages of each partition it got, `timeUp` whether the flush interval has passed |
| `WriteOk`, `WriteFails(applied)`, `WriteFailsPermanently` | one attempt of `_write_with_retry`; `applied` is a write whose answer was lost |
| `CommitOk`, `CommitFails(applied)` | one attempt of the commit loop in `_flush`; the last failure raises |
| `LeaveLoop`, `FinalFlush`, `Exit`, `Die` | SIGTERM seen or exception raised, `_final_flush_decision`, close and leave |
| `FlushKey`, `Publish` | the offset ranges `_sink_write_kwargs` passes, and `Sink.write` answering from a receipt |
| `Produce`, `Expire`, `Rewind`, `Crash`, `Sigterm` | producers, retention, an operator's offset reset while the pod is down, SIGKILL, SIGTERM |

### HoglakeSink

A flush is an offset range of one partition. The catalog knows an incarnation per
create (`table_uuid`), a layout (partition spec) and change numbers that order DDL. A
file remembers under which incarnation and layout its values were computed (`values`)
and with which spec it was stamped (`stamped`).

| TLA+ | Code |
|---|---|
| `Begin`, `RetryOrRaise`, `Permanent`, `Commit`, `Close` | `main._flush`, `_write_with_retry`, `is_retryable`, the offset commit, `HoglakeSink.close` |
| `Write` | `write()`: replay the prepared payload of the same offsets, or supersede it |
| `ResolveFound`, `ResolveMissing`, `ResolveCreates`, `Declare`, `DeclareConflicts` | `_ensure_table`, which goes on to `_create_table` when its read or its reconciliation finds no table, and `_declare_specs` |
| `EvolveNothing`, `EvolveColumn`, `TakeShape` | `_evolve_and_align`, `_add_column`, `_table_info` with its TTL and verdict |
| `Upload(valid)`, `UploadPinned`, `UploadFails(landed)`, `NameIsGone` | `_prepare`: the upload, the client's pre-flight refusal, a failure with or without objects left behind, a name that does not resolve |
| `SendOk` .. `SendTimesOut` | `_commit_prepared`, one action per class of answer, `_destination_moved`, `_accept_already_published` |
| `Discarded`, `Held`, `HeldThroughReset` | the split of `_is_answered_refusal`, and a payload that survives `reset_caches` |

External, modelled from how `hoglake.py` and its integration tests rely on it: the
server's verdict on a commit (`Verdict`), in the order receipt, invalid payload, dropped
table, other incarnation, expired basis, DDL since the basis, applied; and pyhoglake's
writer cache, refreshed at half the catalog's snapshot retention.
`Rewind` is an operator's offset reset; `Expire` raises the catalog's expiry floor;
`LateArrival` is a request that reaches the server after its client gave up on it.
Time is in ticks. Only the ages of the two caches are kept, and it is assumed that one
flush encodes within a tick of reading its shape: that is the margin
`_live_info_ttl_s` is built around.

### IncludeValues

A scalar is a pair of type and identity, and `Normalize` does what `_normalize` does: a
list of mixed types becomes strings. `Poll(elements)` is a whole `_poll_once`,
with its refusals in the order of the code; `PollFails` stands for every failed or
malformed fetch; `Restart` loses the damping state.

### DuckLakeSink

Four columns tell the cases of `write` apart: a source of a dual-write, its companion (which
a payload may also carry as a key), a text column some pods pin to uuid, an integer
whose width varies. A batch says which columns it has, in which types, and whether values survive
a narrowing cast or a VARIANT cast. `landed` remembers what the companion of each inserted
batch holds.

| TLA+ | Code |
|---|---|
| `Begin`, `Retry`, `GiveUp`, `ResetCaches`, `Crash` | `main` and `_write_with_retry` around the sink; a batch is kept through a restart, as its offsets are not committed |
| `Strip`, `Ensure`, `Create`, `Partition`, `Align`, `Insert` | `ducklake.write` in its order, one step per statement that reaches the catalog |
| `Evolve`, `AddColumn...`, `Trusted`, `EnsureVariant` | `schema.py`: `ADD COLUMN IF NOT EXISTS` with the re-read after it, `SET DATA TYPE` that may be refused and is swallowed |
| `Casts`, `Widens`, `Accepts` | external: DuckDB's casts of an INSERT and DuckLake's promotions |

### PartitionDrop and RetainedTable

A file has a partition spec, a tuple of partition values, begin and end snapshot, the set of
rows it holds and whether it has a live delete vector. The tool runs READ COMMITTED, so each
statement of a leaf (`ReadGuard`, then `ChooseLeaf` or `SkipLeaf`, then `TakeLock`, `CheckVectors`,
`ReadBaseline`, `InsertSnapshot`, `EndFiles`, `Classify`, `Recheck`, `Verify`, `CommitsDrop`)
sees what others committed before it. The listing and the start of a run are one step each,
and the commit includes the bookkeeping statements before it, which read nothing that another session
can change meanwhile. From
`InsertSnapshot` on the primary key of `ducklake_snapshot` makes other committers wait
(`Held`). What a transaction has ended is in `drop.ended` and becomes visible at the commit.
The engine caches table statistics under `next_file_id` (`cache`), which is why a drop takes an
id it does not use. `RetainedTable` knows only rows, leaves and a count: the arrival of a row
never seen before, or the removal of rows of one aged leaf in one step. The mapping takes the rows of the live files,
with the leaf under each file's own spec, the rows of the files a drop ended, and the
recorded count. A row is a natural number, the id of the file that brought it in.

### CatalogUpkeep

An object is a data file or a delete vector, read by the snapshots from its begin to before its
end. `files` is the history; `rows` is what the catalog lists, `queue` the deletion queue with
duplicates, `objects` what is in S3. A session takes the advisory lock, runs one
command and loses the lock with its connection. What runs without the lock is the engine: commits,
merges and deletes, its own expiry and clean-up, and its bugs which the tool's comments name (a
path queued twice; an object deleted and the transaction rolled back).

| TLA+ | Code |
|---|---|
| `Expire` | `expire`: the engine's procedure, one transaction |
| `SelectBatch`, `Schedule`, `CommitBatch`, `Bridged` | `expire_snapshots`: SELECT of a batch, then its one transaction |
| `Dedup`, `ScanOrphans`, `PassGate`, `GatesFail`, `Heal`, `TakeQueue`, `RemoveObject`, `NoSuchKey`, `RemovalCommits` | `dedup_deletions`, `heal_orphans`, `cleanup`, and their round in `cleanup_all_safe` |
| `SelectPage`, `TakeRow`, `Truncate`, `CommitPage`, `PageFails`, `Halved`, `Regrown` | `drop_orphan_inline_tables`: keyset pages, one transaction each |

## 3. Runs

"States" are distinct states. Every passing run is exhaustive.

| Run | States | Question | Bounds, and why they are enough |
|---|---|---|---|
| `loop_earliest` | 342k | Does any order of faults lose, skip or unboundedly buffer rows? Is every row published in the end? | 3 records, buffer of 2: a flush with a record behind it, and ranges over two polls; 3 faults: write, commit and crash in one history; one SIGTERM, one expired record |
| `loop_two_partitions` | 1.4M (symmetric) | With `latest` and receipts per offset range: does a flush commit exactly what it covers when partitions come and go in a buffer? Does one process publish a row once? Can a rewound or recovered range be acknowledged by another range's receipt? | 2 records each: a partition can be in one flush and absent from the next, and two ranges can share an end; 2 faults: a crash before the commit, then a rewind |
| `loop_poison` | - | see section 6 | |
| `include_values` | 11.5k | May a poll drop a pin, mix types, starve an addition, remove early, or remove a majority at once? | one pin and three values, so a bulk removal is 2 of 3 and "half" is rounded; countdown of 2 |
| `sink_recreated` | 4.1M | Does an acknowledged flush exist in a live incarnation, published once per process and with every upload accounted for, under unknown outcomes, late arrivals and drops? | 2 faults: a lost answer and a crash or refusal after it; 2 drops: a drop and a foreign recreation, between any two steps; 2 attempts, so the last attempt is reached after a retry |
| `sink_ddl` | 1.7M | Do file and spec stay consistent when others alter, drop or recreate the table between any two steps? Is the log committed in the end? | 1 foreign alteration (column or re-spec), 1 drop, 1 fault, 1 offset rewind, 1 column of the pod's own: each is the one change between two steps, and any two of them meet |
| `sink_orphans` | - | see section 6 | |
| `duck_rollout` | 713k | Does a retry recover from every stale cache, is a companion only projected into a VARIANT column, and is the table partitioned unless a pod was interrupted? | two pods, one of the new configuration; 2 flushes, so that the second meets caches; 2 attempts: a failed one and one with dropped caches; one fault, one drop |
| `duck_raw` | - | see section 6 | |
| `drop_leaves` | 336k | Does a drop, through retries, lost answers, skips and concurrent commits, implement whole-leaf retention with a true count? Does it take only what was read, and end? | 3 files in 2 aged leaves, one young label; 1 engine commit of any kind (append, delete, compaction, re-spec), 2 cursor moves (back and forth inside one transaction), 1 fault, 1 foreign job, 2 attempts, 1 wait |
| `drop_vector` | - | see section 6 | |
| `upkeep_jobs` | 250k | Do the jobs and the engine together keep what is readable, forget nothing stored, and end? | 4 snapshots with one time out of order; a file whose bridge is in a later batch; a vector; 9 registry rows: 1 live, 2 badly named, 1 whose table is gone, 1 with rows; batches that start at 3 with a smallest size of 2, so that one halved and then doubled without the cap is past its share of the lock table; 2 commands from 2 sessions, 2 upsets and 2 clean-up rounds, so that two disturbances can exhaust it |

Deadlock: the pods' modules let the environment act or the pod restart, and their runs check for
deadlock. `drop_leaves`, `drop_vector` and `upkeep_jobs` do not: a maintenance command ends,
and the number of commands is bounded.

`Retention = 4` ticks is the smallest value for which the shape's limit (a quarter) and
the client's (a half) differ by a whole tick. Equal limits break
`FilesMatchTheirSpec`, which is what the mutant of `LiveInfoTTL` shows.

Bounds named in the modules (`LogLength`, `Max...`) limit the environment, never the
pod's control. `attempt` is bounded by the retry budgets of the code.

## 4. Properties

Each is stated in its module with the code it is about. The central ones:

- `NoLoss`: an owed row that is not in the destination is at or above the offset at which
  the next consumer resumes. "Owed" is every retained row for `earliest`, every
  row handed to a pod otherwise.
- `NothingSkipped`: a running pod's position has not passed an owed row that is neither
  published nor buffered.
- `CommitOnlyWritten`, `AckedIsPublished`: an answer "already published" is true of the
  rows of this flush.
- `PublishedOncePerProcess`, `OncePerProcess`, `DuplicatesNeedFaults`: where duplicates
  may come from.
- `FilesMatchTheirSpec`, `OnlyDeclaredLayout`: no file whose statistics would prune its
  own rows, under any timing of foreign re-specs.
- `UploadsAccountedFor`, `RefusedStaysUnreferenced`: no upload is forgotten, none that
  was booked as refused turns up in the table later.
- `CommitNeverRewinds`: the committed offset of a partition does not go back by a flush, nor by
  the recovery at start-up that commits a target computed from watermarks.
- `RemovalsAreDamped`, `AdditionsApply`: the asymmetry the poller exists for. A removal is late,
  and several at once are at most half of what the endpoint governs.
- `RetryRecovers`, `CompanionVerified`: what caches may be wrong about, and that being wrong
  costs one attempt and never a value.
- `RetainsTable` (a refinement), `CommitNeverLosesUnread`, `CommitNeverSplitsLeaf`,
  `StatsMatchLiveRows`: what a hand-made commit next to an engine must keep.
- `SnapshotsStayReadable`, `ObjectsAreKnown`, `QueueTroubleNeedsUpsets`, `NeededTablesStay`:
  nothing read is lost, nothing stored is forgotten, and the deletion queue goes
  wrong only by what happens outside the lock.

Every property of a passing run has a mutant in `PROJECT.json`: a plausible bug in one
mapped operator (an offset committed one too far, a range that starts at the latest
batch, a key without its low end, a cache kept or dropped at the wrong time), under which
TLC finds that property violated in that run.

## 5. Fairness

`ConsumeLoop`: weak fairness of every step of the pod's thread. `PollDelivers(p)` says that
`consume` returns messages of a partition that has some, `PollTimeUp` that the flush
interval elapses; `Start` that Kubernetes restarts a dead pod. There is no fairness on
producers, on retention, on signals or on any failure. Failures draw on `MaxFaults`, so
the property reads: once failures stop, every row is published or retention takes it.

`HoglakeSink`: weak fairness of `Progress`, the disjunction of the thread's own steps.
Failing calls and the environment have none and are bounded. At a layout which contradicts the
configured one the code stops by design until an operator acts, so `sink_ddl` has only
the layouts "none" and the wanted one.

`PartitionDrop`: weak fairness of the tool's own step; a statement answers or fails. Nothing
else is fair: the other job may keep the lock, the engine may commit at any time, and the run
ends because waits and attempts are counted. `CatalogUpkeep`: weak fairness of each running
session's step, none of faults or of the engine. `DuckLakeSink` states no liveness.

## 6. Where code and text disagree

Four runs each violate one property which states what the repository says.

- `loop_poison`. Offsets are noted (`main.py:1045-1058`) before the batch is converted. A
  conversion that raises ends the loop, and the final flush commits the noted
  offsets with the older rows. The batch is lost. One such conversion: a field typed
  `int64` by its first value and an integer of 2^63 or more in a later record of the batch.
- `sink_orphans`. `close` books as orphaned, and names for deletion, an upload whose commit
  was applied with its answer lost, or is applied afterwards.
- `duck_raw`. The columns to strip come from a cached schema (`ducklake.py:571`). A pod without
  `variant_columns` that cached it before another pod added the companion keeps the payload's
  own key; its `ADD COLUMN IF NOT EXISTS` is a no-op, the re-read comes after the strip, and
  the text is cast into the VARIANT column.
- `drop_vector`. The check for live delete vectors (`ducklake_maintenance.py:3193`) comes before
  the read of the baseline that the snapshot's primary key protects; the docstring has them
  the other way round. A delete committed in between leaves a live vector on an ended file.

Five more are stated in the modules, or follow from a larger instance, and are not among the runs.
Each was seen in a trace of TLC:

- `IncludeValues!ConsecutiveSuccessfulPolls`. A poll refused as bulk removal does not reset the
  countdown of a value that reappears in it, against `include_values.py:27`.
  `RemovalsAreDamped` states what does hold: that many *accepted* polls in a row.
- `HoglakeSink!AckedIsPublished` with one offset rewind, two drops and `LogLength = 2`: a flush
  keyed with the cached uuid is answered by the dropped incarnation's receipt, against
  `README.md:80`; offsets are committed and the rows are in no live table.
- `DuckLakeSink!PartitionedInTheEnd` with one fault: after a failure between CREATE
  and `SET PARTITIONED BY` every later `_ensure_table` returns early
  (`ducklake.py:429-432`), against `README.md:543`.
- `PartitionDrop!NoSpuriousAbort`: a cursor that goes back before the UPDATE and forward after
  it is taken for a bug of the tool (`ducklake_maintenance.py:3228-3246`). `MissNeedsTwoMoves`
  states what does hold: nothing less than these two moves is.
- `CatalogUpkeep!BridgedFilesReexamined`: with snapshot times out of order a dead file stays
  listed although the snapshot that bridged it has expired, against the comment at
  `ducklake_maintenance.py:494-495`. A leak, no loss.

The passing runs leave out the respective cause: no poison, no rewind in `sink_recreated`.

With `auto.offset.reset=latest`, `NoLoss` and `NothingSkipped` do not hold and are not
claimed: a pod that crashes before the first commit of a partition restarts at the end of
the log. `consumer.py:400-402` chooses this for fresh consumers. For `latest` the runs check
`CommitOnlyWritten` and `CommitNeverRewinds`.

## 7. What is not modelled

- The write retry's deadline and the liveness probe's 480 s, and with them backoff times.
- Types and contents of columns: promotion, casts, sorting, unwritable columns,
  `pa.concat_tables`. An exception there is a permanent write failure, or a poison record.
- In the hoglake sink: sort orders, the names of orphans, namespace and catalog resolution,
  `_inserted_at`, and `write()`'s alignment self-heal, which needs sink and client caches
  to disagree in a way that the modelled moves never produce.
- More than one pod per table as full pods: others appear as changes to the table.
- Configuration, metrics, logging, health server, exporter, producer, manifests:
  parsing and output, or state that nothing else reads.
- In the DuckLake sink: the connection and its settings, nested types, quoting of names. That a lost
  answer to an INSERT repeats its rows is allowed there, since nothing keys a write.
- Cursors that are NULL. `_cursor_guard` counts a NULL cursor as lagging and aborts the run
  (`ducklake_maintenance.py:2922-2923`), while `min(last_snapshot_id)` in the statement that
  guards the UPDATE (`:3163`) ignores it. Every cursor here is a snapshot.
- A cursor that goes back between the last look at the cursors (`ducklake_maintenance.py:3258`)
  and COMMIT. The comment at `:3253-3257` accepts that window, and a drop that commits in it may
  end a file which that consumer is to read again.
- In the maintenance tool: compaction and rewriting (the engine's procedures, present as their
  effects), the orphan and fsck listings of S3, `purge-orphan-stats`,
  `repair-partition-values`, checkpoints, dry runs, the manifest's file format, schema
  versions of the inlined tables, and that two sessions of the lock may share a pool.

## 8. What is proved

TLAPS checks the theorems below, each for every value of the module's constants: sets of
partitions, pods, sessions, values or layouts, logs and histories of any length, and every
number of faults, drops, commits or retries. A "bound" of section 3 is arbitrary here.
Every safety property that a run checks is stated by one of them. Each invariant was checked by TLC
on the instance of a run, or a smaller one, before it was proved.

All rest on the named assumptions of their modules, which TLC evaluates in every run: numbers are
natural and budgets positive, there is a consumer, and what the text below mentions. Four results have a hypothesis of
their own:

| Hypothesis | Of | Why |
|---|---|---|
| `Earliest` | `LoopInvariant`, `RowsAreNeverLost`, `RunningPodSkipsNothing` | `AutoOffsetReset` is `"earliest"` and no record is poison: with `latest` the claim is false (section 6), and `loop_poison` shows the second |
| `"poison" \notin Kinds` | `CommitsOnlyWhatIsWritten` | a batch whose conversion raises has its offsets noted and its rows never buffered; the final flush leaves a receipt over rows it did not publish |
| `MaxRewinds = 0` | `AcknowledgedIsPublished` | after an operator's rewind, the receipt of a dropped incarnation can answer for a kept handle (section 6) |
| `FieldedBatches` | `RetriesRecover` | every column has the types that Arrow and the pins give its field. A batch with, say, a UUID for an integer column is refused by every INSERT, and no retry helps |

### ConsumeLoop: ConsumeLoopProofs and FlushProofs

| Theorem | States |
|---|---|
| `TypeCorrect` | `Spec => []TypeOK` |
| `LoopInvariant`, `RowsAreNeverLost`, `RunningPodSkipsNothing` | `[]LoopInv`, `[]NoLoss`, `[]NothingSkipped` |
| `RangeInvariant`, `CommitsNeverRewind` | `[]RangeInv`, and from it `CommitNeverRewinds`, of a running pod's commits and of the recovery at its start-up |
| `DuplicatesAlwaysNeedFaults` | `[]DuplicatesNeedFaults` |
| `OncePublishedStays` | `PublishedOncePerProcess` |
| `CommitsOnlyWhatIsWritten` | `[]CommitOnlyWritten` |
| `BufferStaysBounded` | `[]BufferBounded` |

`NoLoss` is not inductive: a commit moves the resume point, so one must know that all rows
below the new point are published. Rows are published because they were in the buffer or
below the position (`NothingSkipped`), the committed point is the end of a range that
lies below the position and contains the buffer (`BufferWithinOffsets`), and the commit runs
only when the buffer is in the destination (`CommitOnlyWritten`). With a keyed
destination the last fact needs that a receipt's range is published as a whole
(`ReceiptsCover`), with an exception for records that retention took before the flush that
left the receipt could read them. `DownIsEmpty`, `BufferIsRows` and `LogBounds` are the
bookkeeping between these. `LoopInv` is their conjunction; each action has a lemma.

`FlushProofs` covers `latest` as well, and poison except where its hypothesis says otherwise.
`RangeInv` adds to the bookkeeping that a range has both ends or none and that the committed
offset is behind position and range. The others are inductive on top of it:

- `CountInv`: a row that has used up its copies is about to be committed or is below the
  committed offset, so writing it again takes a fault.
- `OnceInv`: what this process published is behind its position, and while it is still buffered
  the key of the flush has its receipt.
- `CoverInv`: a range holds every row between its ends (`RangeBuffered`) unless the position was
  reset because retention had passed it; a receipt that covers a row it did not publish
  is of such a range, and answers no flush that has the row (`KeysCover`).
- `SizeInv`: a poll starts below the flush size. The step is arithmetic about
  `compute_batch_size`: what is buffered and one more batch of the computed size (`FillBound`).

### HoglakeSink: HoglakeSinkProofs

| Theorem | States |
|---|---|
| `TypeCorrect` | `[]TypeOK` |
| `UploadsAreAccountedFor` | `[]UploadsAccountedFor` |
| `RefusedUploadsStayOut` | `[]RefusedStaysUnreferenced` |
| `PublishedOncePerProcess` | `[]OncePerProcess` |
| `FilesAlwaysMatch`, `DeclaredLayoutOnly` | `[]FilesMatchTheirSpec`, `[]OnlyDeclaredLayout` |
| `AcknowledgedIsPublished` | `[]AckedIsPublished` |

Assumed besides: the configured layout is among the layouts and `"unread"` is not (the code's
`None`), and the retention is a positive multiple of four, so that the cache's limit is a whole
number of ticks. `ShapeInv` says what a phase implies of handle and payload. `LedgerInv`: receipts
and registered uploads go together, and an id stands for one request. The difficulty is the request
that reaches the server late. `RefusalInv` gives the reason why none undoes a refusal: it is
`Doomed`, by a receipt for its key, a dropped or recreated table, a later alter, or an
expired basis, and no step of the catalog takes such a reason away. `OnceInv` says the
same of two late requests for one range, `AckInv` that a receipt from before
the flush is neither for the handle nor for the payload. `LayoutInv` is the argument
behind `_live_info_ttl_s`: a shape younger than its limit implies a client cache younger than
the client's, and both were read from the same table; it uses that a quarter of the retention
is less than a half.

### IncludeValues: IncludeValuesProofs

`TypeCorrect`, `PinsAlwaysHold` (`PinsAndTypeHold`), `AdditionsAlwaysApply` (`AdditionsApply`),
`StartIsNeverRefused` (`StartNeedsOnePoll`), `RemovalsAlwaysDamped` (`RemovalsAreDamped`), for every
set of values, infinite ones included (a document is finite), and every finite non-empty set of pins of one type. The
invariant `ProviderInv` adds `CountdownsAreEarned`, that a countdown never runs ahead of the accepted polls without
its value; `StartsFromPins`: the first poll has nothing to remove but pins, and those are never removed; and
`ServesFinitely`, without which the majority of `RemovalsAreDamped` could not be counted: a poll that passes
`bulk_removal` takes a single value, or at most half of a finite set (`PassingIsMinority`).

### DuckLakeSink: DuckLakeSinkProofs

| Theorem | States |
|---|---|
| `TypeCorrect` | `[]TypeOK` |
| `PartitionedIfNothingFails` | `[]PartitionedUnlessInterrupted` |
| `CompanionsAreVerified` | `[]CompanionVerified` |
| `RetriesRecover` | `[]RetryRecovers` |

for every fleet and every set of configured pods. Each statement has a lemma that says what it does
to its pod; `StepOf` says what any step does to the table and to the other pods, and the
properties follow from the two:

- `PartitionInv`: without faults, an unpartitioned table has a pod at `SET PARTITIONED BY`.
- `CompanionInv`: a configured pod sends no companion of the payload's own, and if it knows the column as VARIANT
  then it is, since nothing but a drop takes a VARIANT away (`CompanionStays`).
- `RetryInv`: what an attempt that nothing disturbed knows at each statement. Its caches are
  the table's columns, column by column through `evolve()`, and the columns behind
  it take the batch's whatever the values are (`Takes`). A refused `SET DATA TYPE` is
  swallowed, so this needs that what is not widened casts anyway (`TakesUnwidened`), which is where
  `FieldsInv`, the types of the four columns, comes in.

### PartitionDrop and RetainedTable: PartitionDropProofs

| Theorem | States |
|---|---|
| `TypeCorrect`, `StatsAlwaysMatch` | `[]TypeOK`, `[]StatsMatchLiveRows` |
| `MissesNeedTwoMoves` | `[]MissNeedsTwoMoves` |
| `NeverLosesUnread`, `NeverSplitsLeaf` | `CommitNeverLosesUnread`, `CommitNeverSplitsLeaf` |
| `ImplementsRetainedTable` | `Spec => RetainsTable` |

`DropInv` holds the catalog's part (live files share no row; the cached statistics are right wherever their key is the
table's `next_file_id`; a compaction's files are live, or a drop committed since it began, which it will see)
and the tool's (aged leaves only, one leaf at a time, nothing ended before
the commit, nothing committed that leaves a selected file live). `StatsMatchLiveRows` rests on the cache: a
hand-made commit that did not take an id would leave a cache that looks fresh. `MovesInv` counts: with no cursor move the
guard that was read is still the lowest cursor and what was chosen stays eligible, with one what the
UPDATE left out is not. `ReadInv` is the last check before the commit; what `NeverLosesUnread` says is
thus said of the cursors at that check, and the window between it and COMMIT is left out (section 7). For the refinement, `DropInv` gives initial states and steps: an append is an arrival, the
commit of a drop is a removal of the rows of the ended files, and everything else, compaction included, leaves rows,
leaves and count as they were.

### CatalogUpkeep: CatalogUpkeepProofs

| Theorem | States |
|---|---|
| `UpkeepInvariant` | `[]UpkeepInv` |
| `SnapshotsAlwaysReadable`, `ObjectsAreNeverForgotten` | `[]SnapshotsStayReadable`, `[]ObjectsAreKnown` |
| `OneCommandAtATime` | no two sessions are running a command |
| `RestInvariant` | `[](UpkeepInv /\ RestInv)` |
| `TypeCorrect`, `NeededTablesAlwaysStay`, `QueueTroubleIsUpset`, `LockTableIsShared` | `[]TypeOK`, `[]NeededTablesStay`, `[]QueueTroubleNeedsUpsets`, `[]LockTableShare` |

They assume `SessionAssumption` (no session is named `"free"`) and `HistoryAssumption`: the
snapshots and the objects are numbered from 1 in the order they were committed, there is at
least one snapshot, an object begins, and ends if it has ended, at one of them, and so does each
of finitely many inlined tables.

The jobs act on what an earlier statement read: the batch of
ids, the dead files of the batch, the orphans of the scan, the rows of the clean-up. Between
the two statements the engine commits, expires and deletes without the lock. So `UpkeepInv` adds
what stays true of each reading: a batch is older than the head (`StillOld`); a file found dead
has ended, no snapshot outside the batch reads it, and it is queued or about to be (`StillDead`);
an orphan's object is still gone (`StillGone`); a row taken for removal is still queued
(`StillToDo`). These survive the engine for three reasons: a commit only ends live objects,
at a snapshot newer than all (`ClockOK`, lemma `CommitPreserves`); its expiry only queues and
never takes the head (`ExpiryQueues`); nobody writes an object that was once deleted. They
survive the other sessions because there is none running (`LockHeld`): without the lock a repair
of the queue would break `StillToDo`, which is why `LockHeld` is part of the invariant.

`RestInv` is about the rest of a session's record. A page of inlined tables is past every remaining
snapshot, and a commit adds only newer ones (`PageOK`); an object is queued at most once more
than there were upsets (`QueueOK`); a round of `cleanup-all-safe` was paid for by an upset, and
one that is about to fail needs another (`RoundOK`, `Poisoned`). `LockTableShare` is arithmetic
about halving and regrowing a batch of at most `StartSize`.

The proof of `SnapshotsStayReadable` does not use snapshot times, so it covers clocks that run
backwards; what does break then is the opposite direction, that dead files leave the list
(`BridgedFilesReexamined`, section 6).

### Only model-checked

Liveness: `EventuallyPublished`, `EventuallyCommitted`, `EventuallyEnds`, `RunsEnd`. It is under
fairness, and with `ENABLED` out of the prover's reach. So are induction over data through
the library's schematic theorems, and `RECURSIVE` operators, of which these modules have none:
`NumberLemmas` derives what it needs by least counterexamples.
That the four runs of section 6 find their violations is TLC's result alone.

## 9. Plan

1. Done: `ConsumeLoop` with its runs and proofs; `HoglakeSink`; `IncludeValues`; `DuckLakeSink`;
   `PartitionDrop` as a refinement of `RetainedTable`; `CatalogUpkeep`.
   Proofs of the safety properties of each, and of the refinement.
2. Proofs: what remains true of `NoLoss` and `NothingSkipped` with `latest` once every partition
   has a committed offset; `AckedIsPublished` with rewinds but no drop.
3. `Destination`: the abstract promise of a sink (a flush is absent, published, or
   published and acknowledged), with `HoglakeSink` shown to implement it.
4. `FlushDeadline`: `_write_with_retry` with clock, `config.py`'s deadline arithmetic and
   the liveness limit. Property: a flush that keeps failing ends before the probe kills it.
5. `Assignment`: ordinals to partitions across replica changes.

## 10. Running

    tlc -workers 2 -config loop_earliest.cfg MCConsumeLoop
    tlapm ConsumeLoopProofs.tla    # and so for every module named ...Proofs, and NumberLemmas

The module of each cfg is in `PROJECT.json`. No run takes more than two minutes
with two workers. The proofs, 14000 obligations, take ten
minutes together.
