---------------------------- MODULE CatalogUpkeep ----------------------------
(***************************************************************************)
(* The catalog jobs of tools/ducklake_maintenance.py that share one        *)
(* advisory lock: expire and expire-snapshots, dedup-deletions,            *)
(* heal-orphans, cleanup and cleanup-all-safe, drop-orphan-inline-tables.  *)
(* A session runs one command at a time.  The ingest pods commit, and run  *)
(* DuckLake's own expiry and cleanup, without that lock.                   *)
(*                                                                         *)
(* An object is a data file or a delete vector: it is read by the          *)
(* snapshots from its begin up to, not including, its end (0: none yet).   *)
(* files remembers every object ever committed; rows says which of them    *)
(* the catalog still lists.                                                *)
(***************************************************************************)
EXTENDS Naturals, FiniteSets

CONSTANTS
  Sessions,
  SnapshotTime,    \* [snapshot -> time], of the snapshots there are at first
  InitialFiles,    \* [object -> [begin, end, of]]; of # 0: a delete vector
  InitialTables,   \* [key -> [begin, end]], life of the table behind a registry row
  Badly,           \* the registry rows with an unexpected table name
  Missing,         \* those whose PostgreSQL table is gone
  Unflushed,       \* those whose table holds rows at first
  Cutoffs,         \* the values of now - days
  BatchSize,       \* --batch-size of expire-snapshots
  BatchLimits,     \* the values of --num-batches
  MaxIterations,   \* of cleanup-all-safe
  Requested,       \* --batch-size of drop-orphan-inline-tables
  Capacity,        \* entries of the server's lock table
  ShareOf,         \* one in so many of them is ours
  EntriesPerDrop,
  MinBatch,        \* _DROP_INLINE_MIN_BATCH_SIZE
  MaxBatch,        \* _DROP_INLINE_MAX_BATCH_SIZE
  MaxAttempts,     \* _DROP_INLINE_MAX_ATTEMPTS
  RegrowAfter,     \* _DROP_INLINE_REGROW_AFTER_BATCHES
  MaxCommits,      \* bound: commits of the engine
  MaxRuns,         \* bound: commands started
  MaxUpsets        \* bound: failures, and what the engine does to the queue

Modes == {"expire", "expire-snapshots", "dedup", "heal", "cleanup", "safe", "inline"}
Tables == DOMAIN InitialTables

ASSUME NumberAssumption ==
  /\ Cutoffs \subseteq Nat /\ BatchLimits \subseteq Nat \ {0}
  /\ {BatchSize, MaxIterations, Requested, Capacity, ShareOf, EntriesPerDrop,
      MinBatch, MaxBatch, MaxAttempts, RegrowAfter} \subseteq Nat \ {0}
  /\ {MaxCommits, MaxRuns, MaxUpsets} \subseteq Nat
ASSUME SessionAssumption == "free" \notin Sessions
ASSUME HistoryAssumption ==
  /\ IsFiniteSet(DOMAIN SnapshotTime) /\ IsFiniteSet(DOMAIN InitialFiles)
  /\ DOMAIN SnapshotTime # {} /\ DOMAIN SnapshotTime = 1 .. Cardinality(DOMAIN SnapshotTime)
  /\ DOMAIN InitialFiles = 1 .. Cardinality(DOMAIN InitialFiles)
  /\ InitialFiles \in [DOMAIN InitialFiles ->
                        [begin : DOMAIN SnapshotTime, end : DOMAIN SnapshotTime \cup {0}, of : Nat]]
  /\ IsFiniteSet(Tables) /\ Tables \subseteq Nat \ {0}
  /\ InitialTables \in [Tables -> [begin : DOMAIN SnapshotTime, end : DOMAIN SnapshotTime \cup {0}]]
  /\ Badly \cup Missing \cup Unflushed \subseteq Tables /\ Missing \cap Unflushed = {}

VARIABLES
  files,      \* every object ever committed
  rows,       \* ducklake_data_file, ducklake_delete_file: the objects listed
  kept,       \* ducklake_snapshot
  queue,      \* ducklake_files_scheduled_for_deletion: rows per object
  objects,    \* what is in S3
  life,       \* ducklake_table: life of the table of each registry row
  registry,   \* ducklake_inlined_data_tables
  present,    \* the inlined tables in pg_class
  filled,     \* those that hold a row
  lock,       \* the session that holds the advisory lock, or "free"
  job,        \* what each session is doing
  spent       \* how much of each bound is used

lists == <<files, rows, kept, queue>>
inlined == <<life, registry, present, filled>>
vars == <<lists, objects, inlined, lock, job, spent>>

HighestIn(S) == CHOOSE n \in S : \A m \in S : m <= n
LowestIn(S) == CHOOSE n \in S : \A m \in S : n <= m
Lesser(a, b) == IF a <= b THEN a ELSE b
Greater(a, b) == IF a >= b THEN a ELSE b

Head == HighestIn(kept)
Queued == {o \in DOMAIN queue : queue[o] > 0}

-----------------------------------------------------------------------------
(* A session between two commands; every command starts from it.           *)
IdleJob ==
  [pc |-> "idle", mode |-> "dedup", cut |-> 0, left |-> 0, batch |-> {}, dead |-> {},
   found |-> {}, taken |-> {}, todo |-> {}, twice |-> {}, tries |-> 0, size |-> 0, clean |-> 0,
   after |-> 0, last |-> 0, page |-> {}, full |-> FALSE, dropping |-> {}, deleting |-> {}]

Init ==
  /\ files = InitialFiles
  /\ rows = DOMAIN InitialFiles
  /\ kept = DOMAIN SnapshotTime
  /\ queue = [o \in DOMAIN InitialFiles |-> 0]
  /\ objects = DOMAIN InitialFiles
  /\ life = InitialTables
  /\ registry = Tables
  /\ present = Tables \ Missing
  /\ filled = Unflushed
  /\ lock = "free"
  /\ job = [s \in Sessions |-> IdleJob]
  /\ spent = [commits |-> 0, runs |-> 0, upsets |-> 0]

Upset == spent.upsets < MaxUpsets /\ spent' = [spent EXCEPT !.upsets = @ + 1]

Reads(snapshot, file) == file.begin <= snapshot /\ (file.end = 0 \/ snapshot < file.end)

-----------------------------------------------------------------------------
(***************************************************************************)
(* The engine in the ingest pods.                                          *)
(***************************************************************************)
EngineCommits ==
  /\ spent.commits < MaxCommits
  /\ spent' = [spent EXCEPT !.commits = @ + 1]
  /\ kept' = kept \cup {Head + 1}
  /\ UNCHANGED <<registry, present, lock, job>>

(* A merge or rewrite replaces a live data file, vector and all.           *)
EngineMerges ==
  /\ EngineCommits
  /\ LET new == HighestIn(DOMAIN files) + 1 IN
     \E o \in {f \in rows : files[f].end = 0 /\ files[f].of = 0} :
       /\ files' = [f \in DOMAIN files \cup {new} |->
                      IF f = new THEN [begin |-> Head + 1, end |-> 0, of |-> 0]
                      ELSE IF f = o \/ (files[f].of = o /\ files[f].end = 0)
                           THEN [files[f] EXCEPT !.end = Head + 1]
                           ELSE files[f]]
       /\ rows' = rows \cup {new}
       /\ queue' = [f \in DOMAIN files \cup {new} |-> IF f = new THEN 0 ELSE queue[f]]
       /\ objects' = objects \cup {new}
  /\ UNCHANGED <<life, filled>>

(* DELETE or DROP TABLE ends live objects and adds none.                   *)
EngineDeletes ==
  /\ EngineCommits
  /\ \E o \in {f \in rows : files[f].end = 0 /\ files[f].of = 0} :
       files' = [f \in DOMAIN files |->
                   IF f = o \/ (files[f].of = o /\ files[f].end = 0)
                   THEN [files[f] EXCEPT !.end = Head + 1] ELSE files[f]]
  /\ UNCHANGED <<rows, queue, objects, life, filled>>

EngineInlines ==
  /\ EngineCommits
  /\ \E t \in present : life[t].end = 0 /\ t \notin filled /\ filled' = filled \cup {t}
  /\ UNCHANGED <<files, rows, queue, objects, life>>

EngineDropsTable ==
  /\ EngineCommits
  /\ \E t \in Tables : life[t].end = 0 /\ life' = [life EXCEPT ![t].end = Head + 1]
  /\ UNCHANGED <<files, rows, queue, objects, filled>>

(* Expiry as DuckLake does it, all of it in one transaction.               *)
Unread(gone, file) == file.end # 0 /\ \A s \in kept \ gone : ~Reads(s, file)

EngineExpiry(gone) ==
  LET dead == {o \in rows : Unread(gone, files[o])} IN
  /\ kept' = kept \ gone
  /\ rows' = rows \ dead
  /\ queue' = [o \in DOMAIN queue |-> queue[o] + (IF o \in dead THEN 1 ELSE 0)]

(* Mutant: the head snapshot expires like any other.                       *)
OlderThanAll(cut) == {s \in kept : s \in DOMAIN SnapshotTime /\ SnapshotTime[s] < cut}

OlderThan(cut) == {s \in kept \ {Head} : s \in DOMAIN SnapshotTime /\ SnapshotTime[s] < cut}

EngineExpires ==
  /\ Upset
  /\ \E cut \in Cutoffs : OlderThan(cut) # {} /\ EngineExpiry(OlderThan(cut))
  /\ UNCHANGED <<files, objects, inlined, lock, job>>

(* A path can be queued twice (DuckLake bug c5).                           *)
EngineRequeues ==
  /\ Upset
  /\ \E o \in Queued : queue' = [queue EXCEPT ![o] = @ + 1]
  /\ UNCHANGED <<files, rows, kept, objects, inlined, lock, job>>

(* A cleanup of the pods deletes an object, and its transaction is rolled  *)
(* back (bug c1).                                                          *)
EngineRemoves ==
  /\ Upset
  /\ \E o \in Queued \cap objects : objects' = objects \ {o}
  /\ UNCHANGED <<lists, inlined, lock, job>>

-----------------------------------------------------------------------------
(***************************************************************************)
(* Sessions.                                                               *)
(***************************************************************************)
At(s, pc) == job[s].pc = pc
Goto(s, pc) == job' = [job EXCEPT ![s].pc = pc]

(* The command returns or raises; its connection, and the lock, are gone.  *)
Ends(s) ==
  /\ job' = [job EXCEPT ![s] = IdleJob]
  /\ lock' = IF lock = s THEN "free" ELSE lock

LockBudget == (Capacity \div ShareOf) \div EntriesPerDrop

(* Mutant: the operator's number is taken as it is.                        *)
RequestedSize == Requested

StartSize == Lesser(Requested, Greater(MinBatch, Lesser(LockBudget, MaxBatch)))

FirstStep(mode) ==
  CASE mode = "expire" -> "expiry"
    [] mode = "expire-snapshots" -> "select"
    [] mode \in {"dedup", "safe"} -> "dedup"
    [] mode = "heal" -> "scan"
    [] mode = "cleanup" -> "take"
    [] mode = "inline" -> "page"

(* Mutant: the answer of pg_try_advisory_lock is not looked at.            *)
HeldOrNot == TRUE

LockFree == lock = "free"

Start(s) ==
  /\ At(s, "idle") \/ At(s, "exhausted")
  /\ spent.runs < MaxRuns
  /\ LockFree
  /\ \E mode \in Modes, cut \in Cutoffs, limit \in BatchLimits :
       job' = [job EXCEPT ![s] =
                 [IdleJob EXCEPT !.pc = FirstStep(mode), !.mode = mode, !.size = StartSize,
                    !.cut = IF mode \in {"expire", "expire-snapshots"} THEN cut ELSE 0,
                    !.left = IF mode = "expire-snapshots" THEN limit ELSE 0]]
  /\ lock' = s
  /\ spent' = [spent EXCEPT !.runs = @ + 1]
  /\ UNCHANGED <<lists, objects, inlined>>

(* The process is killed, its connection is lost, or a statement fails in  *)
(* a way the command does not handle: the open transaction is rolled back. *)
SessionFails(s) ==
  /\ job[s].pc \notin {"idle", "exhausted"}
  /\ Upset
  /\ Ends(s)
  /\ UNCHANGED <<lists, objects, inlined>>

-----------------------------------------------------------------------------
Expire(s) ==
  /\ At(s, "expiry")
  /\ EngineExpiry(OlderThan(job[s].cut))
  /\ Ends(s)
  /\ UNCHANGED <<files, objects, inlined, spent>>

(***************************************************************************)
(* expire_snapshots: one batch is a SELECT of ids, then one transaction.   *)
(***************************************************************************)
NextBatch(cut) ==
  {n \in OlderThan(cut) : Cardinality({m \in OlderThan(cut) : m < n}) < BatchSize}

SelectBatch(s) ==
  /\ At(s, "select")
  /\ LET batch == NextBatch(job[s].cut) IN
     IF batch = {} \/ job[s].left = 0
     THEN Ends(s)
     ELSE /\ job' = [job EXCEPT ![s].pc = "schedule", ![s].batch = batch, ![s].left = @ - 1]
          /\ UNCHANGED lock
  /\ UNCHANGED <<lists, objects, inlined, spent>>

(* Mutant: the bridge is looked for after the begin of the file.           *)
BridgedAfterBegin(file, batch) ==
  \E n \in kept \ batch : file.begin < n /\ n < file.end

Bridged(file, batch) == \E n \in kept \ batch : file.begin <= n /\ n < file.end

(* The dead sets are materialized, and what is not queued yet is queued;   *)
(* nothing of it shows before the batch commits.                           *)
Schedule(s) ==
  /\ At(s, "schedule")
  /\ LET dead == {o \in rows : files[o].end \in job[s].batch /\ ~Bridged(files[o], job[s].batch)} IN
     job' = [job EXCEPT ![s].pc = "cascade", ![s].dead = dead, ![s].taken = dead \ Queued]
  /\ UNCHANGED <<lists, objects, inlined, lock, spent>>

CommitBatch(s) ==
  /\ At(s, "cascade")
  /\ queue' = [o \in DOMAIN queue |-> queue[o] + (IF o \in job[s].taken THEN 1 ELSE 0)]
  /\ rows' = rows \ job[s].dead
  /\ kept' = kept \ job[s].batch
  /\ job' = [job EXCEPT ![s].pc = "select", ![s].batch = {}, ![s].dead = {}, ![s].taken = {}]
  /\ UNCHANGED <<files, objects, inlined, lock, spent>>

-----------------------------------------------------------------------------
(***************************************************************************)
(* dedup_deletions, heal_orphans and cleanup, alone or as the round of     *)
(* cleanup_all_safe.                                                       *)
(***************************************************************************)
NextInRound(s, pc) == IF job[s].mode = "safe" THEN Goto(s, pc) /\ UNCHANGED lock ELSE Ends(s)

Dedup(s) ==
  /\ At(s, "dedup")
  /\ queue' = [o \in DOMAIN queue |-> Lesser(queue[o], 1)]
  /\ NextInRound(s, "scan")
  /\ UNCHANGED <<files, rows, kept, objects, inlined, spent>>

(* find_catalog_orphans: queued, and gone from S3.                         *)
ScanOrphans(s) ==
  /\ At(s, "scan")
  /\ LET orphans == Queued \ objects IN
     IF orphans = {}
     THEN NextInRound(s, "take")
     ELSE job' = [job EXCEPT ![s].pc = "gates", ![s].found = orphans] /\ UNCHANGED lock
  /\ UNCHANGED <<lists, objects, inlined, spent>>

LiveData == {o \in rows : files[o].end = 0 /\ files[o].of = 0}

(* Gate B1: there are live data files, and no orphan is one of them.       *)
LiveGate(orphans) == LiveData # {} /\ LiveData \cap orphans = {}

(* Gate B3: no live delete vector belongs to an orphan.                    *)
VectorGate(orphans) == \A o \in rows : files[o].end = 0 => files[o].of \notin orphans

(* Each gate is a query of its own, and so is the DELETE after them.       *)
PassGate(s) ==
  /\ \/ At(s, "gates") /\ LiveGate(job[s].found) /\ Goto(s, "vectors")
     \/ At(s, "vectors") /\ VectorGate(job[s].found) /\ Goto(s, "delete")
  /\ UNCHANGED <<lists, objects, inlined, lock, spent>>

GatesFail(s) ==
  /\ \/ At(s, "gates") /\ ~LiveGate(job[s].found)
     \/ At(s, "vectors") /\ ~VectorGate(job[s].found)
  /\ Ends(s)
  /\ UNCHANGED <<lists, objects, inlined, spent>>

(* Mutant: the rows that the scan found are left in the queue.             *)
HealNothing(orphans) == queue

(* Mutant: the whole queue goes.                                           *)
HealEverything(orphans) == [o \in DOMAIN queue |-> 0]

Without(orphans) == [o \in DOMAIN queue |-> IF o \in orphans THEN 0 ELSE queue[o]]

Heal(s) ==
  /\ At(s, "delete")
  /\ queue' = Without(job[s].found)
  /\ IF job[s].mode = "safe"
     THEN job' = [job EXCEPT ![s].pc = "take", ![s].found = {}] /\ UNCHANGED lock
     ELSE Ends(s)
  /\ UNCHANGED <<files, rows, kept, objects, inlined, spent>>

(* ducklake_cleanup_old_files reads the queue, all of it or what is old    *)
(* enough, deletes row by row the object (one queued twice is visited      *)
(* twice), and only then the rows.                                         *)
TakeQueue(s) ==
  /\ At(s, "take")
  /\ \E Q \in SUBSET Queued :
       /\ job[s].mode = "safe" => Q = Queued
       /\ job' = [job EXCEPT ![s].pc = "remove", ![s].taken = Q, ![s].todo = Q,
                             ![s].twice = {o \in Q : queue[o] > 1}]
  /\ UNCHANGED <<lists, objects, inlined, lock, spent>>

RemoveObject(s) ==
  /\ At(s, "remove")
  /\ \E o \in job[s].todo \cap objects :
       /\ objects' = objects \ {o}
       /\ job' = [job EXCEPT ![s].todo = @ \ ({o} \ job[s].twice)]
  /\ UNCHANGED <<lists, inlined, lock, spent>>

(* NoSuchKey: the transaction is rolled back, the objects stay deleted.    *)
RemovalCrashes(s) ==
  /\ IF job[s].mode # "safe" THEN Ends(s)
     ELSE /\ job' = [job EXCEPT ![s] =
                       [IdleJob EXCEPT !.mode = "safe", !.tries = job[s].tries + 1, !.size = StartSize,
                          !.pc = IF job[s].tries + 1 = MaxIterations THEN "exhausted" ELSE "dedup"]]
          /\ lock' = IF job[s].tries + 1 = MaxIterations THEN "free" ELSE lock
  /\ UNCHANGED <<lists, objects, inlined>>

NoSuchKey(s) ==
  /\ At(s, "remove")
  /\ job[s].todo \ objects # {}
  /\ RemovalCrashes(s)
  /\ UNCHANGED spent

(* S3 answers with another error.                                          *)
RemovalFails(s) ==
  /\ At(s, "remove") /\ job[s].todo # {}
  /\ Upset
  /\ RemovalCrashes(s)

RemovalCommits(s) ==
  /\ At(s, "remove") /\ job[s].todo = {}
  /\ queue' = [o \in DOMAIN queue |-> IF o \in job[s].taken THEN 0 ELSE queue[o]]
  /\ Ends(s)
  /\ UNCHANGED <<files, rows, kept, objects, inlined, spent>>

-----------------------------------------------------------------------------
(***************************************************************************)
(* drop_orphan_inline_tables: pages of registry rows, one transaction per  *)
(* page.                                                                   *)
(***************************************************************************)
Reachable(t) ==
  /\ life[t].begin <= HighestIn(kept)
  /\ life[t].end = 0 \/ life[t].end > LowestIn(kept)

PageAfter(key, size) ==
  LET orphans == {t \in registry : t > key /\ ~Reachable(t)} IN
  {t \in orphans : Cardinality({u \in orphans : u < t}) < size}

(* Mutant: a plain LIMIT, from the head of the registry.                   *)
FromTheHead(s) == 0

LastKey(s) == job[s].after

(* The rows of the page are locked; what is locked already is skipped.     *)
SelectPage(s) ==
  /\ At(s, "page")
  /\ LET page == PageAfter(LastKey(s), job[s].size) IN
     IF page = {}
     THEN Ends(s)
     ELSE /\ job' = [job EXCEPT ![s].pc = "row", ![s].page = page,
                                ![s].full = Cardinality(page) = job[s].size]
          /\ UNCHANGED lock
  /\ UNCHANGED <<lists, objects, inlined, spent>>

(* Mutant: the table is not looked into.                                   *)
NotLookedInto(t) == t \in Badly

Spared(t) == t \in Badly \/ t \in present \cap filled

(* Mutant: every row of the page is deleted from the registry.             *)
DeletedAnyway(t) == {t}

RegistryRow(t) == IF Spared(t) THEN {} ELSE {t}

(* LOCK TABLE, look, DROP: an unexpected name is not locked, a table that  *)
(* holds a row stays, and its registry row with it.                        *)
TakeRow(s) ==
  /\ At(s, "row") /\ job[s].page # {}
  /\ LET t == LowestIn(job[s].page) IN
     job' = [job EXCEPT ![s].page = @ \ {t}, ![s].last = t,
               ![s].dropping = @ \cup (IF Spared(t) THEN {} ELSE {t} \cap present),
               ![s].deleting = @ \cup RegistryRow(t)]
  /\ UNCHANGED <<lists, objects, inlined, lock, spent>>

(* The deadline: no new row, but at least one was taken.                   *)
Truncate(s) ==
  /\ At(s, "row") /\ job[s].page # {} /\ job[s].last > job[s].after
  /\ job' = [job EXCEPT ![s].page = {}, ![s].full = FALSE]
  /\ UNCHANGED <<lists, objects, inlined, lock, spent>>

(* Mutant: nothing holds the growth at the size to start with.            *)
RegrownUncapped(size) == size * 2

Regrown(size) == Lesser(StartSize, size * 2)

(* A full page without a retry counts as clean, enough of them double the  *)
(* batch.                                                                  *)
CommitPage(s) ==
  /\ At(s, "row") /\ job[s].page = {}
  /\ present' = present \ job[s].dropping
  /\ registry' = registry \ job[s].deleting
  /\ LET clean == IF job[s].tries = 0 THEN job[s].clean + 1 ELSE 0
         grows == clean >= RegrowAfter /\ job[s].size < StartSize
     IN  IF job[s].full
         THEN /\ job' = [job EXCEPT ![s] =
                  [IdleJob EXCEPT !.pc = "page", !.mode = "inline", !.after = job[s].last,
                     !.last = job[s].last, !.clean = IF grows THEN 0 ELSE Lesser(clean, RegrowAfter),
                     !.size = IF grows THEN Regrown(job[s].size) ELSE job[s].size]]
              /\ UNCHANGED lock
         ELSE Ends(s)
  /\ UNCHANGED <<lists, objects, life, filled, spent>>

(* --run-budget-s, between two batches.                                    *)
OutOfBudget(s) ==
  /\ At(s, "page") /\ (job[s].after > 0 \/ job[s].tries > 0)
  /\ Ends(s)
  /\ UNCHANGED <<lists, objects, inlined, spent>>

Halved(size) == Lesser(size, Greater(MinBatch, size \div 2))

(* A lock, a deadlock, a table that is gone; or out of shared memory,      *)
(* which halves the batch.  The transaction is rolled back.                *)
PageFails(s) ==
  /\ At(s, "row")
  /\ Upset
  /\ IF job[s].tries + 1 = MaxAttempts THEN Ends(s)
     ELSE /\ \E size \in {job[s].size, Halved(job[s].size)} :
               job' = [job EXCEPT ![s].pc = "page", ![s].tries = @ + 1, ![s].size = size,
                         ![s].last = job[s].after, ![s].page = {}, ![s].full = FALSE,
                         ![s].dropping = {}, ![s].deleting = {}]
          /\ UNCHANGED lock
  /\ UNCHANGED <<lists, objects, inlined>>

-----------------------------------------------------------------------------
Engine ==
  \/ EngineMerges \/ EngineDeletes \/ EngineInlines \/ EngineDropsTable
  \/ EngineExpires \/ EngineRequeues \/ EngineRemoves

Step(s) ==
  \/ Expire(s) \/ SelectBatch(s) \/ Schedule(s) \/ CommitBatch(s)
  \/ Dedup(s) \/ ScanOrphans(s) \/ PassGate(s) \/ GatesFail(s) \/ Heal(s)
  \/ TakeQueue(s) \/ RemoveObject(s) \/ NoSuchKey(s) \/ RemovalCommits(s)
  \/ SelectPage(s) \/ TakeRow(s) \/ CommitPage(s)

Faults(s) == SessionFails(s) \/ RemovalFails(s) \/ PageFails(s) \/ Truncate(s) \/ OutOfBudget(s)

Next == Engine \/ \E s \in Sessions : Start(s) \/ Step(s) \/ Faults(s)

Spec == Init /\ [][Next]_vars
FairSpec == Spec /\ \A s \in Sessions : WF_vars(Step(s))

-----------------------------------------------------------------------------
TypeOK ==
  /\ \A o \in DOMAIN files : files[o] \in [begin : Nat, end : Nat, of : Nat]
  /\ rows \subseteq DOMAIN files /\ objects \subseteq DOMAIN files
  /\ queue \in [DOMAIN files -> 0 .. 1 + MaxUpsets]
  /\ kept # {} /\ \A s \in Sessions : job[s].batch \cap {Head} = {}
  /\ present \subseteq Tables /\ registry \subseteq Tables /\ filled \subseteq Tables
  /\ lock \in Sessions \cup {"free"}
  /\ \A s \in Sessions :
       /\ job[s].mode \in Modes /\ job[s].tries \in 0 .. Greater(MaxIterations, MaxAttempts)
       /\ job[s].dead \cup job[s].found \cup job[s].taken \subseteq DOMAIN files
       /\ job[s].todo \cup job[s].twice \subseteq job[s].taken
       /\ job[s].dropping \subseteq job[s].deleting /\ job[s].deleting \subseteq Tables

(* ducklake_maintenance.py:446 and 487-510: whatever is expired, by whom   *)
(* and in which order, what a remaining snapshot reads is listed,          *)
(* stored, and not waiting for deletion; and there is a snapshot to read.  *)
SnapshotsStayReadable ==
  \A s \in kept : \A o \in DOMAIN files :
    Reads(s, files[o]) => o \in rows \cap objects /\ o \notin Queued

(* ducklake_maintenance.py:540-549 and 1611-1618: an object in S3 that no  *)
(* snapshot needs is known to the catalog until it is deleted, through     *)
(* every crash, rollback and repair of the queue.                          *)
ObjectsAreKnown == objects \subseteq rows \cup Queued

(* ducklake_maintenance.py:360-363 and 1630-1657: the queue of deletions   *)
(* goes wrong only by what happens outside the lock.  The lock keeps two   *)
(* expiries from queueing a file twice, only the engine's own work does;   *)
(* and cleanup-all-safe gives up only after as many disturbances as        *)
(* rounds: no crash of a removal poisons the next round.                   *)
QueueTroubleNeedsUpsets ==
  /\ (\E o \in Queued : queue[o] > 1) => spent.upsets > 0
  /\ (\E s \in Sessions : At(s, "exhausted")) => spent.upsets >= MaxIterations

(* ducklake_maintenance.py:3837-3871, 3996-4023: a table that a remaining *)
(* snapshot can read, and one that holds a row, is not dropped; and none   *)
(* is left without its registry row, which would leak it for good.         *)
NeededTablesStay ==
  /\ present \subseteq registry
  /\ \A t \in Tables \ Missing :
       (t \in filled \/ \E s \in kept : Reads(s, life[t])) => t \in present

(* ducklake_maintenance.py:3718-3763: through halving and growing back, a  *)
(* batch holds no more of the lock table than its share, or the minimum.   *)
LockTableShare ==
  \A s \in Sessions :
    Cardinality(job[s].dropping) * EntriesPerDrop
      <= Greater(Capacity \div ShareOf, MinBatch * EntriesPerDrop)

(* ducklake_maintenance.py:494-495: a file that a bridging snapshot kept   *)
(* alive is "re-examined if that id expires later": it does not stay       *)
(* listed once every snapshot from its begin to its end is gone.  With     *)
(* snapshot times out of order it does.                                    *)
BridgedFilesReexamined ==
  \A o \in rows : files[o].end # 0 => \E s \in kept : files[o].begin <= s /\ s <= files[o].end

(* Every command ends, also with rows in the registry that never drop.     *)
RunsEnd == \A s \in Sessions : job[s].pc \notin {"idle", "exhausted"} ~> job[s].pc \in {"idle", "exhausted"}
=============================================================================
