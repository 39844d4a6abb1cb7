---------------------------- MODULE PartitionDrop ----------------------------
(***************************************************************************)
(* list-droppable-partitions and drop-partitions of                        *)
(* tools/ducklake_maintenance.py: retention that ends whole partition      *)
(* leaves by writing, on a direct READ COMMITTED session, the catalog rows *)
(* an engine commit would have written.  In drop-partitions every SQL      *)
(* statement of a leaf is a step of its own; the listing, the start of a   *)
(* run and a commit with its bookkeeping are one each.                     *)
(* Around the tool run the DuckLake engine (appends, deletes,              *)
(* compaction, ALTER), the viaduck consumers whose cursors move both ways, *)
(* and the other maintenance jobs, which share an advisory lock with it.   *)
(*                                                                         *)
(* Snapshot ids stand for time.  A data file holds the set of rows it was  *)
(* written with; its label is its tuple of partition values, which only    *)
(* its own partition spec can read.                                        *)
(***************************************************************************)
EXTENDS Naturals, FiniteSets

CONSTANTS
  Labels,          \* the tuples of partition values
  LabelTime,       \* [spec -> [label -> time]]: _compose_part_ts
  Bare,            \* stands for: no partition value at all
  Rot,             \* stands for: partition values that compose to no time
  Cutoff,
  Ancient,         \* the snapshots up to this one are older than cutoff + 48h
  Expirable,       \* those up to this one are past the expiry retention
  Consumers,       \* of the viaduck cursor store
  InitialFiles,    \* [file -> record]
  InitialHead,
  Arrivals,        \* the labels the engine writes during the run
  FileLimits,      \* the values of --max-files
  MaxRot,          \* --max-rot
  MaxAttempts,     \* _DROP_MAX_ATTEMPTS
  MaxWaits,        \* _DROP_LOCK_ATTEMPTS
  MaxCommits,      \* bound: commits of the engine
  MaxRuns,         \* bound: runs of drop-partitions
  MaxFaults,       \* bound: failed statements, lost answers, kills
  MaxMoves,        \* bound: cursors moved
  MaxCrons,        \* bound: other maintenance jobs
  RewindTo,        \* bound: where they go back to
  MaxDeletes,      \* bound: row-level deletes by the engine
  MaxAlters        \* bound: changes of the partition spec

Specs == DOMAIN LabelTime
Marks == Labels \cup {Bare, Rot}

FileSet ==
  [spec : Specs, label : Marks, begin : Nat, end : Nat, rows : SUBSET Nat, vector : BOOLEAN]

ASSUME LabelAssumption ==
  /\ Bare \notin Labels /\ Rot \notin Labels /\ Bare # Rot
  /\ LabelTime \in [Specs -> [Labels -> Nat]]
  /\ 1 \in Specs /\ Arrivals \subseteq Marks
ASSUME ConsumerAssumption == Consumers # {}
ASSUME NumberAssumption ==
  /\ {Cutoff, Ancient, Expirable, MaxRot} \subseteq Nat
  /\ FileLimits \cup {MaxAttempts, MaxWaits} \subseteq Nat \ {0}
  /\ RewindTo \subseteq Nat \ {0}
  /\ {MaxCommits, MaxRuns, MaxFaults, MaxMoves, MaxCrons, MaxDeletes, MaxAlters} \subseteq Nat
ASSUME HistoryAssumption ==
  /\ InitialHead \in Nat \ {0}
  /\ IsFiniteSet(DOMAIN InitialFiles) /\ DOMAIN InitialFiles # {}
  /\ \A f \in DOMAIN InitialFiles :
       /\ f \in Nat \ {0} /\ InitialFiles[f] \in FileSet
       /\ InitialFiles[f].begin \in 1 .. InitialHead /\ InitialFiles[f].end = 0
       /\ InitialFiles[f].rows = {f} /\ InitialFiles[f].spec = 1

VARIABLES
  files,      \* ducklake_data_file, with the live delete vector of each
  head,       \* the newest snapshot
  kept,       \* ducklake_snapshot: the snapshots not expired
  nextFile,   \* next_file_id of the newest snapshot row
  changes,    \* ducklake_snapshot_changes: what each snapshot did
  stats,      \* record_count of ducklake_table_stats
  cache,      \* the engine's copy of the statistics, keyed by next_file_id
  liveSpec,   \* the partition spec new files are written under
  job,        \* a compaction under way: its files and the snapshot it began at
  cursor,     \* last_snapshot_id of every consumer, never NULL here
  lock,       \* who holds the maintenance advisory lock
  manifest,   \* what list-droppable-partitions wrote; spec 0 before it ran
  drop,       \* the drop-partitions process
  spent       \* how much of each bound is used

catalog == <<files, head, kept, nextFile, changes, stats, liveSpec>>
vars == <<catalog, cache, job, cursor, lock, manifest, drop, spent>>

HighestIn(S) == CHOOSE n \in S : \A m \in S : m <= n
LowestIn(S) == CHOOSE n \in S : \A m \in S : n <= m

Live == {f \in DOMAIN files : files[f].end = 0}
RowsOf(S) == UNION {files[f].rows : f \in S}

-----------------------------------------------------------------------------
IdleJob == [files |-> {}, start |-> 0]

(* The tool between two runs.  base, ended and doubtful belong to its      *)
(* transaction and vanish with it.                                         *)
IdleDrop ==
  [pc |-> "idle", listed |-> FALSE, limit |-> 0, spec |-> 1, floor |-> 0, work |-> {},
   guard |-> 0, leaf |-> Bare, chosen |-> {}, tries |-> 0, waits |-> 0,
   base |-> 0, ended |-> {}, doubtful |-> {}]

Init ==
  /\ files = InitialFiles
  /\ head = InitialHead
  /\ kept = 1 .. head
  /\ nextFile = HighestIn(DOMAIN InitialFiles) + 1
  /\ changes = [s \in 1 .. head |-> "appended"]
  /\ stats = Cardinality(DOMAIN InitialFiles)
  /\ cache = [key |-> nextFile, count |-> stats]
  /\ liveSpec = 1
  /\ job = IdleJob
  /\ cursor = [c \in Consumers |-> head]
  /\ lock = "free"
  /\ manifest = [spec |-> 0, leaves |-> {}]
  /\ drop = IdleDrop
  /\ spent = [commits |-> 0, runs |-> 0, faults |-> 0, moves |-> 0, crons |-> 0, deletes |-> 0, alters |-> 0]

Spend(what) == spent' = [spent EXCEPT ![what] = @ + 1]

-----------------------------------------------------------------------------
(***************************************************************************)
(* The engine and the consumers.  Whoever commits allocates the snapshot   *)
(* id head + 1, and the primary key makes the others wait while the tool's *)
(* transaction holds the row.                                              *)
(***************************************************************************)
Held == drop.pc \in {"update", "classify", "recheck", "verify", "commit"}

(* The statistics the engine commits are the ones it has cached for this   *)
(* next_file_id, and the table's own only when it has none.                *)
EngineCount == IF cache.key = nextFile THEN cache.count ELSE stats

EngineCommits(kind, newFiles, taken, count) ==
  /\ ~Held /\ spent.commits < MaxCommits
  /\ files' = newFiles
  /\ head' = head + 1
  /\ kept' = kept \cup {head + 1}
  /\ changes' = [s \in 1 .. head + 1 |-> IF s = head + 1 THEN kind ELSE changes[s]]
  /\ nextFile' = nextFile + taken
  /\ stats' = count
  /\ cache' = [key |-> nextFile + taken, count |-> count]
  /\ spent' = [spent EXCEPT !.commits = @ + 1,
                            !.deletes = IF kind = "deleted" THEN @ + 1 ELSE @,
                            !.alters = IF kind = "altered" THEN @ + 1 ELSE @]

WithFile(fs, file) == [f \in DOMAIN fs \cup {nextFile} |-> IF f = nextFile THEN file ELSE fs[f]]

EngineAppends(label) ==
  /\ EngineCommits("appended",
       WithFile(files, [spec |-> liveSpec, label |-> label, begin |-> head + 1, end |-> 0,
                        rows |-> {nextFile}, vector |-> FALSE]),
       1, EngineCount + 1)
  /\ UNCHANGED <<liveSpec, job, cursor, lock, manifest, drop>>

EngineAlters ==
  /\ spent.alters < MaxAlters
  /\ \E s \in Specs \ {liveSpec} : liveSpec' = s
  /\ EngineCommits("altered", files, 0, EngineCount)
  /\ UNCHANGED <<job, cursor, lock, manifest, drop>>

(* Compaction merges files of a leaf that have no delete vector: it reads  *)
(* first and commits later, unless a drop committed in between.            *)
Mergeable(S) ==
  /\ Cardinality(S) = 2
  /\ \A f, g \in S : files[f].spec = files[g].spec /\ files[f].label = files[g].label
  /\ \A f \in S : ~files[f].vector

CompactionBegins ==
  /\ job.files = {}
  /\ \E S \in SUBSET Live : Mergeable(S) /\ job' = [files |-> S, start |-> head]
  /\ UNCHANGED <<catalog, cache, cursor, lock, manifest, drop, spent>>

(* deleted_from_table among the changes since the compaction began.        *)
Conflicts == \E s \in job.start + 1 .. head : changes[s] = "dropped"

CompactionGivesUp ==
  /\ job.files # {} /\ Conflicts
  /\ job' = IdleJob
  /\ UNCHANGED <<catalog, cache, cursor, lock, manifest, drop, spent>>

CompactionCommits ==
  /\ job.files # {} /\ ~Conflicts
  /\ LET f == CHOOSE g \in job.files : TRUE IN
     EngineCommits("compacted",
       WithFile([g \in DOMAIN files |->
                   IF g \in job.files THEN [files[g] EXCEPT !.end = head + 1] ELSE files[g]],
                [files[f] EXCEPT !.begin = head + 1, !.rows = RowsOf(job.files)]),
       1, EngineCount)
  /\ job' = IdleJob
  /\ UNCHANGED <<liveSpec, cursor, lock, manifest, drop>>

(* A DELETE puts a vector on one file.                                     *)
EngineDeletes ==
  /\ spent.deletes < MaxDeletes
  /\ \E f \in Live :
       /\ ~files[f].vector /\ f \notin job.files
       /\ EngineCommits("deleted", [files EXCEPT ![f].vector = TRUE], 1, EngineCount)
  /\ UNCHANGED <<liveSpec, job, cursor, lock, manifest, drop>>

(* A consumer commits what it has delivered; after a failed flush it goes  *)
(* back.  A rewind in the instant between the tool's last look at the      *)
(* cursors and its COMMIT is left out: the code accepts that window.       *)
CursorAdvances(c) ==
  /\ spent.moves < MaxMoves /\ cursor[c] < head
  /\ cursor' = [cursor EXCEPT ![c] = head]
  /\ Spend("moves")
  /\ UNCHANGED <<catalog, cache, job, lock, manifest, drop>>

CursorRewinds(c) ==
  /\ spent.moves < MaxMoves /\ drop.pc # "commit"
  /\ \E s \in RewindTo : s < cursor[c] /\ cursor' = [cursor EXCEPT ![c] = s]
  /\ Spend("moves")
  /\ UNCHANGED <<catalog, cache, job, lock, manifest, drop>>

(* Another maintenance job: it runs only under the lock, may expire old    *)
(* snapshots (never the head), and frees the lock when its session ends.   *)
CronLocks ==
  /\ lock = "free" /\ spent.crons < MaxCrons
  /\ lock' = "cron"
  /\ Spend("crons")
  /\ UNCHANGED <<catalog, cache, job, cursor, manifest, drop>>

CronExpires ==
  /\ lock = "cron"
  /\ LET out == {s \in kept : s <= Expirable} \ {head} IN
     out # {} /\ kept' = kept \ out
  /\ UNCHANGED <<files, head, nextFile, changes, stats, liveSpec, cache, job, cursor, lock, manifest, drop, spent>>

CronUnlocks ==
  /\ lock = "cron"
  /\ lock' = "free"
  /\ UNCHANGED <<catalog, cache, job, cursor, manifest, drop, spent>>

-----------------------------------------------------------------------------
(***************************************************************************)
(* list-droppable-partitions.                                              *)
(***************************************************************************)
(* _floor_snapshot: the newest ancient snapshot, and when expiry has left  *)
(* none the one before the oldest kept.                                    *)
FloorSnapshot ==
  LET old == {s \in kept : s <= Ancient} IN
  IF old # {} THEN HighestIn(old) ELSE LowestIn(kept) - 1

Aged(spec, label) == label \in Labels /\ LabelTime[spec][label] < Cutoff

NoUnageableFile == \A f \in Live : files[f].label # Bare

(* A live file of an older spec stops the run unless its values, read      *)
(* under the live spec, are provably young.                                *)
NoOldSpecFile ==
  \A f \in Live : files[f].spec # liveSpec => files[f].label \in Labels /\ ~Aged(liveSpec, files[f].label)

RotFiles == {f \in Live : files[f].spec = liveSpec /\ files[f].label = Rot}

Droppable ==
  {l \in Labels : Aged(liveSpec, l)
     /\ \E f \in Live : files[f].spec = liveSpec /\ files[f].label = l /\ files[f].begin <= FloorSnapshot}

ListPartitions ==
  /\ manifest.spec = 0
  /\ NoUnageableFile /\ NoOldSpecFile /\ Cardinality(RotFiles) <= MaxRot
  /\ manifest' = [spec |-> liveSpec, leaves |-> Droppable]
  /\ UNCHANGED <<catalog, cache, job, cursor, lock, drop, spent>>

-----------------------------------------------------------------------------
(***************************************************************************)
(* drop-partitions: one run, leaf by leaf.                                 *)
(***************************************************************************)
Goto(pc) == drop' = [drop EXCEPT !.pc = pc]

(* An attempt is over: the transaction is rolled back or committed and     *)
(* _drop_leaf_with_retries releases the lock.                              *)
AttemptOver(pc) ==
  /\ drop' = [drop EXCEPT !.pc = pc, !.base = 0, !.ended = {}, !.doubtful = {}]
  /\ lock' = IF lock = "drop" THEN "free" ELSE lock

LeafOver ==
  /\ drop' = [drop EXCEPT !.pc = "leaf", !.chosen = {}, !.tries = 0, !.waits = 0,
                          !.base = 0, !.ended = {}, !.doubtful = {}]
  /\ lock' = IF lock = "drop" THEN "free" ELSE lock

Environment == <<cache, job, cursor, manifest>>

Started(listed, work) ==
  \E limit \in FileLimits :
    drop' = [IdleDrop EXCEPT !.pc = "leaf", !.listed = listed, !.limit = limit, !.spec = liveSpec,
                             !.floor = FloorSnapshot, !.work = work]

(* A bare file, a manifest of another spec, or a tuple that is too young   *)
(* or held by files of another spec, ends the run before it did anything.  *)
StartFromManifest ==
  /\ manifest.spec = liveSpec
  /\ Started(TRUE, manifest.leaves)

OtherSpecHolds(l) == \E f \in Live : files[f].label = l /\ files[f].spec # liveSpec

StartFromTuple ==
  \E l \in Labels : Aged(liveSpec, l) /\ ~OtherSpecHolds(l) /\ Started(FALSE, {l})

StartRun ==
  /\ drop.pc \in {"idle", "done", "aborted", "missed"} /\ spent.runs < MaxRuns
  /\ NoUnageableFile
  /\ StartFromManifest \/ StartFromTuple
  /\ Spend("runs")
  /\ UNCHANGED <<catalog, Environment, lock>>

MinCursor == LowestIn({cursor[c] : c \in Consumers})

(* A cursor whose snapshot has expired or is older than cutoff + 48h.      *)
Lagging(c) == cursor[c] \notin kept \/ cursor[c] <= Ancient

Selected(l) ==
  {f \in Live : files[f].spec = drop.spec /\ files[f].label = l /\ files[f].begin <= drop.floor}

NextLeaf == CHOOSE l \in drop.work :
              \A m \in drop.work : LabelTime[drop.spec][l] <= LabelTime[drop.spec][m]

Eligible(f) == files[f].begin < MinCursor

AtLeaf ==
  /\ drop.pc = "leaf" /\ drop.work # {}
  /\ UNCHANGED <<catalog, Environment, lock, spent>>

LagStopsRun ==
  /\ AtLeaf
  /\ \E c \in Consumers : Lagging(c)
  /\ Goto("aborted")

(* _cursor_guard: the cursors are read before the files are selected.      *)
ReadGuard ==
  /\ AtLeaf
  /\ \A c \in Consumers : ~Lagging(c)
  /\ drop' = [drop EXCEPT !.pc = "select", !.guard = MinCursor]

AtSelection ==
  /\ drop.pc = "select"
  /\ UNCHANGED <<catalog, Environment, lock, spent>>

OversizedStopsRun ==
  /\ AtSelection
  /\ ~drop.listed /\ Cardinality(Selected(NextLeaf)) > drop.limit
  /\ Goto("aborted")

SkipLeaf ==
  /\ AtSelection
  /\ LET S == Selected(NextLeaf) IN
     \/ S = {}
     \/ drop.listed /\ Cardinality(S) > drop.limit
     \/ Cardinality(S) <= drop.limit /\ \E f \in S : files[f].begin >= drop.guard
  /\ drop' = [drop EXCEPT !.pc = "leaf", !.guard = 0, !.work = @ \ {NextLeaf}]

ChooseLeaf ==
  /\ AtSelection
  /\ LET S == Selected(NextLeaf) IN
     /\ S # {} /\ Cardinality(S) <= drop.limit
     /\ \A f \in S : files[f].begin < drop.guard
     /\ drop' = [drop EXCEPT !.pc = "attempt", !.guard = 0, !.work = @ \ {NextLeaf},
                             !.leaf = NextLeaf, !.chosen = S]

RunDone ==
  /\ drop.pc = "leaf" /\ drop.work = {}
  /\ Goto("done")
  /\ UNCHANGED <<catalog, Environment, lock, spent>>

(* --max-seconds: between leaves the run ends cleanly, within one it       *)
(* aborts.                                                                 *)
OutOfTime ==
  /\ \/ drop.pc = "leaf" /\ drop.work # {} /\ Goto("done")
     \/ drop.pc = "attempt" /\ Goto("aborted")
  /\ UNCHANGED <<catalog, Environment, lock, spent>>

-----------------------------------------------------------------------------
(***************************************************************************)
(* _drop_leaf_with_retries and _drop_leaf_txn.                             *)
(***************************************************************************)
TakeLock ==
  /\ drop.pc = "attempt" /\ drop.tries < MaxAttempts
  /\ lock = "free"
  /\ lock' = "drop"
  /\ drop' = [drop EXCEPT !.pc = "vectors", !.tries = @ + 1]
  /\ UNCHANGED <<catalog, Environment, spent>>

(* Mutant: contention is not counted.                                      *)
WaitForever ==
  /\ drop.pc = "attempt"
  /\ lock = "cron"
  /\ UNCHANGED vars

(* Mutant: neither budget ends the waiting.                                *)
ContendAgain ==
  /\ drop.pc = "attempt"
  /\ lock = "cron"
  /\ drop' = [drop EXCEPT !.tries = @ + 1, !.waits = @ + 1,
                          !.pc = IF drop.waits + 1 > MaxWaits THEN "aborted" ELSE "attempt"]
  /\ UNCHANGED <<catalog, Environment, lock, spent>>

LockContended ==
  /\ drop.pc = "attempt" /\ drop.tries < MaxAttempts
  /\ lock = "cron"
  /\ drop' = [drop EXCEPT !.tries = @ + 1, !.waits = @ + 1,
                          !.pc = IF drop.waits + 1 > MaxWaits THEN "aborted" ELSE "attempt"]
  /\ UNCHANGED <<catalog, Environment, lock, spent>>

OutOfAttempts ==
  /\ drop.pc = "attempt" /\ drop.tries >= MaxAttempts
  /\ Goto("aborted")
  /\ UNCHANGED <<catalog, Environment, lock, spent>>

CheckVectors ==
  /\ drop.pc = "vectors"
  /\ IF \E f \in drop.chosen : files[f].vector
     THEN AttemptOver("aborted")
     ELSE Goto("baseline") /\ UNCHANGED lock
  /\ UNCHANGED <<catalog, Environment, spent>>

ReadBaseline ==
  /\ drop.pc = "baseline"
  /\ drop' = [drop EXCEPT !.pc = "snapshot", !.base = head]
  /\ UNCHANGED <<catalog, Environment, lock, spent>>

(* The primary key settles the race for the next snapshot id.              *)
InsertSnapshot ==
  /\ drop.pc = "snapshot"
  /\ IF drop.base = head
     THEN Goto("update") /\ UNCHANGED lock
     ELSE AttemptOver("attempt")
  /\ UNCHANGED <<catalog, Environment, spent>>

(* Mutant: the UPDATE trusts the selection to be live still.               *)
EndAgain ==
  /\ drop.pc = "update"
  /\ LET ended == {f \in drop.chosen : Eligible(f)} IN
     drop' = [drop EXCEPT !.ended = ended, !.pc = IF ended = drop.chosen THEN "verify" ELSE "classify"]
  /\ UNCHANGED <<catalog, Environment, lock, spent>>

(* Mutant: the UPDATE's guard is one snapshot stricter than the one the    *)
(* skipped files are read back with.                                       *)
EndStrictly ==
  /\ drop.pc = "update"
  /\ LET ended == {f \in drop.chosen \cap Live : files[f].begin + 1 < MinCursor} IN
     drop' = [drop EXCEPT !.ended = ended, !.pc = IF ended = drop.chosen THEN "verify" ELSE "classify"]
  /\ UNCHANGED <<catalog, Environment, lock, spent>>

(* The cursor guard is evaluated with the rows it gates.                   *)
EndFiles ==
  /\ drop.pc = "update"
  /\ LET ended == {f \in drop.chosen \cap Live : Eligible(f)} IN
     drop' = [drop EXCEPT !.ended = ended, !.pc = IF ended = drop.chosen THEN "verify" ELSE "classify"]
  /\ UNCHANGED <<catalog, Environment, lock, spent>>

(* Mutant: members the guard spares are tolerated like ended ones.         *)
TolerateSkips ==
  /\ drop.pc = "classify"
  /\ IF drop.ended = {} THEN LeafOver ELSE Goto("verify") /\ UNCHANGED lock
  /\ UNCHANGED <<catalog, Environment, spent>>

(* The members the UPDATE left out, read by a later statement: one that is *)
(* live and eligible by now gets a second look, one that is live makes the *)
(* leaf wait for another run, and the rest were ended by somebody else.    *)
Classify ==
  /\ drop.pc = "classify"
  /\ LET left == (drop.chosen \ drop.ended) \cap Live
         doubtful == {f \in left : Eligible(f)}
     IN  \/ /\ doubtful # {}
            /\ drop' = [drop EXCEPT !.pc = "recheck", !.doubtful = doubtful]
            /\ UNCHANGED lock
         \/ doubtful = {} /\ (left # {} \/ drop.ended = {}) /\ LeafOver
         \/ left = {} /\ drop.ended # {} /\ Goto("verify") /\ UNCHANGED lock
  /\ UNCHANGED <<catalog, Environment, spent>>

Recheck ==
  /\ drop.pc = "recheck"
  /\ IF \E f \in drop.doubtful : Eligible(f) THEN AttemptOver("missed") ELSE LeafOver
  /\ UNCHANGED <<catalog, Environment, spent>>

(* Mutant: the UPDATE's own look at the cursors is the last one.           *)
VerifyNothing ==
  /\ drop.pc = "verify"
  /\ Goto("commit") /\ UNCHANGED <<catalog, Environment, lock, spent>>

(* Has a cursor gone back across an ended file since the UPDATE?           *)
Verify ==
  /\ drop.pc = "verify"
  /\ IF \E f \in drop.ended : ~Eligible(f)
     THEN LeafOver
     ELSE Goto("commit") /\ UNCHANGED lock
  /\ UNCHANGED <<catalog, Environment, spent>>

Delta == Cardinality(RowsOf(drop.ended))

EmptiesTheTable ==
  /\ drop.pc = "commit" /\ stats <= Delta
  /\ AttemptOver("aborted")
  /\ UNCHANGED <<catalog, Environment, spent>>

(* Mutant: the drop writes no file, so it takes no file id.                *)
NextFileUnchanged == nextFile

NextFileAfterDrop == nextFile + 1

CommitsDrop ==
  /\ drop.pc = "commit" /\ stats > Delta
  /\ files' = [f \in DOMAIN files |->
                 IF f \in drop.ended THEN [files[f] EXCEPT !.end = head + 1] ELSE files[f]]
  /\ head' = head + 1
  /\ kept' = kept \cup {head + 1}
  /\ nextFile' = NextFileAfterDrop
  /\ changes' = [s \in 1 .. head + 1 |-> IF s = head + 1 THEN "dropped" ELSE changes[s]]
  /\ stats' = stats - Delta
  /\ UNCHANGED <<liveSpec, Environment>>

DropLeaf == CommitsDrop /\ LeafOver /\ UNCHANGED spent

(* The COMMIT took effect and its answer was lost with the connection.     *)
DropLeafAnswerLost ==
  /\ spent.faults < MaxFaults
  /\ CommitsDrop
  /\ drop' = [drop EXCEPT !.pc = "attempt", !.base = 0, !.ended = {}]
  /\ lock' = "free"
  /\ Spend("faults")

InTransaction == drop.pc \in {"vectors", "baseline", "snapshot"} \/ Held

(* The connection is lost, and the lock with it, or a statement fails with *)
(* a retryable class: the attempt is repeated.                             *)
StatementFails ==
  /\ InTransaction /\ spent.faults < MaxFaults
  /\ AttemptOver("attempt")
  /\ Spend("faults")
  /\ UNCHANGED <<catalog, Environment>>

(* Any other error, any error between leaves, or a kill ends the run.      *)
RunFails ==
  /\ InTransaction \/ drop.pc \in {"leaf", "select", "attempt"}
  /\ spent.faults < MaxFaults
  /\ AttemptOver("aborted")
  /\ Spend("faults")
  /\ UNCHANGED <<catalog, Environment>>

-----------------------------------------------------------------------------
Engine ==
  \/ \E label \in Arrivals : EngineAppends(label)
  \/ EngineAlters \/ EngineDeletes
  \/ CompactionBegins \/ CompactionGivesUp \/ CompactionCommits

Others ==
  \/ \E c \in Consumers : CursorAdvances(c) \/ CursorRewinds(c)
  \/ CronLocks \/ CronExpires \/ CronUnlocks

Step ==
  \/ LagStopsRun \/ ReadGuard \/ OversizedStopsRun \/ SkipLeaf \/ ChooseLeaf \/ RunDone
  \/ TakeLock \/ LockContended \/ OutOfAttempts
  \/ CheckVectors \/ ReadBaseline \/ InsertSnapshot \/ EndFiles \/ Classify \/ Recheck
  \/ Verify \/ EmptiesTheTable \/ DropLeaf

Faults == OutOfTime \/ DropLeafAnswerLost \/ StatementFails \/ RunFails

Next == Engine \/ Others \/ ListPartitions \/ StartRun \/ Step \/ Faults

Spec == Init /\ [][Next]_vars
FairSpec == Spec /\ WF_vars(Step)

-----------------------------------------------------------------------------
TypeOK ==
  /\ \A f \in DOMAIN files : files[f] \in FileSet
  /\ head \in Nat /\ kept \subseteq 1 .. head /\ nextFile \in Nat
  /\ changes \in [1 .. head -> {"appended", "altered", "compacted", "deleted", "dropped"}]
  /\ stats \in Nat /\ cache \in [key : Nat, count : Nat]
  /\ liveSpec \in Specs
  /\ job.files \subseteq DOMAIN files
  /\ cursor \in [Consumers -> 0 .. head]
  /\ lock \in {"free", "drop", "cron"}
  /\ manifest.spec \in Specs \cup {0} /\ manifest.leaves \subseteq Labels
  /\ drop.pc \in {"idle", "leaf", "select", "attempt", "vectors", "baseline", "snapshot", "update",
                  "classify", "recheck", "verify", "commit", "done", "aborted", "missed"}
  /\ drop.ended \cup drop.doubtful \subseteq drop.chosen /\ drop.chosen \subseteq DOMAIN files
  /\ drop.tries \in 0 .. MaxAttempts /\ drop.waits \in 0 .. MaxWaits + 1
  /\ drop.work \subseteq Labels /\ drop.base \in 0 .. head

(* ducklake_maintenance.py:3266-3283: the count the catalog reports is the *)
(* number of rows in the live files, whatever the engine had cached, and   *)
(* although a commit may be repeated after its answer was lost.            *)
StatsMatchLiveRows == stats = Cardinality(RowsOf(Live))

(* ducklake_maintenance.py:3253-3265: the files of a drop had been read by *)
(* every consumer, although a cursor may go back at any statement before   *)
(* the last check.                                                         *)
EndedByDrop ==
  {f \in Live : f \in DOMAIN files' /\ files'[f].end # 0 /\ changes'[files'[f].end] = "dropped"}
CommitNeverLosesUnread == [][\A f \in EndedByDrop : \A c \in Consumers : files[f].begin < cursor[c]]_vars

(* ducklake_maintenance.py:3249-3251: whole-leaf skip, not partial drop.   *)
(* A drop that ends one of the selected files leaves none of them live.    *)
CommitNeverSplitsLeaf == [][EndedByDrop # {} => \A f \in drop.chosen : files'[f].end # 0]_vars

(* ducklake_maintenance.py:3199: "refusing to orphan" delete vectors.  No  *)
(* drop ends a file that carries a live delete vector.                     *)
CommitNeverOrphansVector == [][\A f \in EndedByDrop : ~files[f].vector]_vars

(* ducklake_maintenance.py:3228-3246: the run is aborted as a bug of the   *)
(* tool only when a cursor went back before the UPDATE and forward after   *)
(* it; a single move, an engine commit, a fault or a repeated attempt      *)
(* never looks like one.                                                   *)
MissNeedsTwoMoves == drop.pc = "missed" => spent.moves >= 2

(* ducklake_maintenance.py:3230-3233, and the comment of the unit test     *)
(* test_skipped_transient_eligibility_skips: a cursor that advances after  *)
(* the UPDATE rightly left a file out makes the leaf wait and aborts       *)
(* nothing.  The code falls short of this when a rewind came before it.    *)
NoSpuriousAbort == drop.pc # "missed"

(* Once a run has started it ends, whatever the engine, the cursors and    *)
(* the other jobs do: every retry is counted.                              *)
Running == drop.pc \notin {"idle", "done", "aborted", "missed"}
EventuallyEnds == Running ~> ~Running

-----------------------------------------------------------------------------
(***************************************************************************)
(* The table a reader sees.  A row's leaf is that of its file, under the   *)
(* file's own spec.                                                        *)
(***************************************************************************)
TableRows(S) ==
  UNION {[row : files[f].rows, leaf : {<<files[f].spec, files[f].label>>}] : f \in S}
DroppedFiles == {f \in DOMAIN files : files[f].end # 0 /\ changes[files[f].end] = "dropped"}

Table == INSTANCE RetainedTable WITH
  Rows <- Nat,
  Leaves <- Specs \X Marks,
  AgedLeaves <- {sl \in Specs \X Marks : Aged(sl[1], sl[2])},
  live <- TableRows(Live),
  dropped <- TableRows(DroppedFiles),
  count <- stats

(* Every step of the tool, the engine, the crons and the faults is an      *)
(* arrival, the whole drop of one aged leaf, or invisible to a reader: no  *)
(* failed, repeated or skipped attempt shows, no young row leaves, and no  *)
(* compaction brings a dropped row back.                                   *)
RetainsTable == Table!Spec
=============================================================================
