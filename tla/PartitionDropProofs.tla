------------------------ MODULE PartitionDropProofs ------------------------
(***************************************************************************)
(* Proofs about PartitionDrop for every history of the table, every set of *)
(* labels, partition specs and consumers, and every number of commits,     *)
(* runs, faults, cursor moves and other jobs.                              *)
(***************************************************************************)
EXTENDS PartitionDrop, NumberLemmas, FiniteSetTheorems, FunctionTheorems, TLAPS

---------------------------------------------------------------------------
(* Least and greatest elements.                                            *)

\* LowestIn, the min() over snapshots and cursors, is an element that no other
\* is below.
LEMMA LowestExists ==
  ASSUME NEW S \in SUBSET Nat, S # {}
  PROVE  LowestIn(S) \in S /\ \A m \in S : LowestIn(S) <= m
BY HasLeast, Zenon DEF LowestIn

\* HighestIn, the max() over snapshots and file ids, is one that none is above.
LEMMA GreatestExists ==
  ASSUME NEW S \in SUBSET Nat, S # {}, IsFiniteSet(S)
  PROVE  HighestIn(S) \in S /\ \A m \in S : m <= HighestIn(S)
BY HasGreatest, Zenon DEF HighestIn

---------------------------------------------------------------------------
(* The inductive invariant.                                                *)

Kinds == {"appended", "altered", "compacted", "deleted", "dropped"}
Pcs == {"idle", "leaf", "select", "attempt", "vectors", "baseline", "snapshot", "update",
        "classify", "recheck", "verify", "commit", "done", "aborted", "missed"}

\* A file holds rows, all of them older than the next file id, and has not ended
\* in the future.
FilesOK ==
  \A f \in DOMAIN files :
    /\ f \in Nat /\ f < nextFile
    /\ files[f] \in FileSet
    /\ files[f].end <= head
    /\ files[f].rows # {}
    /\ \A i \in files[f].rows : i < nextFile

\* No row is in two live files.
RowsApart ==
  \A f, g \in Live : f # g => files[f].rows \cap files[g].rows = {}

\* Types of the snapshot rows.
HistoryOK ==
  /\ head \in Nat \ {0}
  /\ kept \subseteq 1 .. head /\ head \in kept
  /\ nextFile \in Nat
  /\ changes \in [1 .. head -> Kinds]
  /\ stats \in Nat
  /\ liveSpec \in Specs

\* The engine's cached statistics are keyed by a next_file_id no newer than the
\* table's, and where it is the table's own the count is, too.
CacheOK ==
  /\ cache \in [key : Nat, count : Nat]
  /\ cache.key <= nextFile
  /\ cache.key = nextFile => cache.count = stats

\* The files of a compaction are of one leaf, and live unless a drop committed
\* since it began, which it will see.
JobOK ==
  /\ job \in [files : SUBSET DOMAIN files, start : Nat]
  /\ job.start <= head
  /\ job.files \subseteq Live \/ Conflicts
  /\ \A f, g \in job.files : files[f].spec = files[g].spec /\ files[f].label = files[g].label

Tallies ==
  [commits : Nat, runs : Nat, faults : Nat, moves : Nat, crons : Nat, deletes : Nat, alters : Nat]

\* Types of the other sessions' state; a manifest lists aged leaves of its spec.
SessionsOK ==
  /\ cursor \in [Consumers -> Nat]
  /\ \A c \in Consumers : cursor[c] <= head
  /\ lock \in {"free", "drop", "cron"}
  /\ manifest \in [spec : Specs \cup {0}, leaves : SUBSET Labels]
  /\ \A l \in manifest.leaves : manifest.spec \in Specs /\ Aged(manifest.spec, l)
  /\ spent \in Tallies

\* Types of the drop-partitions process.
DropShape ==
  drop \in [pc : Pcs, listed : BOOLEAN, limit : Nat, spec : Specs, floor : Nat,
            work : SUBSET Labels, guard : Nat, leaf : Marks, chosen : SUBSET DOMAIN files,
            tries : 0 .. MaxAttempts, waits : 0 .. MaxWaits + 1, base : 0 .. head,
            ended : SUBSET DOMAIN files, doubtful : SUBSET DOMAIN files]

Trying == drop.pc = "attempt" \/ InTransaction

\* What the process holds at each point: only aged leaves are worked on, the
\* selected files are those of one leaf, the ended ones are live until the
\* commit, and what is about to be committed leaves no selected file live.
DropOK ==
  /\ \A l \in drop.work : Aged(drop.spec, l)
  /\ drop.ended \cup drop.doubtful \subseteq drop.chosen
  /\ \A f \in drop.chosen : files[f].spec = drop.spec /\ files[f].label = drop.leaf
  /\ drop.chosen # {} => Aged(drop.spec, drop.leaf)
  /\ Trying => drop.chosen # {}
  /\ Trying \/ drop.pc \in {"leaf", "select"} => drop.waits <= MaxWaits
  /\ drop.pc = "select" => drop.work # {}
  /\ drop.ended \subseteq Live
  /\ drop.ended # {} => drop.pc \in {"classify", "recheck", "verify", "commit"}
  /\ drop.doubtful # {} => drop.pc = "recheck"
  /\ drop.pc \in {"verify", "commit"} =>
       drop.ended # {} /\ \A f \in drop.chosen \ drop.ended : files[f].end # 0

\* The catalog's part of the invariant.
CatalogInv ==
  /\ FilesOK /\ RowsApart /\ HistoryOK /\ StatsMatchLiveRows /\ CacheOK /\ JobOK /\ SessionsOK

DropInv == CatalogInv /\ DropShape /\ DropOK

---------------------------------------------------------------------------
(* Rows and files.                                                         *)

\* The rows of the live files are finitely many: their ids are below the next.
LEMMA LiveRowsFinite ==
  ASSUME FilesOK, HistoryOK
  PROVE  /\ RowsOf(Live) \subseteq Nat /\ \A i \in RowsOf(Live) : i < nextFile
         /\ IsFiniteSet(RowsOf(Live)) /\ Cardinality(RowsOf(Live)) \in Nat
<1>1. \A i \in RowsOf(Live) : i \in Nat /\ i < nextFile
  BY DEF FilesOK, RowsOf, Live, FileSet
<1>2. \A i \in RowsOf(Live) : i <= nextFile
  BY <1>1 DEF HistoryOK
<1>3. RowsOf(Live) \in SUBSET Nat /\ nextFile \in Nat
  BY <1>1 DEF HistoryOK
<1>4. IsFiniteSet(RowsOf(Live))
  BY <1>2, <1>3, FS_BoundedSetOfNaturals
<1> QED
  BY <1>1, <1>3, <1>4, FS_CardinalityType

\* The statistics the engine commits are those of the table, whatever it cached.
LEMMA EngineCountIsStats ==
  ASSUME HistoryOK, CacheOK
  PROVE  EngineCount = stats
BY DEF HistoryOK, CacheOK, EngineCount

\* What every commit of the engine does to the snapshot rows and the cache.
LEMMA EngineCommitMoves ==
  ASSUME CatalogInv, NEW kind \in Kinds, NEW newFiles, NEW taken \in {0, 1}, NEW count \in Nat,
         EngineCommits(kind, newFiles, taken, count), liveSpec' \in Specs
  PROVE  /\ HistoryOK' /\ CacheOK'
         /\ head' = head + 1 /\ nextFile' = nextFile + taken /\ stats' = count
         /\ files' = newFiles
         /\ \A s \in 1 .. head : changes'[s] = changes[s]
         /\ changes'[head + 1] = kind
<1>1. /\ head \in Nat \ {0} /\ kept \subseteq 1 .. head /\ nextFile \in Nat
      /\ changes \in [1 .. head -> Kinds]
  BY DEF CatalogInv, HistoryOK
<1>2. /\ head' = head + 1 /\ nextFile' = nextFile + taken /\ stats' = count
      /\ files' = newFiles
      /\ kept' = kept \cup {head + 1}
      /\ changes' = [s \in 1 .. head + 1 |-> IF s = head + 1 THEN kind ELSE changes[s]]
      /\ cache' = [key |-> nextFile + taken, count |-> count]
  BY DEF EngineCommits
<1>3. changes' \in [1 .. head + 1 -> Kinds]
  BY <1>1, <1>2
<1>4. \A s \in 1 .. head : changes'[s] = changes[s]
  BY <1>1, <1>2
<1>5. changes'[head + 1] = kind
  BY <1>1, <1>2
<1>6. kept' \subseteq 1 .. head + 1 /\ head + 1 \in kept' /\ head + 1 \in Nat \ {0}
  BY <1>1, <1>2
<1>7. HistoryOK'
  BY <1>1, <1>2, <1>3, <1>6 DEF HistoryOK
<1>8. nextFile + taken \in Nat
  BY <1>1
<1>9. CacheOK'
  BY <1>2, <1>8 DEF CacheOK
<1> QED
  BY <1>2, <1>4, <1>5, <1>7, <1>9

\* An engine commit leaves the other sessions' state well typed.
LEMMA SessionsSurvive ==
  ASSUME CatalogInv, NEW kind, NEW newFiles, NEW taken, NEW count,
         EngineCommits(kind, newFiles, taken, count), UNCHANGED <<cursor, lock, manifest>>
  PROVE  SessionsOK'
<1>1. SessionsOK /\ head \in Nat /\ head' = head + 1
  BY DEF CatalogInv, HistoryOK, EngineCommits
<1>2. spent' \in Tallies
  <2>1. spent \in Tallies
    BY <1>1 DEF SessionsOK
  <2>2. spent' = [spent EXCEPT !.commits = @ + 1,
                               !.deletes = IF kind = "deleted" THEN @ + 1 ELSE @,
                               !.alters = IF kind = "altered" THEN @ + 1 ELSE @]
    BY DEF EngineCommits
  <2>3. /\ spent.commits + 1 \in Nat
        /\ (IF kind = "deleted" THEN spent.deletes + 1 ELSE spent.deletes) \in Nat
        /\ (IF kind = "altered" THEN spent.alters + 1 ELSE spent.alters) \in Nat
    BY <2>1 DEF Tallies
  <2> QED
    BY <2>1, <2>2, <2>3 DEF Tallies
<1>3. /\ cursor' \in [Consumers -> Nat]
      /\ \A c \in Consumers : cursor'[c] <= head'
  BY <1>1 DEF SessionsOK
<1>4. /\ lock' \in {"free", "drop", "cron"}
      /\ manifest' \in [spec : Specs \cup {0}, leaves : SUBSET Labels]
      /\ \A l \in manifest'.leaves : manifest'.spec \in Specs /\ Aged(manifest'.spec, l)
  BY <1>1 DEF SessionsOK
<1> QED
  BY <1>2, <1>3, <1>4 DEF SessionsOK

\* A compaction keeps its view when another commit extends the history: its
\* files stay listed under their leaf, and if one of them ended, a drop did it.
LEMMA JobSurvives ==
  ASSUME CatalogInv, job' = job, head' \in Nat, head <= head',
         \A s \in 1 .. head : changes'[s] = changes[s],
         \A f \in DOMAIN files :
           /\ f \in DOMAIN files' /\ files'[f].spec = files[f].spec
           /\ files'[f].label = files[f].label,
         \/ \A f \in job.files : files'[f].end = files[f].end
         \/ head' = head + 1 /\ changes'[head + 1] = "dropped"
  PROVE  JobOK'
<1>1. /\ job.files \in SUBSET DOMAIN files /\ job.start \in Nat /\ job.start <= head
      /\ head \in Nat /\ job \in [files : SUBSET DOMAIN files, start : Nat]
      /\ job.files \subseteq Live \/ Conflicts
      /\ \A f, g \in job.files : files[f].spec = files[g].spec /\ files[f].label = files[g].label
  BY DEF CatalogInv, JobOK, HistoryOK
<1>2. job \in [files : SUBSET DOMAIN files', start : Nat]
  BY <1>1
<1>3. job.start <= head'
  BY <1>1
<1>4. \A f, g \in job.files : files'[f].spec = files'[g].spec /\ files'[f].label = files'[g].label
  BY <1>1
<1>5. (job.files \subseteq Live \/ Conflicts)'
  <2>1. CASE Conflicts
    <3>1. PICK s \in job.start + 1 .. head : changes[s] = "dropped"
      BY <2>1 DEF Conflicts
    <3>2. s \in 1 .. head /\ s \in job.start + 1 .. head'
      BY <1>1, <3>1
    <3>3. changes'[s] = "dropped"
      BY <3>1, <3>2
    <3> QED
      BY <3>2, <3>3 DEF Conflicts
  <2>2. CASE head' = head + 1 /\ changes'[head + 1] = "dropped"
    <3>1. head + 1 \in job.start + 1 .. head'
      BY <1>1, <2>2
    <3> QED
      BY <2>2, <3>1 DEF Conflicts
  <2>3. CASE job.files \subseteq Live /\ \A f \in job.files : files'[f].end = files[f].end
    BY <1>1, <2>3 DEF Live
  <2> QED
    BY <1>1, <2>1, <2>2, <2>3
<1> QED
  BY <1>2, <1>3, <1>4, <1>5 DEF JobOK

---------------------------------------------------------------------------
(* The catalog under each kind of commit.                                  *)

\* An append adds one live file with one new row.
LEMMA AppendKeepsCatalog ==
  ASSUME CatalogInv, NEW label \in Arrivals, EngineAppends(label)
  PROVE  /\ CatalogInv'
         /\ DOMAIN files' = DOMAIN files \cup {nextFile}
         /\ \A f \in DOMAIN files : files'[f] = files[f]
<1> DEFINE file == [spec |-> liveSpec, label |-> label, begin |-> head + 1, end |-> 0,
                    rows |-> {nextFile}, vector |-> FALSE]
<1>1. FilesOK /\ RowsApart /\ HistoryOK /\ StatsMatchLiveRows /\ CacheOK /\ JobOK /\ SessionsOK
  BY DEF CatalogInv
<1>2. /\ EngineCommits("appended", WithFile(files, file), 1, EngineCount + 1)
      /\ UNCHANGED <<liveSpec, job, cursor, lock, manifest, drop>>
  BY DEF EngineAppends
<1>3. head \in Nat \ {0} /\ nextFile \in Nat /\ stats \in Nat /\ liveSpec \in Specs
  BY <1>1 DEF HistoryOK
<1>4. EngineCount + 1 = stats + 1 /\ stats + 1 \in Nat
  BY <1>1, <1>3, EngineCountIsStats
<1>5. EngineCommits("appended", WithFile(files, file), 1, stats + 1)
  BY <1>2, <1>4
<1> HIDE DEF file
<1>6. /\ HistoryOK' /\ CacheOK'
      /\ head' = head + 1 /\ nextFile' = nextFile + 1 /\ stats' = stats + 1
      /\ files' = WithFile(files, file)
      /\ \A s \in 1 .. head : changes'[s] = changes[s]
  BY <1>2, <1>3, <1>4, <1>5, EngineCommitMoves DEF Kinds
<1>7. /\ DOMAIN files' = DOMAIN files \cup {nextFile}
      /\ files'[nextFile] = file
      /\ \A f \in DOMAIN files : f # nextFile => files'[f] = files[f]
  BY <1>6 DEF WithFile
<1>8. \A f \in DOMAIN files : f # nextFile /\ files'[f] = files[f]
  BY <1>1, <1>3, <1>7 DEF FilesOK
<1>9. file \in FileSet /\ file.end = 0 /\ file.rows = {nextFile}
  BY <1>3, LabelAssumption DEF FileSet, file
<1>10. FilesOK'
  <2>1. SUFFICES ASSUME NEW f \in DOMAIN files'
                 PROVE  /\ f \in Nat /\ f < nextFile'
                        /\ files'[f] \in FileSet
                        /\ files'[f].end <= head'
                        /\ files'[f].rows # {}
                        /\ \A i \in files'[f].rows : i < nextFile'
    BY DEF FilesOK
  <2>2. CASE f = nextFile
    BY <1>3, <1>6, <1>7, <1>9, <2>2
  <2>3. CASE f \in DOMAIN files
    <3>1. /\ f \in Nat /\ f < nextFile
          /\ files[f] \in FileSet /\ files[f].end <= head
          /\ files[f].rows # {} /\ \A i \in files[f].rows : i < nextFile
      BY <1>1, <2>3 DEF FilesOK
    <3>2. files[f].end \in Nat /\ files[f].rows \in SUBSET Nat
      BY <3>1 DEF FileSet
    <3>3. files'[f] = files[f]
      BY <1>8, <2>3
    <3> QED
      BY <1>3, <1>6, <3>1, <3>2, <3>3
  <2> QED
    BY <1>7, <2>1, <2>2, <2>3
<1>11. Live' = Live \cup {nextFile}
  BY <1>7, <1>8, <1>9 DEF Live
<1>12. \A f \in Live : nextFile \notin files[f].rows
  BY <1>1, <1>3 DEF FilesOK, Live
<1>13. RowsApart'
  BY <1>1, <1>7, <1>8, <1>9, <1>11, <1>12 DEF RowsApart, Live
<1>14. RowsOf(Live)' = RowsOf(Live) \cup {nextFile}
  BY <1>7, <1>8, <1>9, <1>11 DEF RowsOf, Live
<1>15. nextFile \notin RowsOf(Live)
  BY <1>12 DEF RowsOf
<1>16. Cardinality(RowsOf(Live) \cup {nextFile}) = Cardinality(RowsOf(Live)) + 1
  BY <1>1, <1>15, LiveRowsFinite, FS_AddElement
<1>17. StatsMatchLiveRows'
  BY <1>1, <1>6, <1>14, <1>16 DEF StatsMatchLiveRows
<1>18. JobOK'
  <2>1. head' \in Nat /\ head <= head'
    BY <1>3, <1>6
  <2>2. job.files \subseteq DOMAIN files
    BY <1>1 DEF JobOK
  <2> QED
    BY <1>2, <1>6, <1>7, <1>8, <2>1, <2>2, JobSurvives
<1>19. SessionsOK'
  BY <1>2, SessionsSurvive
<1> QED
  BY <1>6, <1>7, <1>8, <1>10, <1>13, <1>17, <1>18, <1>19 DEF CatalogInv

\* A commit that leaves every file's rows, leaf and end alone (ALTER, a DELETE).
LEMMA RowlessCommitKeepsCatalog ==
  ASSUME CatalogInv, NEW kind \in Kinds, NEW newFiles, NEW taken \in {0, 1},
         EngineCommits(kind, newFiles, taken, EngineCount),
         liveSpec' \in Specs, UNCHANGED <<job, cursor, lock, manifest>>,
         DOMAIN newFiles = DOMAIN files,
         \A f \in DOMAIN files :
           /\ newFiles[f] \in FileSet
           /\ newFiles[f].spec = files[f].spec /\ newFiles[f].label = files[f].label
           /\ newFiles[f].end = files[f].end /\ newFiles[f].rows = files[f].rows
  PROVE  /\ CatalogInv'
         /\ head' = head + 1 /\ files' = newFiles
         /\ \A s \in 1 .. head : changes'[s] = changes[s]
<1>1. FilesOK /\ RowsApart /\ HistoryOK /\ StatsMatchLiveRows /\ CacheOK /\ JobOK /\ SessionsOK
  BY DEF CatalogInv
<1>2. head \in Nat \ {0} /\ nextFile \in Nat /\ stats \in Nat
  BY <1>1 DEF HistoryOK
<1>3. EngineCommits(kind, newFiles, taken, stats)
  BY <1>1, EngineCountIsStats
<1>4. /\ HistoryOK' /\ CacheOK'
      /\ head' = head + 1 /\ nextFile' = nextFile + taken /\ stats' = stats
      /\ files' = newFiles
      /\ \A s \in 1 .. head : changes'[s] = changes[s]
  BY <1>2, <1>3, EngineCommitMoves
<1>5. FilesOK'
  <2>1. SUFFICES ASSUME NEW f \in DOMAIN files
                 PROVE  /\ f \in Nat /\ f < nextFile'
                        /\ newFiles[f] \in FileSet
                        /\ newFiles[f].end <= head'
                        /\ newFiles[f].rows # {}
                        /\ \A i \in newFiles[f].rows : i < nextFile'
    BY <1>4 DEF FilesOK
  <2>2. /\ f \in Nat /\ f < nextFile
        /\ files[f] \in FileSet /\ files[f].end <= head
        /\ files[f].rows # {} /\ \A i \in files[f].rows : i < nextFile
    BY <1>1 DEF FilesOK
  <2>3. files[f].end \in Nat /\ files[f].rows \in SUBSET Nat
    BY <2>2 DEF FileSet
  <2>4. \A m \in Nat : (m < nextFile => m < nextFile') /\ (m <= head => m <= head')
    BY <1>2, <1>4
  <2> QED
    BY <2>2, <2>3, <2>4
<1>6. Live' = Live
  BY <1>4 DEF Live
<1>7. \A f \in Live : files'[f].rows = files[f].rows
  BY <1>4 DEF Live
<1>8. RowsApart'
  BY <1>1, <1>6, <1>7 DEF RowsApart
<1>9. RowsOf(Live)' = RowsOf(Live)
  BY <1>6, <1>7 DEF RowsOf
<1>10. StatsMatchLiveRows'
  BY <1>1, <1>4, <1>9 DEF StatsMatchLiveRows
<1>11. JobOK'
  <2>1. head' \in Nat /\ head <= head'
    BY <1>2, <1>4
  <2>2. job.files \subseteq DOMAIN files
    BY <1>1 DEF JobOK
  <2> QED
    BY <1>4, <2>1, <2>2, JobSurvives
<1>12. SessionsOK'
  BY SessionsSurvive
<1> QED
  BY <1>4, <1>5, <1>8, <1>10, <1>11, <1>12 DEF CatalogInv

\* ALTER changes the live spec only.
LEMMA AlterKeepsCatalog ==
  ASSUME CatalogInv, EngineAlters
  PROVE  /\ CatalogInv'
         /\ files' = files
         /\ \A s \in 1 .. head : changes'[s] = changes[s]
<1>1. EngineCommits("altered", files, 0, EngineCount) /\ liveSpec' \in Specs
      /\ UNCHANGED <<job, cursor, lock, manifest>>
  BY DEF EngineAlters
<1>2. \A f \in DOMAIN files : files[f] \in FileSet
  BY DEF CatalogInv, FilesOK
<1> QED
  BY <1>1, <1>2, RowlessCommitKeepsCatalog DEF Kinds

\* A DELETE puts a vector on one file and changes nothing else about any file.
LEMMA DeleteKeepsCatalog ==
  ASSUME CatalogInv, EngineDeletes
  PROVE  /\ CatalogInv'
         /\ DOMAIN files' = DOMAIN files
         /\ \A f \in DOMAIN files :
              /\ files'[f].spec = files[f].spec /\ files'[f].label = files[f].label
              /\ files'[f].begin = files[f].begin /\ files'[f].end = files[f].end
              /\ files'[f].rows = files[f].rows
         /\ \A s \in 1 .. head : changes'[s] = changes[s]
<1>1. PICK d \in Live : EngineCommits("deleted", [files EXCEPT ![d].vector = TRUE], 1, EngineCount)
  BY DEF EngineDeletes
<1> DEFINE newFiles == [files EXCEPT ![d].vector = TRUE]
<1>2. UNCHANGED <<liveSpec, job, cursor, lock, manifest>> /\ liveSpec' \in Specs
  BY DEF EngineDeletes, CatalogInv, HistoryOK
<1>3. DOMAIN newFiles = DOMAIN files
  OBVIOUS
<1>4. \A f \in DOMAIN files : files[f] \in FileSet
  BY DEF CatalogInv, FilesOK
<1>5. \A f \in DOMAIN files :
        newFiles[f] = IF f = d THEN [files[d] EXCEPT !.vector = TRUE] ELSE files[f]
  BY <1>4
<1> HIDE DEF newFiles
<1>6. \A f \in DOMAIN files :
        /\ newFiles[f] \in FileSet
        /\ newFiles[f].spec = files[f].spec /\ newFiles[f].label = files[f].label
        /\ newFiles[f].begin = files[f].begin /\ newFiles[f].end = files[f].end
        /\ newFiles[f].rows = files[f].rows
  <2>1. SUFFICES ASSUME NEW f \in DOMAIN files
                 PROVE  /\ newFiles[f] \in FileSet
                        /\ newFiles[f].spec = files[f].spec /\ newFiles[f].label = files[f].label
                        /\ newFiles[f].begin = files[f].begin /\ newFiles[f].end = files[f].end
                        /\ newFiles[f].rows = files[f].rows
    OBVIOUS
  <2>2. CASE f # d
    BY <1>4, <1>5, <2>1, <2>2
  <2>3. CASE f = d
    <3>1. files[d] \in FileSet /\ newFiles[d] = [files[d] EXCEPT !.vector = TRUE]
      BY <1>4, <1>5, <2>3
    <3> QED
      BY <2>3, <3>1 DEF FileSet
  <2> QED
    BY <2>2, <2>3
<1>7. EngineCommits("deleted", newFiles, 1, EngineCount)
  BY <1>1 DEF newFiles
<1>8. /\ CatalogInv' /\ files' = newFiles
      /\ \A s \in 1 .. head : changes'[s] = changes[s]
  BY <1>2, <1>3, <1>6, <1>7, RowlessCommitKeepsCatalog DEF Kinds
<1> QED
  BY <1>3, <1>6, <1>8

\* A compaction ends its files and lists one file with all of their rows.
LEMMA CompactionKeepsCatalog ==
  ASSUME CatalogInv, CompactionCommits
  PROVE  /\ CatalogInv'
         /\ job.files # {} /\ job.files \subseteq Live
         /\ head' = head + 1
         /\ DOMAIN files' = DOMAIN files \cup {nextFile} /\ nextFile \notin DOMAIN files
         /\ \A f \in DOMAIN files :
              files'[f] = IF f \in job.files THEN [files[f] EXCEPT !.end = head + 1] ELSE files[f]
         /\ files'[nextFile].end = 0 /\ files'[nextFile].rows = RowsOf(job.files)
         /\ \A f \in job.files : /\ files'[nextFile].spec = files[f].spec
                                 /\ files'[nextFile].label = files[f].label
         /\ stats' = stats
         /\ changes'[head + 1] = "compacted"
         /\ \A s \in 1 .. head : changes'[s] = changes[s]
<1> DEFINE f0 == CHOOSE g \in job.files : TRUE
           merged == [files[f0] EXCEPT !.begin = head + 1, !.rows = RowsOf(job.files)]
           ended == [g \in DOMAIN files |->
                       IF g \in job.files THEN [files[g] EXCEPT !.end = head + 1] ELSE files[g]]
<1>1. FilesOK /\ RowsApart /\ HistoryOK /\ StatsMatchLiveRows /\ CacheOK /\ JobOK /\ SessionsOK
  BY DEF CatalogInv
<1>2. /\ job.files # {} /\ ~ Conflicts
      /\ EngineCommits("compacted", WithFile(ended, merged), 1, EngineCount)
      /\ job' = IdleJob
      /\ UNCHANGED <<liveSpec, cursor, lock, manifest, drop>>
  BY DEF CompactionCommits
<1>3. job.files \subseteq Live /\ f0 \in job.files
  BY <1>1, <1>2 DEF JobOK
<1>4. \A f \in job.files : files[f0].spec = files[f].spec /\ files[f0].label = files[f].label
  BY <1>1, <1>3 DEF JobOK
<1>5. head \in Nat \ {0} /\ nextFile \in Nat /\ stats \in Nat /\ liveSpec \in Specs
  BY <1>1 DEF HistoryOK
<1>6. \A f \in DOMAIN files : files[f] \in FileSet /\ f # nextFile
  BY <1>1, <1>5 DEF FilesOK
<1>7. \A f \in job.files : f \in DOMAIN files /\ files[f].end = 0
  BY <1>3 DEF Live
<1>8. RowsOf(job.files) \in SUBSET Nat /\ \A i \in RowsOf(job.files) : i < nextFile
  BY <1>1, <1>7 DEF RowsOf, FilesOK, FileSet
<1>9. RowsOf(job.files) # {}
  BY <1>1, <1>3, <1>7 DEF RowsOf, FilesOK
<1> HIDE DEF f0
<1>10. /\ merged \in FileSet
       /\ merged.end = 0 /\ merged.rows = RowsOf(job.files)
       /\ merged.spec = files[f0].spec /\ merged.label = files[f0].label
  <2>1. files[f0] \in FileSet /\ files[f0].end = 0 /\ head + 1 \in Nat
    BY <1>3, <1>5, <1>6, <1>7
  <2>2. merged \in FileSet
    BY <1>8, <2>1 DEF FileSet
  <2>3. merged.end = 0 /\ merged.rows = RowsOf(job.files)
    BY <2>1 DEF FileSet
  <2>4. merged.spec = files[f0].spec /\ merged.label = files[f0].label
    BY <2>1 DEF FileSet
  <2> QED
    BY <2>2, <2>3, <2>4
<1>11. DOMAIN ended = DOMAIN files
  OBVIOUS
<1>12. \A f \in DOMAIN files :
         ended[f] = IF f \in job.files THEN [files[f] EXCEPT !.end = head + 1] ELSE files[f]
  OBVIOUS
<1> HIDE DEF merged, ended
<1>13. EngineCommits("compacted", WithFile(ended, merged), 1, stats)
  BY <1>1, <1>2, EngineCountIsStats
<1>14. /\ HistoryOK' /\ CacheOK'
       /\ head' = head + 1 /\ nextFile' = nextFile + 1 /\ stats' = stats
       /\ files' = WithFile(ended, merged)
       /\ \A s \in 1 .. head : changes'[s] = changes[s]
       /\ changes'[head + 1] = "compacted"
  BY <1>2, <1>5, <1>13, EngineCommitMoves DEF Kinds
<1>15. /\ DOMAIN files' = DOMAIN files \cup {nextFile} /\ nextFile \notin DOMAIN files
       /\ files'[nextFile] = merged
       /\ \A f \in DOMAIN files :
            files'[f] = IF f \in job.files THEN [files[f] EXCEPT !.end = head + 1] ELSE files[f]
  BY <1>6, <1>11, <1>12, <1>14 DEF WithFile
<1>16. \A f \in DOMAIN files :
         /\ files'[f] \in FileSet /\ files'[f].rows = files[f].rows
         /\ files'[f].end = IF f \in job.files THEN head + 1 ELSE files[f].end
  BY <1>5, <1>6, <1>15 DEF FileSet
<1>17. FilesOK'
  <2>1. SUFFICES ASSUME NEW f \in DOMAIN files'
                 PROVE  /\ f \in Nat /\ f < nextFile'
                        /\ files'[f] \in FileSet
                        /\ files'[f].end <= head'
                        /\ files'[f].rows # {}
                        /\ \A i \in files'[f].rows : i < nextFile'
    BY DEF FilesOK
  <2>2. \A m \in Nat : (m < nextFile => m < nextFile') /\ (m <= head => m <= head')
    BY <1>5, <1>14
  <2>3. CASE f = nextFile
    <3>1. nextFile < nextFile' /\ 0 <= head'
      BY <1>5, <1>14
    <3>2. \A i \in RowsOf(job.files) : i < nextFile'
      BY <1>8, <2>2
    <3> QED
      BY <1>5, <1>9, <1>10, <1>15, <2>3, <3>1, <3>2
  <2>4. CASE f \in DOMAIN files
    <3>1. /\ f \in Nat /\ f < nextFile
          /\ files[f] \in FileSet /\ files[f].end <= head
          /\ files[f].rows # {} /\ \A i \in files[f].rows : i < nextFile
      BY <1>1, <2>4 DEF FilesOK
    <3>2. files[f].end \in Nat /\ files[f].rows \in SUBSET Nat
      BY <3>1 DEF FileSet
    <3>3. head + 1 <= head'
      BY <1>5, <1>14
    <3>4. files'[f].end <= head'
      BY <1>16, <2>2, <2>4, <3>1, <3>2, <3>3
    <3> QED
      BY <1>16, <2>2, <2>4, <3>1, <3>2, <3>4
  <2> QED
    BY <1>15, <2>1, <2>3, <2>4
<1>18. Live' = (Live \ job.files) \cup {nextFile}
  <2>1. head + 1 # 0
    BY <1>5
  <2> QED
    BY <1>10, <1>15, <1>16, <2>1 DEF Live
<1>19. RowsApart'
  <2>1. SUFFICES ASSUME NEW f \in Live', NEW g \in Live', f # g
                 PROVE  files'[f].rows \cap files'[g].rows = {}
    BY DEF RowsApart
  <2>2. \A h \in Live \ job.files : h \in DOMAIN files /\ files'[h].rows = files[h].rows
    BY <1>16 DEF Live
  <2>3. \A h \in Live \ job.files : files[h].rows \cap RowsOf(job.files) = {}
    BY <1>1, <1>3 DEF RowsApart, RowsOf
  <2>4. files'[nextFile].rows = RowsOf(job.files)
    BY <1>10, <1>15
  <2>5. \A h, k \in Live \ job.files : h # k => files[h].rows \cap files[k].rows = {}
    BY <1>1 DEF RowsApart
  <2> QED
    BY <1>18, <2>1, <2>2, <2>3, <2>4, <2>5
<1>20. RowsOf(Live)' = RowsOf(Live)
  <2>1. files'[nextFile].rows = RowsOf(job.files)
    BY <1>10, <1>15
  <2>2. \A h \in Live : files'[h].rows = files[h].rows
    BY <1>16 DEF Live
  <2> QED
    BY <1>3, <1>18, <2>1, <2>2 DEF RowsOf
<1>21. StatsMatchLiveRows'
  BY <1>1, <1>14, <1>20 DEF StatsMatchLiveRows
<1>22. JobOK'
  BY <1>2, <1>14 DEF IdleJob, JobOK, HistoryOK
<1>23. SessionsOK'
  BY <1>2, SessionsSurvive
<1>24. CatalogInv'
  BY <1>14, <1>17, <1>19, <1>21, <1>22, <1>23 DEF CatalogInv
<1> QED
  BY <1>2, <1>3, <1>4, <1>10, <1>14, <1>15, <1>24

\* The commit of a drop: its files end together, their rows and no others leave,
\* and the statistics are lowered by just these.
LEMMA DropKeepsCatalog ==
  ASSUME CatalogInv, CommitsDrop, drop.ended \subseteq Live,
         lock' \in {"free", "drop", "cron"}, spent' \in Tallies
  PROVE  /\ CatalogInv'
         /\ head' = head + 1
         /\ DOMAIN files' = DOMAIN files
         /\ \A f \in DOMAIN files :
              files'[f] = IF f \in drop.ended THEN [files[f] EXCEPT !.end = head + 1] ELSE files[f]
         /\ stats' = stats - Delta
         /\ changes'[head + 1] = "dropped"
         /\ \A s \in 1 .. head : changes'[s] = changes[s]
<1>1. FilesOK /\ RowsApart /\ HistoryOK /\ StatsMatchLiveRows /\ CacheOK /\ JobOK /\ SessionsOK
  BY DEF CatalogInv
<1>2. /\ files' = [f \in DOMAIN files |->
                     IF f \in drop.ended THEN [files[f] EXCEPT !.end = head + 1] ELSE files[f]]
      /\ head' = head + 1 /\ kept' = kept \cup {head + 1} /\ nextFile' = nextFile + 1
      /\ changes' = [s \in 1 .. head + 1 |-> IF s = head + 1 THEN "dropped" ELSE changes[s]]
      /\ stats' = stats - Delta /\ stats > Delta
      /\ UNCHANGED <<liveSpec, cache, job, cursor, manifest>>
  BY DEF CommitsDrop, Environment, NextFileAfterDrop
<1>3. /\ head \in Nat \ {0} /\ nextFile \in Nat /\ stats \in Nat /\ liveSpec \in Specs
      /\ kept \subseteq 1 .. head /\ changes \in [1 .. head -> Kinds]
  BY <1>1 DEF HistoryOK
<1>4. /\ DOMAIN files' = DOMAIN files
      /\ \A f \in DOMAIN files :
           files'[f] = IF f \in drop.ended THEN [files[f] EXCEPT !.end = head + 1] ELSE files[f]
  BY <1>2
<1>5. \A f \in DOMAIN files : files[f] \in FileSet
  BY <1>1 DEF FilesOK
<1>6. \A f \in DOMAIN files :
        /\ files'[f] \in FileSet /\ files'[f].rows = files[f].rows
        /\ files'[f].spec = files[f].spec /\ files'[f].label = files[f].label
        /\ files'[f].end = IF f \in drop.ended THEN head + 1 ELSE files[f].end
  <2>1. \A f \in DOMAIN files :
          /\ files'[f] \in FileSet /\ files'[f].rows = files[f].rows
          /\ files'[f].end = IF f \in drop.ended THEN head + 1 ELSE files[f].end
    <3>1. head + 1 \in Nat
      BY <1>3
    <3>2. \A file \in FileSet :
            /\ [file EXCEPT !.end = head + 1] \in FileSet
            /\ [file EXCEPT !.end = head + 1].rows = file.rows
            /\ [file EXCEPT !.end = head + 1].end = head + 1
      BY <3>1 DEF FileSet
    <3> QED
      BY <1>4, <1>5, <3>2
  <2>2. \A f \in DOMAIN files : files'[f].spec = files[f].spec /\ files'[f].label = files[f].label
    BY <1>4, <1>5 DEF FileSet
  <2> QED
    BY <2>1, <2>2
<1>7. \A s \in 1 .. head : changes'[s] = changes[s]
  BY <1>2, <1>3
<1>8. changes'[head + 1] = "dropped"
  BY <1>2, <1>3
<1>9. changes' \in [1 .. head + 1 -> Kinds]
  BY <1>2, <1>3 DEF Kinds
<1>10. FilesOK'
  <2>1. SUFFICES ASSUME NEW f \in DOMAIN files
                 PROVE  /\ f \in Nat /\ f < nextFile'
                        /\ files'[f] \in FileSet
                        /\ files'[f].end <= head'
                        /\ files'[f].rows # {}
                        /\ \A i \in files'[f].rows : i < nextFile'
    BY <1>4 DEF FilesOK
  <2>2. \A m \in Nat : (m < nextFile => m < nextFile') /\ (m <= head => m <= head')
    BY <1>2, <1>3
  <2>3. /\ f \in Nat /\ f < nextFile
        /\ files[f] \in FileSet /\ files[f].end <= head
        /\ files[f].rows # {} /\ \A i \in files[f].rows : i < nextFile
    BY <1>1 DEF FilesOK
  <2>4. files[f].end \in Nat /\ files[f].rows \in SUBSET Nat
    BY <2>3 DEF FileSet
  <2>5. head + 1 <= head'
    BY <1>2, <1>3
  <2>6. files'[f].end <= head'
    BY <1>6, <2>2, <2>3, <2>4, <2>5
  <2> QED
    BY <1>6, <2>2, <2>3, <2>4, <2>6
<1>11. Live' = Live \ drop.ended
  <2>1. head + 1 # 0
    BY <1>3
  <2> QED
    BY <1>4, <1>6, <2>1 DEF Live
<1>12. \A f \in Live : files'[f].rows = files[f].rows
  BY <1>6 DEF Live
<1>13. RowsApart'
  BY <1>1, <1>11, <1>12 DEF RowsApart
<1>14. RowsOf(Live)' = RowsOf(Live) \ RowsOf(drop.ended)
  BY <1>1, <1>11, <1>12 DEF RowsOf, RowsApart
<1>15. RowsOf(Live) \cap RowsOf(drop.ended) = RowsOf(drop.ended)
  BY DEF RowsOf
<1>16. Cardinality(RowsOf(Live) \ RowsOf(drop.ended)) = Cardinality(RowsOf(Live)) - Delta
  BY <1>1, <1>15, LiveRowsFinite, FS_Difference DEF Delta
<1>17. StatsMatchLiveRows'
  BY <1>1, <1>2, <1>14, <1>16 DEF StatsMatchLiveRows
<1>18. Delta \in Nat
  BY <1>1, <1>15, LiveRowsFinite, FS_Intersection, FS_CardinalityType DEF Delta
<1>19. HistoryOK'
  <2>1. kept' \subseteq 1 .. head + 1 /\ head + 1 \in kept' /\ head + 1 \in Nat \ {0}
    BY <1>2, <1>3
  <2>2. stats' \in Nat /\ nextFile' \in Nat
    BY <1>2, <1>3, <1>18
  <2> QED
    BY <1>2, <1>3, <1>9, <2>1, <2>2 DEF HistoryOK
<1>20. CacheOK'
  BY <1>1, <1>2, <1>3 DEF CacheOK
<1>21. JobOK'
  <2>1. head' \in Nat /\ head <= head'
    BY <1>2, <1>3
  <2> QED
    BY <1>2, <1>4, <1>6, <1>7, <1>8, <2>1, JobSurvives
<1>22. SessionsOK'
  BY <1>1, <1>2, <1>3 DEF SessionsOK
<1>23. CatalogInv'
  BY <1>10, <1>13, <1>17, <1>19, <1>20, <1>21, <1>22 DEF CatalogInv
<1> QED
  BY <1>2, <1>4, <1>7, <1>8, <1>23

---------------------------------------------------------------------------
(* The catalog under every other step.                                     *)

\* A step that commits nothing keeps the catalog's invariant when it keeps the
\* compaction's and the sessions' parts, and never expires the head.
LEMMA QuietStepKeepsCatalog ==
  ASSUME CatalogInv, UNCHANGED <<files, head, nextFile, changes, stats, liveSpec, cache>>,
         kept' \subseteq kept, head \in kept', JobOK', SessionsOK'
  PROVE  CatalogInv'
<1>1. FilesOK' /\ RowsApart' /\ StatsMatchLiveRows'
  BY DEF CatalogInv, FilesOK, RowsApart, StatsMatchLiveRows, RowsOf, Live
<1>2. HistoryOK' /\ CacheOK'
  BY DEF CatalogInv, HistoryOK, CacheOK
<1> QED
  BY <1>1, <1>2 DEF CatalogInv

\* The compaction's view when nothing is committed.
LEMMA QuietStepKeepsJob ==
  ASSUME CatalogInv, UNCHANGED <<files, head, changes, job>>
  PROVE  JobOK'
BY DEF CatalogInv, JobOK, Live, Conflicts

\* A tool step outside COMMIT touches only its own state, the lock and the tally.
LEMMA ToolStepKeepsCatalog ==
  ASSUME CatalogInv, UNCHANGED <<catalog, Environment>>,
         lock' \in {"free", "drop", "cron"}, spent' \in Tallies
  PROVE  CatalogInv'
<1>1. JobOK'
  BY QuietStepKeepsJob DEF catalog, Environment
<1>2. SessionsOK'
  BY DEF CatalogInv, SessionsOK, Environment, catalog
<1>3. head \in kept
  BY DEF CatalogInv, HistoryOK
<1> QED
  BY <1>1, <1>2, <1>3, QuietStepKeepsCatalog DEF catalog, Environment

\* Counting one more of anything keeps the tally's type.
LEMMA SpendKeepsTallies ==
  ASSUME SessionsOK, NEW what \in {"runs", "faults", "moves", "crons"}, Spend(what)
  PROVE  /\ spent' \in Tallies
         /\ spent'.moves = IF what = "moves" THEN spent.moves + 1 ELSE spent.moves
<1>1. spent \in Tallies /\ spent' = [spent EXCEPT ![what] = @ + 1]
  BY DEF SessionsOK, Spend
<1>2. spent[what] + 1 \in Nat
  BY <1>1 DEF Tallies
<1> QED
  BY <1>1, <1>2 DEF Tallies

\* Beginning and giving up a compaction.
LEMMA JobStepKeepsCatalog ==
  ASSUME CatalogInv, CompactionBegins \/ CompactionGivesUp
  PROVE  CatalogInv'
<1>1. UNCHANGED <<catalog, cache, cursor, lock, manifest, drop, spent>>
  BY DEF CompactionBegins, CompactionGivesUp
<1>2. head \in Nat /\ head \in kept
  BY DEF CatalogInv, HistoryOK
<1>3. JobOK'
  <2>1. CASE CompactionBegins
    <3>1. PICK S \in SUBSET Live : Mergeable(S) /\ job' = [files |-> S, start |-> head]
      BY <2>1 DEF CompactionBegins
    <3>2. /\ S \subseteq DOMAIN files
          /\ \A f, g \in S : files[f].spec = files[g].spec /\ files[f].label = files[g].label
      BY <3>1 DEF Live, Mergeable
    <3> QED
      BY <1>1, <1>2, <3>1, <3>2 DEF JobOK, Live, catalog
  <2>2. CASE CompactionGivesUp
    BY <1>1, <1>2, <2>2 DEF CompactionGivesUp, IdleJob, JobOK, catalog
  <2> QED
    BY <2>1, <2>2
<1>4. SessionsOK'
  BY <1>1 DEF CatalogInv, SessionsOK, catalog
<1> QED
  BY <1>1, <1>2, <1>3, <1>4, QuietStepKeepsCatalog DEF catalog

\* The consumers' cursors never pass the head.
LEMMA CursorStepKeepsCatalog ==
  ASSUME CatalogInv, NEW c \in Consumers, CursorAdvances(c) \/ CursorRewinds(c)
  PROVE  /\ CatalogInv'
         /\ UNCHANGED <<catalog, cache, job, lock, manifest, drop>>
         /\ spent'.moves = spent.moves + 1
<1>1. UNCHANGED <<catalog, cache, job, lock, manifest, drop>> /\ Spend("moves")
  BY DEF CursorAdvances, CursorRewinds
<1>2. SessionsOK /\ head \in Nat /\ head \in kept
  BY DEF CatalogInv, HistoryOK
<1>3. PICK s \in Nat : s <= head /\ cursor' = [cursor EXCEPT ![c] = s]
  <2>1. cursor[c] \in Nat /\ cursor[c] <= head
    BY <1>2 DEF SessionsOK
  <2>2. CASE CursorAdvances(c)
    <3>1. head <= head /\ cursor' = [cursor EXCEPT ![c] = head]
      BY <1>2, <2>2 DEF CursorAdvances
    <3> QED
      BY <1>2, <3>1, Zenon
  <2>3. CASE CursorRewinds(c)
    <3>1. PICK s \in RewindTo : s < cursor[c] /\ cursor' = [cursor EXCEPT ![c] = s]
      BY <2>3 DEF CursorRewinds
    <3>2. s \in Nat /\ s <= head
      BY <1>2, <2>1, <3>1, NumberAssumption
    <3> QED
      BY <3>1, <3>2
  <2> QED
    BY <2>2, <2>3
<1>4. spent' \in Tallies /\ spent'.moves = spent.moves + 1
  BY <1>1, <1>2, SpendKeepsTallies
<1>5. SessionsOK'
  <2>1. cursor' \in [Consumers -> Nat] /\ \A d \in Consumers : cursor'[d] <= head
    BY <1>2, <1>3 DEF SessionsOK
  <2> QED
    BY <1>1, <1>2, <1>4, <2>1 DEF SessionsOK, catalog
<1>6. JobOK'
  BY <1>1, QuietStepKeepsJob DEF catalog
<1> QED
  BY <1>1, <1>2, <1>4, <1>5, <1>6, QuietStepKeepsCatalog DEF catalog

\* The other maintenance jobs: they never expire the head.
LEMMA CronStepKeepsCatalog ==
  ASSUME CatalogInv, CronLocks \/ CronExpires \/ CronUnlocks
  PROVE  /\ CatalogInv'
         /\ UNCHANGED <<files, head, nextFile, changes, stats, liveSpec, cache, job, cursor, manifest, drop>>
         /\ spent'.moves = spent.moves
<1>1. UNCHANGED <<files, head, nextFile, changes, stats, liveSpec, cache, job, cursor, manifest, drop>>
  BY DEF CronLocks, CronExpires, CronUnlocks, catalog
<1>2. SessionsOK /\ head \in kept
  BY DEF CatalogInv, HistoryOK
<1>3. kept' \subseteq kept /\ head \in kept'
  BY <1>2 DEF CronLocks, CronExpires, CronUnlocks, catalog
<1>4. spent' \in Tallies /\ spent'.moves = spent.moves
  <2>1. CASE CronLocks
    <3>1. Spend("crons")
      BY <2>1 DEF CronLocks
    <3> QED
      BY <1>2, <3>1, SpendKeepsTallies
  <2>2. CASE CronExpires \/ CronUnlocks
    BY <1>2, <2>2 DEF CronExpires, CronUnlocks, SessionsOK
  <2> QED
    BY <2>1, <2>2
<1>5. lock' \in {"free", "drop", "cron"}
  BY <1>2 DEF CronLocks, CronExpires, CronUnlocks, SessionsOK
<1>6. SessionsOK'
  BY <1>1, <1>2, <1>4, <1>5 DEF SessionsOK
<1>7. JobOK'
  BY <1>1, QuietStepKeepsJob
<1> QED
  BY <1>1, <1>3, <1>4, <1>6, <1>7, QuietStepKeepsCatalog

\* list-droppable-partitions lists aged leaves of the live spec.
LEMMA ListingKeepsCatalog ==
  ASSUME CatalogInv, ListPartitions
  PROVE  /\ CatalogInv'
         /\ UNCHANGED <<catalog, cache, job, cursor, lock, drop, spent>>
<1>1. UNCHANGED <<catalog, cache, job, cursor, lock, drop, spent>>
  BY DEF ListPartitions
<1>2. SessionsOK /\ head \in kept /\ liveSpec \in Specs
  BY DEF CatalogInv, HistoryOK
<1>3. manifest' = [spec |-> liveSpec, leaves |-> Droppable]
  BY DEF ListPartitions
<1>4. Droppable \subseteq Labels /\ \A l \in Droppable : Aged(liveSpec, l)
  BY DEF Droppable
<1>5. SessionsOK'
  <2>1. /\ manifest' \in [spec : Specs \cup {0}, leaves : SUBSET Labels]
        /\ \A l \in manifest'.leaves : manifest'.spec \in Specs /\ Aged(manifest'.spec, l)
    BY <1>2, <1>3, <1>4
  <2> QED
    BY <1>1, <1>2, <2>1 DEF SessionsOK, catalog
<1>6. JobOK'
  BY <1>1, QuietStepKeepsJob DEF catalog
<1> QED
  BY <1>1, <1>2, <1>5, <1>6, QuietStepKeepsCatalog DEF catalog

---------------------------------------------------------------------------
(* The drop-partitions process.                                            *)

\* What another session's commit must leave alone for the process: it commits
\* only while the process holds no snapshot row, and then nothing has ended yet.
LEMMA OthersKeepDrop ==
  ASSUME DropShape, DropOK, head \in Nat, head' \in Nat, head <= head', drop' = drop,
         \/ UNCHANGED files
         \/ /\ ~ Held
            /\ \A f \in DOMAIN files :
                 /\ f \in DOMAIN files'
                 /\ files'[f].spec = files[f].spec /\ files'[f].label = files[f].label
  PROVE  DropShape' /\ DropOK'
<1>1. DropShape'
  <2>1. DOMAIN files \subseteq DOMAIN files' /\ 0 .. head \subseteq 0 .. head'
    OBVIOUS
  <2> QED
    BY <2>1 DEF DropShape
<1>2. CASE UNCHANGED files
  <2>1. Live' = Live /\ (Trying' <=> Trying)
    BY <1>2 DEF Live, Trying, InTransaction, Held
  <2> QED
    BY <1>1, <1>2, <2>1 DEF DropOK, Aged
<1>3. CASE /\ ~ Held
           /\ \A f \in DOMAIN files :
                /\ f \in DOMAIN files'
                /\ files'[f].spec = files[f].spec /\ files'[f].label = files[f].label
  <2>1. drop.ended = {} /\ drop.pc \notin {"verify", "commit"}
    BY <1>3 DEF DropOK, Held
  <2>2. drop.chosen \subseteq DOMAIN files
    BY DEF DropShape
  <2>3. \A f \in drop.chosen : files'[f].spec = drop.spec /\ files'[f].label = drop.leaf
    BY <1>3, <2>2 DEF DropOK
  <2>4. Trying' <=> Trying
    BY DEF Trying, InTransaction, Held
  <2> QED
    BY <1>1, <2>1, <2>3, <2>4 DEF DropOK, Aged
<1> QED
  BY <1>2, <1>3

\* Moving on to another point of the procedure.
LEMMA GotoMoves ==
  ASSUME DropShape, UNCHANGED <<files, head>>, NEW pc \in Pcs, Goto(pc)
  PROVE  /\ DropShape' /\ drop'.pc = pc
         /\ drop'.work = drop.work /\ drop'.spec = drop.spec /\ drop'.leaf = drop.leaf
         /\ drop'.chosen = drop.chosen /\ drop'.waits = drop.waits
         /\ drop'.ended = drop.ended /\ drop'.doubtful = drop.doubtful
BY DEF DropShape, Goto

\* The end of an attempt.
LEMMA AttemptOverMoves ==
  ASSUME DropShape, UNCHANGED <<files, head>>, NEW pc \in Pcs, AttemptOver(pc), head \in Nat
  PROVE  /\ DropShape' /\ drop'.pc = pc
         /\ drop'.work = drop.work /\ drop'.spec = drop.spec /\ drop'.leaf = drop.leaf
         /\ drop'.chosen = drop.chosen /\ drop'.waits = drop.waits
         /\ drop'.ended = {} /\ drop'.doubtful = {}
         /\ lock' = IF lock = "drop" THEN "free" ELSE lock
<1>1. 0 \in 0 .. head'
  OBVIOUS
<1> QED
  BY <1>1 DEF DropShape, AttemptOver

\* The end of a leaf, also with the commit's new head and ended files.
LEMMA LeafOverMoves ==
  ASSUME DropShape, DOMAIN files' = DOMAIN files, head' \in Nat, LeafOver
  PROVE  /\ DropShape' /\ drop'.pc = "leaf"
         /\ drop'.work = drop.work /\ drop'.spec = drop.spec
         /\ drop'.chosen = {} /\ drop'.ended = {} /\ drop'.doubtful = {}
         /\ drop'.waits = 0
         /\ lock' = IF lock = "drop" THEN "free" ELSE lock
<1>1. drop' = [drop EXCEPT !.pc = "leaf", !.chosen = {}, !.tries = 0, !.waits = 0,
                           !.base = 0, !.ended = {}, !.doubtful = {}]
      /\ lock' = IF lock = "drop" THEN "free" ELSE lock
  BY DEF LeafOver
<1>2. 0 \in 0 .. MaxAttempts /\ 0 \in 0 .. MaxWaits + 1 /\ 0 \in 0 .. head'
  BY NumberAssumption
<1> QED
  BY <1>1, <1>2 DEF DropShape, Pcs

\* After Goto: nothing of what DropOK says may depend on the point left behind.
LEMMA GotoKeepsDrop ==
  ASSUME DropShape, DropOK, UNCHANGED <<files, head>>, NEW pc \in Pcs, Goto(pc),
         pc \in {"done", "aborted"} \/ (Trying /\ pc \notin {"leaf", "select"}),
         drop.ended # {} => pc \in {"classify", "recheck", "verify", "commit"},
         drop.doubtful = {},
         pc \in {"verify", "commit"} =>
           drop.ended # {} /\ \A f \in drop.chosen \ drop.ended : files[f].end # 0
  PROVE  DropShape' /\ DropOK'
<1>1. /\ DropShape' /\ drop'.pc = pc
      /\ drop'.work = drop.work /\ drop'.spec = drop.spec /\ drop'.leaf = drop.leaf
      /\ drop'.chosen = drop.chosen /\ drop'.waits = drop.waits
      /\ drop'.ended = drop.ended /\ drop'.doubtful = drop.doubtful
  BY GotoMoves
<1> QED
  BY <1>1 DEF DropOK, Live, Trying, InTransaction, Held, Aged

\* After an attempt: only the selection is left.
LEMMA AttemptOverKeepsDrop ==
  ASSUME DropShape, DropOK, UNCHANGED <<files, head>>, NEW pc \in {"attempt", "aborted", "missed"},
         AttemptOver(pc), head \in Nat, pc = "attempt" => Trying
  PROVE  DropShape' /\ DropOK'
<1>1. /\ DropShape' /\ drop'.pc = pc
      /\ drop'.work = drop.work /\ drop'.spec = drop.spec /\ drop'.leaf = drop.leaf
      /\ drop'.chosen = drop.chosen /\ drop'.waits = drop.waits
      /\ drop'.ended = {} /\ drop'.doubtful = {}
  BY AttemptOverMoves DEF Pcs
<1> QED
  BY <1>1 DEF DropOK, Live, Trying, InTransaction, Held, Aged

\* After a leaf: only the rest of the work is left.
LEMMA LeafOverKeepsDrop ==
  ASSUME DropShape, DropOK, DOMAIN files' = DOMAIN files, head' \in Nat, LeafOver
  PROVE  DropShape' /\ DropOK'
<1>1. /\ DropShape' /\ drop'.pc = "leaf"
      /\ drop'.work = drop.work /\ drop'.spec = drop.spec
      /\ drop'.chosen = {} /\ drop'.ended = {} /\ drop'.doubtful = {}
      /\ drop'.waits = 0
  BY LeafOverMoves
<1> QED
  BY <1>1, NumberAssumption DEF DropOK, Trying, InTransaction, Held, Aged

\* NextLeaf, the first of the sorted work list, is a leaf of the list.
LEMMA NextLeafIsWork ==
  ASSUME DropShape, drop.work # {}
  PROVE  NextLeaf \in drop.work
<1> DEFINE time == LabelTime[drop.spec]
           times == {time[l] : l \in drop.work}
<1>1. drop.work \subseteq Labels /\ drop.spec \in Specs
  BY DEF DropShape
<1>2. \A l \in drop.work : time[l] \in Nat
  BY <1>1, LabelAssumption
<1>3. times \in SUBSET Nat /\ times # {}
  BY <1>2
<1>4. LowestIn(times) \in times /\ \A m \in times : LowestIn(times) <= m
  <2> HIDE DEF times
  <2> QED
    BY <1>3, LowestExists
<1>5. PICK l \in drop.work : time[l] = LowestIn(times)
  BY <1>4
<1>6. \A m \in drop.work : time[l] <= time[m]
  BY <1>4, <1>5
<1> QED
  BY <1>6, Zenon DEF NextLeaf

\* _floor_snapshot is a snapshot id, or zero.
LEMMA FloorIsNumber ==
  ASSUME HistoryOK
  PROVE  FloorSnapshot \in Nat
<1> DEFINE old == {s \in kept : s <= Ancient}
<1>1. head \in Nat /\ kept \in SUBSET Nat /\ kept # {} /\ \A s \in kept : 1 <= s /\ s <= head
  BY DEF HistoryOK
<1>2. IsFiniteSet(kept)
  BY <1>1, FS_BoundedSetOfNaturals
<1>3. CASE old # {}
  <2>1. old \in SUBSET Nat /\ IsFiniteSet(old)
    BY <1>1, <1>2, FS_Subset
  <2>2. HighestIn(old) \in old
    <3> HIDE DEF old
    <3> QED
      BY <1>3, <2>1, GreatestExists
  <2> QED
    BY <1>1, <1>3, <2>2 DEF FloorSnapshot
<1>4. CASE old = {}
  <2>1. LowestIn(kept) \in kept
    BY <1>1, LowestExists
  <2>2. FloorSnapshot = LowestIn(kept) - 1
    BY <1>4 DEF FloorSnapshot
  <2>3. LowestIn(kept) \in Nat /\ 1 <= LowestIn(kept)
    BY <1>1, <2>1
  <2> QED
    BY <2>2, <2>3
<1> QED
  BY <1>3, <1>4

---------------------------------------------------------------------------
(* The tool's steps between leaves.                                        *)

\* A run starts with aged leaves of the live spec and nothing selected.
LEMMA StartKeepsInv ==
  ASSUME DropInv, StartRun
  PROVE  DropInv' /\ spent'.moves = spent.moves /\ drop'.pc = "leaf"
<1>1. /\ UNCHANGED <<catalog, Environment, lock>> /\ Spend("runs")
      /\ StartFromManifest \/ StartFromTuple
  BY DEF StartRun
<1>2. CatalogInv /\ HistoryOK /\ SessionsOK
  BY DEF DropInv, CatalogInv
<1>3. spent' \in Tallies /\ spent'.moves = spent.moves
  BY <1>1, <1>2, SpendKeepsTallies
<1>4. CatalogInv'
  BY <1>1, <1>2, <1>3, ToolStepKeepsCatalog DEF SessionsOK
<1>5. PICK listed \in BOOLEAN, work \in SUBSET Labels :
        Started(listed, work) /\ \A l \in work : Aged(liveSpec, l)
  <2>1. CASE StartFromManifest
    <3>1. /\ manifest.leaves \in SUBSET Labels /\ manifest.spec = liveSpec
          /\ \A l \in manifest.leaves : Aged(manifest.spec, l)
      BY <1>2, <2>1 DEF StartFromManifest, SessionsOK
    <3>2. Started(TRUE, manifest.leaves)
      BY <2>1 DEF StartFromManifest
    <3> QED
      BY <3>1, <3>2
  <2>2. CASE StartFromTuple
    <3>1. PICK l \in Labels : Aged(liveSpec, l) /\ Started(FALSE, {l})
      BY <2>2 DEF StartFromTuple
    <3>2. {l} \in SUBSET Labels /\ \A m \in {l} : Aged(liveSpec, m)
      BY <3>1
    <3> QED
      BY <3>1, <3>2, Zenon
  <2> QED
    BY <1>1, <2>1, <2>2
<1>6. PICK limit \in FileLimits :
        drop' = [IdleDrop EXCEPT !.pc = "leaf", !.listed = listed, !.limit = limit, !.spec = liveSpec,
                                 !.floor = FloorSnapshot, !.work = work]
  BY <1>5 DEF Started
<1>7. /\ limit \in Nat /\ FloorSnapshot \in Nat /\ liveSpec \in Specs /\ head \in Nat
      /\ MaxAttempts \in Nat /\ MaxWaits \in Nat
  BY <1>2, FloorIsNumber, NumberAssumption DEF HistoryOK
<1>8. drop' = [pc |-> "leaf", listed |-> listed, limit |-> limit, spec |-> liveSpec,
               floor |-> FloorSnapshot, work |-> work, guard |-> 0, leaf |-> Bare, chosen |-> {},
               tries |-> 0, waits |-> 0, base |-> 0, ended |-> {}, doubtful |-> {}]
  BY <1>6 DEF IdleDrop
<1>9. DropShape'
  <2>1. head' = head
    BY <1>1 DEF catalog
  <2>2. 0 \in 0 .. MaxAttempts /\ 0 \in 0 .. MaxWaits + 1 /\ 0 \in 0 .. head
    BY <1>7
  <2>3. Bare \in Marks /\ "leaf" \in Pcs
    BY DEF Marks, Pcs
  <2> HIDE DEF Pcs, Marks
  <2> QED
    BY <1>7, <1>8, <2>1, <2>2, <2>3 DEF DropShape
<1>10. DropOK'
  BY <1>5, <1>7, <1>8 DEF DropOK, Trying, InTransaction, Held, Aged
<1> QED
  BY <1>3, <1>4, <1>8, <1>9, <1>10 DEF DropInv

\* The run stops, or goes past a leaf, before it has selected anything.
LEMMA BetweenLeavesKeepsInv ==
  ASSUME DropInv, LagStopsRun \/ OversizedStopsRun \/ SkipLeaf \/ RunDone \/ OutOfTime
  PROVE  /\ DropInv' /\ UNCHANGED <<catalog, Environment, lock, spent>>
         /\ drop'.pc \in {"leaf", "done", "aborted"}
<1>1. UNCHANGED <<catalog, Environment, lock, spent>>
  BY DEF LagStopsRun, OversizedStopsRun, SkipLeaf, RunDone, OutOfTime, AtLeaf, AtSelection
<1>2. CatalogInv /\ DropShape /\ DropOK /\ SessionsOK
  BY DEF DropInv, CatalogInv
<1>3. CatalogInv'
  BY <1>1, <1>2, ToolStepKeepsCatalog DEF SessionsOK
<1>4. drop.ended = {} /\ drop.doubtful = {}
  BY <1>2 DEF DropOK, LagStopsRun, OversizedStopsRun, SkipLeaf, RunDone, OutOfTime, AtLeaf,
              AtSelection
<1>5. UNCHANGED <<files, head>>
  BY <1>1 DEF catalog
<1>6. CASE SkipLeaf
  <2>1. /\ drop.pc = "select"
        /\ drop' = [drop EXCEPT !.pc = "leaf", !.guard = 0, !.work = @ \ {NextLeaf}]
    BY <1>6 DEF SkipLeaf, AtSelection
  <2>2. DropShape'
    BY <1>2, <1>5, <2>1 DEF DropShape, Pcs
  <2>3. DropOK'
    BY <1>2, <1>4, <1>5, <2>1 DEF DropOK, DropShape, Trying, InTransaction, Held, Aged
  <2> QED
    BY <1>1, <1>2, <1>3, <2>1, <2>2, <2>3 DEF DropInv, DropShape
<1>7. CASE LagStopsRun \/ OversizedStopsRun \/ RunDone \/ OutOfTime
  <2>1. PICK pc \in {"done", "aborted"} : Goto(pc)
    BY <1>7 DEF LagStopsRun, OversizedStopsRun, RunDone, OutOfTime
  <2>2. DropShape' /\ DropOK'
    BY <1>2, <1>4, <1>5, <2>1, GotoKeepsDrop DEF Pcs
  <2>3. drop'.pc = pc
    BY <1>2, <1>5, <2>1, GotoMoves DEF Pcs
  <2> QED
    BY <1>1, <1>3, <2>1, <2>2, <2>3 DEF DropInv
<1> QED
  BY <1>6, <1>7

\* The least cursor is a number.
LEMMA MinCursorIsNumber ==
  ASSUME CatalogInv
  PROVE  MinCursor \in Nat
<1> DEFINE places == {cursor[d] : d \in Consumers}
<1>1. places \in SUBSET Nat /\ places # {}
  BY ConsumerAssumption DEF CatalogInv, SessionsOK
<1>2. LowestIn(places) \in Nat
  <2> HIDE DEF places
  <2> QED
    BY <1>1, LowestExists
<1> QED
  BY <1>2 DEF MinCursor

\* The cursors are read (_cursor_guard); nothing is selected yet.
LEMMA ReadGuardKeepsInv ==
  ASSUME DropInv, ReadGuard
  PROVE  /\ DropInv' /\ UNCHANGED <<catalog, Environment, lock, spent>>
         /\ drop'.pc = "select" /\ drop'.guard = MinCursor
<1>1. /\ UNCHANGED <<catalog, Environment, lock, spent>> /\ drop.pc = "leaf" /\ drop.work # {}
      /\ drop' = [drop EXCEPT !.pc = "select", !.guard = MinCursor]
  BY DEF ReadGuard, AtLeaf
<1>2. CatalogInv /\ DropShape /\ DropOK /\ SessionsOK /\ MinCursor \in Nat
  BY MinCursorIsNumber DEF DropInv, CatalogInv
<1>3. CatalogInv'
  BY <1>1, <1>2, ToolStepKeepsCatalog DEF SessionsOK
<1>4. UNCHANGED <<files, head>>
  BY <1>1 DEF catalog
<1>5. DropShape'
  BY <1>1, <1>2, <1>4 DEF DropShape, Pcs
<1>6. /\ drop'.pc = "select" /\ drop'.guard = MinCursor
      /\ drop'.work = drop.work /\ drop'.spec = drop.spec /\ drop'.leaf = drop.leaf
      /\ drop'.chosen = drop.chosen /\ drop'.waits = drop.waits
      /\ drop'.ended = drop.ended /\ drop'.doubtful = drop.doubtful
  BY <1>1, <1>2 DEF DropShape
<1>7. DropOK'
  <2>1. drop.ended = {} /\ drop.doubtful = {} /\ drop.waits <= MaxWaits
    BY <1>1, <1>2 DEF DropOK
  <2>2. ~ Trying'
    BY <1>6 DEF Trying, InTransaction, Held
  <2> QED
    BY <1>1, <1>2, <1>4, <1>6, <2>1, <2>2 DEF DropOK, Aged
<1> QED
  BY <1>1, <1>3, <1>5, <1>6, <1>7 DEF DropInv

\* A leaf is chosen: all of its selected files are below the guard.
LEMMA ChooseKeepsInv ==
  ASSUME DropInv, ChooseLeaf
  PROVE  /\ DropInv' /\ UNCHANGED <<catalog, Environment, lock, spent>>
         /\ drop.pc = "select" /\ drop'.pc = "attempt"
         /\ \A f \in drop'.chosen : files[f].begin < drop.guard
<1> DEFINE S == Selected(NextLeaf)
<1>1. /\ UNCHANGED <<catalog, Environment, lock, spent>>
      /\ drop.pc = "select" /\ drop.work # {}
      /\ S # {} /\ \A f \in S : files[f].begin < drop.guard
      /\ drop' = [drop EXCEPT !.pc = "attempt", !.guard = 0, !.work = @ \ {NextLeaf},
                              !.leaf = NextLeaf, !.chosen = S]
  BY DEF ChooseLeaf, AtSelection, DropInv, DropOK
<1>2. CatalogInv /\ DropShape /\ DropOK /\ SessionsOK
  BY DEF DropInv, CatalogInv
<1>3. CatalogInv'
  BY <1>1, <1>2, ToolStepKeepsCatalog DEF SessionsOK
<1>4. NextLeaf \in drop.work /\ NextLeaf \in Marks /\ Aged(drop.spec, NextLeaf)
  BY <1>1, <1>2, NextLeafIsWork DEF DropOK, DropShape, Marks
<1>5. /\ S \subseteq DOMAIN files
      /\ \A f \in S : files[f].spec = drop.spec /\ files[f].label = NextLeaf
  BY DEF Selected, Live
<1>6. UNCHANGED <<files, head>>
  BY <1>1 DEF catalog
<1> HIDE DEF S
<1>7. DropShape'
  BY <1>1, <1>2, <1>4, <1>5, <1>6 DEF DropShape, Pcs
<1>8. /\ drop'.pc = "attempt" /\ drop'.work = drop.work \ {NextLeaf} /\ drop'.leaf = NextLeaf
      /\ drop'.chosen = S /\ drop'.spec = drop.spec /\ drop'.waits = drop.waits
      /\ drop'.ended = drop.ended /\ drop'.doubtful = drop.doubtful
  BY <1>1, <1>2 DEF DropShape
<1>9. DropOK'
  <2>1. drop.ended = {} /\ drop.doubtful = {} /\ drop.waits <= MaxWaits
    BY <1>1, <1>2 DEF DropOK
  <2>2. \A l \in drop.work : Aged(drop.spec, l)
    BY <1>2 DEF DropOK
  <2> QED
    BY <1>1, <1>4, <1>5, <1>6, <1>8, <2>1, <2>2 DEF DropOK, Aged
<1> QED
  BY <1>1, <1>3, <1>7, <1>8, <1>9 DEF DropInv

---------------------------------------------------------------------------
(* The tool's steps within a leaf.                                         *)

\* Waiting for the lock, counting every try, and taking it.
LEMMA LockStepsKeepInv ==
  ASSUME DropInv, TakeLock \/ LockContended \/ OutOfAttempts
  PROVE  /\ DropInv' /\ UNCHANGED <<catalog, Environment, spent>>
         /\ drop.pc = "attempt" /\ drop'.pc \in {"vectors", "attempt", "aborted"}
         /\ drop'.chosen = drop.chosen
<1>1. /\ UNCHANGED <<catalog, Environment, spent>> /\ drop.pc = "attempt"
      /\ lock' \in {"drop", lock}
  BY DEF TakeLock, LockContended, OutOfAttempts
<1>2. CatalogInv /\ DropShape /\ DropOK /\ SessionsOK /\ HistoryOK
  BY DEF DropInv, CatalogInv
<1>3. CatalogInv'
  BY <1>1, <1>2, ToolStepKeepsCatalog DEF SessionsOK
<1>4. UNCHANGED <<files, head>>
  BY <1>1 DEF catalog
<1>5. /\ drop.ended = {} /\ drop.doubtful = {} /\ drop.chosen # {} /\ drop.waits <= MaxWaits
      /\ drop.tries \in Nat /\ drop.waits \in Nat /\ MaxWaits \in Nat /\ MaxAttempts \in Nat
  BY <1>1, <1>2, NumberAssumption DEF DropOK, DropShape, Trying
<1>6. CASE TakeLock
  <2>1. drop.tries < MaxAttempts /\ drop' = [drop EXCEPT !.pc = "vectors", !.tries = @ + 1]
    BY <1>6 DEF TakeLock
  <2>2. drop.tries + 1 \in 0 .. MaxAttempts
    BY <1>5, <2>1
  <2>3. DropShape'
    BY <1>2, <1>4, <2>1, <2>2 DEF DropShape, Pcs
  <2>4. /\ drop'.pc = "vectors" /\ drop'.work = drop.work /\ drop'.leaf = drop.leaf
        /\ drop'.chosen = drop.chosen /\ drop'.spec = drop.spec /\ drop'.waits = drop.waits
        /\ drop'.ended = drop.ended /\ drop'.doubtful = drop.doubtful
    BY <1>2, <2>1 DEF DropShape
  <2>5. DropOK'
    BY <1>2, <1>4, <1>5, <2>4 DEF DropOK, Aged
  <2> QED
    BY <1>1, <1>3, <2>3, <2>4, <2>5 DEF DropInv
<1>7. CASE LockContended
  <2> DEFINE pc == IF drop.waits + 1 > MaxWaits THEN "aborted" ELSE "attempt"
  <2>1. /\ drop.tries < MaxAttempts
        /\ drop' = [drop EXCEPT !.tries = @ + 1, !.waits = @ + 1, !.pc = pc]
    BY <1>7 DEF LockContended
  <2>2. drop.tries + 1 \in 0 .. MaxAttempts /\ drop.waits + 1 \in 0 .. MaxWaits + 1
    BY <1>5, <2>1
  <2>3. pc \in {"attempt", "aborted"} /\ (pc = "attempt" => drop.waits + 1 <= MaxWaits)
    BY <1>5
  <2> HIDE DEF pc
  <2>4. DropShape'
    BY <1>2, <1>4, <2>1, <2>2, <2>3 DEF DropShape, Pcs
  <2>5. /\ drop'.pc = pc /\ drop'.work = drop.work /\ drop'.leaf = drop.leaf
        /\ drop'.chosen = drop.chosen /\ drop'.spec = drop.spec /\ drop'.waits = drop.waits + 1
        /\ drop'.ended = drop.ended /\ drop'.doubtful = drop.doubtful
    BY <1>2, <2>1 DEF DropShape
  <2>6. Trying' \/ drop'.pc = "leaf" => drop'.waits <= MaxWaits
    BY <2>3, <2>5 DEF Trying, InTransaction, Held
  <2>7. DropOK'
    BY <1>2, <1>4, <1>5, <2>3, <2>5, <2>6 DEF DropOK, Aged
  <2> QED
    BY <1>1, <1>3, <2>3, <2>4, <2>5, <2>7 DEF DropInv
<1>8. CASE OutOfAttempts
  <2>1. Goto("aborted")
    BY <1>8 DEF OutOfAttempts
  <2>2. DropShape' /\ DropOK'
    BY <1>2, <1>4, <1>5, <2>1, GotoKeepsDrop DEF Pcs
  <2>3. drop'.pc = "aborted" /\ drop'.chosen = drop.chosen
    BY <1>2, <1>4, <2>1, GotoMoves DEF Pcs
  <2> QED
    BY <1>1, <1>3, <2>2, <2>3 DEF DropInv
<1> QED
  BY <1>6, <1>7, <1>8

\* The statements before the UPDATE.
LEMMA PrepareStepsKeepInv ==
  ASSUME DropInv, CheckVectors \/ ReadBaseline \/ InsertSnapshot
  PROVE  /\ DropInv' /\ UNCHANGED <<catalog, Environment, spent>>
         /\ drop.pc \in {"vectors", "baseline", "snapshot"}
         /\ drop'.pc \in {"baseline", "snapshot", "update", "attempt", "aborted"}
         /\ drop'.chosen = drop.chosen
<1>1. /\ UNCHANGED <<catalog, Environment, spent>>
      /\ drop.pc \in {"vectors", "baseline", "snapshot"}
  BY DEF CheckVectors, ReadBaseline, InsertSnapshot
<1>2. CatalogInv /\ DropShape /\ DropOK /\ SessionsOK /\ HistoryOK
  BY DEF DropInv, CatalogInv
<1>3. UNCHANGED <<files, head>> /\ head \in Nat
  BY <1>1, <1>2 DEF catalog, HistoryOK
<1>4. drop.ended = {} /\ drop.doubtful = {} /\ Trying
  BY <1>1, <1>2 DEF DropOK, Trying, InTransaction
<1>5. CASE \E pc \in {"attempt", "aborted"} : AttemptOver(pc)
  <2>1. PICK pc \in {"attempt", "aborted"} : AttemptOver(pc)
    BY <1>5
  <2>2. DropShape' /\ DropOK'
    BY <1>2, <1>3, <1>4, <2>1, AttemptOverKeepsDrop
  <2>3. /\ drop'.pc = pc /\ drop'.chosen = drop.chosen
        /\ lock' = IF lock = "drop" THEN "free" ELSE lock
    BY <1>2, <1>3, <2>1, AttemptOverMoves DEF Pcs
  <2>4. CatalogInv'
    BY <1>1, <1>2, <2>3, ToolStepKeepsCatalog DEF SessionsOK
  <2> QED
    BY <1>1, <2>1, <2>2, <2>3, <2>4 DEF DropInv
<1>6. CASE \E pc \in {"baseline", "update"} : Goto(pc) /\ UNCHANGED lock
  <2>1. PICK pc \in {"baseline", "update"} : Goto(pc)
    BY <1>6
  <2>2. DropShape' /\ DropOK'
    BY <1>2, <1>3, <1>4, <2>1, GotoKeepsDrop DEF Pcs
  <2>3. drop'.pc = pc /\ drop'.chosen = drop.chosen
    BY <1>2, <1>3, <2>1, GotoMoves DEF Pcs
  <2>4. CatalogInv'
    BY <1>1, <1>2, <1>6, ToolStepKeepsCatalog DEF SessionsOK
  <2> QED
    BY <1>1, <2>1, <2>2, <2>3, <2>4 DEF DropInv
<1>7. CASE ReadBaseline
  <2>1. drop' = [drop EXCEPT !.pc = "snapshot", !.base = head] /\ UNCHANGED lock
    BY <1>7 DEF ReadBaseline
  <2>2. head \in 0 .. head
    BY <1>3
  <2>3. DropShape'
    BY <1>2, <1>3, <2>1, <2>2 DEF DropShape, Pcs
  <2>4. /\ drop'.pc = "snapshot" /\ drop'.work = drop.work /\ drop'.leaf = drop.leaf
        /\ drop'.chosen = drop.chosen /\ drop'.spec = drop.spec /\ drop'.waits = drop.waits
        /\ drop'.ended = drop.ended /\ drop'.doubtful = drop.doubtful
    BY <1>2, <2>1 DEF DropShape
  <2>5. DropOK'
    BY <1>2, <1>3, <1>4, <2>4 DEF DropOK, Aged
  <2>6. CatalogInv'
    BY <1>1, <1>2, <2>1, ToolStepKeepsCatalog DEF SessionsOK
  <2> QED
    BY <1>1, <2>3, <2>4, <2>5, <2>6 DEF DropInv
<1> QED
  BY <1>5, <1>6, <1>7, Zenon DEF CheckVectors, InsertSnapshot

\* The UPDATE ends live files of the selection, and COMMIT may follow directly
\* only if it ended all of them.
LEMMA EndFilesKeepsInv ==
  ASSUME DropInv, EndFiles
  PROVE  /\ DropInv' /\ UNCHANGED <<catalog, Environment, lock, spent>>
         /\ drop.pc = "update" /\ drop'.chosen = drop.chosen
         /\ drop'.ended = {f \in drop.chosen \cap Live : Eligible(f)}
         /\ drop'.pc \in {"classify", "verify"}
<1> DEFINE ended == {f \in drop.chosen \cap Live : Eligible(f)}
           pc == IF ended = drop.chosen THEN "verify" ELSE "classify"
<1>1. /\ UNCHANGED <<catalog, Environment, lock, spent>> /\ drop.pc = "update"
      /\ drop' = [drop EXCEPT !.ended = ended, !.pc = pc]
  BY DEF EndFiles
<1>2. CatalogInv /\ DropShape /\ DropOK /\ SessionsOK
  BY DEF DropInv, CatalogInv
<1>3. CatalogInv'
  BY <1>1, <1>2, ToolStepKeepsCatalog DEF SessionsOK
<1>4. UNCHANGED <<files, head>>
  BY <1>1 DEF catalog
<1>5. drop.chosen # {} /\ drop.doubtful = {} /\ Trying /\ drop.waits <= MaxWaits
  BY <1>1, <1>2 DEF DropOK, Trying, InTransaction, Held
<1>6. /\ ended \subseteq drop.chosen /\ ended \subseteq Live
      /\ pc \in {"classify", "verify"} /\ (pc = "verify" => ended = drop.chosen)
  OBVIOUS
<1>7. Live \subseteq DOMAIN files
  BY DEF Live
<1> HIDE DEF ended, pc
<1>8. DropShape'
  BY <1>1, <1>2, <1>4, <1>6, <1>7 DEF DropShape, Pcs
<1>9. /\ drop'.pc = pc /\ drop'.work = drop.work /\ drop'.leaf = drop.leaf
      /\ drop'.chosen = drop.chosen /\ drop'.spec = drop.spec /\ drop'.waits = drop.waits
      /\ drop'.ended = ended /\ drop'.doubtful = drop.doubtful
  BY <1>1, <1>2 DEF DropShape
<1>10. Live' = Live
  BY <1>4 DEF Live
<1>11. DropOK'
  BY <1>2, <1>4, <1>5, <1>6, <1>9, <1>10 DEF DropOK, Aged
<1> QED
  BY <1>1, <1>3, <1>6, <1>8, <1>9, <1>11 DEF DropInv, ended

\* A statement that leaves the attempt, or the leaf, with nothing committed.
LEMMA RollbackKeepsInv ==
  ASSUME DropInv, UNCHANGED <<catalog, Environment>>, spent' \in Tallies,
         \/ LeafOver
         \/ \E pc \in {"attempt", "aborted", "missed"} :
              AttemptOver(pc) /\ (pc = "attempt" => Trying)
  PROVE  /\ DropInv'
         /\ drop'.chosen \in {drop.chosen, {}}
         /\ drop'.ended = {}
<1>1. CatalogInv /\ DropShape /\ DropOK /\ SessionsOK /\ head \in Nat
  BY DEF DropInv, CatalogInv, HistoryOK
<1>2. UNCHANGED <<files, head>> /\ head' \in Nat /\ DOMAIN files' = DOMAIN files
  BY <1>1 DEF catalog
<1>3. CASE LeafOver
  <2>1. /\ lock' = IF lock = "drop" THEN "free" ELSE lock
        /\ drop'.chosen = {} /\ drop'.ended = {}
    BY <1>1, <1>2, <1>3, LeafOverMoves
  <2>2. DropShape' /\ DropOK'
    BY <1>1, <1>2, <1>3, LeafOverKeepsDrop
  <2>3. CatalogInv'
    BY <1>1, <2>1, ToolStepKeepsCatalog DEF SessionsOK
  <2> QED
    BY <2>1, <2>2, <2>3 DEF DropInv
<1>4. CASE \E pc \in {"attempt", "aborted", "missed"} :
             AttemptOver(pc) /\ (pc = "attempt" => Trying)
  <2>1. PICK pc \in {"attempt", "aborted", "missed"} :
               AttemptOver(pc) /\ (pc = "attempt" => Trying)
    BY <1>4
  <2>2. /\ lock' = IF lock = "drop" THEN "free" ELSE lock
        /\ drop'.chosen = drop.chosen /\ drop'.ended = {}
    BY <1>1, <1>2, <2>1, AttemptOverMoves DEF Pcs
  <2>3. DropShape' /\ DropOK'
    BY <1>1, <1>2, <2>1, AttemptOverKeepsDrop
  <2>4. CatalogInv'
    BY <1>1, <2>2, ToolStepKeepsCatalog DEF SessionsOK
  <2> QED
    BY <2>2, <2>3, <2>4 DEF DropInv
<1> QED
  BY <1>3, <1>4

\* The members that were not ended are read again: COMMIT is reached only when
\* none of them is live.
LEMMA ClassifyKeepsInv ==
  ASSUME DropInv, Classify
  PROVE  /\ DropInv' /\ UNCHANGED <<catalog, Environment, spent>>
         /\ drop.pc = "classify"
         /\ \/ drop'.pc = "leaf"
            \/ drop'.pc = "verify" /\ drop'.ended = drop.ended /\ drop'.chosen = drop.chosen
            \/ /\ drop'.pc = "recheck"
               /\ \E f \in (drop.chosen \ drop.ended) \cap Live : Eligible(f)
<1> DEFINE left == (drop.chosen \ drop.ended) \cap Live
           doubtful == {f \in left : Eligible(f)}
<1>1. /\ UNCHANGED <<catalog, Environment, spent>> /\ drop.pc = "classify"
      /\ \/ /\ doubtful # {}
            /\ drop' = [drop EXCEPT !.pc = "recheck", !.doubtful = doubtful]
            /\ UNCHANGED lock
         \/ doubtful = {} /\ (left # {} \/ drop.ended = {}) /\ LeafOver
         \/ left = {} /\ drop.ended # {} /\ Goto("verify") /\ UNCHANGED lock
  BY DEF Classify
<1>2. CatalogInv /\ DropShape /\ DropOK /\ SessionsOK /\ HistoryOK
  BY DEF DropInv, CatalogInv
<1>3. UNCHANGED <<files, head>> /\ head \in Nat
  BY <1>1, <1>2 DEF catalog, HistoryOK
<1>4. spent' \in Tallies
  BY <1>1, <1>2 DEF SessionsOK
<1>5. drop.doubtful = {} /\ Trying /\ drop.chosen # {} /\ drop.waits <= MaxWaits
  BY <1>1, <1>2 DEF DropOK, Trying, InTransaction, Held
<1>6. CASE /\ doubtful # {} /\ UNCHANGED lock
           /\ drop' = [drop EXCEPT !.pc = "recheck", !.doubtful = doubtful]
  <2>1. doubtful \subseteq drop.chosen /\ \E f \in left : Eligible(f)
    BY <1>6
  <2>2. CatalogInv'
    BY <1>1, <1>2, <1>6, ToolStepKeepsCatalog DEF SessionsOK
  <2>3. \E f \in (drop.chosen \ drop.ended) \cap Live : Eligible(f)
    BY <2>1
  <2> HIDE DEF doubtful, left
  <2>4. DropShape'
    BY <1>2, <1>3, <1>6, <2>1 DEF DropShape, Pcs
  <2>5. /\ drop'.pc = "recheck" /\ drop'.work = drop.work /\ drop'.leaf = drop.leaf
        /\ drop'.chosen = drop.chosen /\ drop'.spec = drop.spec /\ drop'.waits = drop.waits
        /\ drop'.ended = drop.ended /\ drop'.doubtful = doubtful
    BY <1>2, <1>6 DEF DropShape
  <2>6. Live' = Live
    BY <1>3 DEF Live
  <2>7. DropOK'
    BY <1>2, <1>3, <1>5, <2>1, <2>5, <2>6 DEF DropOK, Aged
  <2> QED
    BY <1>1, <2>2, <2>3, <2>4, <2>5, <2>7 DEF DropInv
<1>7. CASE LeafOver
  <2>1. DropInv'
    BY <1>1, <1>4, <1>7, RollbackKeepsInv
  <2>2. drop'.pc = "leaf"
    BY <1>2, <1>3, <1>7, LeafOverMoves
  <2> QED
    BY <1>1, <2>1, <2>2
<1>8. CASE left = {} /\ drop.ended # {} /\ Goto("verify") /\ UNCHANGED lock
  <2>1. \A f \in drop.chosen \ drop.ended : files[f].end # 0
    BY <1>2, <1>8 DEF DropShape, Live
  <2>2. DropShape' /\ DropOK'
    BY <1>2, <1>3, <1>5, <1>8, <2>1, GotoKeepsDrop DEF Pcs
  <2>3. drop'.pc = "verify" /\ drop'.ended = drop.ended /\ drop'.chosen = drop.chosen
    BY <1>2, <1>3, <1>8, GotoMoves DEF Pcs
  <2>4. CatalogInv'
    BY <1>1, <1>2, <1>8, ToolStepKeepsCatalog DEF SessionsOK
  <2> QED
    BY <1>1, <2>2, <2>3, <2>4 DEF DropInv
<1> QED
  BY <1>1, <1>6, <1>7, <1>8

\* The second look at the doubtful members ends the run or the leaf.
LEMMA RecheckKeepsInv ==
  ASSUME DropInv, Recheck
  PROVE  /\ DropInv' /\ UNCHANGED <<catalog, Environment, spent>>
         /\ drop.pc = "recheck" /\ drop'.pc \in {"missed", "leaf"}
<1>1. /\ UNCHANGED <<catalog, Environment, spent>> /\ drop.pc = "recheck"
      /\ AttemptOver("missed") \/ LeafOver
  BY DEF Recheck
<1>2. DropShape /\ head \in Nat /\ spent \in Tallies
  BY DEF DropInv, CatalogInv, HistoryOK, SessionsOK
<1>3. UNCHANGED <<files, head>>
  BY <1>1 DEF catalog
<1>4. DropInv'
  BY <1>1, <1>2, RollbackKeepsInv
<1>5. drop'.pc \in {"missed", "leaf"}
  BY <1>1, <1>2, <1>3, AttemptOverMoves, LeafOverMoves DEF Pcs
<1> QED
  BY <1>1, <1>4, <1>5

\* The last look at the cursors.
LEMMA VerifyKeepsInv ==
  ASSUME DropInv, Verify
  PROVE  /\ DropInv' /\ UNCHANGED <<catalog, Environment, spent>>
         /\ drop.pc = "verify"
         /\ \/ drop'.pc = "leaf"
            \/ /\ drop'.pc = "commit" /\ drop'.ended = drop.ended /\ drop'.chosen = drop.chosen
               /\ \A f \in drop.ended : Eligible(f)
<1>1. /\ UNCHANGED <<catalog, Environment, spent>> /\ drop.pc = "verify"
      /\ \/ LeafOver
         \/ Goto("commit") /\ UNCHANGED lock /\ \A f \in drop.ended : Eligible(f)
  BY DEF Verify
<1>2. CatalogInv /\ DropShape /\ DropOK /\ SessionsOK /\ HistoryOK
  BY DEF DropInv, CatalogInv
<1>3. UNCHANGED <<files, head>> /\ head \in Nat /\ spent' \in Tallies
  BY <1>1, <1>2 DEF catalog, HistoryOK, SessionsOK
<1>4. CASE LeafOver
  <2>1. DropInv'
    BY <1>1, <1>3, <1>4, RollbackKeepsInv
  <2>2. drop'.pc = "leaf"
    BY <1>2, <1>3, <1>4, LeafOverMoves
  <2> QED
    BY <1>1, <2>1, <2>2
<1>5. CASE Goto("commit") /\ UNCHANGED lock /\ \A f \in drop.ended : Eligible(f)
  <2>1. /\ drop.doubtful = {} /\ Trying /\ drop.ended # {}
        /\ \A f \in drop.chosen \ drop.ended : files[f].end # 0
    BY <1>1, <1>2 DEF DropOK, Trying, InTransaction, Held
  <2>2. DropShape' /\ DropOK'
    BY <1>2, <1>3, <1>5, <2>1, GotoKeepsDrop DEF Pcs
  <2>3. drop'.pc = "commit" /\ drop'.ended = drop.ended /\ drop'.chosen = drop.chosen
    BY <1>2, <1>3, <1>5, GotoMoves DEF Pcs
  <2>4. CatalogInv'
    BY <1>1, <1>2, <1>5, ToolStepKeepsCatalog DEF SessionsOK
  <2> QED
    BY <1>1, <1>5, <2>2, <2>3, <2>4 DEF DropInv
<1> QED
  BY <1>1, <1>4, <1>5

\* An error in a statement, in COMMIT's own check, or between leaves.
LEMMA FailureKeepsInv ==
  ASSUME DropInv, EmptiesTheTable \/ StatementFails \/ RunFails
  PROVE  /\ DropInv' /\ UNCHANGED <<catalog, Environment>>
         /\ spent'.moves = spent.moves
         /\ \/ drop'.pc = "aborted"
            \/ drop'.pc = "attempt" /\ InTransaction /\ drop'.chosen = drop.chosen
<1>1. /\ UNCHANGED <<catalog, Environment>>
      /\ \/ AttemptOver("aborted")
         \/ AttemptOver("attempt") /\ InTransaction
      /\ UNCHANGED spent \/ Spend("faults")
  BY DEF EmptiesTheTable, StatementFails, RunFails
<1>2. DropShape /\ head \in Nat /\ SessionsOK
  BY DEF DropInv, CatalogInv, HistoryOK
<1>3. UNCHANGED <<files, head>>
  BY <1>1 DEF catalog
<1>4. spent' \in Tallies /\ spent'.moves = spent.moves
  BY <1>1, <1>2, SpendKeepsTallies DEF SessionsOK
<1>5. DropInv'
  BY <1>1, <1>4, RollbackKeepsInv DEF Trying
<1>6. \/ drop'.pc = "aborted"
      \/ drop'.pc = "attempt" /\ InTransaction /\ drop'.chosen = drop.chosen
  BY <1>1, <1>2, <1>3, AttemptOverMoves DEF Pcs
<1> QED
  BY <1>1, <1>4, <1>5, <1>6

\* COMMIT, whether its answer arrives or not.
LEMMA CommitKeepsInv ==
  ASSUME DropInv, DropLeaf \/ DropLeafAnswerLost
  PROVE  /\ DropInv' /\ CommitsDrop
         /\ head' = head + 1
         /\ DOMAIN files' = DOMAIN files
         /\ \A f \in DOMAIN files :
              files'[f] = IF f \in drop.ended THEN [files[f] EXCEPT !.end = head + 1] ELSE files[f]
         /\ stats' = stats - Delta
         /\ changes'[head + 1] = "dropped"
         /\ \A s \in 1 .. head : changes'[s] = changes[s]
         /\ UNCHANGED <<liveSpec, Environment>> /\ spent'.moves = spent.moves
         /\ \/ drop'.pc = "leaf"
            \/ drop'.pc = "attempt" /\ drop'.chosen = drop.chosen
<1>1. /\ CommitsDrop /\ drop.pc = "commit"
      /\ UNCHANGED spent \/ Spend("faults")
      /\ \/ LeafOver
         \/ drop' = [drop EXCEPT !.pc = "attempt", !.base = 0, !.ended = {}] /\ lock' = "free"
  BY DEF DropLeaf, DropLeafAnswerLost, CommitsDrop
<1>2. CatalogInv /\ DropShape /\ DropOK /\ SessionsOK /\ HistoryOK
  BY DEF DropInv, CatalogInv
<1>3. spent' \in Tallies /\ spent'.moves = spent.moves
  BY <1>1, <1>2, SpendKeepsTallies DEF SessionsOK
<1>4. lock' \in {"free", "drop", "cron"}
  BY <1>1, <1>2 DEF LeafOver, SessionsOK
<1>5. drop.ended \subseteq Live /\ drop.doubtful = {} /\ drop.chosen # {} /\ drop.waits <= MaxWaits
  BY <1>1, <1>2 DEF DropOK, Trying, InTransaction, Held
<1>6. /\ CatalogInv'
      /\ head' = head + 1
      /\ DOMAIN files' = DOMAIN files
      /\ \A f \in DOMAIN files :
           files'[f] = IF f \in drop.ended THEN [files[f] EXCEPT !.end = head + 1] ELSE files[f]
      /\ stats' = stats - Delta
      /\ changes'[head + 1] = "dropped"
      /\ \A s \in 1 .. head : changes'[s] = changes[s]
  BY <1>1, <1>2, <1>3, <1>4, <1>5, DropKeepsCatalog
<1>7. UNCHANGED <<liveSpec, Environment>>
  BY <1>1 DEF CommitsDrop
<1>8. head \in Nat /\ head' \in Nat
  BY <1>2, <1>6 DEF HistoryOK
<1>9. CASE LeafOver
  <2>1. DropShape' /\ DropOK'
    BY <1>2, <1>6, <1>8, <1>9, LeafOverKeepsDrop
  <2>2. drop'.pc = "leaf"
    BY <1>2, <1>6, <1>8, <1>9, LeafOverMoves
  <2> QED
    BY <1>1, <1>3, <1>6, <1>7, <2>1, <2>2 DEF DropInv
<1>10. CASE drop' = [drop EXCEPT !.pc = "attempt", !.base = 0, !.ended = {}]
  <2>1. 0 \in 0 .. head'
    BY <1>8
  <2>2. DropShape'
    BY <1>2, <1>6, <1>10, <2>1 DEF DropShape, Pcs
  <2>3. /\ drop'.pc = "attempt" /\ drop'.work = drop.work /\ drop'.leaf = drop.leaf
        /\ drop'.chosen = drop.chosen /\ drop'.spec = drop.spec /\ drop'.waits = drop.waits
        /\ drop'.ended = {} /\ drop'.doubtful = {}
    BY <1>2, <1>5, <1>10 DEF DropShape
  <2>4. \A f \in drop.chosen : files'[f].spec = files[f].spec /\ files'[f].label = files[f].label
    <3>1. \A f \in drop.chosen : f \in DOMAIN files /\ files[f] \in FileSet
      BY <1>2 DEF DropShape, CatalogInv, FilesOK
    <3>2. \A file \in FileSet : /\ [file EXCEPT !.end = head + 1].spec = file.spec
                                /\ [file EXCEPT !.end = head + 1].label = file.label
      BY DEF FileSet
    <3>3. \A f \in drop.chosen : files'[f] = [files[f] EXCEPT !.end = head + 1] \/ files'[f] = files[f]
      BY <1>6, <3>1
    <3>4. SUFFICES ASSUME NEW f \in drop.chosen
                   PROVE  files'[f].spec = files[f].spec /\ files'[f].label = files[f].label
      OBVIOUS
    <3>5. CASE files'[f] = files[f]
      BY <3>5
    <3>6. CASE files'[f] = [files[f] EXCEPT !.end = head + 1]
      BY <3>1, <3>2, <3>6
    <3> QED
      BY <3>3, <3>5, <3>6
  <2>5. DropOK'
    BY <1>2, <1>5, <2>3, <2>4 DEF DropOK, Aged
  <2> QED
    BY <1>1, <1>3, <1>6, <1>7, <2>2, <2>3, <2>5 DEF DropInv
<1> QED
  BY <1>1, <1>9, <1>10

---------------------------------------------------------------------------
(* Invariance.                                                             *)

\* The history the model starts from: one live file per row.
LEMMA InitGivesInv ==
  ASSUME Init
  PROVE  DropInv
<1> DEFINE D == DOMAIN InitialFiles
<1>1. /\ files = InitialFiles /\ head = InitialHead /\ kept = 1 .. head
      /\ nextFile = HighestIn(D) + 1
      /\ changes = [s \in 1 .. head |-> "appended"]
      /\ stats = Cardinality(D)
      /\ cache = [key |-> nextFile, count |-> stats]
      /\ liveSpec = 1 /\ job = IdleJob
      /\ cursor = [c \in Consumers |-> head]
      /\ lock = "free" /\ manifest = [spec |-> 0, leaves |-> {}] /\ drop = IdleDrop
      /\ spent = [commits |-> 0, runs |-> 0, faults |-> 0, moves |-> 0, crons |-> 0, deletes |-> 0,
                  alters |-> 0]
  BY DEF Init
<1>2. /\ head \in Nat \ {0} /\ IsFiniteSet(D) /\ D # {} /\ D \in SUBSET Nat
      /\ \A f \in D : /\ files[f] \in FileSet /\ files[f].end = 0 /\ files[f].rows = {f}
  BY <1>1, HistoryAssumption
<1>3. HighestIn(D) \in D /\ \A f \in D : f <= HighestIn(D)
  <2> HIDE DEF D
  <2> QED
    BY <1>2, GreatestExists
<1>4. nextFile \in Nat /\ \A f \in D : f < nextFile
  BY <1>1, <1>2, <1>3
<1>5. Cardinality(D) \in Nat
  BY <1>2, FS_CardinalityType
<1>6. FilesOK
  <2>1. DOMAIN files = D
    BY <1>1
  <2>2. 0 <= head /\ \A f \in D : \A i \in {f} : i < nextFile
    BY <1>2, <1>4
  <2> HIDE DEF D
  <2>3. SUFFICES ASSUME NEW f \in D
                 PROVE  /\ f \in Nat /\ f < nextFile
                        /\ files[f] \in FileSet
                        /\ files[f].end <= head
                        /\ files[f].rows # {}
                        /\ \A i \in files[f].rows : i < nextFile
    BY <2>1, Zenon DEF FilesOK
  <2>4. files[f] \in FileSet /\ files[f].end = 0 /\ files[f].rows = {f} /\ f \in Nat /\ f < nextFile
    BY <1>2, <1>4
  <2> QED
    BY <2>2, <2>4
<1>7. Live = D
  BY <1>1, <1>2 DEF Live
<1>8. RowsApart
  BY <1>1, <1>2, <1>7 DEF RowsApart
<1>9. RowsOf(Live) = D
  <2>1. \A f \in Live : files[f].rows = {f}
    BY <1>2, <1>7
  <2>2. RowsOf(Live) = Live
    BY <2>1 DEF RowsOf
  <2> QED
    BY <1>7, <2>2
<1>10. StatsMatchLiveRows
  BY <1>1, <1>9 DEF StatsMatchLiveRows
<1> HIDE DEF D
<1>11. HistoryOK
  <2>1. kept \subseteq 1 .. head /\ head \in kept
    BY <1>1, <1>2
  <2>2. changes \in [1 .. head -> Kinds]
    BY <1>1 DEF Kinds
  <2> QED
    BY <1>1, <1>2, <1>4, <1>5, <2>1, <2>2, LabelAssumption DEF HistoryOK
<1>12. CacheOK
  BY <1>1, <1>4, <1>5 DEF CacheOK
<1>13. JobOK
  BY <1>1, <1>2 DEF JobOK, IdleJob
<1>14. SessionsOK
  BY <1>1, <1>2 DEF SessionsOK, Tallies
<1>15. DropShape
  <2>1. 0 \in 0 .. MaxAttempts /\ 0 \in 0 .. MaxWaits + 1 /\ 0 \in 0 .. head
    BY <1>2, NumberAssumption
  <2> QED
    BY <1>1, <2>1, LabelAssumption DEF DropShape, IdleDrop, Pcs, Marks
<1>16. DropOK
  BY <1>1 DEF DropOK, IdleDrop, Trying, InTransaction, Held
<1> QED
  BY <1>6, <1>8, <1>10, <1>11, <1>12, <1>13, <1>14, <1>15, <1>16 DEF DropInv, CatalogInv

\* What an engine commit leaves of the files that were listed before it.
LEMMA EngineKeepsFiles ==
  ASSUME CatalogInv,
         (\E label \in Arrivals : EngineAppends(label)) \/ EngineAlters \/ EngineDeletes
           \/ CompactionCommits
  PROVE  /\ CatalogInv' /\ ~ Held /\ head' = head + 1
         /\ UNCHANGED <<cursor, lock, manifest, drop>> /\ spent'.moves = spent.moves
         /\ \A f \in DOMAIN files :
              /\ f \in DOMAIN files'
              /\ files'[f].spec = files[f].spec /\ files'[f].label = files[f].label
              /\ files'[f].begin = files[f].begin
<1>1. \A f \in DOMAIN files : files[f] \in FileSet
  BY DEF CatalogInv, FilesOK
<1>2. spent \in Tallies
  BY DEF CatalogInv, SessionsOK
<1>3. /\ ~ Held /\ head' = head + 1
      /\ spent'.moves = spent.moves
  BY <1>2 DEF EngineAppends, EngineAlters, EngineDeletes, CompactionCommits, EngineCommits, Tallies
<1>4. UNCHANGED <<cursor, lock, manifest, drop>>
  BY DEF EngineAppends, EngineAlters, EngineDeletes, CompactionCommits
<1>5. CASE \E label \in Arrivals : EngineAppends(label)
  BY <1>3, <1>4, <1>5, AppendKeepsCatalog
<1>6. CASE EngineAlters
  BY <1>3, <1>4, <1>6, AlterKeepsCatalog
<1>7. CASE EngineDeletes
  BY <1>3, <1>4, <1>7, DeleteKeepsCatalog
<1>8. CASE CompactionCommits
  <2>1. /\ CatalogInv'
        /\ DOMAIN files' = DOMAIN files \cup {nextFile}
        /\ \A f \in DOMAIN files :
             files'[f] = IF f \in job.files THEN [files[f] EXCEPT !.end = head + 1] ELSE files[f]
    BY <1>8, CompactionKeepsCatalog
  <2>2. \A file \in FileSet : /\ [file EXCEPT !.end = head + 1].spec = file.spec
                              /\ [file EXCEPT !.end = head + 1].label = file.label
                              /\ [file EXCEPT !.end = head + 1].begin = file.begin
    BY DEF FileSet
  <2>3. SUFFICES ASSUME NEW f \in DOMAIN files
                 PROVE  /\ files'[f].spec = files[f].spec /\ files'[f].label = files[f].label
                        /\ files'[f].begin = files[f].begin
    BY <1>3, <1>4, <2>1
  <2>4. CASE f \in job.files
    <3>1. files[f] \in FileSet /\ files'[f] = [files[f] EXCEPT !.end = head + 1]
      BY <1>1, <2>1, <2>4
    <3> QED
      BY <2>2, <3>1
  <2>5. CASE f \notin job.files
    BY <2>1, <2>5
  <2> QED
    BY <2>4, <2>5
<1> QED
  BY <1>5, <1>6, <1>7, <1>8

\* The steps of every other session, none of which touches the tool's process.
Bystander ==
  \/ CompactionBegins \/ CompactionGivesUp
  \/ CronLocks \/ CronExpires \/ CronUnlocks
  \/ ListPartitions

\* The catalog after such a step.
LEMMA BystanderKeepsFiles ==
  ASSUME CatalogInv, Bystander
  PROVE  /\ CatalogInv' /\ UNCHANGED <<files, head, cursor, drop>> /\ spent'.moves = spent.moves
<1>1. CASE CompactionBegins \/ CompactionGivesUp
  <2>1. CatalogInv'
    BY <1>1, JobStepKeepsCatalog
  <2> QED
    BY <1>1, <2>1 DEF CompactionBegins, CompactionGivesUp, catalog
<1>2. CASE CronLocks \/ CronExpires \/ CronUnlocks
  BY <1>2, CronStepKeepsCatalog
<1>3. CASE ListPartitions
  BY <1>3, ListingKeepsCatalog DEF catalog
<1> QED
  BY <1>1, <1>2, <1>3 DEF Bystander

\* The steps of Next, sorted by who takes them.
LEMMA NextCases ==
  ASSUME Next
  PROVE  \/ (\E label \in Arrivals : EngineAppends(label)) \/ EngineAlters \/ EngineDeletes
              \/ CompactionCommits
         \/ Bystander
         \/ \E c \in Consumers : CursorAdvances(c) \/ CursorRewinds(c)
         \/ StartRun
         \/ LagStopsRun \/ OversizedStopsRun \/ SkipLeaf \/ RunDone \/ OutOfTime
         \/ ReadGuard
         \/ ChooseLeaf
         \/ TakeLock \/ LockContended \/ OutOfAttempts
         \/ CheckVectors \/ ReadBaseline \/ InsertSnapshot
         \/ EndFiles
         \/ Classify
         \/ Recheck
         \/ Verify
         \/ EmptiesTheTable \/ StatementFails \/ RunFails
         \/ DropLeaf \/ DropLeafAnswerLost
BY Zenon DEF Next, Engine, Others, Step, Faults, Bystander

\* Every step keeps the invariant.
LEMMA StepKeepsInv ==
  ASSUME DropInv, [Next]_vars
  PROVE  DropInv'
<1>1. CatalogInv /\ DropShape /\ DropOK /\ head \in Nat /\ head <= head
  BY DEF DropInv, CatalogInv, HistoryOK
<1>2. CASE (\E label \in Arrivals : EngineAppends(label)) \/ EngineAlters \/ EngineDeletes
             \/ CompactionCommits
  <2>1. /\ CatalogInv' /\ ~ Held /\ head' = head + 1
        /\ drop' = drop
        /\ \A f \in DOMAIN files :
             /\ f \in DOMAIN files'
             /\ files'[f].spec = files[f].spec /\ files'[f].label = files[f].label
    BY <1>1, <1>2, EngineKeepsFiles
  <2>2. head' \in Nat /\ head <= head'
    BY <1>1, <2>1
  <2>3. DropShape' /\ DropOK'
    BY <1>1, <2>1, <2>2, OthersKeepDrop
  <2> QED
    BY <2>1, <2>3 DEF DropInv
<1>3. CASE Bystander
  <2>1. CatalogInv' /\ UNCHANGED <<files, head, drop>>
    BY <1>1, <1>3, BystanderKeepsFiles
  <2>2. DropShape' /\ DropOK'
    BY <1>1, <2>1, OthersKeepDrop
  <2> QED
    BY <2>1, <2>2 DEF DropInv
<1>4. CASE \E c \in Consumers : CursorAdvances(c) \/ CursorRewinds(c)
  <2>1. CatalogInv' /\ UNCHANGED <<files, head, drop>>
    BY <1>1, <1>4, CursorStepKeepsCatalog DEF catalog
  <2>2. DropShape' /\ DropOK'
    BY <1>1, <2>1, OthersKeepDrop
  <2> QED
    BY <2>1, <2>2 DEF DropInv
<1>5. CASE UNCHANGED vars
  <2>1. /\ UNCHANGED <<catalog, Environment>> /\ lock' = lock /\ spent' = spent
        /\ UNCHANGED <<files, head, drop>>
    BY <1>5 DEF vars, catalog, Environment
  <2>2. CatalogInv'
    BY <1>1, <2>1, ToolStepKeepsCatalog DEF CatalogInv, SessionsOK
  <2>3. DropShape' /\ DropOK'
    BY <1>1, <2>1, OthersKeepDrop
  <2> QED
    BY <2>2, <2>3 DEF DropInv
<1>6. CASE StartRun
  BY <1>6, StartKeepsInv
<1>7. CASE LagStopsRun \/ OversizedStopsRun \/ SkipLeaf \/ RunDone \/ OutOfTime
  BY <1>7, BetweenLeavesKeepsInv
<1>8. CASE ReadGuard \/ ChooseLeaf
  BY <1>8, ReadGuardKeepsInv, ChooseKeepsInv
<1>9. CASE TakeLock \/ LockContended \/ OutOfAttempts
  BY <1>9, LockStepsKeepInv
<1>10. CASE CheckVectors \/ ReadBaseline \/ InsertSnapshot
  BY <1>10, PrepareStepsKeepInv
<1>11. CASE EndFiles
  BY <1>11, EndFilesKeepsInv
<1>12. CASE Classify
  BY <1>12, ClassifyKeepsInv
<1>13. CASE Recheck
  BY <1>13, RecheckKeepsInv
<1>14. CASE Verify
  BY <1>14, VerifyKeepsInv
<1>15. CASE EmptiesTheTable \/ StatementFails \/ RunFails
  BY <1>15, FailureKeepsInv
<1>16. CASE DropLeaf \/ DropLeafAnswerLost
  BY <1>16, CommitKeepsInv
<1> QED
  BY NextCases, <1>2, <1>3, <1>4, <1>5, <1>6, <1>7, <1>8, <1>9, <1>10, <1>11, <1>12, <1>13, <1>14,
     <1>15, <1>16

\* The invariant holds throughout.
LEMMA DropInvariance == Spec => []DropInv
<1>1. Init => DropInv
  BY InitGivesInv
<1>2. DropInv /\ [Next]_vars => DropInv'
  BY StepKeepsInv
<1> QED
  BY <1>1, <1>2, PTL DEF Spec

---------------------------------------------------------------------------
(* Types and statistics.                                                   *)

\* The inductive invariant implies the type invariant of the runs.
LEMMA InvGivesTypes ==
  ASSUME DropInv
  PROVE  TypeOK
<1>1. CatalogInv /\ DropShape /\ DropOK
  BY DEF DropInv
<1>2. /\ \A f \in DOMAIN files : files[f] \in FileSet
      /\ head \in Nat /\ kept \subseteq 1 .. head /\ nextFile \in Nat
      /\ changes \in [1 .. head -> {"appended", "altered", "compacted", "deleted", "dropped"}]
      /\ stats \in Nat /\ cache \in [key : Nat, count : Nat]
      /\ liveSpec \in Specs
      /\ job.files \subseteq DOMAIN files
  BY <1>1 DEF CatalogInv, FilesOK, HistoryOK, CacheOK, JobOK, Kinds
<1>3. cursor \in [Consumers -> 0 .. head]
  <2>1. \A c \in Consumers : cursor[c] \in Nat /\ cursor[c] <= head
    BY <1>1 DEF CatalogInv, SessionsOK
  <2>2. \A c \in Consumers : cursor[c] \in 0 .. head
    BY <1>2, <2>1
  <2> QED
    BY <1>1, <2>2 DEF CatalogInv, SessionsOK
<1>4. /\ lock \in {"free", "drop", "cron"}
      /\ manifest.spec \in Specs \cup {0} /\ manifest.leaves \subseteq Labels
  BY <1>1 DEF CatalogInv, SessionsOK
<1>5. /\ drop.pc \in {"idle", "leaf", "select", "attempt", "vectors", "baseline", "snapshot", "update",
                      "classify", "recheck", "verify", "commit", "done", "aborted", "missed"}
      /\ drop.ended \cup drop.doubtful \subseteq drop.chosen /\ drop.chosen \subseteq DOMAIN files
      /\ drop.tries \in 0 .. MaxAttempts /\ drop.waits \in 0 .. MaxWaits + 1
      /\ drop.work \subseteq Labels /\ drop.base \in 0 .. head
  BY <1>1 DEF DropShape, DropOK, Pcs
<1> QED
  BY <1>2, <1>3, <1>4, <1>5 DEF TypeOK

\* The catalog, the cursors, the lock and the tool's process keep their types.
THEOREM TypeCorrect == Spec => []TypeOK
BY DropInvariance, InvGivesTypes, PTL

\* The count the catalog reports is the number of rows in the live files in every
\* reachable state: through every retried and half-answered drop, and whatever
\* count the engine had cached (_drop_leaf_txn, the UPDATE of the statistics).
THEOREM StatsAlwaysMatch == Spec => []StatsMatchLiveRows
<1>1. DropInv => StatsMatchLiveRows
  BY DEF DropInv, CatalogInv
<1> QED
  BY <1>1, DropInvariance, PTL

---------------------------------------------------------------------------
(* A missed file needs two cursor moves.                                   *)

\* What the number of cursor moves so far says about the selection: with none,
\* the guard is still the least cursor and everything chosen is still eligible;
\* with one, what the UPDATE left is not.
MovesInv ==
  /\ (drop.pc = "select" /\ spent.moves = 0 => drop.guard = MinCursor)
  /\ (Trying /\ spent.moves = 0 => \A f \in drop.chosen : Eligible(f))
  /\ (drop.pc = "classify" /\ spent.moves = 0 => (drop.chosen \ drop.ended) \cap Live = {})
  /\ (drop.pc = "classify" /\ spent.moves <= 1 =>
        \A f \in (drop.chosen \ drop.ended) \cap Live : ~ Eligible(f))
  /\ (drop.pc \in {"recheck", "missed"} => 2 <= spent.moves)

\* Eligibility depends on the cursors and on where a file began.
LEMMA EligibilityStays ==
  ASSUME UNCHANGED cursor, NEW f, files'[f].begin = files[f].begin
  PROVE  Eligible(f)' <=> Eligible(f)
BY DEF Eligible, MinCursor

\* The tool is outside the points MovesInv speaks of.
LEMMA MovesInvElsewhere ==
  ASSUME drop'.pc \in {"leaf", "done", "aborted"}
  PROVE  MovesInv'
BY DEF MovesInv, Trying, InTransaction, Held

\* The tool is at a point before the UPDATE, or past the classification, and
\* neither the cursors nor the selection have changed.
LEMMA MovesInvAlong ==
  ASSUME MovesInv, UNCHANGED <<files, cursor>>, spent'.moves = spent.moves,
         Trying, drop'.chosen = drop.chosen,
         drop'.pc \notin {"select", "classify", "recheck", "missed"}
  PROVE  MovesInv'
<1>1. \A f \in drop.chosen : Eligible(f)' <=> Eligible(f)
  BY EligibilityStays
<1> QED
  BY <1>1 DEF MovesInv

\* Every step keeps it.
LEMMA StepKeepsMovesInv ==
  ASSUME DropInv, MovesInv, [Next]_vars
  PROVE  MovesInv'
<1>1. CatalogInv /\ DropShape /\ DropOK /\ spent.moves \in Nat
  BY DEF DropInv, CatalogInv, SessionsOK, Tallies
<1>2. CASE (\E label \in Arrivals : EngineAppends(label)) \/ EngineAlters \/ EngineDeletes
             \/ CompactionCommits
  <2>1. /\ ~ Held /\ UNCHANGED <<cursor, drop>> /\ spent'.moves = spent.moves
        /\ \A f \in DOMAIN files : files'[f].begin = files[f].begin
    BY <1>1, <1>2, EngineKeepsFiles
  <2>2. \A f \in drop.chosen : Eligible(f)' <=> Eligible(f)
    BY <1>1, <2>1, EligibilityStays DEF DropShape
  <2>3. /\ drop.pc \notin {"classify", "recheck"} /\ (Trying' <=> Trying)
        /\ MinCursor' = MinCursor
    BY <2>1 DEF Held, Trying, InTransaction, MinCursor
  <2> QED
    BY <2>1, <2>2, <2>3 DEF MovesInv
<1>3. CASE Bystander \/ UNCHANGED vars
  <2>1. UNCHANGED <<files, cursor, drop>> /\ spent'.moves = spent.moves
    BY <1>1, <1>3, BystanderKeepsFiles DEF vars, catalog
  <2>2. \A f \in drop.chosen : Eligible(f)' <=> Eligible(f)
    BY <2>1, EligibilityStays
  <2>3. (Trying' <=> Trying) /\ Live' = Live /\ MinCursor' = MinCursor
    BY <2>1 DEF Held, Trying, InTransaction, Live, MinCursor
  <2> QED
    BY <2>1, <2>2, <2>3 DEF MovesInv
<1>4. CASE \E c \in Consumers : CursorAdvances(c) \/ CursorRewinds(c)
  <2>1. UNCHANGED <<files, drop>> /\ spent'.moves = spent.moves + 1
    BY <1>1, <1>4, CursorStepKeepsCatalog DEF catalog
  <2>2. Live' = Live
    BY <2>1 DEF Live
  <2>3. /\ spent'.moves # 0 /\ (spent'.moves <= 1 => spent.moves = 0)
        /\ (2 <= spent.moves => 2 <= spent'.moves)
    BY <1>1, <2>1
  <2> QED
    BY <2>1, <2>2, <2>3 DEF MovesInv
<1>5. CASE StartRun
  BY <1>5, StartKeepsInv, MovesInvElsewhere
<1>6. CASE LagStopsRun \/ OversizedStopsRun \/ SkipLeaf \/ RunDone \/ OutOfTime
  BY <1>6, BetweenLeavesKeepsInv, MovesInvElsewhere
<1>7. CASE ReadGuard \/ ChooseLeaf
  <2>1. CASE ReadGuard
    <3>1. /\ drop'.pc = "select" /\ drop'.guard = MinCursor /\ MinCursor' = MinCursor
      BY <2>1, ReadGuardKeepsInv DEF Environment, MinCursor
    <3> QED
      BY <3>1 DEF MovesInv, Trying, InTransaction, Held
  <2>2. CASE ChooseLeaf
    <3>1. /\ UNCHANGED <<files, cursor, spent>> /\ drop.pc = "select" /\ drop'.pc = "attempt"
          /\ \A f \in drop'.chosen : files[f].begin < drop.guard
      BY <2>2, ChooseKeepsInv DEF catalog, Environment
    <3>2. spent'.moves = 0 => \A f \in drop'.chosen : Eligible(f)
      BY <3>1 DEF MovesInv, Eligible
    <3>3. spent'.moves = 0 => \A f \in drop'.chosen : Eligible(f)'
      BY <3>1, <3>2, EligibilityStays
    <3> QED
      BY <3>1, <3>3 DEF MovesInv
  <2> QED
    BY <1>7, <2>1, <2>2
<1>8. CASE TakeLock \/ LockContended \/ OutOfAttempts
  <2>1. /\ UNCHANGED <<files, cursor>> /\ spent'.moves = spent.moves /\ drop.pc = "attempt"
        /\ drop'.chosen = drop.chosen /\ drop'.pc \notin {"select", "classify", "recheck", "missed"}
    BY <1>8, LockStepsKeepInv DEF catalog, Environment
  <2> QED
    BY <2>1, MovesInvAlong DEF Trying
<1>9. CASE CheckVectors \/ ReadBaseline \/ InsertSnapshot
  <2>1. /\ UNCHANGED <<files, cursor>> /\ spent'.moves = spent.moves
        /\ drop.pc \in {"vectors", "baseline", "snapshot"}
        /\ drop'.chosen = drop.chosen /\ drop'.pc \notin {"select", "classify", "recheck", "missed"}
    BY <1>9, PrepareStepsKeepInv DEF catalog, Environment
  <2> QED
    BY <2>1, MovesInvAlong DEF Trying, InTransaction
<1>10. CASE EndFiles
  <2>1. /\ UNCHANGED <<files, cursor>> /\ spent'.moves = spent.moves
        /\ drop.pc = "update" /\ drop'.chosen = drop.chosen
        /\ drop'.ended = {f \in drop.chosen \cap Live : Eligible(f)}
        /\ drop'.pc \in {"classify", "verify"}
    BY <1>10, EndFilesKeepsInv DEF catalog, Environment
  <2>2. \A f \in drop.chosen : Eligible(f)' <=> Eligible(f)
    BY <2>1, EligibilityStays
  <2>3. Trying /\ Live' = Live
    BY <2>1 DEF Trying, InTransaction, Held, Live
  <2>4. \A f \in (drop'.chosen \ drop'.ended) \cap Live' : ~ Eligible(f)
    BY <2>1, <2>3
  <2>5. spent.moves = 0 => (drop'.chosen \ drop'.ended) \cap Live' = {}
    BY <2>1, <2>3, <2>4 DEF MovesInv
  <2> QED
    BY <2>1, <2>2, <2>3, <2>4, <2>5 DEF MovesInv
<1>11. CASE Classify
  <2>1. /\ UNCHANGED <<files, cursor>> /\ spent'.moves = spent.moves /\ drop.pc = "classify"
        /\ \/ drop'.pc = "leaf"
           \/ drop'.pc = "verify" /\ drop'.chosen = drop.chosen
           \/ /\ drop'.pc = "recheck"
              /\ \E f \in (drop.chosen \ drop.ended) \cap Live : Eligible(f)
    BY <1>11, ClassifyKeepsInv DEF catalog, Environment
  <2>2. CASE drop'.pc = "leaf"
    BY <2>2, MovesInvElsewhere
  <2>3. CASE drop'.pc = "verify" /\ drop'.chosen = drop.chosen
    BY <2>1, <2>3, MovesInvAlong DEF Trying, InTransaction, Held
  <2>4. CASE drop'.pc = "recheck" /\ \E f \in (drop.chosen \ drop.ended) \cap Live : Eligible(f)
    <3>1. ~ (spent.moves <= 1)
      BY <2>1, <2>4 DEF MovesInv
    <3>2. 2 <= spent'.moves /\ spent'.moves # 0
      BY <1>1, <2>1, <3>1
    <3> QED
      BY <2>4, <3>2 DEF MovesInv
  <2> QED
    BY <2>1, <2>2, <2>3, <2>4
<1>12. CASE Recheck
  <2>1. /\ drop.pc = "recheck" /\ drop'.pc \in {"missed", "leaf"} /\ spent' = spent
    BY <1>12, RecheckKeepsInv
  <2>2. 2 <= spent.moves
    BY <2>1 DEF MovesInv
  <2> QED
    BY <1>1, <2>1, <2>2 DEF MovesInv, Trying, InTransaction, Held
<1>13. CASE Verify
  <2>1. /\ UNCHANGED <<files, cursor>> /\ spent'.moves = spent.moves /\ drop.pc = "verify"
        /\ \/ drop'.pc = "leaf"
           \/ drop'.pc = "commit" /\ drop'.chosen = drop.chosen
    <3>1. /\ UNCHANGED <<catalog, Environment, spent>> /\ drop.pc = "verify"
          /\ drop'.pc = "leaf" \/ (drop'.pc = "commit" /\ drop'.chosen = drop.chosen)
      BY <1>13, VerifyKeepsInv, Zenon
    <3> QED
      BY <3>1 DEF catalog, Environment
  <2>2. CASE drop'.pc = "leaf"
    BY <2>2, MovesInvElsewhere
  <2>3. CASE drop'.pc = "commit" /\ drop'.chosen = drop.chosen
    BY <2>1, <2>3, MovesInvAlong DEF Trying, InTransaction, Held
  <2> QED
    BY <2>1, <2>2, <2>3
<1>14. CASE EmptiesTheTable \/ StatementFails \/ RunFails
  <2>1. /\ UNCHANGED <<files, cursor>> /\ spent'.moves = spent.moves
        /\ \/ drop'.pc = "aborted"
           \/ drop'.pc = "attempt" /\ InTransaction /\ drop'.chosen = drop.chosen
    BY <1>14, FailureKeepsInv DEF catalog, Environment
  <2>2. CASE drop'.pc = "aborted"
    BY <2>2, MovesInvElsewhere
  <2>3. CASE drop'.pc = "attempt" /\ InTransaction /\ drop'.chosen = drop.chosen
    BY <2>1, <2>3, MovesInvAlong DEF Trying
  <2> QED
    BY <2>1, <2>2, <2>3
<1>15. CASE DropLeaf \/ DropLeafAnswerLost
  <2>1. /\ UNCHANGED cursor /\ spent'.moves = spent.moves /\ drop.pc = "commit"
        /\ \A f \in DOMAIN files :
             files'[f] = IF f \in drop.ended THEN [files[f] EXCEPT !.end = head + 1] ELSE files[f]
        /\ \/ drop'.pc = "leaf"
           \/ drop'.pc = "attempt" /\ drop'.chosen = drop.chosen
    BY <1>15, CommitKeepsInv DEF CommitsDrop, Environment
  <2>2. CASE drop'.pc = "leaf"
    BY <2>2, MovesInvElsewhere
  <2>3. CASE drop'.pc = "attempt" /\ drop'.chosen = drop.chosen
    <3>1. \A f \in drop.chosen : Eligible(f)' <=> Eligible(f)
      <4>1. SUFFICES ASSUME NEW f \in drop.chosen PROVE files'[f].begin = files[f].begin
        BY <2>1, EligibilityStays
      <4>2. f \in DOMAIN files /\ files[f] \in FileSet
        BY <1>1 DEF DropShape, CatalogInv, FilesOK
      <4>3. CASE f \in drop.ended
        <5>1. files'[f] = [files[f] EXCEPT !.end = head + 1]
          BY <2>1, <4>2, <4>3
        <5> QED
          BY <4>2, <5>1 DEF FileSet
      <4>4. CASE f \notin drop.ended
        BY <2>1, <4>2, <4>4
      <4> QED
        BY <4>3, <4>4
    <3>2. Trying
      BY <2>1 DEF Trying, InTransaction, Held
    <3> QED
      BY <2>1, <2>3, <3>1, <3>2 DEF MovesInv
  <2> QED
    BY <2>1, <2>2, <2>3
<1> QED
  BY NextCases, <1>2, <1>3, <1>4, <1>5, <1>6, <1>7, <1>8, <1>9, <1>10, <1>11, <1>12, <1>13, <1>14, <1>15

\* The run is aborted over a missed file only when a cursor went back before the
\* UPDATE and forward after it, whatever else happened in between.
THEOREM MissesNeedTwoMoves == Spec => []MissNeedsTwoMoves
<1>1. Init => MovesInv
  BY DEF Init, IdleDrop, MovesInv, Trying, InTransaction, Held
<1>2. DropInv /\ MovesInv /\ [Next]_vars => MovesInv'
  BY StepKeepsMovesInv
<1>3. DropInv /\ MovesInv => MissNeedsTwoMoves
  BY DEF DropInv, CatalogInv, SessionsOK, Tallies, MovesInv, MissNeedsTwoMoves
<1> QED
  BY <1>1, <1>2, <1>3, DropInvariance, PTL DEF Spec

---------------------------------------------------------------------------
(* What a drop may end.                                                    *)

\* At COMMIT every consumer has read every file that is about to end.
ReadInv ==
  drop.pc = "commit" => \A f \in drop.ended : \A c \in Consumers : files[f].begin < cursor[c]

\* An eligible file has been read by every consumer.
LEMMA EligibleIsRead ==
  ASSUME CatalogInv, NEW f \in DOMAIN files, Eligible(f), NEW c \in Consumers
  PROVE  files[f].begin < cursor[c]
<1> DEFINE places == {cursor[d] : d \in Consumers}
<1>1. places \in SUBSET Nat /\ cursor[c] \in places
  BY DEF CatalogInv, SessionsOK
<1>2. LowestIn(places) \in Nat /\ LowestIn(places) <= cursor[c]
  <2> HIDE DEF places
  <2> QED
    BY <1>1, LowestExists
<1>3. files[f].begin < LowestIn(places) /\ files[f].begin \in Nat /\ cursor[c] \in Nat
  BY <1>1 DEF Eligible, MinCursor, CatalogInv, FilesOK, FileSet
<1> HIDE DEF places
<1> QED
  BY <1>2, <1>3

\* Every step keeps it; the rewind that the model leaves out at this one point is
\* the window that the code accepts between its last check and COMMIT.
LEMMA StepKeepsReadInv ==
  ASSUME DropInv, ReadInv, [Next]_vars
  PROVE  ReadInv'
<1>1. CatalogInv /\ DropShape /\ DropOK
  BY DEF DropInv
<1>2. CASE (\E label \in Arrivals : EngineAppends(label)) \/ EngineAlters \/ EngineDeletes
             \/ CompactionCommits
  <2>1. ~ Held /\ UNCHANGED drop
    BY <1>1, <1>2, EngineKeepsFiles
  <2> QED
    BY <2>1 DEF ReadInv, Held
<1>3. CASE Bystander \/ UNCHANGED vars
  <2>1. UNCHANGED <<files, cursor, drop>>
    BY <1>1, <1>3, BystanderKeepsFiles DEF vars, catalog
  <2> QED
    BY <2>1 DEF ReadInv
<1>4. CASE \E c \in Consumers : CursorAdvances(c) \/ CursorRewinds(c)
  <2>1. SUFFICES ASSUME drop'.pc = "commit", NEW f \in drop'.ended, NEW d \in Consumers
                 PROVE  files'[f].begin < cursor'[d]
    BY DEF ReadInv
  <2>2. PICK c \in Consumers : CursorAdvances(c) \/ CursorRewinds(c)
    BY <1>4
  <2>3. UNCHANGED <<files, drop>>
    BY <1>1, <2>2, CursorStepKeepsCatalog DEF catalog
  <2>4. cursor[c] < head /\ cursor' = [cursor EXCEPT ![c] = head]
    BY <2>1, <2>2, <2>3 DEF CursorAdvances, CursorRewinds
  <2>5. /\ cursor \in [Consumers -> Nat] /\ head \in Nat
        /\ f \in DOMAIN files /\ files[f].begin \in Nat
    BY <1>1, <2>1, <2>3 DEF CatalogInv, SessionsOK, HistoryOK, DropShape, FilesOK, FileSet
  <2>6. files[f].begin < cursor[d] /\ files[f].begin < cursor[c]
    BY <2>1, <2>3 DEF ReadInv
  <2>7. cursor[c] \in Nat /\ cursor[d] \in Nat /\ cursor'[d] \in {head, cursor[d]}
    BY <2>4, <2>5
  <2> QED
    BY <2>3, <2>4, <2>5, <2>6, <2>7
<1>5. CASE StartRun
  BY <1>5, StartKeepsInv DEF ReadInv
<1>6. CASE LagStopsRun \/ OversizedStopsRun \/ SkipLeaf \/ RunDone \/ OutOfTime
  BY <1>6, BetweenLeavesKeepsInv DEF ReadInv
<1>7. CASE ReadGuard \/ ChooseLeaf
  BY <1>7, ReadGuardKeepsInv, ChooseKeepsInv DEF ReadInv
<1>8. CASE TakeLock \/ LockContended \/ OutOfAttempts
  BY <1>8, LockStepsKeepInv DEF ReadInv
<1>9. CASE CheckVectors \/ ReadBaseline \/ InsertSnapshot
  BY <1>9, PrepareStepsKeepInv DEF ReadInv
<1>10. CASE EndFiles
  BY <1>10, EndFilesKeepsInv DEF ReadInv
<1>11. CASE Classify
  BY <1>11, ClassifyKeepsInv DEF ReadInv
<1>12. CASE Recheck
  BY <1>12, RecheckKeepsInv DEF ReadInv
<1>13. CASE Verify
  <2>1. SUFFICES ASSUME drop'.pc = "commit", NEW f \in drop'.ended, NEW c \in Consumers
                 PROVE  files'[f].begin < cursor'[c]
    BY DEF ReadInv
  <2>2. UNCHANGED <<files, cursor>> /\ f \in drop.ended /\ Eligible(f)
    BY <1>13, <2>1, VerifyKeepsInv DEF catalog, Environment
  <2>3. f \in DOMAIN files
    BY <1>1, <2>2 DEF DropShape
  <2> QED
    BY <1>1, <2>2, <2>3, EligibleIsRead
<1>14. CASE EmptiesTheTable \/ StatementFails \/ RunFails
  BY <1>14, FailureKeepsInv DEF ReadInv
<1>15. CASE DropLeaf \/ DropLeafAnswerLost
  BY <1>15, CommitKeepsInv DEF ReadInv
<1> QED
  BY NextCases, <1>2, <1>3, <1>4, <1>5, <1>6, <1>7, <1>8, <1>9, <1>10, <1>11, <1>12, <1>13, <1>14, <1>15

\* It holds throughout.
LEMMA ReadInvariance == Spec => []ReadInv
<1>1. Init => ReadInv
  BY DEF Init, IdleDrop, ReadInv
<1>2. DropInv /\ ReadInv /\ [Next]_vars => ReadInv'
  BY StepKeepsReadInv
<1> QED
  BY <1>1, <1>2, DropInvariance, PTL DEF Spec

\* Only COMMIT ends a file in a snapshot recorded as a drop, and then it ends
\* exactly the files its UPDATE had ended.
LEMMA OnlyCommitEnds ==
  ASSUME DropInv, [Next]_vars, EndedByDrop # {}
  PROVE  DropLeaf \/ DropLeafAnswerLost
<1>1. CatalogInv /\ head \in Nat
  BY DEF DropInv, CatalogInv, HistoryOK
<1>2. PICK f \in Live : f \in DOMAIN files' /\ files'[f].end # 0 /\ changes'[files'[f].end] = "dropped"
  BY DEF EndedByDrop
<1>3. f \in DOMAIN files /\ files[f].end = 0 /\ files'[f] # files[f]
  BY <1>2 DEF Live
<1>4. UNCHANGED files => FALSE
  BY <1>3
<1>5. CASE (\E label \in Arrivals : EngineAppends(label)) \/ EngineAlters \/ EngineDeletes
  <2>1. files'[f].end = files[f].end
    BY <1>1, <1>3, <1>5, AppendKeepsCatalog, AlterKeepsCatalog, DeleteKeepsCatalog
  <2> QED
    BY <1>2, <1>3, <2>1
<1>6. CASE CompactionCommits
  <2>1. /\ files'[f] = IF f \in job.files THEN [files[f] EXCEPT !.end = head + 1] ELSE files[f]
        /\ changes'[head + 1] = "compacted"
    BY <1>1, <1>3, <1>6, CompactionKeepsCatalog
  <2>2. files'[f] = [files[f] EXCEPT !.end = head + 1]
    BY <1>3, <2>1
  <2>3. files'[f].end = head + 1
    BY <1>1, <1>3, <2>2 DEF CatalogInv, FilesOK, FileSet
  <2> QED
    BY <1>2, <2>1, <2>3
<1>7. CASE Bystander \/ UNCHANGED vars
  BY <1>1, <1>4, <1>7, BystanderKeepsFiles DEF vars, catalog
<1>8. CASE \E c \in Consumers : CursorAdvances(c) \/ CursorRewinds(c)
  BY <1>1, <1>4, <1>8, CursorStepKeepsCatalog DEF catalog
<1>9. CASE StartRun
  BY <1>4, <1>9 DEF StartRun, catalog
<1>10. CASE LagStopsRun \/ OversizedStopsRun \/ SkipLeaf \/ RunDone \/ OutOfTime
  BY <1>4, <1>10, BetweenLeavesKeepsInv DEF catalog
<1>11. CASE ReadGuard \/ ChooseLeaf
  BY <1>4, <1>11, ReadGuardKeepsInv, ChooseKeepsInv DEF catalog
<1>12. CASE TakeLock \/ LockContended \/ OutOfAttempts
  BY <1>4, <1>12, LockStepsKeepInv DEF catalog
<1>13. CASE CheckVectors \/ ReadBaseline \/ InsertSnapshot
  BY <1>4, <1>13, PrepareStepsKeepInv DEF catalog
<1>14. CASE EndFiles
  BY <1>4, <1>14, EndFilesKeepsInv DEF catalog
<1>15. CASE Classify \/ Recheck \/ Verify
  BY <1>4, <1>15, ClassifyKeepsInv, RecheckKeepsInv, VerifyKeepsInv DEF catalog
<1>16. CASE EmptiesTheTable \/ StatementFails \/ RunFails
  BY <1>4, <1>16, FailureKeepsInv DEF catalog
<1> QED
  BY NextCases, <1>5, <1>6, <1>7, <1>8, <1>9, <1>10, <1>11, <1>12, <1>13, <1>14, <1>15, <1>16

\* The files that COMMIT ends are those of its transaction.
LEMMA EndedByDropIsEnded ==
  ASSUME DropInv, DropLeaf \/ DropLeafAnswerLost
  PROVE  EndedByDrop \subseteq drop.ended
<1>1. \A f \in DOMAIN files : f \notin drop.ended => files'[f] = files[f]
  BY CommitKeepsInv
<1> QED
  BY <1>1 DEF EndedByDrop, Live

\* No drop ends a file that some consumer has not read, at whatever statement
\* before the last check a cursor goes back (_drop_leaf_txn, the re-verification).
THEOREM NeverLosesUnread == Spec => CommitNeverLosesUnread
<1>1. DropInv /\ ReadInv /\ [Next]_vars =>
        [\A f \in EndedByDrop : \A c \in Consumers : files[f].begin < cursor[c]]_vars
  <2>1. SUFFICES ASSUME DropInv, ReadInv, [Next]_vars, NEW f \in EndedByDrop, NEW c \in Consumers
                 PROVE  files[f].begin < cursor[c]
    OBVIOUS
  <2>2. DropLeaf \/ DropLeafAnswerLost
    BY <2>1, OnlyCommitEnds
  <2>3. f \in drop.ended /\ drop.pc = "commit"
    BY <2>1, <2>2, EndedByDropIsEnded DEF DropLeaf, DropLeafAnswerLost, CommitsDrop
  <2> QED
    BY <2>1, <2>3 DEF ReadInv
<1> QED
  BY <1>1, DropInvariance, ReadInvariance, PTL DEF Spec, CommitNeverLosesUnread

\* A drop that ends one of the files it selected leaves none of them live: a leaf
\* is skipped whole, never dropped in part.
THEOREM NeverSplitsLeaf == Spec => CommitNeverSplitsLeaf
<1>1. DropInv /\ [Next]_vars =>
        [EndedByDrop # {} => \A f \in drop.chosen : files'[f].end # 0]_vars
  <2>1. SUFFICES ASSUME DropInv, [Next]_vars, EndedByDrop # {}, NEW f \in drop.chosen
                 PROVE  files'[f].end # 0
    OBVIOUS
  <2>2. DropLeaf \/ DropLeafAnswerLost
    BY <2>1, OnlyCommitEnds
  <2>3. drop.pc = "commit" /\ f \in DOMAIN files /\ files[f] \in FileSet /\ head \in Nat
    BY <2>1, <2>2 DEF DropLeaf, DropLeafAnswerLost, CommitsDrop, DropInv, DropShape, CatalogInv,
                      FilesOK, HistoryOK
  <2>4. files'[f] = IF f \in drop.ended THEN [files[f] EXCEPT !.end = head + 1] ELSE files[f]
    BY <2>1, <2>2, <2>3, CommitKeepsInv
  <2>5. CASE f \in drop.ended
    <3>1. files'[f].end = head + 1
      BY <2>3, <2>4, <2>5 DEF FileSet
    <3> QED
      BY <2>3, <3>1
  <2>6. CASE f \notin drop.ended
    BY <2>1, <2>3, <2>4, <2>6 DEF DropInv, DropOK
  <2> QED
    BY <2>5, <2>6
<1> QED
  BY <1>1, DropInvariance, PTL DEF Spec, CommitNeverSplitsLeaf

---------------------------------------------------------------------------
(* The rows a reader sees.                                                 *)

\* The rows, with their leaf, of some files of a file table.
RowsIn(fs, S) == UNION {[row : fs[f].rows, leaf : {<<fs[f].spec, fs[f].label>>}] : f \in S}

\* TableRows reads the current file table.
LEMMA TableRowsAreRowsIn == \A S : TableRows(S) = RowsIn(files, S)
BY DEF TableRows, RowsIn

\* A row of the table is a row of one of the files, with that file's leaf.
LEMMA RowsInMember ==
  ASSUME NEW fs, NEW S, NEW r
  PROVE  r \in RowsIn(fs, S) <=>
           \E f \in S : /\ r.row \in fs[f].rows /\ r.leaf = <<fs[f].spec, fs[f].label>>
                        /\ r = [row |-> r.row, leaf |-> r.leaf]
<1>1. \A f : r \in [row : fs[f].rows, leaf : {<<fs[f].spec, fs[f].label>>}] <=>
               /\ r.row \in fs[f].rows /\ r.leaf = <<fs[f].spec, fs[f].label>>
               /\ r = [row |-> r.row, leaf |-> r.leaf]
  OBVIOUS
<1> QED
  BY <1>1 DEF RowsIn

\* Files that agree on rows and leaf show the same table.
LEMMA RowsInSame ==
  ASSUME NEW fs, NEW gs, NEW S,
         \A f \in S : gs[f].rows = fs[f].rows /\ gs[f].spec = fs[f].spec /\ gs[f].label = fs[f].label
  PROVE  RowsIn(gs, S) = RowsIn(fs, S)
<1>1. \A r : r \in RowsIn(gs, S) <=> r \in RowsIn(fs, S)
  BY RowsInMember
<1> QED
  BY <1>1

\* Rows of files taken together.
LEMMA RowsInUnion ==
  ASSUME NEW fs, NEW S, NEW T
  PROVE  RowsIn(fs, S \cup T) = RowsIn(fs, S) \cup RowsIn(fs, T)
BY DEF RowsIn

\* Where no row is in two files, there are as many rows with a leaf as rows.
LEMMA RowsInCount ==
  ASSUME NEW fs, NEW S, NEW R, R = UNION {fs[f].rows : f \in S}, IsFiniteSet(R),
         \A f, g \in S : f # g => fs[f].rows \cap fs[g].rows = {}
  PROVE  Cardinality(RowsIn(fs, S)) = Cardinality(R)
<1> DEFINE T == RowsIn(fs, S)
           m == [r \in T |-> r.row]
<1>1. \A r \in T : \E f \in S : /\ r.row \in fs[f].rows /\ r.leaf = <<fs[f].spec, fs[f].label>>
                                /\ r = [row |-> r.row, leaf |-> r.leaf]
  BY RowsInMember
<1>2. \A i \in R : \E r \in T : r.row = i
  <2>1. SUFFICES ASSUME NEW i \in R PROVE \E r \in T : r.row = i
    OBVIOUS
  <2>2. PICK f \in S : i \in fs[f].rows
    BY <2>1
  <2>3. [row |-> i, leaf |-> <<fs[f].spec, fs[f].label>>] \in T
    BY <2>2, RowsInMember
  <2> HIDE DEF T
  <2> QED
    BY <2>3
<1>3. \A r \in T : r.row \in R
  BY <1>1
<1>4. \A r, q \in T : r.row = q.row => r = q
  <2>1. SUFFICES ASSUME NEW r \in T, NEW q \in T, r.row = q.row PROVE r = q
    OBVIOUS
  <2>2. PICK f \in S : /\ r.row \in fs[f].rows /\ r.leaf = <<fs[f].spec, fs[f].label>>
                       /\ r = [row |-> r.row, leaf |-> r.leaf]
    BY <1>1
  <2>3. PICK g \in S : /\ q.row \in fs[g].rows /\ q.leaf = <<fs[g].spec, fs[g].label>>
                       /\ q = [row |-> q.row, leaf |-> q.leaf]
    BY <1>1
  <2>4. f = g
    BY <2>1, <2>2, <2>3
  <2> HIDE DEF T
  <2>5. r.leaf = q.leaf
    BY <2>2, <2>3, <2>4
  <2> QED
    BY <2>1, <2>2, <2>3, <2>5, Zenon
<1> HIDE DEF T
<1>5. m \in [T -> R]
  BY <1>3
<1>6. m \in Injection(T, R)
  <2>1. \A r, q \in T : m[r] = m[q] => r = q
    BY <1>4
  <2> HIDE DEF m
  <2> QED
    BY <1>5, <2>1, Fun_IsInj
<1>7. m \in Surjection(T, R)
  <2>1. \A i \in R : \E r \in T : m[r] = i
    BY <1>2
  <2> HIDE DEF m
  <2> QED
    BY <1>5, <2>1, Fun_IsSurj
<1>8. ExistsBijection(T, R)
  <2> HIDE DEF m
  <2> QED
    BY <1>6, <1>7, Fun_IsBij, Fun_ExistsBij
<1>9. ExistsBijection(R, T)
  BY <1>8, Fun_ExistsBijSymmetric
<1> QED
  BY <1>9, FS_Bijection DEF T

---------------------------------------------------------------------------
(* PartitionDrop implements RetainedTable.                                 *)

\* The catalog's rows and counts, as the abstract table has them.
TypedRows == [row : Nat, leaf : Specs \X Marks]

\* Rows of listed files are typed, and older than the next file id.
LEMMA RowsInTyped ==
  ASSUME FilesOK, NEW S \in SUBSET DOMAIN files
  PROVE  /\ RowsIn(files, S) \subseteq TypedRows
         /\ \A r \in RowsIn(files, S) : r.row \in Nat /\ r.row < nextFile
<1>1. \A f \in S : /\ files[f].rows \in SUBSET Nat /\ <<files[f].spec, files[f].label>> \in Specs \X Marks
                   /\ \A i \in files[f].rows : i < nextFile
  BY DEF FilesOK, FileSet
<1>2. SUFFICES ASSUME NEW r \in RowsIn(files, S)
               PROVE  r \in TypedRows /\ r.row \in Nat /\ r.row < nextFile
  OBVIOUS
<1>3. PICK f \in S : /\ r.row \in files[f].rows /\ r.leaf = <<files[f].spec, files[f].label>>
                     /\ r = [row |-> r.row, leaf |-> r.leaf]
  BY <1>2, RowsInMember
<1>4. r.row \in Nat /\ r.row < nextFile /\ r.leaf \in Specs \X Marks
  BY <1>1, <1>3
<1>5. [row |-> r.row, leaf |-> r.leaf] \in TypedRows
  BY <1>4 DEF TypedRows
<1> QED
  BY <1>3, <1>4, <1>5

\* The number of rows a reader sees is the number of rows in the live files.
LEMMA LiveRowsCount ==
  ASSUME FilesOK, HistoryOK, RowsApart, NEW S \in SUBSET Live
  PROVE  Cardinality(RowsIn(files, S)) = Cardinality(RowsOf(S))
<1>1. IsFiniteSet(RowsOf(Live)) /\ RowsOf(S) \subseteq RowsOf(Live)
  BY LiveRowsFinite DEF RowsOf
<1>2. IsFiniteSet(RowsOf(S))
  BY <1>1, FS_Subset
<1>3. \A f, g \in S : f # g => files[f].rows \cap files[g].rows = {}
  BY DEF RowsApart
<1>4. RowsOf(S) = UNION {files[f].rows : f \in S}
  BY DEF RowsOf
<1> QED
  BY <1>2, <1>3, <1>4, RowsInCount

\* The files that a drop ended stay ended by it, and others become so only in a
\* snapshot of their own.
LEMMA DroppedFilesStay ==
  ASSUME CatalogInv, NEW E \in SUBSET Live, head' = head + 1,
         \A s \in 1 .. head : changes'[s] = changes[s],
         DOMAIN files \subseteq DOMAIN files',
         \A f \in DOMAIN files' \ DOMAIN files : files'[f].end = 0,
         \A f \in DOMAIN files :
           files'[f].end = IF f \in E THEN head + 1 ELSE files[f].end
  PROVE  DroppedFiles' = IF changes'[head + 1] = "dropped" THEN DroppedFiles \cup E ELSE DroppedFiles
<1>1. /\ head \in Nat /\ \A f \in DOMAIN files : files[f].end \in Nat /\ files[f].end <= head
  BY DEF CatalogInv, HistoryOK, FilesOK, FileSet
<1>2. \A f \in DOMAIN files : files[f].end # 0 => files[f].end \in 1 .. head
  BY <1>1
<1>3. \A f \in DOMAIN files : files[f].end # 0 => changes'[files[f].end] = changes[files[f].end]
  BY <1>2
<1>4. \A f \in E : f \in DOMAIN files /\ files[f].end = 0 /\ head + 1 # 0
  BY <1>1 DEF Live
<1>5. \A f : f \in DroppedFiles' <=>
        f \in DroppedFiles \/ (f \in E /\ changes'[head + 1] = "dropped")
  <2>1. SUFFICES ASSUME NEW f
                 PROVE  f \in DroppedFiles' <=>
                          f \in DroppedFiles \/ (f \in E /\ changes'[head + 1] = "dropped")
    OBVIOUS
  <2>2. f \in DroppedFiles' <=>
          f \in DOMAIN files' /\ files'[f].end # 0 /\ changes'[files'[f].end] = "dropped"
    BY DEF DroppedFiles
  <2>3. f \in DroppedFiles <=>
          f \in DOMAIN files /\ files[f].end # 0 /\ changes[files[f].end] = "dropped"
    BY DEF DroppedFiles
  <2>4. CASE f \notin DOMAIN files
    BY <1>4, <2>2, <2>3, <2>4
  <2>5. CASE f \in E
    BY <1>4, <2>2, <2>3, <2>5
  <2>6. CASE f \in DOMAIN files \ E
    BY <1>3, <2>2, <2>3, <2>6
  <2> QED
    BY <2>4, <2>5, <2>6
<1> QED
  BY <1>5

\* A step a reader does not see.
Unseen ==
  /\ TableRows(Live)' = TableRows(Live)
  /\ TableRows(DroppedFiles)' = TableRows(DroppedFiles)
  /\ stats' = stats

\* A step that leaves the files alone is not seen.
LEMMA QuietIsUnseen ==
  ASSUME UNCHANGED <<files, changes, stats>>
  PROVE  Unseen
BY DEF Unseen, TableRows, Live, DroppedFiles

\* An append is the arrival of a row.
LEMMA AppendArrives ==
  ASSUME CatalogInv, NEW label \in Arrivals, EngineAppends(label)
  PROVE  Table!Arrive
<1> DEFINE file == [spec |-> liveSpec, label |-> label, begin |-> head + 1, end |-> 0,
                    rows |-> {nextFile}, vector |-> FALSE]
           new == [row |-> nextFile, leaf |-> <<liveSpec, label>>]
<1>1. FilesOK /\ HistoryOK /\ CacheOK /\ nextFile \in Nat /\ FilesOK'
  BY AppendKeepsCatalog DEF CatalogInv, HistoryOK
<1>2. /\ files' = WithFile(files, file)
      /\ head' = head + 1 /\ stats' = EngineCount + 1
      /\ changes' = [s \in 1 .. head + 1 |-> IF s = head + 1 THEN "appended" ELSE changes[s]]
  BY DEF EngineAppends, EngineCommits
<1>3. /\ DOMAIN files' = DOMAIN files \cup {nextFile} /\ nextFile \notin DOMAIN files
      /\ \A f \in DOMAIN files : files'[f] = files[f]
  <2>1. \A f \in DOMAIN files : f < nextFile
    BY <1>1 DEF FilesOK
  <2>2. nextFile \notin DOMAIN files
    BY <1>1, <2>1
  <2>3. /\ DOMAIN files' = DOMAIN files \cup {nextFile}
        /\ \A f \in DOMAIN files \cup {nextFile} : files'[f] = IF f = nextFile THEN file ELSE files[f]
    BY <1>2 DEF WithFile
  <2> QED
    BY <2>2, <2>3
<1>4. files'[nextFile] = file
  BY <1>2, <1>3 DEF WithFile
<1>5. /\ file.rows = {nextFile} /\ file.spec = liveSpec /\ file.label = label /\ file.end = 0
  OBVIOUS
<1> HIDE DEF file
<1>6. Live' = Live \cup {nextFile}
  BY <1>3, <1>4, <1>5 DEF Live
<1>7. RowsIn(files', {nextFile}) = {new}
  <2>1. SUFFICES ASSUME NEW r PROVE r \in RowsIn(files', {nextFile}) <=> r \in {new}
    OBVIOUS
  <2>2. r \in RowsIn(files', {nextFile}) <=>
          /\ r.row \in {nextFile} /\ r.leaf = <<liveSpec, label>>
          /\ r = [row |-> r.row, leaf |-> r.leaf]
    BY <1>4, <1>5, RowsInMember
  <2>3. r = new <=> /\ r.row = nextFile /\ r.leaf = <<liveSpec, label>>
                    /\ r = [row |-> r.row, leaf |-> r.leaf]
    OBVIOUS
  <2> QED
    BY <2>2, <2>3
<1>8. RowsIn(files', Live) = RowsIn(files, Live)
  BY <1>3, RowsInSame DEF Live
<1>9. TableRows(Live)' = TableRows(Live) \cup {new}
  <2>1. TableRows(Live)' = RowsIn(files', Live')
    BY DEF TableRows, RowsIn
  <2>2. RowsIn(files', Live') = RowsIn(files', Live) \cup RowsIn(files', {nextFile})
    BY <1>6, RowsInUnion
  <2> QED
    BY <1>7, <1>8, <2>1, <2>2, TableRowsAreRowsIn
<1>10. DroppedFiles' = DroppedFiles
  <2>1. head \in Nat /\ \A s \in 1 .. head : changes'[s] = changes[s]
    BY <1>1, <1>2 DEF HistoryOK
  <2>2. changes'[head + 1] = "appended"
    BY <1>2, <2>1
  <2>3. /\ DOMAIN files \subseteq DOMAIN files'
        /\ \A f \in DOMAIN files' \ DOMAIN files : files'[f].end = 0
        /\ \A f \in DOMAIN files : files'[f].end = IF f \in {} THEN head + 1 ELSE files[f].end
    BY <1>3, <1>4, <1>5
  <2> QED
    BY <1>2, <2>1, <2>2, <2>3, DroppedFilesStay
<1>11. TableRows(DroppedFiles)' = TableRows(DroppedFiles)
  <2>1. TableRows(DroppedFiles)' = RowsIn(files', DroppedFiles')
    BY DEF TableRows, RowsIn
  <2>2. RowsIn(files', DroppedFiles) = RowsIn(files, DroppedFiles)
    BY <1>3, RowsInSame DEF DroppedFiles
  <2> QED
    BY <1>10, <2>1, <2>2, TableRowsAreRowsIn
<1>12. new \notin TableRows(Live) \cup TableRows(DroppedFiles)
  <2>1. Live \in SUBSET DOMAIN files /\ DroppedFiles \in SUBSET DOMAIN files
    BY DEF Live, DroppedFiles
  <2>2. \A r \in TableRows(Live) \cup TableRows(DroppedFiles) : r.row < nextFile
    BY <1>1, <2>1, RowsInTyped, TableRowsAreRowsIn
  <2>3. new.row = nextFile /\ ~ (nextFile < nextFile)
    BY <1>1
  <2> HIDE DEF new
  <2> QED
    BY <2>2, <2>3
<1>13. TableRows(Live)' \subseteq [row : Nat, leaf : Specs \X Marks]
  <2>1. Live \in SUBSET DOMAIN files
    BY DEF Live
  <2>2. TableRows(Live) \subseteq [row : Nat, leaf : Specs \X Marks]
    BY <1>1, <2>1, RowsInTyped, TableRowsAreRowsIn DEF TypedRows
  <2>3. new \in [row : Nat, leaf : Specs \X Marks]
    BY <1>1, LabelAssumption DEF HistoryOK
  <2> QED
    BY <1>9, <2>2, <2>3
<1>14. stats' = stats + 1
  BY <1>1, <1>2, EngineCountIsStats
<1> QED
  BY <1>9, <1>11, <1>12, <1>13, <1>14 DEF Table!Arrive

\* ALTER and DELETE are not seen.
LEMMA RowlessCommitIsUnseen ==
  ASSUME CatalogInv, EngineAlters \/ EngineDeletes
  PROVE  Unseen
<1>1. /\ head' = head + 1 /\ head \in Nat
      /\ stats' = EngineCount /\ \E kind \in {"altered", "deleted"} :
           changes' = [s \in 1 .. head + 1 |-> IF s = head + 1 THEN kind ELSE changes[s]]
  BY DEF EngineAlters, EngineDeletes, EngineCommits, CatalogInv, HistoryOK
<1>2. /\ DOMAIN files' = DOMAIN files
      /\ \A f \in DOMAIN files :
           /\ files'[f].spec = files[f].spec /\ files'[f].label = files[f].label
           /\ files'[f].end = files[f].end /\ files'[f].rows = files[f].rows
      /\ \A s \in 1 .. head : changes'[s] = changes[s]
  BY AlterKeepsCatalog, DeleteKeepsCatalog
<1>3. changes'[head + 1] \in {"altered", "deleted"}
  BY <1>1
<1>4. Live' = Live
  BY <1>2 DEF Live
<1>5. DroppedFiles' = DroppedFiles
  <2>1. \A f \in DOMAIN files : files'[f].end = IF f \in {} THEN head + 1 ELSE files[f].end
    BY <1>2
  <2> QED
    BY <1>1, <1>2, <1>3, <2>1, DroppedFilesStay
<1>6. /\ TableRows(Live)' = RowsIn(files', Live') /\ TableRows(DroppedFiles)' = RowsIn(files', DroppedFiles')
  BY DEF TableRows, RowsIn
<1>7. /\ RowsIn(files', Live) = RowsIn(files, Live)
      /\ RowsIn(files', DroppedFiles) = RowsIn(files, DroppedFiles)
  BY <1>2, RowsInSame DEF Live, DroppedFiles
<1>8. stats' = stats
  BY <1>1, EngineCountIsStats DEF CatalogInv
<1> QED
  BY <1>4, <1>5, <1>6, <1>7, <1>8, TableRowsAreRowsIn DEF Unseen

\* The merged file shows the rows, with the leaf, of the files it was made of.
LEMMA MergedRows ==
  ASSUME NEW fs, NEW gs, NEW S, NEW n, S # {}, gs[n].rows = UNION {fs[f].rows : f \in S},
         \A f \in S : gs[n].spec = fs[f].spec /\ gs[n].label = fs[f].label
  PROVE  RowsIn(gs, {n}) = RowsIn(fs, S)
<1>1. SUFFICES ASSUME NEW r PROVE r \in RowsIn(gs, {n}) <=> r \in RowsIn(fs, S)
  OBVIOUS
<1>2. r \in RowsIn(gs, {n}) <=>
        /\ r.row \in gs[n].rows /\ r.leaf = <<gs[n].spec, gs[n].label>>
        /\ r = [row |-> r.row, leaf |-> r.leaf]
  BY RowsInMember
<1>3. r \in RowsIn(fs, S) <=>
        \E f \in S : /\ r.row \in fs[f].rows /\ r.leaf = <<fs[f].spec, fs[f].label>>
                     /\ r = [row |-> r.row, leaf |-> r.leaf]
  BY RowsInMember
<1>4. \A f \in S : <<gs[n].spec, gs[n].label>> = <<fs[f].spec, fs[f].label>>
  OBVIOUS
<1>5. r.row \in gs[n].rows <=> \E f \in S : r.row \in fs[f].rows
  OBVIOUS
<1> QED
  BY <1>2, <1>3, <1>4, <1>5

\* A compaction is not seen: it ends the files it merged in the snapshot that
\* brings their rows back in one file, and nothing dropped is among them.
LEMMA CompactionIsUnseen ==
  ASSUME CatalogInv, CompactionCommits
  PROVE  Unseen
<1>1. /\ job.files # {} /\ job.files \subseteq Live
      /\ head' = head + 1 /\ head \in Nat
      /\ DOMAIN files' = DOMAIN files \cup {nextFile} /\ nextFile \notin DOMAIN files
      /\ files'[nextFile].end = 0 /\ files'[nextFile].rows = RowsOf(job.files)
      /\ \A f \in job.files : /\ files'[nextFile].spec = files[f].spec
                              /\ files'[nextFile].label = files[f].label
      /\ stats' = stats
      /\ changes'[head + 1] = "compacted"
      /\ \A s \in 1 .. head : changes'[s] = changes[s]
  BY CompactionKeepsCatalog DEF CatalogInv, HistoryOK
<1>2. \A f \in DOMAIN files :
        /\ files'[f].spec = files[f].spec /\ files'[f].label = files[f].label
        /\ files'[f].rows = files[f].rows
        /\ files'[f].end = IF f \in job.files THEN head + 1 ELSE files[f].end
  <2>1. SUFFICES ASSUME NEW f \in DOMAIN files
                 PROVE  /\ files'[f].spec = files[f].spec /\ files'[f].label = files[f].label
                        /\ files'[f].rows = files[f].rows
                        /\ files'[f].end = IF f \in job.files THEN head + 1 ELSE files[f].end
    OBVIOUS
  <2>2. /\ files'[f] = IF f \in job.files THEN [files[f] EXCEPT !.end = head + 1] ELSE files[f]
        /\ files[f] \in FileSet
    BY CompactionKeepsCatalog DEF CatalogInv, FilesOK
  <2>3. CASE f \in job.files
    BY <2>2, <2>3 DEF FileSet
  <2>4. CASE f \notin job.files
    BY <2>2, <2>4
  <2> QED
    BY <2>3, <2>4
<1>3. Live' = (Live \ job.files) \cup {nextFile}
  <2>1. \A f : f \in Live' <=> f \in DOMAIN files' /\ files'[f].end = 0
    BY DEF Live
  <2>2. \A f : f \in Live <=> f \in DOMAIN files /\ files[f].end = 0
    BY DEF Live
  <2>3. \A f \in job.files : f \in DOMAIN files /\ files'[f].end # 0
    BY <1>1, <1>2, <2>2
  <2>4. \A f \in DOMAIN files \ job.files : files'[f].end = files[f].end
    BY <1>2
  <2>5. \A f : f \in Live' <=> f \in (Live \ job.files) \cup {nextFile}
    BY <1>1, <2>1, <2>2, <2>3, <2>4
  <2> QED
    BY <2>5
<1>4. TableRows(Live)' = TableRows(Live)
  <2>1. TableRows(Live)' = RowsIn(files', Live')
    BY DEF TableRows, RowsIn
  <2>2. RowsIn(files', Live') = RowsIn(files', Live \ job.files) \cup RowsIn(files', {nextFile})
    BY <1>3, RowsInUnion
  <2>3. RowsIn(files', Live \ job.files) = RowsIn(files, Live \ job.files)
    BY <1>2, RowsInSame DEF Live
  <2>4. RowsIn(files', {nextFile}) = RowsIn(files, job.files)
    BY <1>1, MergedRows DEF RowsOf
  <2>5. Live = (Live \ job.files) \cup job.files
    BY <1>1
  <2>6. RowsIn(files, Live) = RowsIn(files, Live \ job.files) \cup RowsIn(files, job.files)
    BY <2>5, RowsInUnion
  <2> QED
    BY <2>1, <2>2, <2>3, <2>4, <2>6, TableRowsAreRowsIn
<1>5. DroppedFiles' = DroppedFiles
  <2>1. /\ DOMAIN files \subseteq DOMAIN files'
        /\ \A f \in DOMAIN files' \ DOMAIN files : files'[f].end = 0
    BY <1>1
  <2> QED
    BY <1>1, <1>2, <2>1, DroppedFilesStay
<1>6. TableRows(DroppedFiles)' = TableRows(DroppedFiles)
  <2>1. TableRows(DroppedFiles)' = RowsIn(files', DroppedFiles')
    BY DEF TableRows, RowsIn
  <2>2. RowsIn(files', DroppedFiles) = RowsIn(files, DroppedFiles)
    BY <1>2, RowsInSame DEF DroppedFiles
  <2> QED
    BY <1>5, <2>1, <2>2, TableRowsAreRowsIn
<1> QED
  BY <1>1, <1>4, <1>6 DEF Unseen

\* Rows of files apart from each other are apart.
LEMMA RowsInApart ==
  ASSUME NEW fs, NEW S, NEW T, \A f \in S : \A g \in T : fs[f].rows \cap fs[g].rows = {}
  PROVE  RowsIn(fs, S) \cap RowsIn(fs, T) = {}
<1>1. SUFFICES ASSUME NEW r \in RowsIn(fs, S), r \in RowsIn(fs, T) PROVE FALSE
  OBVIOUS
<1>2. PICK f \in S : r.row \in fs[f].rows
  BY RowsInMember
<1>3. PICK g \in T : r.row \in fs[g].rows
  BY <1>1, RowsInMember
<1> QED
  BY <1>2, <1>3

\* The abstract table counts as the catalog does.
LEMMA SameCount == \A S : Table!Cardinality(S) = Cardinality(S)
BY DEF Table!Cardinality, Cardinality

\* The commit of a drop takes whole files of one aged leaf, some and not all of
\* what is live, and a reader sees exactly that.
LEMMA DropIsDropLeaf ==
  ASSUME DropInv, DropLeaf \/ DropLeafAnswerLost
  PROVE  Table!DropLeaf
<1> DEFINE leaf == <<drop.spec, drop.leaf>>
           out == RowsIn(files, drop.ended)
<1>1. /\ CatalogInv /\ FilesOK /\ HistoryOK /\ RowsApart /\ StatsMatchLiveRows
      /\ DropShape /\ DropOK
  BY DEF DropInv, CatalogInv
<1>2. drop.pc = "commit" /\ stats > Delta
  BY CommitKeepsInv DEF CommitsDrop
<1>3. /\ head' = head + 1 /\ head \in Nat
      /\ DOMAIN files' = DOMAIN files
      /\ stats' = stats - Delta
      /\ changes'[head + 1] = "dropped"
      /\ \A s \in 1 .. head : changes'[s] = changes[s]
  BY <1>1, CommitKeepsInv DEF HistoryOK
<1>4. \A f \in DOMAIN files :
        /\ files'[f].spec = files[f].spec /\ files'[f].label = files[f].label
        /\ files'[f].rows = files[f].rows
        /\ files'[f].end = IF f \in drop.ended THEN head + 1 ELSE files[f].end
  <2>1. SUFFICES ASSUME NEW f \in DOMAIN files
                 PROVE  /\ files'[f].spec = files[f].spec /\ files'[f].label = files[f].label
                        /\ files'[f].rows = files[f].rows
                        /\ files'[f].end = IF f \in drop.ended THEN head + 1 ELSE files[f].end
    OBVIOUS
  <2>2. /\ files'[f] = IF f \in drop.ended THEN [files[f] EXCEPT !.end = head + 1] ELSE files[f]
        /\ files[f] \in FileSet
    BY <1>1, CommitKeepsInv DEF FilesOK
  <2>3. CASE f \in drop.ended
    BY <2>2, <2>3 DEF FileSet
  <2>4. CASE f \notin drop.ended
    BY <2>2, <2>4
  <2> QED
    BY <2>3, <2>4
<1>5. /\ drop.ended # {} /\ drop.ended \subseteq Live /\ drop.ended \subseteq DOMAIN files
      /\ \A f \in drop.ended : files[f].spec = drop.spec /\ files[f].label = drop.leaf
      /\ Aged(drop.spec, drop.leaf)
  BY <1>1, <1>2 DEF DropOK, Live
<1>6. leaf \in {sl \in Specs \X Marks : Aged(sl[1], sl[2])}
  <2>1. drop.spec \in Specs /\ drop.leaf \in Marks
    BY <1>1 DEF DropShape
  <2> QED
    BY <1>5, <2>1
<1>7. out \in SUBSET {r \in TableRows(Live) : r.leaf = leaf}
  <2>1. SUFFICES ASSUME NEW r \in out PROVE r \in TableRows(Live) /\ r.leaf = leaf
    OBVIOUS
  <2>2. PICK f \in drop.ended : /\ r.row \in files[f].rows
                                /\ r.leaf = <<files[f].spec, files[f].label>>
                                /\ r = [row |-> r.row, leaf |-> r.leaf]
    BY <2>1, RowsInMember
  <2>3. f \in Live
    BY <1>5
  <2>4. r \in RowsIn(files, Live)
    BY <2>2, <2>3, RowsInMember
  <2> QED
    BY <1>5, <2>2, <2>4, TableRowsAreRowsIn
<1>8. out # {}
  <2>1. PICK f \in drop.ended : files[f].rows # {}
    BY <1>1, <1>5 DEF FilesOK
  <2>2. PICK i \in files[f].rows : TRUE
    BY <2>1
  <2>3. [row |-> i, leaf |-> <<files[f].spec, files[f].label>>] \in out
    BY <2>2, RowsInMember
  <2> HIDE DEF out
  <2> QED
    BY <2>3
<1>9. Cardinality(out) = Delta
  BY <1>1, <1>5, LiveRowsCount DEF Delta
<1>10. out # TableRows(Live)
  <2>1. Cardinality(TableRows(Live)) = stats
    BY <1>1, LiveRowsCount, TableRowsAreRowsIn DEF StatsMatchLiveRows
  <2>2. stats \in Nat
    BY <1>1 DEF HistoryOK
  <2> HIDE DEF out
  <2>3. ASSUME out = TableRows(Live) PROVE FALSE
    <3>1. Delta = stats
      BY <1>9, <2>1, <2>3
    <3> QED
      BY <1>2, <2>2, <3>1
  <2> QED
    BY <2>3
<1>11. TableRows(Live)' = TableRows(Live) \ out
  <2>1. Live' = Live \ drop.ended
    BY <1>3, <1>4, <1>5 DEF Live
  <2>2. TableRows(Live)' = RowsIn(files', Live \ drop.ended)
    BY <2>1 DEF TableRows, RowsIn
  <2>3. RowsIn(files', Live \ drop.ended) = RowsIn(files, Live \ drop.ended)
    BY <1>4, RowsInSame DEF Live
  <2>4. RowsIn(files, Live) = RowsIn(files, Live \ drop.ended) \cup out
    <3>1. Live = (Live \ drop.ended) \cup drop.ended
      BY <1>5
    <3> QED
      BY <3>1, RowsInUnion
  <2>5. RowsIn(files, Live \ drop.ended) \cap out = {}
    <3>1. \A f \in Live \ drop.ended : \A g \in drop.ended : files[f].rows \cap files[g].rows = {}
      BY <1>1, <1>5 DEF RowsApart
    <3> QED
      BY <3>1, RowsInApart
  <2> HIDE DEF out
  <2> QED
    BY <2>2, <2>3, <2>4, <2>5, TableRowsAreRowsIn
<1>12. TableRows(DroppedFiles)' = TableRows(DroppedFiles) \cup out
  <2>1. \A f \in DOMAIN files' \ DOMAIN files : files'[f].end = 0
    BY <1>3
  <2>2. DroppedFiles' = DroppedFiles \cup drop.ended
    BY <1>1, <1>3, <1>4, <1>5, <2>1, DroppedFilesStay
  <2>3. TableRows(DroppedFiles)' = RowsIn(files', DroppedFiles \cup drop.ended)
    BY <2>2 DEF TableRows, RowsIn
  <2>4. RowsIn(files', DroppedFiles \cup drop.ended) = RowsIn(files, DroppedFiles \cup drop.ended)
    BY <1>4, <1>5, RowsInSame DEF DroppedFiles
  <2> QED
    BY <2>3, <2>4, RowsInUnion, TableRowsAreRowsIn
<1>13. stats' = stats - Cardinality(out)
  BY <1>3, <1>9
<1> HIDE DEF out, leaf
<1>14. /\ TableRows(Live)' = TableRows(Live) \ out
       /\ TableRows(DroppedFiles)' = TableRows(DroppedFiles) \cup out
       /\ out # {} /\ out # TableRows(Live) /\ stats' = stats - Table!Cardinality(out)
  BY <1>8, <1>10, <1>11, <1>12, <1>13, SameCount
<1> QED
  BY <1>6, <1>7, <1>14 DEF Table!DropLeaf

\* Every other step leaves the files, what the snapshots did and the count alone.
LEMMA RestIsQuiet ==
  ASSUME DropInv, Next
  PROVE  \/ (\E label \in Arrivals : EngineAppends(label)) \/ EngineAlters \/ EngineDeletes
             \/ CompactionCommits
         \/ DropLeaf \/ DropLeafAnswerLost
         \/ UNCHANGED <<files, changes, stats>>
<1>0. CatalogInv
  BY DEF DropInv
<1>1. ASSUME Bystander PROVE UNCHANGED <<files, changes, stats>>
  BY <1>1 DEF Bystander, CompactionBegins, CompactionGivesUp, CronLocks, CronExpires, CronUnlocks,
              ListPartitions, catalog
<1>2. ASSUME NEW c \in Consumers, CursorAdvances(c) \/ CursorRewinds(c)
      PROVE  UNCHANGED <<files, changes, stats>>
  BY <1>2 DEF CursorAdvances, CursorRewinds, catalog
<1>3. ASSUME StartRun PROVE UNCHANGED <<files, changes, stats>>
  BY <1>3 DEF StartRun, catalog
<1>4. ASSUME LagStopsRun \/ OversizedStopsRun \/ SkipLeaf \/ RunDone \/ OutOfTime
      PROVE  UNCHANGED <<files, changes, stats>>
  BY <1>4, BetweenLeavesKeepsInv DEF catalog
<1>5. ASSUME ReadGuard \/ ChooseLeaf PROVE UNCHANGED <<files, changes, stats>>
  BY <1>5, ReadGuardKeepsInv, ChooseKeepsInv DEF catalog
<1>6. ASSUME TakeLock \/ LockContended \/ OutOfAttempts PROVE UNCHANGED <<files, changes, stats>>
  BY <1>6, LockStepsKeepInv DEF catalog
<1>7. ASSUME CheckVectors \/ ReadBaseline \/ InsertSnapshot PROVE UNCHANGED <<files, changes, stats>>
  BY <1>7, PrepareStepsKeepInv DEF catalog
<1>8. ASSUME EndFiles PROVE UNCHANGED <<files, changes, stats>>
  BY <1>8, EndFilesKeepsInv DEF catalog
<1>9. ASSUME Classify PROVE UNCHANGED <<files, changes, stats>>
  BY <1>9, ClassifyKeepsInv DEF catalog
<1>10. ASSUME Recheck PROVE UNCHANGED <<files, changes, stats>>
  BY <1>10, RecheckKeepsInv DEF catalog
<1>11. ASSUME Verify PROVE UNCHANGED <<files, changes, stats>>
  BY <1>11, VerifyKeepsInv DEF catalog
<1>12. ASSUME EmptiesTheTable \/ StatementFails \/ RunFails
       PROVE  UNCHANGED <<files, changes, stats>>
  BY <1>12, FailureKeepsInv DEF catalog
<1> QED
  BY <1>1, <1>2, <1>3, <1>4, <1>5, <1>6, <1>7, <1>8, <1>9, <1>10, <1>11, <1>12, NextCases

\* The table starts as the abstract one: typed, nothing dropped, counted.
LEMMA InitIsTableInit ==
  ASSUME Init
  PROVE  Table!Init
<1>1. FilesOK /\ HistoryOK /\ RowsApart /\ StatsMatchLiveRows
  BY InitGivesInv DEF DropInv, CatalogInv
<1>2. TableRows(Live) \subseteq [row : Nat, leaf : Specs \X Marks]
  <2>1. Live \in SUBSET DOMAIN files
    BY DEF Live
  <2> QED
    BY <1>1, <2>1, RowsInTyped, TableRowsAreRowsIn DEF TypedRows
<1>3. TableRows(DroppedFiles) = {}
  <2>1. \A f \in DOMAIN files : files[f].end = 0
    BY HistoryAssumption DEF Init
  <2>2. DroppedFiles = {}
    BY <2>1 DEF DroppedFiles
  <2> QED
    BY <2>2 DEF TableRows
<1>4. stats = Table!Cardinality(TableRows(Live))
  BY <1>1, LiveRowsCount, TableRowsAreRowsIn, SameCount DEF StatsMatchLiveRows
<1> QED
  BY <1>2, <1>3, <1>4 DEF Table!Init

\* Every step is a step of the abstract table, or none.
LEMMA StepIsTableStep ==
  ASSUME DropInv, [Next]_vars
  PROVE  [Table!Next]_(Table!vars)
<1>0. CatalogInv
  BY DEF DropInv
<1>1. Unseen => UNCHANGED Table!vars
  BY DEF Unseen, Table!vars
<1>2. CASE UNCHANGED vars
  <2>1. UNCHANGED <<files, changes, stats>>
    BY <1>2 DEF vars, catalog
  <2> QED
    BY <1>1, <2>1, QuietIsUnseen
<1>3. ASSUME NEW label \in Arrivals, EngineAppends(label) PROVE Table!Next
  BY <1>0, <1>3, AppendArrives DEF Table!Next
<1>4. CASE EngineAlters \/ EngineDeletes
  BY <1>0, <1>1, <1>4, RowlessCommitIsUnseen
<1>5. CASE CompactionCommits
  BY <1>0, <1>1, <1>5, CompactionIsUnseen
<1>6. CASE DropLeaf \/ DropLeafAnswerLost
  BY <1>6, DropIsDropLeaf DEF Table!Next
<1>7. CASE UNCHANGED <<files, changes, stats>>
  BY <1>1, <1>7, QuietIsUnseen
<1> QED
  BY <1>2, <1>3, <1>4, <1>5, <1>6, <1>7, RestIsQuiet

\* RetainsTable: what a reader of the newest snapshot sees is a RetainedTable.
\* Every commit of _drop_leaf_txn (ducklake_maintenance.py:3253-3300) takes one
\* aged leaf's rows out in one step and for good, with the count to match; every
\* append is an arrival; and everything else the tool, the engine, the other
\* jobs and the faults do is invisible.
THEOREM ImplementsRetainedTable == Spec => RetainsTable
<1>1. Init => Table!Init
  BY InitIsTableInit
<1>2. DropInv /\ [Next]_vars => [Table!Next]_(Table!vars)
  BY StepIsTableStep
<1> QED
  BY <1>1, <1>2, DropInvariance, PTL DEF Spec, RetainsTable, Table!Spec
=============================================================================
