------------------------- MODULE CatalogUpkeepProofs -------------------------
(***************************************************************************)
(* Proofs about CatalogUpkeep for every set of sessions, every history of  *)
(* objects and snapshots, every batch size and every number of commits,    *)
(* commands and upsets.                                                    *)
(***************************************************************************)
EXTENDS CatalogUpkeep, NumberLemmas, FiniteSetTheorems, TLAPS

-----------------------------------------------------------------------------
(* The inductive invariant and its parts.                                  *)

(* job has a record for each session, with the fields the proof speaks of. *)
Fields == {"pc", "mode", "batch", "dead", "found", "taken", "todo", "tries"}
JobShape == DOMAIN job = Sessions /\ \A s \in Sessions : Fields \subseteq DOMAIN job[s]

CatalogShape ==
  /\ \E n \in Nat : DOMAIN files = 1 .. n
  /\ queue \in [DOMAIN files -> Nat]
  /\ rows \subseteq DOMAIN files /\ objects \subseteq DOMAIN files

Busy(s) == job[s].pc \notin {"idle", "exhausted"}

(* The newest snapshot, which every object was begun, and ended, by.       *)
ClockOK ==
  /\ kept \subseteq Nat \ {0} /\ \E h \in kept : \A n \in kept : n <= h
  /\ files \in [DOMAIN files -> [begin : Nat, end : Nat, of : Nat]]
  /\ \A o \in DOMAIN files : files[o].begin <= Head /\ files[o].end <= Head

(* A session that runs a command holds the advisory lock.                  *)
LockHeld == \A s \in Sessions : Busy(s) => lock = s

(* What a session has read, and acts upon later, is still so.              *)
StillOld(s) ==
  job[s].pc \in {"schedule", "cascade"} =>
    job[s].batch \subseteq Nat \ {0} /\ \A n \in job[s].batch : n < Head
StillDead(s) ==
  job[s].pc = "cascade" =>
    /\ job[s].taken \subseteq job[s].dead /\ job[s].dead \subseteq DOMAIN files
    /\ job[s].dead \subseteq job[s].taken \cup Queued
    /\ \A o \in job[s].dead :
         files[o].end # 0 /\ \A n \in kept \ job[s].batch : ~Reads(n, files[o])
StillGone(s) ==
  job[s].pc \in {"gates", "vectors", "delete"} => job[s].found \subseteq DOMAIN files \ objects
StillToDo(s) ==
  job[s].pc = "remove" =>
    /\ job[s].todo \subseteq job[s].taken /\ job[s].taken \subseteq Queued
    /\ job[s].taken \cap objects \subseteq job[s].todo
StillTrue(s) == StillOld(s) /\ StillDead(s) /\ StillGone(s) /\ StillToDo(s)
ReadingsHold == \A s \in Sessions : StillTrue(s)

UpkeepInv ==
  /\ JobShape /\ CatalogShape /\ ClockOK /\ LockHeld /\ ReadingsHold
  /\ ObjectsAreKnown /\ SnapshotsStayReadable

-----------------------------------------------------------------------------
\* The highest element of a set, when it has one.
LEMMA HighestIs ==
  ASSUME NEW S \in SUBSET Nat, NEW h \in S, \A m \in S : m <= h
  PROVE  HighestIn(S) = h
<1>1. h \in S /\ \A m \in S : m <= h
  OBVIOUS
<1>2. HighestIn(S) \in S /\ \A m \in S : m <= HighestIn(S)
  BY <1>1, Zenon DEF HighestIn
<1>3. HighestIn(S) \in Nat /\ h \in Nat /\ h <= HighestIn(S) /\ HighestIn(S) <= h
  BY <1>1, <1>2
<1> QED
  BY <1>3

\* The head snapshot is the newest one that is kept.
LEMMA HeadIsNewest ==
  ASSUME ClockOK
  PROVE  Head \in kept /\ Head \in Nat /\ \A n \in kept : n <= Head
BY HighestIs DEF ClockOK, Head

\* The advisory lock is exclusive: no other session runs while one does.
LEMMA Alone ==
  ASSUME LockHeld, NEW s \in Sessions, Busy(s), NEW t \in Sessions, t # s
  PROVE  lock = s /\ ~Busy(t)
BY DEF LockHeld

\* A step of the session that holds the lock, which keeps the lock or ends.
LEMMA LockStaysHeld ==
  ASSUME LockHeld, NEW s \in Sessions, Busy(s),
         \A t \in Sessions \ {s} : job'[t] = job[t],
         lock' = lock \/ job'[s].pc \in {"idle", "exhausted"}
  PROVE  LockHeld'
<1> SUFFICES ASSUME NEW t \in Sessions, Busy(t)'
             PROVE  lock' = t
  BY DEF LockHeld
<1>1. CASE t = s
  BY <1>1 DEF LockHeld, Busy
<1>2. CASE t # s
  BY <1>2, Alone DEF Busy
<1> QED
  BY <1>1, <1>2

\* A session that is not between two of its readings has nothing to hold to.
LEMMA NothingRead ==
  ASSUME NEW s \in Sessions, ReadingsHold,
         \A t \in Sessions \ {s} : job'[t] = job[t] /\ ~Busy(t),
         job'[s].pc \notin {"schedule", "cascade", "gates", "vectors", "delete", "remove"}
  PROVE  ReadingsHold'
<1> SUFFICES ASSUME NEW t \in Sessions
             PROVE  StillTrue(t)'
  BY DEF ReadingsHold
<1>1. job'[t].pc \notin {"schedule", "cascade", "gates", "vectors", "delete", "remove"}
  BY DEF Busy
<1> QED
  BY <1>1 DEF StillTrue, StillOld, StillDead, StillGone, StillToDo

-----------------------------------------------------------------------------
(* The engine, which takes no lock.                                        *)

\* A commit of the engine: a new snapshot, at which live objects may end and
\* listed ones begin.
LEMMA CommitPreserves ==
  ASSUME UpkeepInv, UNCHANGED <<lock, job>>, kept' = kept \cup {Head + 1},
         CatalogShape', files' \in [DOMAIN files' -> [begin : Nat, end : Nat, of : Nat]],
         DOMAIN files \subseteq DOMAIN files',
         \A o \in DOMAIN files :
           \/ files'[o] = files[o]
           \/ files[o].end = 0 /\ files'[o].begin = files[o].begin /\ files'[o].end = Head + 1,
         \A o \in DOMAIN files' \ DOMAIN files :
           files'[o].begin = Head + 1 /\ files'[o].end = 0 /\ o \in rows' /\ o \in objects',
         rows \subseteq rows', objects \subseteq objects',
         objects' \subseteq objects \cup (DOMAIN files' \ DOMAIN files), Queued' = Queued
  PROVE  UpkeepInv'
<1>1. Head \in kept /\ Head \in Nat /\ \A n \in kept : n <= Head
  BY HeadIsNewest DEF UpkeepInv
<1>2. kept \subseteq Nat \ {0} /\ kept' \subseteq Nat \ {0}
  BY <1>1 DEF UpkeepInv, ClockOK
<1>3. Head' = Head + 1
  <2>1. Head + 1 \in kept' /\ \A n \in kept' : n <= Head + 1
    BY <1>1, <1>2
  <2> QED
    BY <1>2, <2>1, HighestIs DEF Head
<1>4. \A o \in DOMAIN files :
        /\ files[o].begin \in Nat /\ files[o].begin <= Head
        /\ files[o].end \in Nat /\ files[o].end <= Head
  BY DEF UpkeepInv, ClockOK
<1>5. ClockOK'
  <2>1. \A n \in kept' : n <= Head + 1
    BY <1>1, <1>2
  <2>2. \A o \in DOMAIN files' : files'[o].begin <= Head + 1 /\ files'[o].end <= Head + 1
    BY <1>1, <1>4
  <2> QED
    BY <1>1, <1>2, <1>3, <2>1, <2>2 DEF ClockOK
<1>6. ASSUME NEW o \in DOMAIN files, NEW n \in kept', Reads(n, files'[o])
      PROVE  \E m \in kept : Reads(m, files[o])
  <2>1. CASE n \in kept
    BY <1>1, <1>2, <1>4, <1>6, <2>1 DEF Reads
  <2>2. CASE n = Head + 1
    <3>1. files[o].end = 0
      BY <1>1, <1>4, <1>6, <2>2 DEF Reads
    <3> QED
      BY <1>1, <1>4, <3>1 DEF Reads
  <2> QED
    BY <2>1, <2>2
<1>7. SnapshotsStayReadable'
  <2> SUFFICES ASSUME NEW n \in kept', NEW o \in DOMAIN files', Reads(n, files'[o])
               PROVE  o \in rows' /\ o \in objects' /\ o \notin Queued'
    BY DEF SnapshotsStayReadable
  <2>1. CASE o \in DOMAIN files
    BY <1>6, <2>1 DEF UpkeepInv, SnapshotsStayReadable
  <2>2. CASE o \notin DOMAIN files
    BY <2>2 DEF UpkeepInv, CatalogShape, Queued
  <2> QED
    BY <2>1, <2>2
<1>8. ReadingsHold'
  <2> SUFFICES ASSUME NEW s \in Sessions
               PROVE  StillTrue(s)'
    BY DEF ReadingsHold
  <2>1. StillTrue(s) /\ job' = job
    BY DEF UpkeepInv, ReadingsHold
  <2>2. StillOld(s)'
    BY <1>1, <1>3, <2>1 DEF StillTrue, StillOld
  <2>3. ASSUME job[s].pc = "cascade", NEW o \in job[s].dead
        PROVE  /\ files'[o].end # 0
               /\ \A n \in kept' \ job[s].batch : ~Reads(n, files'[o])
    <3>1. o \in DOMAIN files /\ files[o].end # 0 /\ \A n \in kept \ job[s].batch : ~Reads(n, files[o])
      BY <2>1, <2>3 DEF StillTrue, StillDead
    <3>2. files'[o] = files[o]
      BY <3>1
    <3>3. ~Reads(Head + 1, files[o])
      BY <1>1, <1>4, <3>1 DEF Reads
    <3> QED
      BY <3>1, <3>2, <3>3
  <2>4. StillDead(s)'
    BY <2>1, <2>3 DEF StillTrue, StillDead
  <2>5. StillGone(s)' /\ StillToDo(s)'
    <3>1. Queued \subseteq DOMAIN files
      BY DEF UpkeepInv, CatalogShape, Queued
    <3> QED
      BY <2>1, <3>1 DEF StillTrue, StillGone, StillToDo
  <2> QED
    BY <2>2, <2>4, <2>5 DEF StillTrue
<1>9. ObjectsAreKnown'
  BY DEF UpkeepInv, ObjectsAreKnown
<1> QED
  BY <1>5, <1>7, <1>8, <1>9 DEF UpkeepInv, JobShape, LockHeld, Busy

\* A merge adds one object that no session has read, and lists it.
LEMMA MergePreserves ==
  ASSUME UpkeepInv, EngineMerges
  PROVE  UpkeepInv'
<1> DEFINE new == HighestIn(DOMAIN files) + 1
<1>1. PICK n \in Nat : DOMAIN files = 1 .. n
  BY DEF UpkeepInv, CatalogShape
<1>2. n # 0
  BY <1>1 DEF UpkeepInv, CatalogShape, EngineMerges
<1>3. new = n + 1
  <2>1. DOMAIN files \in SUBSET Nat /\ n \in DOMAIN files /\ \A m \in DOMAIN files : m <= n
    BY <1>1, <1>2
  <2> QED
    BY <2>1, HighestIs
<1>4. PICK o \in rows :
        /\ files' = [f \in DOMAIN files \cup {new} |->
                       IF f = new THEN [begin |-> Head + 1, end |-> 0, of |-> 0]
                       ELSE IF f = o \/ (files[f].of = o /\ files[f].end = 0)
                            THEN [files[f] EXCEPT !.end = Head + 1]
                            ELSE files[f]]
        /\ files[o].end = 0
        /\ rows' = rows \cup {new}
        /\ queue' = [f \in DOMAIN files \cup {new} |-> IF f = new THEN 0 ELSE queue[f]]
        /\ objects' = objects \cup {new}
  BY Zenon DEF EngineMerges
<1>5. job' = job /\ lock' = lock /\ kept' = kept \cup {Head + 1}
  BY DEF EngineMerges, EngineCommits
<1> HIDE DEF new
<1>6. DOMAIN files' = 1 .. n + 1 /\ DOMAIN files' = DOMAIN files \cup {new} /\ new \notin DOMAIN files
  BY <1>1, <1>3, <1>4
<1>7. CatalogShape'
  <2>1. queue' \in [DOMAIN files' -> Nat]
    BY <1>4, <1>6 DEF UpkeepInv, CatalogShape
  <2>2. rows' \subseteq DOMAIN files' /\ objects' \subseteq DOMAIN files'
    BY <1>4, <1>6 DEF UpkeepInv, CatalogShape
  <2> QED
    BY <1>6, <2>1, <2>2 DEF CatalogShape
<1>8. Queued' = Queued
  BY <1>4, <1>6 DEF Queued, UpkeepInv, CatalogShape
<1>9. Head \in Nat
  BY HeadIsNewest DEF UpkeepInv
<1>10. /\ files' \in [DOMAIN files' -> [begin : Nat, end : Nat, of : Nat]]
       /\ \A f \in DOMAIN files :
            \/ files'[f] = files[f]
            \/ files[f].end = 0 /\ files'[f].begin = files[f].begin /\ files'[f].end = Head + 1
  <2>1. \A f \in DOMAIN files : files[f] \in [begin : Nat, end : Nat, of : Nat]
    BY DEF UpkeepInv, ClockOK
  <2>2. ASSUME NEW f \in DOMAIN files
        PROVE  /\ files'[f] \in [begin : Nat, end : Nat, of : Nat]
               /\ \/ files'[f] = files[f]
                  \/ files[f].end = 0 /\ files'[f].begin = files[f].begin /\ files'[f].end = Head + 1
    BY <1>4, <1>6, <1>9, <2>1
  <2>3. files'[new] \in [begin : Nat, end : Nat, of : Nat]
    BY <1>4, <1>6, <1>9
  <2> QED
    BY <1>4, <1>6, <2>2, <2>3
<1>11. files'[new].begin = Head + 1 /\ files'[new].end = 0
  BY <1>4
<1> QED
  BY <1>4, <1>5, <1>6, <1>7, <1>8, <1>10, <1>11, CommitPreserves

\* DELETE and DROP TABLE end live objects.
LEMMA DeletePreserves ==
  ASSUME UpkeepInv, EngineDeletes
  PROVE  UpkeepInv'
<1>1. PICK o \in rows :
        /\ files[o].end = 0
        /\ files' = [f \in DOMAIN files |->
                       IF f = o \/ (files[f].of = o /\ files[f].end = 0)
                       THEN [files[f] EXCEPT !.end = Head + 1] ELSE files[f]]
  BY DEF EngineDeletes
<1>2. UNCHANGED <<rows, queue, objects, lock, job>> /\ kept' = kept \cup {Head + 1}
  BY DEF EngineDeletes, EngineCommits
<1>3. DOMAIN files' = DOMAIN files
  BY <1>1
<1>4. Head \in Nat /\ \A f \in DOMAIN files : files[f] \in [begin : Nat, end : Nat, of : Nat]
  BY HeadIsNewest DEF UpkeepInv, ClockOK
<1>5. ASSUME NEW f \in DOMAIN files
      PROVE  /\ files'[f] \in [begin : Nat, end : Nat, of : Nat]
             /\ \/ files'[f] = files[f]
                \/ files[f].end = 0 /\ files'[f].begin = files[f].begin /\ files'[f].end = Head + 1
  BY <1>1, <1>4
<1>6. files' \in [DOMAIN files' -> [begin : Nat, end : Nat, of : Nat]]
  BY <1>1, <1>3, <1>5
<1>7. CatalogShape' /\ Queued' = Queued
  BY <1>2, <1>3 DEF UpkeepInv, CatalogShape, Queued
<1> QED
  BY <1>2, <1>3, <1>5, <1>6, <1>7, CommitPreserves

\* A commit to inlined data or of a dropped table touches no object.
LEMMA InlineCommitPreserves ==
  ASSUME UpkeepInv, EngineInlines \/ EngineDropsTable
  PROVE  UpkeepInv'
<1>1. UNCHANGED <<files, rows, queue, objects, lock, job>> /\ kept' = kept \cup {Head + 1}
  BY DEF EngineInlines, EngineDropsTable, EngineCommits
<1>2. CatalogShape' /\ Queued' = Queued
  BY <1>1 DEF UpkeepInv, CatalogShape, Queued
<1>3. files' \in [DOMAIN files' -> [begin : Nat, end : Nat, of : Nat]]
  BY <1>1 DEF UpkeepInv, ClockOK
<1> QED
  BY <1>1, <1>2, <1>3, CommitPreserves

\* DuckLake's expiry queues every file that it takes off the list, and takes
\* off what no remaining snapshot reads.
LEMMA ExpiryQueues ==
  ASSUME CatalogShape, ClockOK, SnapshotsStayReadable, ObjectsAreKnown,
         NEW cut, EngineExpiry(OlderThan(cut)), UNCHANGED <<files, objects>>
  PROVE  /\ CatalogShape' /\ ClockOK' /\ SnapshotsStayReadable' /\ ObjectsAreKnown'
         /\ Queued \subseteq Queued' /\ kept' \subseteq kept /\ Head' = Head
<1> DEFINE gone == OlderThan(cut)
           dead == {o \in rows : Unread(gone, files[o])}
<1>1. /\ kept' = kept \ gone /\ rows' = rows \ dead
      /\ queue' = [o \in DOMAIN queue |-> queue[o] + (IF o \in dead THEN 1 ELSE 0)]
  BY DEF EngineExpiry
<1>2. Head \in kept /\ Head \in Nat /\ (\A n \in kept : n <= Head) /\ Head \notin gone
  BY HeadIsNewest DEF OlderThan
<1>3. \A o \in dead : o \in DOMAIN files /\ \A n \in kept' : ~Reads(n, files[o])
  BY <1>1 DEF CatalogShape, Unread
<1> HIDE DEF gone, dead
<1>4. DOMAIN queue = DOMAIN files /\ \A o \in DOMAIN files : queue[o] \in Nat
  BY DEF CatalogShape
<1>5. queue' \in [DOMAIN files -> Nat] /\ DOMAIN queue' = DOMAIN files
  BY <1>1, <1>4
<1>6. \A o \in DOMAIN files : queue'[o] > 0 <=> queue[o] > 0 \/ o \in dead
  BY <1>1, <1>4
<1>7. Queued' = Queued \cup dead
  BY <1>3, <1>4, <1>5, <1>6 DEF Queued
<1>8. Head' = Head
  <2>1. kept' \in SUBSET Nat /\ Head \in kept' /\ \A n \in kept' : n <= Head
    BY <1>1, <1>2 DEF ClockOK
  <2> QED
    BY <2>1, HighestIs DEF Head
<1>9. CatalogShape' /\ ClockOK'
  <2>1. Head \in kept' /\ \A n \in kept' : n <= Head
    BY <1>1, <1>2
  <2> QED
    BY <1>1, <1>5, <1>8, <2>1 DEF CatalogShape, ClockOK
<1>10. SnapshotsStayReadable'
  BY <1>1, <1>3, <1>7 DEF SnapshotsStayReadable
<1>11. ObjectsAreKnown'
  BY <1>1, <1>7 DEF ObjectsAreKnown
<1> QED
  BY <1>1, <1>7, <1>8, <1>9, <1>10, <1>11

\* What the engine does to the queue and its objects without a commit.
LEMMA UncommittedPreserves ==
  ASSUME UpkeepInv, UNCHANGED <<files, lock, job>>,
         CatalogShape', ClockOK', SnapshotsStayReadable', ObjectsAreKnown',
         Queued \subseteq Queued', objects' \subseteq objects, kept' \subseteq kept, Head' = Head
  PROVE  UpkeepInv'
<1>1. ReadingsHold'
  BY DEF UpkeepInv, ReadingsHold, StillTrue, StillOld, StillDead, StillGone, StillToDo
<1> QED
  BY <1>1 DEF UpkeepInv, JobShape, LockHeld, Busy

\* Whatever the ingest pods do to the catalog, with no lock taken.
LEMMA EnginePreserves ==
  ASSUME UpkeepInv, Engine
  PROVE  UpkeepInv'
<1>1. CASE EngineMerges
  BY <1>1, MergePreserves
<1>2. CASE EngineDeletes
  BY <1>2, DeletePreserves
<1>3. CASE EngineInlines \/ EngineDropsTable
  BY <1>3, InlineCommitPreserves
<1>4. CASE EngineExpires
  <2>1. PICK cut : EngineExpiry(OlderThan(cut))
    BY <1>4 DEF EngineExpires
  <2>2. UNCHANGED <<files, objects, lock, job>>
    BY <1>4 DEF EngineExpires
  <2> QED
    BY <2>1, <2>2, ExpiryQueues, UncommittedPreserves DEF UpkeepInv
<1>5. CASE EngineRequeues
  <2>1. PICK o \in Queued : queue' = [queue EXCEPT ![o] = @ + 1]
    BY <1>5 DEF EngineRequeues
  <2>2. UNCHANGED <<files, rows, kept, objects, lock, job>>
    BY <1>5 DEF EngineRequeues
  <2>3. queue' \in [DOMAIN files -> Nat] /\ Queued' = Queued
    BY <2>1 DEF UpkeepInv, CatalogShape, Queued
  <2>4. CatalogShape' /\ ClockOK' /\ SnapshotsStayReadable' /\ ObjectsAreKnown' /\ Head' = Head
    BY <2>2, <2>3
       DEF UpkeepInv, CatalogShape, ClockOK, SnapshotsStayReadable, ObjectsAreKnown, Head
  <2> QED
    BY <2>2, <2>3, <2>4, UncommittedPreserves
<1>6. CASE EngineRemoves
  <2>1. UNCHANGED <<files, rows, kept, queue, lock, job>>
    BY <1>6 DEF EngineRemoves, lists
  <2>2. PICK o \in Queued : objects' = objects \ {o}
    BY <1>6 DEF EngineRemoves
  <2>3. CatalogShape' /\ ClockOK' /\ SnapshotsStayReadable' /\ ObjectsAreKnown' /\ Head' = Head
        /\ Queued' = Queued
    BY <2>1, <2>2
       DEF UpkeepInv, CatalogShape, ClockOK, SnapshotsStayReadable, ObjectsAreKnown, Head, Queued
  <2> QED
    BY <2>1, <2>2, <2>3, UncommittedPreserves
<1> QED
  BY <1>1, <1>2, <1>3, <1>4, <1>5, <1>6 DEF Engine

-----------------------------------------------------------------------------
(* The sessions.                                                           *)

\* A step of the session that holds the lock touches no other session.
LEMMA SessionStep ==
  ASSUME UpkeepInv, NEW s \in Sessions, Busy(s),
         Fields \subseteq DOMAIN job'[s], DOMAIN job' = Sessions,
         \A t \in Sessions \ {s} : job'[t] = job[t],
         lock' = lock \/ job'[s].pc \in {"idle", "exhausted"},
         CatalogShape', ClockOK', SnapshotsStayReadable', ObjectsAreKnown',
         StillTrue(s)'
  PROVE  UpkeepInv'
<1>1. JobShape'
  BY DEF UpkeepInv, JobShape
<1>2. LockHeld'
  BY LockStaysHeld DEF UpkeepInv
<1>3. ReadingsHold'
  <2>1. SUFFICES ASSUME NEW t \in Sessions, t # s
                 PROVE  StillTrue(t)'
    BY DEF ReadingsHold
  <2>2. job'[t].pc \notin {"schedule", "cascade", "gates", "vectors", "delete", "remove"}
    BY <2>1, Alone DEF UpkeepInv, Busy
  <2> QED
    BY <2>2 DEF StillTrue, StillOld, StillDead, StillGone, StillToDo
<1> QED
  BY <1>1, <1>2, <1>3 DEF UpkeepInv

\* What is said of the catalog and the objects alone.
LEMMA Untouched ==
  ASSUME UpkeepInv, UNCHANGED <<files, rows, kept, queue, objects>>
  PROVE  /\ CatalogShape' /\ ClockOK' /\ SnapshotsStayReadable' /\ ObjectsAreKnown'
         /\ Queued' = Queued /\ Head' = Head
BY DEF UpkeepInv, CatalogShape, ClockOK, SnapshotsStayReadable, ObjectsAreKnown, Queued, Head

\* A step that only changes the queue, and forgets only what no snapshot reads.
LEMMA QueueOnly ==
  ASSUME UpkeepInv, UNCHANGED <<files, rows, kept, objects>>,
         queue' \in [DOMAIN files -> Nat], Queued' \subseteq Queued,
         Queued \cap objects \subseteq Queued'
  PROVE  CatalogShape' /\ ClockOK' /\ SnapshotsStayReadable' /\ ObjectsAreKnown'
<1>1. CatalogShape' /\ ClockOK'
  BY DEF UpkeepInv, CatalogShape, ClockOK, Head
<1>2. SnapshotsStayReadable'
  BY DEF UpkeepInv, SnapshotsStayReadable
<1>3. ObjectsAreKnown'
  BY DEF UpkeepInv, ObjectsAreKnown
<1> QED
  BY <1>1, <1>2, <1>3

\* A step that leaves the catalog's lists and the objects alone, and after
\* which the session has nothing to hold to.
LEMMA QuietStep ==
  ASSUME UpkeepInv, NEW s \in Sessions, Busy(s), UNCHANGED <<files, rows, kept, queue, objects>>,
         Fields \subseteq DOMAIN job'[s], DOMAIN job' = Sessions,
         \A t \in Sessions \ {s} : job'[t] = job[t],
         lock' = lock \/ job'[s].pc \in {"idle", "exhausted"},
         job'[s].pc \notin {"schedule", "cascade", "gates", "vectors", "delete", "remove"}
  PROVE  UpkeepInv'
<1>1. CatalogShape' /\ ClockOK' /\ SnapshotsStayReadable' /\ ObjectsAreKnown'
  BY Untouched DEF UpkeepInv
<1>2. StillTrue(s)'
  BY DEF StillTrue, StillOld, StillDead, StillGone, StillToDo
<1> QED
  BY <1>1, <1>2, SessionStep

\* A command that ends leaves an idle session.
LEMMA EndsIdle ==
  ASSUME JobShape, NEW s \in Sessions, Ends(s)
  PROVE  /\ job'[s].pc = "idle"
         /\ Fields \subseteq DOMAIN job'[s] /\ DOMAIN job' = Sessions
         /\ \A t \in Sessions \ {s} : job'[t] = job[t]
BY DEF JobShape, Ends, IdleJob, Fields

\* A command starts only when nobody holds the lock.
LEMMA StartPreserves ==
  ASSUME UpkeepInv, NEW s \in Sessions, Start(s)
  PROVE  UpkeepInv'
<1>1. lock = "free" /\ lock' = s /\ UNCHANGED <<files, rows, kept, queue, objects>>
  BY DEF Start, LockFree, lists
<1>2. PICK mode \in Modes, cut \in Cutoffs, limit \in BatchLimits :
        job' = [job EXCEPT ![s] =
                 [IdleJob EXCEPT !.pc = FirstStep(mode), !.mode = mode, !.size = StartSize,
                    !.cut = IF mode \in {"expire", "expire-snapshots"} THEN cut ELSE 0,
                    !.left = IF mode = "expire-snapshots" THEN limit ELSE 0]]
  BY DEF Start
<1>3. /\ JobShape' /\ job'[s].pc = FirstStep(mode)
      /\ \A t \in Sessions \ {s} : job'[t] = job[t]
  BY <1>2 DEF UpkeepInv, JobShape, Fields, IdleJob
<1>4. FirstStep(mode) \notin {"schedule", "cascade", "gates", "vectors", "delete", "remove"}
  BY DEF FirstStep, Modes
<1>5. \A t \in Sessions : ~Busy(t)
  BY <1>1, SessionAssumption DEF UpkeepInv, LockHeld
<1>6. ReadingsHold'
  BY <1>3, <1>4, <1>5, NothingRead DEF UpkeepInv
<1>7. LockHeld'
  BY <1>1, <1>3, <1>5 DEF LockHeld, Busy
<1> QED
  BY <1>1, <1>3, <1>6, <1>7, Untouched DEF UpkeepInv

\* expire takes files off the list into the queue and ends.
LEMMA ExpirePreserves ==
  ASSUME UpkeepInv, NEW s \in Sessions, Expire(s)
  PROVE  UpkeepInv'
<1>1. /\ EngineExpiry(OlderThan(job[s].cut)) /\ Ends(s) /\ Busy(s)
      /\ UNCHANGED <<files, objects>>
  BY DEF Expire, At, Busy
<1>2. CatalogShape' /\ ClockOK' /\ SnapshotsStayReadable' /\ ObjectsAreKnown'
  BY <1>1, ExpiryQueues DEF UpkeepInv
<1>3. /\ job'[s].pc = "idle" /\ Fields \subseteq DOMAIN job'[s] /\ DOMAIN job' = Sessions
      /\ \A t \in Sessions \ {s} : job'[t] = job[t]
  BY <1>1, EndsIdle DEF UpkeepInv
<1>4. StillTrue(s)'
  BY <1>3 DEF StillTrue, StillOld, StillDead, StillGone, StillToDo
<1> QED
  BY <1>1, <1>2, <1>3, <1>4, SessionStep

\* What is dead and not queued is taken for the queue.
LEMMA SchedulePreserves ==
  ASSUME UpkeepInv, NEW s \in Sessions, Schedule(s)
  PROVE  UpkeepInv'
<1> DEFINE dead == {o \in rows : files[o].end \in job[s].batch /\ ~Bridged(files[o], job[s].batch)}
<1>1. /\ job' = [job EXCEPT ![s].pc = "cascade", ![s].dead = dead, ![s].taken = dead \ Queued]
      /\ UNCHANGED <<files, rows, kept, queue, objects, lock>> /\ Busy(s)
      /\ job[s].pc = "schedule"
  BY DEF Schedule, At, Busy, lists
<1> DEFINE batch == job[s].batch
<1>2. dead \subseteq DOMAIN files
  BY DEF UpkeepInv, CatalogShape
<1>3. batch \subseteq Nat \ {0} /\ \A n \in batch : n < Head
  BY <1>1 DEF UpkeepInv, ReadingsHold, StillTrue, StillOld
<1>4. ASSUME NEW o \in dead
      PROVE  files[o].end # 0 /\ \A n \in kept \ batch : ~Reads(n, files[o])
  BY <1>3, <1>4 DEF Bridged, Reads
<1> HIDE DEF dead
<1>5. /\ job'[s].pc = "cascade" /\ job'[s].dead = dead /\ job'[s].taken = dead \ Queued
      /\ job'[s].batch = batch
      /\ Fields \subseteq DOMAIN job'[s] /\ DOMAIN job' = Sessions
      /\ \A t \in Sessions \ {s} : job'[t] = job[t]
  BY <1>1 DEF UpkeepInv, JobShape, Fields
<1>6. /\ CatalogShape' /\ ClockOK' /\ SnapshotsStayReadable' /\ ObjectsAreKnown'
      /\ Queued' = Queued /\ Head' = Head
  BY <1>1, Untouched
<1>7. StillTrue(s)'
  <2>1. StillOld(s)'
    BY <1>5, <1>6, <1>3 DEF StillOld
  <2>2. StillDead(s)'
    BY <1>1, <1>5, <1>6, <1>2, <1>4 DEF StillDead
  <2> QED
    BY <1>5, <2>1, <2>2 DEF StillTrue, StillGone, StillToDo
<1> QED
  BY <1>1, <1>5, <1>6, <1>7, SessionStep

\* The batch commits: what leaves the list is queued, by it or before it.
LEMMA CommitBatchPreserves ==
  ASSUME UpkeepInv, NEW s \in Sessions, CommitBatch(s)
  PROVE  UpkeepInv'
<1>1. /\ job[s].pc = "cascade" /\ Busy(s) /\ UNCHANGED <<files, objects, lock>>
      /\ queue' = [o \in DOMAIN queue |-> queue[o] + (IF o \in job[s].taken THEN 1 ELSE 0)]
      /\ rows' = rows \ job[s].dead /\ kept' = kept \ job[s].batch
  BY DEF CommitBatch, At, Busy
<1>2. /\ job'[s].pc = "select" /\ Fields \subseteq DOMAIN job'[s] /\ DOMAIN job' = Sessions
      /\ \A t \in Sessions \ {s} : job'[t] = job[t]
  BY DEF CommitBatch, UpkeepInv, JobShape, Fields
<1>3. DOMAIN queue = DOMAIN files /\ \A o \in DOMAIN files : queue[o] \in Nat
  BY DEF UpkeepInv, CatalogShape
<1>4. queue' \in [DOMAIN files -> Nat] /\ DOMAIN queue' = DOMAIN files
  BY <1>1, <1>3
<1>5. /\ job[s].dead \subseteq DOMAIN files /\ job[s].taken \subseteq job[s].dead
      /\ job[s].dead \subseteq job[s].taken \cup Queued
      /\ \A o \in job[s].dead : \A n \in kept' : ~Reads(n, files[o])
      /\ \A n \in job[s].batch : n < Head
  BY <1>1 DEF UpkeepInv, ReadingsHold, StillTrue, StillOld, StillDead
<1>6. Queued' = Queued \cup job[s].taken
  <2>1. \A o \in DOMAIN files : queue'[o] > 0 <=> queue[o] > 0 \/ o \in job[s].taken
    BY <1>1, <1>3
  <2> QED
    BY <1>3, <1>4, <1>5, <2>1 DEF Queued
<1>7. CatalogShape' /\ ClockOK'
  <2>1. Head \in kept /\ Head \in Nat /\ \A n \in kept : n <= Head
    BY HeadIsNewest DEF UpkeepInv
  <2>2. Head \in kept' /\ kept' \subseteq kept /\ \A n \in kept' : n <= Head
    BY <1>1, <1>5, <2>1
  <2>3. kept' \in SUBSET Nat
    BY <2>2 DEF UpkeepInv, ClockOK
  <2>4. Head' = Head
    BY <2>2, <2>3, HighestIs DEF Head
  <2> QED
    BY <1>1, <1>4, <2>2, <2>4 DEF UpkeepInv, CatalogShape, ClockOK
<1>8. SnapshotsStayReadable'
  BY <1>1, <1>5, <1>6 DEF UpkeepInv, SnapshotsStayReadable
<1>9. CatalogShape' /\ ClockOK' /\ SnapshotsStayReadable' /\ ObjectsAreKnown'
  BY <1>1, <1>5, <1>6, <1>7, <1>8 DEF UpkeepInv, ObjectsAreKnown
<1>10. StillTrue(s)'
  BY <1>2 DEF StillTrue, StillOld, StillDead, StillGone, StillToDo
<1> QED
  BY <1>1, <1>2, <1>9, <1>10, SessionStep

\* dedup-deletions leaves one row of each queued path.
LEMMA DedupPreserves ==
  ASSUME UpkeepInv, NEW s \in Sessions, Dedup(s)
  PROVE  UpkeepInv'
<1>1. /\ Busy(s) /\ UNCHANGED <<files, rows, kept, objects>>
      /\ queue' = [o \in DOMAIN queue |-> Lesser(queue[o], 1)]
  BY DEF Dedup, At, Busy
<1>2. /\ job'[s].pc \in {"idle", "scan"} /\ Fields \subseteq DOMAIN job'[s] /\ DOMAIN job' = Sessions
      /\ \A t \in Sessions \ {s} : job'[t] = job[t]
      /\ lock' = lock \/ job'[s].pc = "idle"
  <2>1. CASE job[s].mode = "safe"
    BY <2>1 DEF Dedup, NextInRound, Goto, UpkeepInv, JobShape, Fields
  <2>2. CASE job[s].mode # "safe"
    BY <2>2, EndsIdle DEF Dedup, NextInRound, UpkeepInv
  <2> QED
    BY <2>1, <2>2
<1>3. queue' \in [DOMAIN files -> Nat] /\ Queued' = Queued
  BY <1>1 DEF UpkeepInv, CatalogShape, Queued, Lesser
<1>4. CatalogShape' /\ ClockOK' /\ SnapshotsStayReadable' /\ ObjectsAreKnown'
  BY <1>1, <1>3, QueueOnly
<1>5. StillTrue(s)'
  BY <1>2 DEF StillTrue, StillOld, StillDead, StillGone, StillToDo
<1> QED
  BY <1>1, <1>2, <1>4, <1>5, SessionStep

\* The scan finds what is queued and no object; it stays gone, for nobody
\* writes an object under a path that exists.
LEMMA ScanOrphansPreserves ==
  ASSUME UpkeepInv, NEW s \in Sessions, ScanOrphans(s)
  PROVE  UpkeepInv'
<1>1. Busy(s) /\ UNCHANGED <<files, rows, kept, queue, objects>>
  BY DEF ScanOrphans, At, Busy, lists
<1>2. CASE Queued \ objects = {} /\ job[s].mode = "safe"
  <2>1. /\ job'[s].pc = "take" /\ Fields \subseteq DOMAIN job'[s] /\ DOMAIN job' = Sessions
        /\ \A t \in Sessions \ {s} : job'[t] = job[t]
        /\ lock' = lock
    BY <1>2 DEF ScanOrphans, NextInRound, Goto, UpkeepInv, JobShape, Fields
  <2> QED
    BY <1>1, <2>1, QuietStep
<1>3. CASE Queued \ objects = {} /\ job[s].mode # "safe"
  <2>1. Ends(s)
    BY <1>3 DEF ScanOrphans, NextInRound
  <2> QED
    BY <1>1, <2>1, EndsIdle, QuietStep DEF UpkeepInv
<1>4. CASE Queued \ objects # {}
  <2>1. /\ job'[s].pc = "gates" /\ job'[s].found = Queued \ objects
        /\ Fields \subseteq DOMAIN job'[s] /\ DOMAIN job' = Sessions
        /\ \A t \in Sessions \ {s} : job'[t] = job[t]
        /\ lock' = lock
    BY <1>4 DEF ScanOrphans, UpkeepInv, JobShape, Fields
  <2>2. /\ CatalogShape' /\ ClockOK' /\ SnapshotsStayReadable' /\ ObjectsAreKnown'
        /\ Queued \subseteq DOMAIN files
    BY <1>1, Untouched DEF UpkeepInv, CatalogShape, Queued
  <2>3. StillTrue(s)'
    BY <1>1, <2>1, <2>2 DEF StillTrue, StillOld, StillDead, StillGone, StillToDo
  <2> QED
    BY <1>1, <2>1, <2>2, <2>3, SessionStep
<1> QED
  BY <1>2, <1>3, <1>4

\* A gate lets the orphans of the scan pass.
LEMMA PassGatePreserves ==
  ASSUME UpkeepInv, NEW s \in Sessions, PassGate(s)
  PROVE  UpkeepInv'
<1>1. /\ job[s].pc \in {"gates", "vectors"} /\ Busy(s)
      /\ UNCHANGED <<files, rows, kept, queue, objects, lock>>
  BY DEF PassGate, At, Busy, lists
<1>2. PICK pc \in {"vectors", "delete"} : job' = [job EXCEPT ![s].pc = pc]
  BY DEF PassGate, Goto
<1>3. /\ job'[s].pc \in {"vectors", "delete"} /\ job'[s].found = job[s].found
      /\ Fields \subseteq DOMAIN job'[s] /\ DOMAIN job' = Sessions
      /\ \A t \in Sessions \ {s} : job'[t] = job[t]
  BY <1>2 DEF UpkeepInv, JobShape, Fields
<1>4. CatalogShape' /\ ClockOK' /\ SnapshotsStayReadable' /\ ObjectsAreKnown'
  BY <1>1, Untouched
<1>5. job[s].found \subseteq DOMAIN files \ objects
  BY <1>1 DEF UpkeepInv, ReadingsHold, StillTrue, StillGone
<1>6. StillTrue(s)'
  BY <1>1, <1>3, <1>5 DEF StillTrue, StillOld, StillDead, StillGone, StillToDo
<1> QED
  BY <1>1, <1>3, <1>4, <1>6, SessionStep

\* heal-orphans forgets only objects that are gone.
LEMMA HealPreserves ==
  ASSUME UpkeepInv, NEW s \in Sessions, Heal(s)
  PROVE  UpkeepInv'
<1>1. /\ job[s].pc = "delete" /\ Busy(s) /\ UNCHANGED <<files, rows, kept, objects>>
      /\ queue' = [o \in DOMAIN queue |-> IF o \in job[s].found THEN 0 ELSE queue[o]]
  BY DEF Heal, At, Busy, Without
<1>2. /\ job'[s].pc \in {"idle", "take"} /\ Fields \subseteq DOMAIN job'[s] /\ DOMAIN job' = Sessions
      /\ \A t \in Sessions \ {s} : job'[t] = job[t]
      /\ lock' = lock \/ job'[s].pc = "idle"
  <2>1. CASE job[s].mode = "safe"
    BY <2>1 DEF Heal, UpkeepInv, JobShape, Fields
  <2>2. CASE job[s].mode # "safe"
    BY <2>2, EndsIdle DEF Heal, UpkeepInv
  <2> QED
    BY <2>1, <2>2
<1>3. job[s].found \subseteq DOMAIN files \ objects
  BY <1>1 DEF UpkeepInv, ReadingsHold, StillTrue, StillGone
<1>4. queue' \in [DOMAIN files -> Nat] /\ Queued' = Queued \ job[s].found
  BY <1>1 DEF UpkeepInv, CatalogShape, Queued
<1>5. CatalogShape' /\ ClockOK' /\ SnapshotsStayReadable' /\ ObjectsAreKnown'
  BY <1>1, <1>3, <1>4, QueueOnly
<1>6. StillTrue(s)'
  BY <1>2 DEF StillTrue, StillOld, StillDead, StillGone, StillToDo
<1> QED
  BY <1>1, <1>2, <1>5, <1>6, SessionStep

\* The removal reads the queue, ...
LEMMA TakeQueuePreserves ==
  ASSUME UpkeepInv, NEW s \in Sessions, TakeQueue(s)
  PROVE  UpkeepInv'
<1>1. PICK Q \in SUBSET Queued :
        job' = [job EXCEPT ![s].pc = "remove", ![s].taken = Q, ![s].todo = Q,
                           ![s].twice = {o \in Q : queue[o] > 1}]
  BY DEF TakeQueue
<1>2. Busy(s) /\ UNCHANGED <<files, rows, kept, queue, objects, lock>>
  BY DEF TakeQueue, At, Busy, lists
<1>3. /\ job'[s].pc = "remove" /\ job'[s].taken = Q /\ job'[s].todo = Q
      /\ Fields \subseteq DOMAIN job'[s] /\ DOMAIN job' = Sessions
      /\ \A t \in Sessions \ {s} : job'[t] = job[t]
  BY <1>1 DEF UpkeepInv, JobShape, Fields
<1>4. /\ CatalogShape' /\ ClockOK' /\ SnapshotsStayReadable' /\ ObjectsAreKnown'
      /\ Queued' = Queued
  BY <1>2, Untouched
<1>5. StillTrue(s)'
  BY <1>2, <1>3, <1>4 DEF StillTrue, StillOld, StillDead, StillGone, StillToDo
<1> QED
  BY <1>2, <1>3, <1>4, <1>5, SessionStep

\* ... deletes object by object, ...
LEMMA RemoveObjectPreserves ==
  ASSUME UpkeepInv, NEW s \in Sessions, RemoveObject(s)
  PROVE  UpkeepInv'
<1>1. PICK o \in job[s].todo \cap objects :
        /\ objects' = objects \ {o}
        /\ job' = [job EXCEPT ![s].todo = @ \ ({o} \ job[s].twice)]
  BY DEF RemoveObject
<1>2. job[s].pc = "remove" /\ Busy(s) /\ UNCHANGED <<files, rows, kept, queue, lock>>
  BY DEF RemoveObject, At, Busy, lists
<1>3. /\ job'[s].pc = "remove" /\ job'[s].taken = job[s].taken
      /\ job[s].todo \ {o} \subseteq job'[s].todo /\ job'[s].todo \subseteq job[s].todo
      /\ Fields \subseteq DOMAIN job'[s] /\ DOMAIN job' = Sessions
      /\ \A t \in Sessions \ {s} : job'[t] = job[t]
  BY <1>1, <1>2 DEF UpkeepInv, JobShape, Fields
<1>4. Queued' = Queued /\ StillToDo(s) /\ o \in Queued
  BY <1>2 DEF UpkeepInv, ReadingsHold, StillTrue, StillToDo, Queued
<1>5. CatalogShape' /\ ClockOK' /\ SnapshotsStayReadable' /\ ObjectsAreKnown'
  BY <1>1, <1>2, <1>4
     DEF UpkeepInv, CatalogShape, ClockOK, Head, SnapshotsStayReadable, ObjectsAreKnown
<1>6. StillTrue(s)'
  BY <1>1, <1>2, <1>3, <1>4 DEF StillTrue, StillOld, StillDead, StillGone, StillToDo
<1> QED
  BY <1>2, <1>3, <1>5, <1>6, SessionStep

\* ... and drops the rows when every object of them is gone.
LEMMA RemovalCommitsPreserves ==
  ASSUME UpkeepInv, NEW s \in Sessions, RemovalCommits(s)
  PROVE  UpkeepInv'
<1>1. /\ job[s].pc = "remove" /\ job[s].todo = {} /\ Busy(s) /\ Ends(s)
      /\ UNCHANGED <<files, rows, kept, objects>>
      /\ queue' = [o \in DOMAIN queue |-> IF o \in job[s].taken THEN 0 ELSE queue[o]]
  BY DEF RemovalCommits, At, Busy
<1>2. job[s].taken \cap objects = {}
  BY <1>1 DEF UpkeepInv, ReadingsHold, StillTrue, StillToDo
<1>3. queue' \in [DOMAIN files -> Nat] /\ Queued' = Queued \ job[s].taken
  BY <1>1 DEF UpkeepInv, CatalogShape, Queued
<1>4. CatalogShape' /\ ClockOK' /\ SnapshotsStayReadable' /\ ObjectsAreKnown'
  BY <1>1, <1>2, <1>3, QueueOnly
<1>5. /\ job'[s].pc = "idle" /\ Fields \subseteq DOMAIN job'[s] /\ DOMAIN job' = Sessions
      /\ \A t \in Sessions \ {s} : job'[t] = job[t]
  BY <1>1, EndsIdle DEF UpkeepInv
<1>6. StillTrue(s)'
  BY <1>5 DEF StillTrue, StillOld, StillDead, StillGone, StillToDo
<1> QED
  BY <1>1, <1>4, <1>5, <1>6, SessionStep

\* A removal that crashes rolls its rows back; the next round reads anew.
LEMMA RemovalCrashesPreserves ==
  ASSUME UpkeepInv, NEW s \in Sessions, Busy(s), RemovalCrashes(s)
  PROVE  UpkeepInv'
<1>1. UNCHANGED <<files, rows, kept, queue, objects>>
  BY DEF RemovalCrashes, lists
<1>2. CASE job[s].mode # "safe"
  BY <1>1, <1>2, EndsIdle, QuietStep DEF RemovalCrashes, UpkeepInv
<1>3. CASE job[s].mode = "safe"
  <2>1. /\ job' = [job EXCEPT ![s] =
                     [IdleJob EXCEPT !.mode = "safe", !.tries = job[s].tries + 1, !.size = StartSize,
                        !.pc = IF job[s].tries + 1 = MaxIterations THEN "exhausted" ELSE "dedup"]]
        /\ lock' = IF job[s].tries + 1 = MaxIterations THEN "free" ELSE lock
    BY <1>3 DEF RemovalCrashes
  <2>2. /\ job'[s].pc = IF job[s].tries + 1 = MaxIterations THEN "exhausted" ELSE "dedup"
        /\ Fields \subseteq DOMAIN job'[s] /\ DOMAIN job' = Sessions
        /\ \A t \in Sessions \ {s} : job'[t] = job[t]
    BY <2>1 DEF UpkeepInv, JobShape, Fields, IdleJob
  <2> QED
    BY <1>1, <2>1, <2>2, QuietStep
<1> QED
  BY <1>2, <1>3

\* The ids of a batch are read: old snapshots, and never the head.
LEMMA BatchSelectionPreserves ==
  ASSUME UpkeepInv, NEW s \in Sessions, SelectBatch(s)
  PROVE  UpkeepInv'
<1>1. Busy(s) /\ UNCHANGED <<files, rows, kept, queue, objects>>
  BY DEF SelectBatch, At, Busy, lists
<1>2. CASE Ends(s)
  BY <1>1, <1>2, EndsIdle, QuietStep DEF UpkeepInv
<1>3. CASE ~Ends(s)
  <2> DEFINE batch == NextBatch(job[s].cut)
  <2>1. PICK left :
          job' = [job EXCEPT ![s].pc = "schedule", ![s].batch = batch, ![s].left = left]
    BY <1>3 DEF SelectBatch
  <2>2. batch \subseteq kept \ {Head}
    BY DEF NextBatch, OlderThan
  <2> HIDE DEF batch
  <2>3. /\ job'[s].pc = "schedule" /\ job'[s].batch = batch /\ Fields \subseteq DOMAIN job'[s] /\ DOMAIN job' = Sessions
        /\ \A t \in Sessions \ {s} : job'[t] = job[t]
    BY <2>1 DEF UpkeepInv, JobShape, Fields
  <2>4. lock' = lock
    BY <1>3 DEF SelectBatch
  <2>5. /\ CatalogShape' /\ ClockOK' /\ SnapshotsStayReadable' /\ ObjectsAreKnown'
        /\ Head' = Head
    BY <1>1, Untouched
  <2>6. batch \subseteq Nat \ {0} /\ \A n \in batch : n < Head
    BY <2>2, HeadIsNewest DEF UpkeepInv, ClockOK
  <2>7. StillTrue(s)'
    BY <2>3, <2>5, <2>6 DEF StillTrue, StillOld, StillDead, StillGone, StillToDo
  <2> QED
    BY <1>1, <2>3, <2>4, <2>5, <2>7, SessionStep
<1> QED
  BY <1>2, <1>3

\* A page of registry rows is read, or there is none left.
LEMMA PageSelectionPreserves ==
  ASSUME UpkeepInv, NEW s \in Sessions, SelectPage(s)
  PROVE  UpkeepInv'
<1>1. Busy(s) /\ UNCHANGED <<files, rows, kept, queue, objects>>
  BY DEF SelectPage, At, Busy, lists
<1>2. CASE Ends(s)
  BY <1>1, <1>2, EndsIdle, QuietStep DEF UpkeepInv
<1>3. CASE ~Ends(s)
  <2>1. PICK page, full :
          job' = [job EXCEPT ![s].pc = "row", ![s].page = page, ![s].full = full]
    BY <1>3 DEF SelectPage
  <2>2. /\ job'[s].pc = "row" /\ Fields \subseteq DOMAIN job'[s] /\ DOMAIN job' = Sessions
        /\ \A t \in Sessions \ {s} : job'[t] = job[t]
    BY <2>1 DEF UpkeepInv, JobShape, Fields
  <2>3. lock' = lock
    BY <1>3 DEF SelectPage
  <2> QED
    BY <1>1, <2>2, <2>3, QuietStep
<1> QED
  BY <1>2, <1>3

\* A registry row is taken, or the deadline ends the page.
LEMMA RowsPreserve ==
  ASSUME UpkeepInv, NEW s \in Sessions, TakeRow(s) \/ Truncate(s)
  PROVE  UpkeepInv'
<1>1. job[s].pc = "row" /\ Busy(s) /\ UNCHANGED <<files, rows, kept, queue, objects, lock>>
  BY DEF TakeRow, Truncate, At, Busy, lists
<1>2. /\ job'[s].pc = "row" /\ Fields \subseteq DOMAIN job'[s] /\ DOMAIN job' = Sessions
      /\ \A t \in Sessions \ {s} : job'[t] = job[t]
  <2>1. CASE TakeRow(s)
    BY <1>1, <2>1 DEF TakeRow, UpkeepInv, JobShape, Fields
  <2>2. CASE Truncate(s)
    BY <1>1, <2>2 DEF Truncate, UpkeepInv, JobShape, Fields
  <2> QED
    BY <2>1, <2>2
<1> QED
  BY <1>1, <1>2, QuietStep

\* The page commits, and the next one starts or the command ends.
LEMMA CommitPagePreserves ==
  ASSUME UpkeepInv, NEW s \in Sessions, CommitPage(s)
  PROVE  UpkeepInv'
<1>1. Busy(s) /\ UNCHANGED <<files, rows, kept, queue, objects>>
  BY DEF CommitPage, At, Busy, lists
<1>2. CASE ~job[s].full
  BY <1>1, <1>2, EndsIdle, QuietStep DEF CommitPage, UpkeepInv
<1>3. CASE job[s].full
  <2>1. PICK clean, size :
          job' = [job EXCEPT ![s] =
                    [IdleJob EXCEPT !.pc = "page", !.mode = "inline", !.after = job[s].last,
                       !.last = job[s].last, !.clean = clean, !.size = size]]
    BY <1>3 DEF CommitPage
  <2>2. /\ job'[s].pc = "page" /\ Fields \subseteq DOMAIN job'[s] /\ DOMAIN job' = Sessions
        /\ \A t \in Sessions \ {s} : job'[t] = job[t]
    BY <2>1 DEF UpkeepInv, JobShape, Fields, IdleJob
  <2>3. lock' = lock
    BY <1>3 DEF CommitPage
  <2> QED
    BY <1>1, <2>2, <2>3, QuietStep
<1> QED
  BY <1>2, <1>3

\* A page that fails is rolled back and tried again.
LEMMA PageFailurePreserves ==
  ASSUME UpkeepInv, NEW s \in Sessions, PageFails(s)
  PROVE  UpkeepInv'
<1>1. Busy(s) /\ UNCHANGED <<files, rows, kept, queue, objects>>
  BY DEF PageFails, At, Busy, lists
<1>2. CASE Ends(s)
  BY <1>1, <1>2, EndsIdle, QuietStep DEF UpkeepInv
<1>3. CASE ~Ends(s)
  <2>1. PICK tries, size :
          job' = [job EXCEPT ![s].pc = "page", ![s].tries = tries, ![s].size = size,
                    ![s].last = job[s].after, ![s].page = {}, ![s].full = FALSE,
                    ![s].dropping = {}, ![s].deleting = {}]
    BY <1>3 DEF PageFails
  <2>2. /\ job'[s].pc = "page" /\ Fields \subseteq DOMAIN job'[s] /\ DOMAIN job' = Sessions
        /\ \A t \in Sessions \ {s} : job'[t] = job[t]
    BY <2>1 DEF UpkeepInv, JobShape, Fields
  <2>3. lock' = lock
    BY <1>3 DEF PageFails
  <2> QED
    BY <1>1, <2>2, <2>3, QuietStep
<1> QED
  BY <1>2, <1>3

\* A command that ends without a commit.
LEMMA EndingPreserves ==
  ASSUME UpkeepInv, NEW s \in Sessions, SessionFails(s) \/ GatesFail(s) \/ OutOfBudget(s)
  PROVE  UpkeepInv'
<1>1. Busy(s) /\ Ends(s) /\ UNCHANGED <<files, rows, kept, queue, objects>>
  BY DEF SessionFails, GatesFail, OutOfBudget, At, Busy, lists
<1> QED
  BY <1>1, EndsIdle, QuietStep DEF UpkeepInv

\* A removal meets an object that is gone, or another error of S3.
LEMMA CrashPreserves ==
  ASSUME UpkeepInv, NEW s \in Sessions, NoSuchKey(s) \/ RemovalFails(s)
  PROVE  UpkeepInv'
<1>1. Busy(s) /\ RemovalCrashes(s)
  BY DEF NoSuchKey, RemovalFails, At, Busy
<1> QED
  BY <1>1, RemovalCrashesPreserves

-----------------------------------------------------------------------------
\* The catalog as a deployment finds it has nothing queued and all listed.
LEMMA UpkeepInvInit == Init => UpkeepInv
<1> SUFFICES ASSUME Init
             PROVE  UpkeepInv
  OBVIOUS
<1>1. Cardinality(DOMAIN InitialFiles) \in Nat
  BY HistoryAssumption, FS_CardinalityType
<1>2. CatalogShape
  BY <1>1, HistoryAssumption DEF Init, CatalogShape
<1>3. JobShape /\ \A s \in Sessions : job[s].pc = "idle"
  BY DEF Init, JobShape, Fields, IdleJob
<1>4. LockHeld /\ ReadingsHold
  BY <1>3 DEF LockHeld, Busy, ReadingsHold, StillTrue, StillOld, StillDead, StillGone, StillToDo
<1>5. ObjectsAreKnown /\ SnapshotsStayReadable
  BY DEF Init, ObjectsAreKnown, SnapshotsStayReadable, Queued
<1>6. ClockOK
  <2> DEFINE h == Cardinality(DOMAIN SnapshotTime)
  <2>1. h \in Nat /\ kept = 1 .. h /\ h # 0 /\ files = InitialFiles
    BY HistoryAssumption, FS_CardinalityType DEF Init
  <2> HIDE DEF h
  <2>2. kept \in SUBSET Nat /\ h \in kept /\ \A n \in kept : n <= h
    BY <2>1
  <2>3. Head = h
    BY <2>2, HighestIs DEF Head
  <2>4. \A o \in DOMAIN files :
          files[o] \in [begin : kept, end : kept \cup {0}, of : Nat]
    BY <2>1, HistoryAssumption DEF Init
  <2>5. files = [o \in DOMAIN files |-> files[o]]
    BY <2>1, HistoryAssumption
  <2> QED
    BY <2>1, <2>2, <2>3, <2>4, <2>5 DEF ClockOK
<1> QED
  BY <1>2, <1>3, <1>4, <1>5, <1>6 DEF UpkeepInv

\* Every step of the engine and of a session keeps the invariant.
LEMMA UpkeepInvStep == UpkeepInv /\ [Next]_vars => UpkeepInv'
<1> SUFFICES ASSUME UpkeepInv, [Next]_vars
             PROVE  UpkeepInv'
  OBVIOUS
<1>1. CASE Engine
  BY <1>1, EnginePreserves
<1>2. ASSUME NEW s \in Sessions, Start(s)
      PROVE  UpkeepInv'
  BY <1>2, StartPreserves
<1>3. ASSUME NEW s \in Sessions, Step(s)
      PROVE  UpkeepInv'
  <2>1. CASE Expire(s) \/ SelectBatch(s) \/ Schedule(s) \/ CommitBatch(s)
    BY <2>1, ExpirePreserves, BatchSelectionPreserves, SchedulePreserves, CommitBatchPreserves
  <2>2. CASE Dedup(s) \/ ScanOrphans(s) \/ PassGate(s) \/ GatesFail(s) \/ Heal(s)
    BY <2>2, DedupPreserves, ScanOrphansPreserves, PassGatePreserves, EndingPreserves, HealPreserves
  <2>3. CASE TakeQueue(s) \/ RemoveObject(s) \/ NoSuchKey(s) \/ RemovalCommits(s)
    BY <2>3, TakeQueuePreserves, RemoveObjectPreserves, CrashPreserves, RemovalCommitsPreserves
  <2>4. CASE SelectPage(s) \/ TakeRow(s) \/ CommitPage(s)
    BY <2>4, PageSelectionPreserves, RowsPreserve, CommitPagePreserves
  <2> QED
    BY <1>3, <2>1, <2>2, <2>3, <2>4 DEF Step
<1>4. ASSUME NEW s \in Sessions, Faults(s)
      PROVE  UpkeepInv'
  BY <1>4, EndingPreserves, CrashPreserves, PageFailurePreserves, RowsPreserve DEF Faults
<1>5. CASE UNCHANGED vars
  BY <1>5 DEF vars, lists, inlined, UpkeepInv, JobShape, CatalogShape, ClockOK, LockHeld, Busy,
     ReadingsHold, StillTrue, StillOld, StillDead, StillGone, StillToDo, ObjectsAreKnown,
     SnapshotsStayReadable, Queued, Head
<1> QED
  BY <1>1, <1>2, <1>3, <1>4, <1>5 DEF Next

\* The advisory lock, and what a session relies on between two statements,
\* hold in every reachable state.
THEOREM UpkeepInvariant == Spec => []UpkeepInv
<1> QED
  BY UpkeepInvInit, UpkeepInvStep, PTL DEF Spec

\* Every object in S3 is listed or queued, through every expiry, repair, crash
\* and rollback, for any number of sessions and whatever the engine does.
THEOREM ObjectsAreNeverForgotten == Spec => []ObjectsAreKnown
<1>1. UpkeepInv => ObjectsAreKnown
  BY DEF UpkeepInv
<1> QED
  BY <1>1, UpkeepInvariant, PTL

\* Whatever is expired, by the engine or by a batch that counts on what it read
\* before, a remaining snapshot finds every object listed, stored and not
\* waiting for deletion, for every history and every order of the commits.
THEOREM SnapshotsAlwaysReadable == Spec => []SnapshotsStayReadable
<1>1. UpkeepInv => SnapshotsStayReadable
  BY DEF UpkeepInv
<1> QED
  BY <1>1, UpkeepInvariant, PTL

\* pg_try_advisory_lock at the start of every command is enough to keep two
\* commands from running at once.
THEOREM OneCommandAtATime ==
  Spec => [](\A s, t \in Sessions : Busy(s) /\ Busy(t) => s = t)
<1>1. UpkeepInv => \A s, t \in Sessions : Busy(s) /\ Busy(t) => s = t
  BY DEF UpkeepInv, LockHeld
<1> QED
  BY <1>1, UpkeepInvariant, PTL

-----------------------------------------------------------------------------
(* The rest of what the runs check: what a session is doing, the tables of *)
(* inlined data, the queue and its troubles, and the size of a batch.      *)

Pcs == {"idle", "exhausted", "expiry", "select", "schedule", "cascade", "dedup", "scan", "gates",
        "vectors", "delete", "take", "remove", "page", "row"}

(* A session's record over the objects F.                                  *)
JobSet(F) ==
  [pc : Pcs, mode : Modes, cut : Nat, left : Nat, batch : SUBSET Nat, dead : SUBSET F,
   found : SUBSET F, taken : SUBSET F, todo : SUBSET F, twice : SUBSET F, tries : Nat, size : Nat,
   clean : Nat, after : Nat, last : Nat, page : SUBSET Tables, full : BOOLEAN,
   dropping : SUBSET Tables, deleting : SUBSET Tables]

(* Which fields of it are in use, and within which limits.                 *)
InUse(s) ==
  /\ job[s].pc \notin {"schedule", "cascade"} => job[s].batch = {}
  /\ job[s].pc # "remove" => job[s].todo = {} /\ job[s].twice = {}
  /\ job[s].pc # "row" => job[s].page = {} /\ job[s].dropping = {} /\ job[s].deleting = {}
  /\ job[s].pc \in {"page", "row"} => job[s].mode = "inline"
  /\ job[s].todo \cup job[s].twice \subseteq job[s].taken
  /\ job[s].dropping \subseteq job[s].deleting
  /\ job[s].mode = "safe" /\ job[s].pc # "exhausted" => job[s].tries < MaxIterations
  /\ job[s].pc = "exhausted" => job[s].mode = "safe" /\ job[s].tries = MaxIterations
  /\ job[s].mode # "safe" => job[s].tries < MaxAttempts
  /\ job[s].size <= StartSize

JobsOK == job \in [Sessions -> JobSet(DOMAIN files)] /\ \A s \in Sessions : InUse(s)

BoundsOK ==
  /\ spent \in [commits : Nat, runs : Nat, upsets : Nat] /\ spent.upsets <= MaxUpsets
  /\ lock \in Sessions \cup {"free"}

TablesOK ==
  /\ life \in [Tables -> [begin : Nat, end : Nat]] /\ \A t \in Tables : life[t].begin <= Head
  /\ registry \subseteq Tables /\ present \subseteq Tables /\ filled \subseteq Tables
  /\ NeededTablesStay

(* What a page holds is past every remaining snapshot, and what it drops   *)
(* is there, holds no row and goes with its registry row.                  *)
PageOK(s) ==
  job[s].pc = "row" =>
    /\ \A t \in job[s].page \cup job[s].deleting :
         life[t].end # 0 /\ \A n \in kept : life[t].end <= n
    /\ job[s].dropping = job[s].deleting \cap present /\ job[s].dropping \cap filled = {}
    /\ Cardinality(job[s].page) + Cardinality(job[s].dropping) <= job[s].size

(* Nothing listed is queued, and an upset comes before every second row    *)
(* for one object.                                                         *)
QueueOK ==
  /\ rows \cap Queued = {}
  /\ \A o \in DOMAIN files : queue[o] <= 1 + spent.upsets

(* What would make the removal of this round of cleanup-all-safe crash.    *)
Poisoned(s) ==
  \/ job[s].pc \in {"scan", "gates", "vectors", "delete", "take"} /\ \E o \in Queued : queue[o] > 1
  \/ /\ job[s].pc \in {"gates", "vectors", "delete"}
     /\ ~ (Queued \subseteq objects \cup job[s].found)
  \/ job[s].pc = "take" /\ ~ (Queued \subseteq objects)
  \/ job[s].pc = "remove" /\ (job[s].twice # {} \/ ~ (job[s].todo \subseteq objects))

RoundOK(s) ==
  /\ job[s].pc = "cascade" => \A o \in job[s].taken : queue[o] <= spent.upsets
  /\ job[s].mode = "safe" => job[s].tries <= spent.upsets
  /\ job[s].mode = "safe" /\ Poisoned(s) => job[s].tries < spent.upsets

SessionsOK == \A s \in Sessions : PageOK(s) /\ RoundOK(s)

RestInv == JobsOK /\ BoundsOK /\ TablesOK /\ QueueOK /\ SessionsOK

\* LowestIn, the MIN() over the snapshots that are kept.
LEMMA LowestExists ==
  ASSUME NEW S \in SUBSET Nat, S # {}
  PROVE  LowestIn(S) \in S /\ \A m \in S : LowestIn(S) <= m
BY HasLeast, Zenon DEF LowestIn

\* The batch a command starts with is the operator's number within its limits.
LEMMA StartSizeBounds ==
  /\ StartSize \in Nat /\ LockBudget \in Nat /\ Capacity \div ShareOf \in Nat
  /\ StartSize <= MinBatch \/ StartSize <= LockBudget
<1>1. {Requested, Capacity, ShareOf, EntriesPerDrop, MinBatch, MaxBatch} \subseteq Nat \ {0}
  BY NumberAssumption
<1>2. Capacity \div ShareOf \in Nat
  BY <1>1
<1>3. LockBudget \in Nat
  BY <1>1, <1>2 DEF LockBudget
<1> QED
  BY <1>1, <1>2, <1>3 DEF StartSize, Lesser, Greater

\* One session's record changes, and no other.
LEMMA Moved ==
  ASSUME JobsOK, NEW s \in Sessions, NEW j \in JobSet(DOMAIN files),
         job' = [job EXCEPT ![s] = j]
  PROVE  /\ job' \in [Sessions -> JobSet(DOMAIN files)] /\ job'[s] = j
         /\ \A t \in Sessions \ {s} : job'[t] = job[t]
BY DEF JobsOK

\* A session between two commands uses no field.
LEMMA IdleIsFine ==
  ASSUME NEW F
  PROVE  /\ IdleJob \in JobSet(F) /\ IdleJob.pc = "idle" /\ IdleJob.mode = "dedup"
         /\ IdleJob.tries = 0 /\ IdleJob.size = 0
         /\ IdleJob.batch = {} /\ IdleJob.todo = {} /\ IdleJob.twice = {} /\ IdleJob.taken = {}
         /\ IdleJob.page = {} /\ IdleJob.dropping = {} /\ IdleJob.deleting = {}
BY DEF IdleJob, JobSet, Pcs, Modes

\* A command that ends, with the session's record.
LEMMA EndsClean ==
  ASSUME JobsOK, NEW s \in Sessions, Ends(s), UNCHANGED files
  PROVE  /\ job' \in [Sessions -> JobSet(DOMAIN files)] /\ \A t \in Sessions \ {s} : job'[t] = job[t]
         /\ job'[s].pc = "idle" /\ job'[s].mode = "dedup"
         /\ InUse(s)' /\ PageOK(s)' /\ RoundOK(s)'
         /\ lock' \in {lock, "free"}
<1>1. /\ job' \in [Sessions -> JobSet(DOMAIN files)] /\ job'[s] = IdleJob
      /\ \A t \in Sessions \ {s} : job'[t] = job[t]
      /\ lock' \in {lock, "free"}
  BY IdleIsFine, Moved DEF Ends
<1>2. /\ job'[s].pc = "idle" /\ job'[s].mode = "dedup"
      /\ job'[s].tries = 0 /\ job'[s].size = 0
      /\ job'[s].batch = {} /\ job'[s].todo = {} /\ job'[s].twice = {} /\ job'[s].taken = {}
      /\ job'[s].page = {} /\ job'[s].dropping = {} /\ job'[s].deleting = {}
  BY <1>1, IdleIsFine
<1>3. MaxAttempts \in Nat \ {0}
  BY NumberAssumption
<1>4. InUse(s)'
  BY <1>2, <1>3, StartSizeBounds DEF InUse
<1>5. PageOK(s)'
  BY <1>2 DEF PageOK
<1>6. RoundOK(s)'
  BY <1>2 DEF RoundOK
<1> QED
  BY <1>1, <1>2, <1>4, <1>5, <1>6

\* What a session that is not running has to hold to.
LEMMA RestsQuietly ==
  ASSUME RestInv, NEW t \in Sessions, ~ Busy(t), job'[t] = job[t],
         spent.upsets <= spent'.upsets, BoundsOK'
  PROVE  InUse(t)' /\ PageOK(t)' /\ RoundOK(t)'
<1>1. /\ job[t].pc \in {"idle", "exhausted"} /\ job[t].tries \in Nat
      /\ InUse(t) /\ RoundOK(t)
  BY DEF RestInv, JobsOK, SessionsOK, Busy, JobSet
<1>2. spent.upsets \in Nat /\ spent'.upsets \in Nat
  BY DEF RestInv, BoundsOK
<1>3. InUse(t)'
  BY <1>1 DEF InUse
<1>4. PageOK(t)'
  BY <1>1 DEF PageOK
<1>5. RoundOK(t)'
  BY <1>1, <1>2 DEF RoundOK, Poisoned
<1> QED
  BY <1>3, <1>4, <1>5

\* A failure or an upset of the engine is counted, and the lock is a session's
\* or free.
LEMMA UpsetsGrow ==
  ASSUME BoundsOK, UNCHANGED spent \/ Upset, lock' \in Sessions \cup {lock, "free"}
  PROVE  BoundsOK' /\ spent.upsets <= spent'.upsets
<1>1. CASE UNCHANGED spent
  BY <1>1 DEF BoundsOK
<1>2. CASE Upset
  <2>1. /\ spent' = [spent EXCEPT !.upsets = @ + 1] /\ spent.upsets < MaxUpsets
        /\ spent \in [commits : Nat, runs : Nat, upsets : Nat] /\ MaxUpsets \in Nat
    BY <1>2, NumberAssumption DEF Upset, BoundsOK
  <2>2. /\ spent' \in [commits : Nat, runs : Nat, upsets : Nat]
        /\ spent'.upsets = spent.upsets + 1 /\ spent.upsets \in Nat
    BY <2>1
  <2> QED
    BY <2>1, <2>2 DEF BoundsOK
<1> QED
  BY <1>1, <1>2

\* A step of the session that holds the lock.
LEMMA RestSession ==
  ASSUME UpkeepInv, RestInv, NEW s \in Sessions, Busy(s), UNCHANGED files,
         job' \in [Sessions -> JobSet(DOMAIN files)], \A t \in Sessions \ {s} : job'[t] = job[t],
         InUse(s)', lock' \in {lock, "free"}, UNCHANGED spent \/ Upset,
         TablesOK', QueueOK', PageOK(s)', RoundOK(s)'
  PROVE  RestInv'
<1>1. BoundsOK' /\ spent.upsets <= spent'.upsets
  BY UpsetsGrow DEF RestInv
<1>2. \A t \in Sessions \ {s} : ~ Busy(t)
  BY Alone DEF UpkeepInv
<1>3. \A t \in Sessions : InUse(t)' /\ PageOK(t)' /\ RoundOK(t)'
  BY <1>1, <1>2, RestsQuietly
<1>4. JobsOK' /\ SessionsOK'
  BY <1>3 DEF JobsOK, SessionsOK
<1> QED
  BY <1>1, <1>4 DEF RestInv

\* A step that leaves the inlined tables alone and adds no snapshot.
LEMMA TablesStay ==
  ASSUME UpkeepInv, TablesOK, UNCHANGED inlined, kept' \subseteq kept, Head' = Head
  PROVE  TablesOK'
BY DEF TablesOK, NeededTablesStay, inlined

\* A step that leaves the queue and the lists alone.
LEMMA QueueStays ==
  ASSUME UpkeepInv, QueueOK, UNCHANGED <<files, rows, queue>>, BoundsOK,
         UNCHANGED spent \/ Upset
  PROVE  QueueOK'
<1>1. spent.upsets \in Nat /\ spent'.upsets \in Nat /\ spent.upsets <= spent'.upsets
  BY DEF BoundsOK, Upset
<1>2. \A o \in DOMAIN files : queue[o] \in Nat
  BY DEF UpkeepInv, CatalogShape
<1>3. Queued' = Queued
  BY DEF Queued
<1> QED
  BY <1>1, <1>2, <1>3 DEF QueueOK

\* The engine changes no session's record.
LEMMA RestEngine ==
  ASSUME RestInv, UNCHANGED <<lock, job>>, DOMAIN files \subseteq DOMAIN files', BoundsOK',
         TablesOK', QueueOK', \A s \in Sessions : PageOK(s)' /\ RoundOK(s)'
  PROVE  RestInv'
<1>1. JobSet(DOMAIN files) \subseteq JobSet(DOMAIN files')
  <2>1. SUBSET (DOMAIN files) \subseteq SUBSET (DOMAIN files')
    OBVIOUS
  <2> QED
    BY <2>1 DEF JobSet
<1>2. job' \in [Sessions -> JobSet(DOMAIN files')]
  BY <1>1 DEF RestInv, JobsOK
<1>3. \A s \in Sessions : InUse(s)'
  BY DEF RestInv, JobsOK, InUse
<1> QED
  BY <1>2, <1>3 DEF RestInv, JobsOK, SessionsOK

\* A commit brings the snapshot after the head.
LEMMA CommitClock ==
  ASSUME UpkeepInv, kept' = kept \cup {Head + 1}
  PROVE  /\ Head \in Nat /\ Head \in kept /\ kept \subseteq Nat /\ \A n \in kept : n <= Head
         /\ Head' = Head + 1
<1>1. Head \in kept /\ Head \in Nat /\ kept \subseteq Nat /\ \A n \in kept : n <= Head
  BY HeadIsNewest DEF UpkeepInv, ClockOK
<1>2. kept' \in SUBSET Nat /\ Head + 1 \in kept' /\ \A n \in kept' : n <= Head + 1
  BY <1>1
<1>3. HighestIn(kept') = Head + 1
  BY <1>2, HighestIs
<1> QED
  BY <1>1, <1>3 DEF Head

\* A commit: a live table may end, and one that is there and live may get rows.
LEMMA CommitKeepsTables ==
  ASSUME UpkeepInv, RestInv, kept' = kept \cup {Head + 1}, UNCHANGED <<registry, present, job>>,
         life' \in [Tables -> [begin : Nat, end : Nat]],
         \A t \in Tables :
           /\ life'[t].begin = life[t].begin
           /\ life'[t].end = life[t].end \/ (life[t].end = 0 /\ life'[t].end = Head + 1),
         filled' \subseteq filled \cup {t \in present : life[t].end = 0}
  PROVE  TablesOK' /\ \A s \in Sessions : PageOK(s)'
<1>1. /\ Head \in Nat /\ Head \in kept /\ kept \subseteq Nat /\ \A n \in kept : n <= Head
      /\ Head' = Head + 1
  BY CommitClock
<1>2. /\ TablesOK /\ registry \subseteq Tables /\ present \subseteq Tables
      /\ \A t \in Tables : life[t].begin \in Nat /\ life[t].end \in Nat /\ life[t].begin <= Head
  BY DEF RestInv, TablesOK
<1>3. ASSUME NEW t \in Tables, NEW n \in kept', Reads(n, life'[t])
      PROVE  \E m \in kept : Reads(m, life[t])
  <2>1. CASE n \in kept
    BY <1>1, <1>2, <1>3, <2>1 DEF Reads
  <2>2. CASE n = Head + 1
    <3>1. life[t].end = 0 \/ Head < life[t].end
      BY <1>1, <1>2, <1>3, <2>2 DEF Reads
    <3> QED
      BY <1>1, <1>2, <3>1 DEF Reads
  <2> QED
    BY <2>1, <2>2
<1>4. NeededTablesStay'
  BY <1>2, <1>3 DEF TablesOK, NeededTablesStay
<1>5. TablesOK'
  <2>1. \A t \in Tables : life'[t].begin <= Head + 1
    BY <1>1, <1>2
  <2>2. filled' \subseteq Tables
    BY <1>2 DEF TablesOK
  <2> QED
    BY <1>1, <1>2, <1>4, <2>1, <2>2 DEF TablesOK
<1>6. ASSUME NEW s \in Sessions PROVE PageOK(s)'
  <2>1. SUFFICES ASSUME job[s].pc = "row" PROVE PageOK(s)'
    BY DEF PageOK
  <2>2. PageOK(s) /\ job[s] \in JobSet(DOMAIN files)
    BY DEF RestInv, SessionsOK, JobsOK
  <2>3. job[s].page \subseteq Tables /\ job[s].deleting \subseteq Tables
    BY <2>2 DEF JobSet
  <2>4. \A t \in job[s].page \cup job[s].deleting :
          life[t].end # 0 /\ \A n \in kept : life[t].end <= n
    BY <2>1, <2>2 DEF PageOK
  <2>5. \A t \in job[s].page \cup job[s].deleting :
          life'[t].end # 0 /\ \A n \in kept' : life'[t].end <= n
    BY <1>1, <1>2, <2>3, <2>4
  <2>6. /\ job[s].dropping = job[s].deleting \cap present /\ job[s].dropping \cap filled = {}
        /\ Cardinality(job[s].page) + Cardinality(job[s].dropping) <= job[s].size
    BY <2>1, <2>2 DEF PageOK
  <2>7. job[s].dropping \cap filled' = {}
    BY <2>4, <2>6
  <2> QED
    BY <2>5, <2>6, <2>7 DEF PageOK
<1> QED
  BY <1>5, <1>6

\* An object that is new to the catalog poisons no round.
LEMMA CommitKeepsRounds ==
  ASSUME UpkeepInv, RestInv, UNCHANGED job, spent' = [spent EXCEPT !.commits = @ + 1],
         lock' = lock, DOMAIN queue \subseteq DOMAIN queue', CatalogShape',
         \A o \in DOMAIN queue : queue'[o] = queue[o],
         \A o \in DOMAIN queue' \ DOMAIN queue : queue'[o] = 0,
         objects \subseteq objects', rows' \subseteq rows \cup (DOMAIN queue' \ DOMAIN queue)
  PROVE  BoundsOK' /\ QueueOK' /\ \A s \in Sessions : RoundOK(s)'
<1>1. BoundsOK' /\ spent'.upsets = spent.upsets /\ spent.upsets \in Nat
  BY DEF RestInv, BoundsOK
<1>2. DOMAIN queue = DOMAIN files /\ DOMAIN queue' = DOMAIN files'
  BY DEF UpkeepInv, CatalogShape
<1>3. Queued' = Queued
  BY DEF Queued
<1>4. QueueOK'
  <2>1. rows \cap Queued = {} /\ \A o \in DOMAIN files : queue[o] <= 1 + spent.upsets
    BY DEF RestInv, QueueOK
  <2>2. rows' \cap Queued' = {}
    BY <1>3, <2>1 DEF Queued
  <2>3. \A o \in DOMAIN files' : queue'[o] <= 1 + spent'.upsets
    BY <1>1, <1>2, <2>1
  <2> QED
    BY <2>2, <2>3 DEF QueueOK
<1>5. ASSUME NEW s \in Sessions PROVE RoundOK(s)'
  <2>1. RoundOK(s) /\ job[s].taken \subseteq DOMAIN queue
    BY <1>2 DEF RestInv, SessionsOK, JobsOK, JobSet
  <2>2. Poisoned(s)' => Poisoned(s)
    BY <1>3 DEF Poisoned, Queued
  <2> QED
    BY <1>1, <2>1, <2>2 DEF RoundOK
<1> QED
  BY <1>1, <1>4, <1>5

\* A merge lists one object more, which is stored and not queued.
LEMMA MergeKeepsRest ==
  ASSUME UpkeepInv, RestInv, EngineMerges
  PROVE  RestInv'
<1> DEFINE new == HighestIn(DOMAIN files) + 1
<1>1. PICK n \in Nat : DOMAIN files = 1 .. n
  BY DEF UpkeepInv, CatalogShape
<1>2. n # 0
  BY <1>1 DEF UpkeepInv, CatalogShape, EngineMerges
<1>3. new = n + 1
  <2>1. DOMAIN files \in SUBSET Nat /\ n \in DOMAIN files /\ \A m \in DOMAIN files : m <= n
    BY <1>1, <1>2
  <2> QED
    BY <2>1, HighestIs
<1>4. /\ DOMAIN files' = DOMAIN files \cup {new}
      /\ rows' = rows \cup {new}
      /\ queue' = [f \in DOMAIN files \cup {new} |-> IF f = new THEN 0 ELSE queue[f]]
      /\ objects' = objects \cup {new}
  BY Zenon DEF EngineMerges
<1>5. /\ UNCHANGED <<job, lock, registry, present, life, filled>> /\ kept' = kept \cup {Head + 1}
      /\ spent' = [spent EXCEPT !.commits = @ + 1]
  BY DEF EngineMerges, EngineCommits
<1>6. new \notin DOMAIN files /\ DOMAIN queue = DOMAIN files
  BY <1>1, <1>3 DEF UpkeepInv, CatalogShape
<1> HIDE DEF new
<1>7. CatalogShape'
  BY MergePreserves DEF UpkeepInv
<1>8. BoundsOK' /\ QueueOK' /\ \A s \in Sessions : RoundOK(s)'
  BY <1>4, <1>5, <1>6, <1>7, CommitKeepsRounds
<1>9. TablesOK' /\ \A s \in Sessions : PageOK(s)'
  <2>1. life' \in [Tables -> [begin : Nat, end : Nat]] /\ life' = life
    BY <1>5 DEF RestInv, TablesOK
  <2>2. \A t \in Tables :
          /\ life'[t].begin = life[t].begin
          /\ life'[t].end = life[t].end \/ (life[t].end = 0 /\ life'[t].end = Head + 1)
    BY <2>1
  <2>3. filled' \subseteq filled \cup {t \in present : life[t].end = 0}
    BY <1>5
  <2> QED
    BY <1>5, <2>1, <2>2, <2>3, CommitKeepsTables
<1> QED
  BY <1>4, <1>5, <1>8, <1>9, RestEngine

\* A commit that neither lists nor queues.
LEMMA OtherCommitKeepsRest ==
  ASSUME UpkeepInv, RestInv, EngineDeletes \/ EngineInlines \/ EngineDropsTable
  PROVE  RestInv'
<1>0. EngineDeletes \/ EngineInlines \/ EngineDropsTable
  OBVIOUS
<1>1. /\ UNCHANGED <<rows, queue, objects, job, lock, registry, present>>
      /\ kept' = kept \cup {Head + 1} /\ spent' = [spent EXCEPT !.commits = @ + 1]
      /\ DOMAIN files' = DOMAIN files
  BY DEF EngineDeletes, EngineInlines, EngineDropsTable, EngineCommits
<1>2. CatalogShape'
  BY DeletePreserves, InlineCommitPreserves DEF UpkeepInv
<1>3. BoundsOK' /\ QueueOK' /\ \A s \in Sessions : RoundOK(s)'
  BY <1>1, <1>2, CommitKeepsRounds
<1>4. Head \in Nat /\ life \in [Tables -> [begin : Nat, end : Nat]]
  BY HeadIsNewest DEF UpkeepInv, RestInv, TablesOK
<1>5. /\ life' \in [Tables -> [begin : Nat, end : Nat]]
      /\ \A t \in Tables :
           /\ life'[t].begin = life[t].begin
           /\ life'[t].end = life[t].end \/ (life[t].end = 0 /\ life'[t].end = Head + 1)
      /\ filled' \subseteq filled \cup {t \in present : life[t].end = 0}
  <2>1. CASE EngineDeletes \/ EngineInlines
    <3>1. life' = life
      BY <2>1 DEF EngineDeletes, EngineInlines
    <3>2. filled' \subseteq filled \cup {t \in present : life[t].end = 0}
      BY <2>1 DEF EngineDeletes, EngineInlines
    <3>3. \A t \in Tables :
            /\ life'[t].begin = life[t].begin
            /\ life'[t].end = life[t].end \/ (life[t].end = 0 /\ life'[t].end = Head + 1)
      BY <3>1
    <3> QED
      BY <1>4, <3>1, <3>2, <3>3
  <2>3. CASE EngineDropsTable
    <3>1. PICK t \in Tables : life[t].end = 0 /\ life' = [life EXCEPT ![t].end = Head + 1]
      BY <2>3 DEF EngineDropsTable
    <3>2. UNCHANGED filled
      BY <2>3 DEF EngineDropsTable
    <3>3. ASSUME NEW u \in Tables
          PROVE  /\ life'[u] \in [begin : Nat, end : Nat]
                 /\ life'[u].begin = life[u].begin
                 /\ life'[u].end = life[u].end \/ (life[u].end = 0 /\ life'[u].end = Head + 1)
      <4>1. CASE u = t
        BY <1>4, <3>1, <4>1
      <4>2. CASE u # t
        <5>1. life'[u] = life[u] /\ life[u] \in [begin : Nat, end : Nat]
          BY <1>4, <3>1, <4>2
        <5> QED
          BY <5>1
      <4> QED
        BY <4>1, <4>2
    <3>4. life' \in [Tables -> [begin : Nat, end : Nat]]
      BY <1>4, <3>1
    <3> QED
      BY <3>2, <3>3, <3>4
  <2> QED
    BY <1>0, <2>1, <2>3
<1>6. TablesOK' /\ \A s \in Sessions : PageOK(s)'
  BY <1>1, <1>5, CommitKeepsTables
<1> QED
  BY <1>1, <1>3, <1>6, RestEngine

\* DuckLake's expiry queues, once, what it takes off the list.
LEMMA ExpiryQueuesOnce ==
  ASSUME UpkeepInv, QueueOK, NEW cut, EngineExpiry(OlderThan(cut)), UNCHANGED files
  PROVE  /\ rows' \cap Queued' = {}
         /\ \A o \in DOMAIN files :
              /\ queue'[o] \in Nat /\ queue'[o] <= queue[o] + 1
              /\ queue'[o] = queue[o] \/ queue'[o] = 1
         /\ kept' \subseteq kept
<1> DEFINE dead == {o \in rows : Unread(OlderThan(cut), files[o])}
<1>1. /\ kept' \subseteq kept /\ rows' = rows \ dead /\ dead \subseteq rows
      /\ queue' = [o \in DOMAIN queue |-> queue[o] + (IF o \in dead THEN 1 ELSE 0)]
  BY DEF EngineExpiry
<1>2. /\ DOMAIN queue = DOMAIN files /\ \A o \in DOMAIN files : queue[o] \in Nat
      /\ rows \subseteq DOMAIN files
  BY DEF UpkeepInv, CatalogShape
<1>3. \A o \in rows : queue[o] = 0
  BY <1>2 DEF QueueOK, Queued
<1> HIDE DEF dead
<1>4. \A o \in DOMAIN files :
        queue'[o] = queue[o] + (IF o \in dead THEN 1 ELSE 0)
  BY <1>1, <1>2
<1>5. \A o \in rows' : queue'[o] = 0
  BY <1>1, <1>2, <1>3, <1>4
<1>6. rows' \cap Queued' = {}
  BY <1>5 DEF Queued
<1>7. \A o \in DOMAIN files :
        /\ queue'[o] \in Nat /\ queue'[o] <= queue[o] + 1
        /\ queue'[o] = queue[o] \/ queue'[o] = 1
  BY <1>1, <1>2, <1>3, <1>4
<1> QED
  BY <1>1, <1>6, <1>7

\* An upset raises a count by one at most, and pays for what it poisons.
LEMMA UpsetKeepsRest ==
  ASSUME UpkeepInv, RestInv, Upset, UNCHANGED <<files, inlined, lock, job>>,
         kept' \subseteq kept, Head' = Head, rows' \cap Queued' = {},
         \A o \in DOMAIN files : queue'[o] \in Nat /\ queue'[o] <= queue[o] + 1
  PROVE  RestInv'
<1>1. /\ BoundsOK' /\ spent'.upsets = spent.upsets + 1 /\ spent.upsets \in Nat
  <2>1. BoundsOK'
    BY UpsetsGrow DEF RestInv
  <2> QED
    BY <2>1 DEF RestInv, BoundsOK, Upset
<1>2. \A o \in DOMAIN files : queue[o] \in Nat
  BY DEF UpkeepInv, CatalogShape
<1>3. QueueOK'
  <2>1. \A o \in DOMAIN files : queue'[o] <= 1 + spent'.upsets
    BY <1>1, <1>2 DEF RestInv, QueueOK
  <2> QED
    BY <2>1 DEF QueueOK
<1>4. TablesOK'
  BY TablesStay DEF RestInv
<1>5. ASSUME NEW s \in Sessions PROVE PageOK(s)' /\ RoundOK(s)'
  <2>1. PageOK(s) /\ RoundOK(s) /\ job[s] \in JobSet(DOMAIN files)
    BY DEF RestInv, SessionsOK, JobsOK
  <2>2. PageOK(s)'
    BY <2>1 DEF PageOK, inlined
  <2>3. job[s].taken \subseteq DOMAIN files /\ job[s].tries \in Nat
    BY <2>1 DEF JobSet
  <2>4. job[s].pc = "cascade" => \A o \in job[s].taken : queue'[o] <= spent'.upsets
    BY <1>1, <1>2, <2>1, <2>3 DEF RoundOK
  <2>5. job[s].mode = "safe" => job[s].tries < spent'.upsets /\ job[s].tries <= spent'.upsets
    BY <1>1, <2>1, <2>3 DEF RoundOK
  <2> QED
    BY <2>2, <2>4, <2>5 DEF RoundOK
<1> QED
  BY <1>1, <1>3, <1>4, <1>5, RestEngine

\* Whatever the ingest pods do, with no lock taken.
LEMMA EngineKeepsRest ==
  ASSUME UpkeepInv, RestInv, Engine
  PROVE  RestInv'
<1>0. UpkeepInv'
  BY EnginePreserves
<1>1. CASE EngineMerges
  BY <1>1, MergeKeepsRest
<1>2. CASE EngineDeletes \/ EngineInlines \/ EngineDropsTable
  BY <1>2, OtherCommitKeepsRest
<1>3. CASE EngineExpires
  <2>1. PICK cut : EngineExpiry(OlderThan(cut))
    BY <1>3 DEF EngineExpires
  <2>2. Upset /\ UNCHANGED <<files, objects, inlined, lock, job>>
    BY <1>3 DEF EngineExpires
  <2>3. kept' \subseteq kept /\ Head' = Head
    BY <2>1, <2>2, ExpiryQueues DEF UpkeepInv
  <2>4. /\ rows' \cap Queued' = {}
        /\ \A o \in DOMAIN files : queue'[o] \in Nat /\ queue'[o] <= queue[o] + 1
    BY <2>1, <2>2, ExpiryQueuesOnce DEF RestInv
  <2> QED
    BY <2>2, <2>3, <2>4, UpsetKeepsRest
<1>4. CASE EngineRequeues
  <2>1. PICK o \in Queued : queue' = [queue EXCEPT ![o] = @ + 1]
    BY <1>4 DEF EngineRequeues
  <2>2. Upset /\ UNCHANGED <<files, rows, kept, objects, inlined, lock, job>>
    BY <1>4 DEF EngineRequeues
  <2>3. queue \in [DOMAIN files -> Nat]
    BY DEF UpkeepInv, CatalogShape
  <2>4. \A u \in DOMAIN files : queue'[u] \in Nat /\ queue'[u] <= queue[u] + 1
    BY <2>1, <2>3
  <2>5. Queued' = Queued
    BY <2>1, <2>3 DEF Queued
  <2>6. rows' \cap Queued' = {} /\ Head' = Head
    BY <2>2, <2>5 DEF RestInv, QueueOK, Head
  <2> QED
    BY <2>2, <2>4, <2>6, UpsetKeepsRest
<1>5. CASE EngineRemoves
  <2>1. Upset /\ UNCHANGED <<files, rows, kept, queue, inlined, lock, job>>
    BY <1>5 DEF EngineRemoves, lists
  <2>2. \A o \in DOMAIN files : queue'[o] \in Nat /\ queue'[o] <= queue[o] + 1
    BY <2>1 DEF UpkeepInv, CatalogShape
  <2>3. rows' \cap Queued' = {} /\ Head' = Head
    BY <2>1 DEF RestInv, QueueOK, Queued, Head
  <2> QED
    BY <2>1, <2>2, <2>3, UpsetKeepsRest
<1> QED
  BY <1>1, <1>2, <1>3, <1>4, <1>5 DEF Engine

-----------------------------------------------------------------------------
(* The sessions again.                                                     *)

\* A command starts with an empty record, sized by the lock table.
LEMMA StartKeepsRest ==
  ASSUME UpkeepInv, RestInv, NEW s \in Sessions, Start(s)
  PROVE  RestInv'
<1>1. lock = "free" /\ lock' = s /\ UNCHANGED <<files, rows, kept, queue, objects, inlined>>
  BY DEF Start, LockFree, lists
<1>2. PICK mode \in Modes, cut \in Cutoffs, limit \in BatchLimits :
        job' = [job EXCEPT ![s] =
                 [IdleJob EXCEPT !.pc = FirstStep(mode), !.mode = mode, !.size = StartSize,
                    !.cut = IF mode \in {"expire", "expire-snapshots"} THEN cut ELSE 0,
                    !.left = IF mode = "expire-snapshots" THEN limit ELSE 0]]
  BY DEF Start
<1> DEFINE j == [IdleJob EXCEPT !.pc = FirstStep(mode), !.mode = mode, !.size = StartSize,
                    !.cut = IF mode \in {"expire", "expire-snapshots"} THEN cut ELSE 0,
                    !.left = IF mode = "expire-snapshots" THEN limit ELSE 0]
<1>3. cut \in Nat /\ limit \in Nat /\ StartSize \in Nat /\ MaxIterations \in Nat \ {0}
      /\ MaxAttempts \in Nat \ {0}
  BY NumberAssumption, StartSizeBounds
<1>4. /\ FirstStep(mode) \in {"expiry", "select", "dedup", "scan", "take", "page"}
      /\ FirstStep(mode) = "page" => mode = "inline"
      /\ mode = "safe" => FirstStep(mode) = "dedup"
  BY DEF FirstStep, Modes
<1> HIDE DEF j
<1>5. /\ j \in JobSet(DOMAIN files)
      /\ j.pc = FirstStep(mode) /\ j.mode = mode /\ j.size = StartSize /\ j.tries = 0
      /\ j.batch = {} /\ j.todo = {} /\ j.twice = {} /\ j.taken = {}
      /\ j.page = {} /\ j.dropping = {} /\ j.deleting = {}
  <2>1. FirstStep(mode) \in Pcs
    BY <1>4 DEF Pcs
  <2> QED
    BY <1>3, <2>1 DEF j, IdleJob, JobSet
<1>6. /\ job' \in [Sessions -> JobSet(DOMAIN files)] /\ job'[s] = j
      /\ \A t \in Sessions \ {s} : job'[t] = job[t]
  BY <1>2, <1>5, Moved DEF RestInv, j
<1>7. \A t \in Sessions : ~ Busy(t)
  BY <1>1, SessionAssumption DEF UpkeepInv, LockHeld
<1>8. /\ spent' = [spent EXCEPT !.runs = @ + 1] /\ spent \in [commits : Nat, runs : Nat, upsets : Nat]
      /\ spent.upsets <= MaxUpsets
  BY DEF Start, RestInv, BoundsOK
<1>9. BoundsOK' /\ spent'.upsets = spent.upsets /\ spent.upsets \in Nat
  BY <1>1, <1>8 DEF BoundsOK
<1>10. InUse(s)'
  BY <1>3, <1>4, <1>5, <1>6 DEF InUse
<1>11. PageOK(s)'
  BY <1>4, <1>5, <1>6 DEF PageOK
<1>12. RoundOK(s)'
  <2>1. job'[s].mode = "safe" => ~ Poisoned(s)'
    BY <1>4, <1>5, <1>6 DEF Poisoned
  <2> QED
    BY <1>4, <1>5, <1>6, <1>9, <2>1 DEF RoundOK
<1>13. \A t \in Sessions : InUse(t)' /\ PageOK(t)' /\ RoundOK(t)'
  BY <1>6, <1>7, <1>9, <1>10, <1>11, <1>12, RestsQuietly
<1>14. JobsOK' /\ SessionsOK'
  BY <1>1, <1>6, <1>13 DEF JobsOK, SessionsOK
<1>15. TablesOK' /\ QueueOK'
  BY <1>1, <1>9, TablesStay DEF RestInv, QueueOK, Queued, Head
<1> QED
  BY <1>9, <1>14, <1>15 DEF RestInv

\* A command that ends.
LEMMA EndsKeepsRest ==
  ASSUME UpkeepInv, RestInv, NEW s \in Sessions, Busy(s), Ends(s), UNCHANGED files,
         UNCHANGED spent \/ Upset, TablesOK', QueueOK'
  PROVE  RestInv'
<1>1. /\ job' \in [Sessions -> JobSet(DOMAIN files)] /\ \A t \in Sessions \ {s} : job'[t] = job[t]
      /\ InUse(s)' /\ PageOK(s)' /\ RoundOK(s)' /\ lock' \in {lock, "free"}
  BY EndsClean DEF RestInv
<1> QED
  BY <1>1, RestSession

\* One that ends without a commit.
LEMMA QuietEndKeepsRest ==
  ASSUME UpkeepInv, RestInv, NEW s \in Sessions, Busy(s), Ends(s),
         UNCHANGED <<files, rows, kept, queue, inlined>>, UNCHANGED spent \/ Upset
  PROVE  RestInv'
<1>1. TablesOK'
  BY TablesStay DEF RestInv, Head
<1>2. QueueOK'
  BY QueueStays DEF RestInv
<1> QED
  BY <1>1, <1>2, EndsKeepsRest

\* A failure, a failed gate, the end of the budget.
LEMMA EndingKeepsRest ==
  ASSUME UpkeepInv, RestInv, NEW s \in Sessions,
         SessionFails(s) \/ GatesFail(s) \/ OutOfBudget(s)
  PROVE  RestInv'
<1>1. Busy(s) /\ Ends(s) /\ UNCHANGED <<files, rows, kept, queue, inlined>>
  BY DEF SessionFails, GatesFail, OutOfBudget, At, Busy, lists
<1>2. UNCHANGED spent \/ Upset
  BY DEF SessionFails, GatesFail, OutOfBudget
<1> QED
  BY <1>1, <1>2, QuietEndKeepsRest

\* expire queues each file that it takes off the list once.
LEMMA ExpireKeepsRest ==
  ASSUME UpkeepInv, RestInv, NEW s \in Sessions, Expire(s)
  PROVE  RestInv'
<1>1. /\ Busy(s) /\ Ends(s) /\ EngineExpiry(OlderThan(job[s].cut))
      /\ UNCHANGED <<files, objects, inlined, spent>>
  BY DEF Expire, At, Busy
<1>2. kept' \subseteq kept /\ Head' = Head
  BY <1>1, ExpiryQueues DEF UpkeepInv
<1>3. TablesOK'
  BY <1>1, <1>2, TablesStay DEF RestInv
<1>4. /\ rows' \cap Queued' = {}
      /\ \A o \in DOMAIN files : queue'[o] \in Nat /\ (queue'[o] = queue[o] \/ queue'[o] = 1)
  BY <1>1, ExpiryQueuesOnce DEF RestInv
<1>5. QueueOK'
  <2>1. spent.upsets \in Nat /\ \A o \in DOMAIN files : queue[o] <= 1 + spent.upsets
    BY DEF RestInv, QueueOK, BoundsOK
  <2>2. \A o \in DOMAIN files : queue'[o] <= 1 + spent.upsets
    BY <1>4, <2>1
  <2> QED
    BY <1>1, <1>4, <2>2 DEF QueueOK
<1> QED
  BY <1>1, <1>3, <1>5, EndsKeepsRest

\* A step inside a command that leaves the catalog alone.
LEMMA InsideKeepsRest ==
  ASSUME UpkeepInv, RestInv, NEW s \in Sessions, Busy(s),
         UNCHANGED <<files, rows, kept, queue, inlined>>, UNCHANGED spent \/ Upset,
         lock' \in {lock, "free"},
         job' \in [Sessions -> JobSet(DOMAIN files)], \A t \in Sessions \ {s} : job'[t] = job[t],
         InUse(s)', PageOK(s)', RoundOK(s)'
  PROVE  RestInv'
<1>1. TablesOK'
  BY TablesStay DEF RestInv, Head
<1>2. QueueOK'
  BY QueueStays DEF RestInv
<1> QED
  BY <1>1, <1>2, RestSession

\* What is known of the session that takes a step.
LEMMA ItsRecord ==
  ASSUME RestInv, NEW s \in Sessions
  PROVE  /\ job[s] \in JobSet(DOMAIN files) /\ InUse(s) /\ PageOK(s) /\ RoundOK(s)
         /\ spent.upsets \in Nat
BY DEF RestInv, JobsOK, SessionsOK, BoundsOK

\* The ids of a batch are read, and what dies with them: nothing of that is
\* queued yet.
LEMMA SelectKeepsRest ==
  ASSUME UpkeepInv, RestInv, NEW s \in Sessions, SelectBatch(s)
  PROVE  RestInv'
<1>1. job[s].pc = "select" /\ Busy(s) /\ UNCHANGED <<files, rows, kept, queue, objects, inlined, spent>>
  BY DEF SelectBatch, At, Busy, lists
<1>2. CASE Ends(s)
  BY <1>1, <1>2, QuietEndKeepsRest
<1>3. CASE ~ Ends(s)
  <2> DEFINE batch == NextBatch(job[s].cut)
             left == job[s].left - 1
             j == [job[s] EXCEPT !.pc = "schedule", !.batch = batch, !.left = left]
  <2>1. job' = [job EXCEPT ![s].pc = "schedule", ![s].batch = batch, ![s].left = @ - 1]
        /\ lock' = lock /\ job[s].left # 0
    BY <1>3 DEF SelectBatch
  <2>2. batch \subseteq Nat
    BY DEF NextBatch, OlderThan, UpkeepInv, ClockOK
  <2> HIDE DEF batch
  <2>3. job[s] \in JobSet(DOMAIN files) /\ InUse(s) /\ RoundOK(s)
    BY ItsRecord
  <2>4. job' = [job EXCEPT ![s] = j]
    BY <2>1
  <2>10. left \in Nat
    BY <2>1, <2>3 DEF JobSet
  <2> HIDE DEF left
  <2>5. /\ j \in JobSet(DOMAIN files) /\ j.pc = "schedule" /\ j.mode = job[s].mode
        /\ j.tries = job[s].tries /\ j.size = job[s].size
        /\ j.todo = job[s].todo /\ j.twice = job[s].twice /\ j.taken = job[s].taken
        /\ j.page = job[s].page /\ j.dropping = job[s].dropping /\ j.deleting = job[s].deleting
    BY <2>2, <2>3, <2>10 DEF JobSet, Pcs
  <2> HIDE DEF j
  <2>6. /\ job' \in [Sessions -> JobSet(DOMAIN files)] /\ job'[s] = j
        /\ \A t \in Sessions \ {s} : job'[t] = job[t]
    BY <2>4, <2>5, Moved DEF RestInv
  <2>7. InUse(s)'
    BY <1>1, <2>3, <2>5, <2>6 DEF InUse
  <2>8. PageOK(s)'
    BY <2>5, <2>6 DEF PageOK
  <2>9. RoundOK(s)'
    BY <1>1, <2>3, <2>5, <2>6 DEF RoundOK, Poisoned
  <2> QED
    BY <1>1, <2>1, <2>6, <2>7, <2>8, <2>9, InsideKeepsRest
<1> QED
  BY <1>2, <1>3

\* What dies with the batch is listed, so none of it is queued yet.
LEMMA ScheduleKeepsRest ==
  ASSUME UpkeepInv, RestInv, NEW s \in Sessions, Schedule(s)
  PROVE  RestInv'
<1> DEFINE dead == {o \in rows : files[o].end \in job[s].batch /\ ~Bridged(files[o], job[s].batch)}
           fresh == dead \ Queued
           j == [job[s] EXCEPT !.pc = "cascade", !.dead = dead, !.taken = fresh]
<1>1. /\ job[s].pc = "schedule" /\ Busy(s)
      /\ UNCHANGED <<files, rows, kept, queue, objects, inlined, lock, spent>>
  BY DEF Schedule, At, Busy, lists
<1>2. job' = [job EXCEPT ![s].pc = "cascade", ![s].dead = dead, ![s].taken = fresh]
  BY DEF Schedule
<1>3. dead \subseteq DOMAIN files
  BY DEF UpkeepInv, CatalogShape
<1>4. \A o \in DOMAIN files : queue[o] \in Nat
  BY DEF UpkeepInv, CatalogShape
<1>5. \A o \in fresh : o \in DOMAIN files /\ queue[o] = 0
  BY <1>3, <1>4 DEF Queued, UpkeepInv, CatalogShape
<1> HIDE DEF dead, fresh
<1>6. fresh \subseteq DOMAIN files
  BY <1>5
<1>7. job[s] \in JobSet(DOMAIN files) /\ InUse(s) /\ RoundOK(s) /\ spent.upsets \in Nat
  BY ItsRecord
<1>8. job' = [job EXCEPT ![s] = j]
  BY <1>2
<1>9. /\ j \in JobSet(DOMAIN files) /\ j.pc = "cascade" /\ j.mode = job[s].mode
      /\ j.tries = job[s].tries /\ j.size = job[s].size
      /\ j.todo = job[s].todo /\ j.twice = job[s].twice /\ j.taken = fresh
      /\ j.page = job[s].page /\ j.dropping = job[s].dropping /\ j.deleting = job[s].deleting
  BY <1>3, <1>6, <1>7 DEF JobSet, Pcs
<1> HIDE DEF j
<1>10. /\ job' \in [Sessions -> JobSet(DOMAIN files)] /\ job'[s] = j
       /\ \A t \in Sessions \ {s} : job'[t] = job[t]
  BY <1>8, <1>9, Moved DEF RestInv
<1>11. InUse(s)'
  BY <1>1, <1>7, <1>9, <1>10 DEF InUse
<1>12. PageOK(s)'
  BY <1>9, <1>10 DEF PageOK
<1>13. RoundOK(s)'
  <2>1. ~ Poisoned(s)'
    BY <1>9, <1>10 DEF Poisoned
  <2>2. \A o \in fresh : queue'[o] <= spent'.upsets
    BY <1>1, <1>5, <1>7
  <2> QED
    BY <1>1, <1>7, <1>9, <1>10, <2>1, <2>2 DEF RoundOK
<1> QED
  BY <1>1, <1>10, <1>11, <1>12, <1>13, InsideKeepsRest

\* The batch commits: its rows are queued as they leave the lists, and one that
\* the engine queued in the meantime cost an upset.
LEMMA CommitBatchKeepsRest ==
  ASSUME UpkeepInv, RestInv, NEW s \in Sessions, CommitBatch(s)
  PROVE  RestInv'
<1> DEFINE j == [job[s] EXCEPT !.pc = "select", !.batch = {}, !.dead = {}, !.taken = {}]
<1>1. /\ job[s].pc = "cascade" /\ Busy(s) /\ UNCHANGED <<files, objects, inlined, lock, spent>>
      /\ queue' = [o \in DOMAIN queue |-> queue[o] + (IF o \in job[s].taken THEN 1 ELSE 0)]
      /\ rows' = rows \ job[s].dead /\ kept' = kept \ job[s].batch
  BY DEF CommitBatch, At, Busy
<1>2. job' = [job EXCEPT ![s].pc = "select", ![s].batch = {}, ![s].dead = {}, ![s].taken = {}]
  BY DEF CommitBatch
<1>3. job[s] \in JobSet(DOMAIN files) /\ InUse(s) /\ RoundOK(s) /\ spent.upsets \in Nat
  BY ItsRecord
<1>4. /\ queue \in [DOMAIN files -> Nat] /\ rows \subseteq DOMAIN files
      /\ job[s].taken \subseteq job[s].dead
      /\ \A n \in job[s].batch : n < Head
  BY <1>1 DEF UpkeepInv, CatalogShape, ReadingsHold, StillTrue, StillDead, StillOld
<1>5. \A o \in DOMAIN files :
        queue'[o] = queue[o] + (IF o \in job[s].taken THEN 1 ELSE 0) /\ queue'[o] \in Nat
  BY <1>1, <1>4
<1>6. QueueOK'
  <2>1. \A o \in DOMAIN files : queue[o] <= 1 + spent.upsets
    BY DEF RestInv, QueueOK
  <2>2. \A o \in job[s].taken : queue[o] <= spent.upsets
    BY <1>1, <1>3 DEF RoundOK
  <2>3. \A o \in DOMAIN files : queue'[o] <= 1 + spent.upsets
    BY <1>3, <1>4, <1>5, <2>1, <2>2
  <2>4. \A o \in rows' : o \notin Queued /\ o \in DOMAIN files /\ o \notin job[s].taken
    BY <1>1, <1>4 DEF RestInv, QueueOK
  <2>5. \A o \in rows' : queue'[o] = queue[o] /\ ~ (queue[o] > 0)
    BY <1>4, <1>5, <2>4 DEF Queued
  <2>6. rows' \cap Queued' = {}
    BY <2>5 DEF Queued
  <2> QED
    BY <1>1, <2>3, <2>6 DEF QueueOK
<1>7. TablesOK'
  <2>1. Head \in kept /\ Head \in Nat /\ kept \subseteq Nat /\ \A n \in kept : n <= Head
    BY HeadIsNewest DEF UpkeepInv, ClockOK
  <2>2. kept' \in SUBSET Nat /\ Head \in kept' /\ \A n \in kept' : n <= Head
    <3>1. Head \notin job[s].batch
      BY <1>4, <2>1
    <3> QED
      BY <1>1, <2>1, <3>1
  <2>3. Head' = Head
    BY <2>2, HighestIs DEF Head
  <2> QED
    BY <1>1, <2>3, TablesStay DEF RestInv
<1>8. job' = [job EXCEPT ![s] = j]
  BY <1>2
<1>9. /\ j \in JobSet(DOMAIN files) /\ j.pc = "select" /\ j.mode = job[s].mode
      /\ j.tries = job[s].tries /\ j.size = job[s].size /\ j.batch = {}
      /\ j.todo = job[s].todo /\ j.twice = job[s].twice /\ j.taken = {}
      /\ j.page = job[s].page /\ j.dropping = job[s].dropping /\ j.deleting = job[s].deleting
  BY <1>3 DEF JobSet, Pcs
<1> HIDE DEF j
<1>10. /\ job' \in [Sessions -> JobSet(DOMAIN files)] /\ job'[s] = j
       /\ \A t \in Sessions \ {s} : job'[t] = job[t]
  BY <1>8, <1>9, Moved DEF RestInv
<1>11. InUse(s)'
  BY <1>1, <1>3, <1>9, <1>10 DEF InUse
<1>12. PageOK(s)'
  BY <1>9, <1>10 DEF PageOK
<1>13. RoundOK(s)'
  <2>1. ~ Poisoned(s)'
    BY <1>9, <1>10 DEF Poisoned
  <2> QED
    BY <1>1, <1>3, <1>9, <1>10, <2>1 DEF RoundOK
<1> QED
  BY <1>1, <1>6, <1>7, <1>10, <1>11, <1>12, <1>13, RestSession

\* The queue only shrinks.
LEMMA QueueShrinks ==
  ASSUME UpkeepInv, RestInv, UNCHANGED <<files, rows>>, UNCHANGED spent,
         \A o \in DOMAIN files : queue'[o] \in Nat /\ queue'[o] <= queue[o], DOMAIN queue' = DOMAIN queue
  PROVE  QueueOK' /\ Queued' \subseteq Queued
<1>1. DOMAIN queue = DOMAIN files /\ \A o \in DOMAIN files : queue[o] \in Nat
  BY DEF UpkeepInv, CatalogShape
<1>2. Queued' \subseteq Queued
  BY <1>1 DEF Queued
<1>3. spent.upsets \in Nat /\ \A o \in DOMAIN files : queue[o] <= 1 + spent.upsets
  BY DEF RestInv, BoundsOK, QueueOK
<1>4. \A o \in DOMAIN files : queue'[o] <= 1 + spent.upsets
  BY <1>1, <1>3
<1> QED
  BY <1>2, <1>4 DEF RestInv, QueueOK

\* The next step of a round of cleanup-all-safe keeps the count of its crashes.
LEMMA RoundGoesOn ==
  ASSUME RestInv, NEW s \in Sessions, job[s].pc \notin {"remove", "row", "schedule", "cascade"}, Busy(s),
         UNCHANGED <<files, spent>>,
         NEW pc \in {"scan", "gates", "vectors", "delete", "take"}, NEW found \in SUBSET DOMAIN files,
         job[s].mode = "safe" \/ pc \in {"gates", "vectors", "delete"},
         job[s].pc \notin {"page"},
         job' = [job EXCEPT ![s] = [job[s] EXCEPT !.pc = pc, !.found = found]],
         job[s].mode = "safe" /\ Poisoned(s)' => job[s].tries < spent.upsets
  PROVE  /\ job' \in [Sessions -> JobSet(DOMAIN files)] /\ \A t \in Sessions \ {s} : job'[t] = job[t]
         /\ InUse(s)' /\ PageOK(s)' /\ RoundOK(s)'
<1> DEFINE j == [job[s] EXCEPT !.pc = pc, !.found = found]
<1>1. job[s] \in JobSet(DOMAIN files) /\ InUse(s) /\ RoundOK(s) /\ spent.upsets \in Nat
  BY ItsRecord
<1>2. /\ j \in JobSet(DOMAIN files) /\ j.pc = pc /\ j.mode = job[s].mode /\ j.batch = job[s].batch
      /\ j.tries = job[s].tries /\ j.size = job[s].size
      /\ j.todo = job[s].todo /\ j.twice = job[s].twice /\ j.taken = job[s].taken
      /\ j.page = job[s].page /\ j.dropping = job[s].dropping /\ j.deleting = job[s].deleting
  BY <1>1 DEF JobSet, Pcs
<1>3. job' = [job EXCEPT ![s] = j]
  OBVIOUS
<1> HIDE DEF j
<1>4. /\ job' \in [Sessions -> JobSet(DOMAIN files)] /\ job'[s] = j
      /\ \A t \in Sessions \ {s} : job'[t] = job[t]
  BY <1>2, <1>3, Moved DEF RestInv
<1>5. InUse(s)'
  BY <1>1, <1>2, <1>4 DEF InUse, Busy
<1>6. PageOK(s)'
  BY <1>2, <1>4 DEF PageOK
<1>7. RoundOK(s)'
  <2>1. job'[s].pc # "cascade"
    BY <1>2, <1>4
  <2>2. job'[s].mode = "safe" => job'[s].tries <= spent'.upsets
    BY <1>1, <1>2, <1>4 DEF RoundOK
  <2>3. job'[s].mode = "safe" /\ Poisoned(s)' => job'[s].tries < spent'.upsets
    BY <1>2, <1>4
  <2> QED
    BY <2>1, <2>2, <2>3 DEF RoundOK
<1> QED
  BY <1>4, <1>5, <1>6, <1>7

\* dedup-deletions leaves no object queued twice.
LEMMA DedupKeepsRest ==
  ASSUME UpkeepInv, RestInv, NEW s \in Sessions, Dedup(s)
  PROVE  RestInv'
<1>1. /\ job[s].pc = "dedup" /\ Busy(s) /\ UNCHANGED <<files, rows, kept, objects, inlined, spent>>
      /\ queue' = [o \in DOMAIN queue |-> Lesser(queue[o], 1)] /\ NextInRound(s, "scan")
  BY DEF Dedup, At, Busy
<1>2. queue \in [DOMAIN files -> Nat]
  BY DEF UpkeepInv, CatalogShape
<1>3. \A o \in DOMAIN files : queue'[o] \in Nat /\ queue'[o] <= queue[o] /\ queue'[o] <= 1
  BY <1>1, <1>2 DEF Lesser
<1>4. DOMAIN queue' = DOMAIN queue /\ DOMAIN queue = DOMAIN files
  BY <1>1, <1>2
<1>5. QueueOK' /\ Queued' \subseteq DOMAIN files
  BY <1>1, <1>3, <1>4, QueueShrinks DEF Queued
<1>6. TablesOK'
  BY <1>1, TablesStay DEF RestInv, Head
<1>7. CASE job[s].mode # "safe"
  BY <1>1, <1>5, <1>6, <1>7, EndsKeepsRest DEF NextInRound
<1>8. CASE job[s].mode = "safe"
  <2>1. job' = [job EXCEPT ![s].pc = "scan"] /\ lock' = lock
    BY <1>1, <1>8 DEF NextInRound, Goto
  <2>2. job[s] \in JobSet(DOMAIN files)
    BY ItsRecord
  <2>3. job[s].found \in SUBSET DOMAIN files
    BY <2>2 DEF JobSet
  <2>4. job' = [job EXCEPT ![s] = [job[s] EXCEPT !.pc = "scan", !.found = job[s].found]]
    <3>1. [job[s] EXCEPT !.pc = "scan"] = [job[s] EXCEPT !.pc = "scan", !.found = job[s].found]
      BY <2>2 DEF JobSet
    <3> QED
      BY <2>1, <3>1
  <2>5. job'[s].pc = "scan"
    BY <2>1, <2>2 DEF JobSet, RestInv, JobsOK
  <2>6. ~ Poisoned(s)'
    <3>1. \A o \in Queued' : ~ (queue'[o] > 1)
      BY <1>3, <1>5
    <3> QED
      BY <2>5, <3>1 DEF Poisoned
  <2>7. /\ job' \in [Sessions -> JobSet(DOMAIN files)] /\ \A t \in Sessions \ {s} : job'[t] = job[t]
        /\ InUse(s)' /\ PageOK(s)' /\ RoundOK(s)'
    BY <1>1, <1>8, <2>3, <2>4, <2>6, RoundGoesOn
  <2> QED
    BY <1>1, <1>5, <1>6, <2>1, <2>7, RestSession
<1> QED
  BY <1>7, <1>8

\* The scan misses no queued object that is gone.
LEMMA ScanKeepsRest ==
  ASSUME UpkeepInv, RestInv, NEW s \in Sessions, ScanOrphans(s)
  PROVE  RestInv'
<1> DEFINE orphans == Queued \ objects
<1>1. /\ job[s].pc = "scan" /\ Busy(s)
      /\ UNCHANGED <<files, rows, kept, queue, objects, inlined, spent>>
  BY DEF ScanOrphans, At, Busy, lists
<1>2. job[s] \in JobSet(DOMAIN files) /\ RoundOK(s)
  BY ItsRecord
<1>3. job[s].found \in SUBSET DOMAIN files /\ orphans \in SUBSET DOMAIN files
  BY <1>2 DEF JobSet, Queued, UpkeepInv, CatalogShape
<1>4. Queued' = Queued
  BY <1>1 DEF Queued
<1>5. job[s].mode = "safe" /\ (\E o \in Queued : queue[o] > 1) => job[s].tries < spent.upsets
  BY <1>1, <1>2 DEF RoundOK, Poisoned
<1>6. CASE orphans = {} /\ job[s].mode # "safe"
  BY <1>1, <1>6, QuietEndKeepsRest DEF ScanOrphans, NextInRound
<1>7. CASE orphans = {} /\ job[s].mode = "safe"
  <2>1. job' = [job EXCEPT ![s].pc = "take"] /\ lock' = lock
    BY <1>1, <1>7 DEF ScanOrphans, NextInRound, Goto
  <2>2. job' = [job EXCEPT ![s] = [job[s] EXCEPT !.pc = "take", !.found = job[s].found]]
    <3>1. [job[s] EXCEPT !.pc = "take"] = [job[s] EXCEPT !.pc = "take", !.found = job[s].found]
      BY <1>2 DEF JobSet
    <3> QED
      BY <2>1, <3>1
  <2>3. job'[s].pc = "take"
    BY <1>2, <2>1 DEF JobSet, RestInv, JobsOK
  <2>4. Poisoned(s)' => \E o \in Queued : queue[o] > 1
    BY <1>1, <1>4, <1>7, <2>3 DEF Poisoned
  <2>5. /\ job' \in [Sessions -> JobSet(DOMAIN files)] /\ \A t \in Sessions \ {s} : job'[t] = job[t]
        /\ InUse(s)' /\ PageOK(s)' /\ RoundOK(s)'
    BY <1>1, <1>3, <1>5, <1>7, <2>2, <2>4, RoundGoesOn
  <2> QED
    BY <1>1, <2>1, <2>5, InsideKeepsRest
<1>8. CASE orphans # {}
  <2>1. job' = [job EXCEPT ![s].pc = "gates", ![s].found = orphans] /\ lock' = lock
    BY <1>8 DEF ScanOrphans
  <2> HIDE DEF orphans
  <2>2. job' = [job EXCEPT ![s] = [job[s] EXCEPT !.pc = "gates", !.found = orphans]]
    BY <2>1
  <2>3. job'[s].pc = "gates" /\ job'[s].found = orphans
    BY <1>2, <2>1 DEF JobSet, RestInv, JobsOK
  <2>4. Poisoned(s)' => \E o \in Queued : queue[o] > 1
    <3>1. Queued \subseteq objects \cup orphans
      BY DEF orphans
    <3> QED
      BY <1>1, <1>4, <2>3, <3>1 DEF Poisoned
  <2>5. /\ job' \in [Sessions -> JobSet(DOMAIN files)] /\ \A t \in Sessions \ {s} : job'[t] = job[t]
        /\ InUse(s)' /\ PageOK(s)' /\ RoundOK(s)'
    BY <1>1, <1>3, <1>5, <2>2, <2>4, RoundGoesOn
  <2> QED
    BY <1>1, <2>1, <2>5, InsideKeepsRest
<1> QED
  BY <1>6, <1>7, <1>8

\* Past a gate the queue is as the scan found it.
LEMMA PassGateKeepsRest ==
  ASSUME UpkeepInv, RestInv, NEW s \in Sessions, PassGate(s)
  PROVE  RestInv'
<1>1. /\ job[s].pc \in {"gates", "vectors"} /\ Busy(s)
      /\ UNCHANGED <<files, rows, kept, queue, objects, inlined, lock, spent>>
  BY DEF PassGate, At, Busy, lists
<1>2. job[s] \in JobSet(DOMAIN files) /\ RoundOK(s)
  BY ItsRecord
<1>3. PICK pc \in {"vectors", "delete"} : job' = [job EXCEPT ![s].pc = pc]
  BY DEF PassGate, Goto
<1>4. job[s].found \in SUBSET DOMAIN files
  BY <1>2 DEF JobSet
<1>5. job' = [job EXCEPT ![s] = [job[s] EXCEPT !.pc = pc, !.found = job[s].found]]
  <2>1. [job[s] EXCEPT !.pc = pc] = [job[s] EXCEPT !.pc = pc, !.found = job[s].found]
    BY <1>2 DEF JobSet
  <2> QED
    BY <1>3, <2>1
<1>6. job'[s].pc = pc /\ job'[s].found = job[s].found /\ Queued' = Queued
  BY <1>1, <1>2, <1>3 DEF JobSet, RestInv, JobsOK, Queued
<1>7. Poisoned(s)' => Poisoned(s)
  BY <1>1, <1>6 DEF Poisoned
<1>8. job[s].mode = "safe" /\ Poisoned(s)' => job[s].tries < spent.upsets
  BY <1>2, <1>7 DEF RoundOK
<1>9. /\ job' \in [Sessions -> JobSet(DOMAIN files)] /\ \A t \in Sessions \ {s} : job'[t] = job[t]
      /\ InUse(s)' /\ PageOK(s)' /\ RoundOK(s)'
  BY <1>1, <1>4, <1>5, <1>8, RoundGoesOn
<1> QED
  BY <1>1, <1>9, InsideKeepsRest

\* heal-orphans takes out of the queue what the scan found gone.
LEMMA HealKeepsRest ==
  ASSUME UpkeepInv, RestInv, NEW s \in Sessions, Heal(s)
  PROVE  RestInv'
<1>1. /\ job[s].pc = "delete" /\ Busy(s) /\ UNCHANGED <<files, rows, kept, objects, inlined, spent>>
      /\ queue' = [o \in DOMAIN queue |-> IF o \in job[s].found THEN 0 ELSE queue[o]]
  BY DEF Heal, At, Busy, Without
<1>2. queue \in [DOMAIN files -> Nat]
  BY DEF UpkeepInv, CatalogShape
<1>3. /\ \A o \in DOMAIN files : queue'[o] \in Nat /\ queue'[o] <= queue[o]
      /\ DOMAIN queue' = DOMAIN queue
      /\ Queued' \subseteq Queued \ job[s].found
      /\ \A o \in Queued' : queue'[o] = queue[o]
  BY <1>1, <1>2 DEF Queued
<1>4. QueueOK'
  BY <1>1, <1>3, QueueShrinks
<1>5. TablesOK'
  BY <1>1, TablesStay DEF RestInv, Head
<1>6. job[s] \in JobSet(DOMAIN files) /\ RoundOK(s)
  BY ItsRecord
<1>7. CASE job[s].mode # "safe"
  BY <1>1, <1>4, <1>5, <1>7, EndsKeepsRest DEF Heal
<1>8. CASE job[s].mode = "safe"
  <2>1. job' = [job EXCEPT ![s].pc = "take", ![s].found = {}] /\ lock' = lock
    BY <1>8 DEF Heal
  <2>2. job' = [job EXCEPT ![s] = [job[s] EXCEPT !.pc = "take", !.found = {}]]
    BY <2>1
  <2>3. job'[s].pc = "take" /\ {} \in SUBSET DOMAIN files
    BY <1>6, <2>1 DEF JobSet, RestInv, JobsOK
  <2>4. Poisoned(s)' => Poisoned(s)
    BY <1>1, <1>3, <2>3 DEF Poisoned
  <2>5. Poisoned(s)' => job[s].tries < spent.upsets
    BY <1>6, <1>8, <2>4 DEF RoundOK
  <2>6. /\ job' \in [Sessions -> JobSet(DOMAIN files)] /\ \A t \in Sessions \ {s} : job'[t] = job[t]
        /\ InUse(s)' /\ PageOK(s)' /\ RoundOK(s)'
    BY <1>1, <1>8, <2>2, <2>3, <2>5, RoundGoesOn
  <2> QED
    BY <1>1, <1>4, <1>5, <2>1, <2>6, RestSession
<1> QED
  BY <1>7, <1>8

\* The removal takes what is queued: without trouble, each of it is stored, and
\* once.
LEMMA TakeQueueKeepsRest ==
  ASSUME UpkeepInv, RestInv, NEW s \in Sessions, TakeQueue(s)
  PROVE  RestInv'
<1>1. /\ job[s].pc = "take" /\ Busy(s)
      /\ UNCHANGED <<files, rows, kept, queue, objects, inlined, lock, spent>>
  BY DEF TakeQueue, At, Busy, lists
<1>2. PICK Q \in SUBSET Queued :
        /\ job[s].mode = "safe" => Q = Queued
        /\ job' = [job EXCEPT ![s].pc = "remove", ![s].taken = Q, ![s].todo = Q,
                              ![s].twice = {o \in Q : queue[o] > 1}]
  BY DEF TakeQueue
<1> DEFINE two == {o \in Q : queue[o] > 1}
           j == [job[s] EXCEPT !.pc = "remove", !.taken = Q, !.todo = Q, !.twice = two]
<1>3. job[s] \in JobSet(DOMAIN files) /\ InUse(s) /\ RoundOK(s) /\ spent.upsets \in Nat
  BY ItsRecord
<1>4. Q \subseteq DOMAIN files /\ two \subseteq Q
  BY DEF Queued, UpkeepInv, CatalogShape
<1>5. two # {} => \E o \in Queued : queue[o] > 1
  OBVIOUS
<1> HIDE DEF two
<1>6. job' = [job EXCEPT ![s] = j]
  BY <1>2 DEF two
<1>7. /\ j \in JobSet(DOMAIN files) /\ j.pc = "remove" /\ j.mode = job[s].mode
      /\ j.batch = job[s].batch /\ j.tries = job[s].tries /\ j.size = job[s].size
      /\ j.todo = Q /\ j.twice = two /\ j.taken = Q
      /\ j.page = job[s].page /\ j.dropping = job[s].dropping /\ j.deleting = job[s].deleting
  BY <1>3, <1>4 DEF JobSet, Pcs
<1> HIDE DEF j
<1>8. /\ job' \in [Sessions -> JobSet(DOMAIN files)] /\ job'[s] = j
      /\ \A t \in Sessions \ {s} : job'[t] = job[t]
  BY <1>6, <1>7, Moved DEF RestInv
<1>9. InUse(s)'
  BY <1>1, <1>3, <1>4, <1>7, <1>8 DEF InUse
<1>10. PageOK(s)'
  BY <1>7, <1>8 DEF PageOK
<1>11. RoundOK(s)'
  <2>1. job[s].mode = "safe" => job[s].tries <= spent.upsets
    BY <1>3 DEF RoundOK
  <2>2. Poisoned(s)' => two # {} \/ ~ (Q \subseteq objects)
    BY <1>1, <1>7, <1>8 DEF Poisoned
  <2>3. job[s].mode = "safe" /\ Poisoned(s)' => Poisoned(s)
    BY <1>1, <1>2, <1>5, <2>2 DEF Poisoned
  <2>4. job[s].mode = "safe" /\ Poisoned(s)' => job[s].tries < spent.upsets
    BY <1>3, <2>3 DEF RoundOK
  <2> QED
    BY <1>1, <1>7, <1>8, <2>1, <2>4 DEF RoundOK
<1> QED
  BY <1>1, <1>8, <1>9, <1>10, <1>11, InsideKeepsRest

\* An object is deleted; one that is queued twice is left to be visited again,
\* which is the trouble that the round had already.
LEMMA RemoveObjectKeepsRest ==
  ASSUME UpkeepInv, RestInv, NEW s \in Sessions, RemoveObject(s)
  PROVE  RestInv'
<1>1. job[s].pc = "remove" /\ Busy(s) /\ UNCHANGED <<files, rows, kept, queue, inlined, lock, spent>>
  BY DEF RemoveObject, At, Busy, lists
<1>2. PICK o \in job[s].todo \cap objects :
        /\ objects' = objects \ {o}
        /\ job' = [job EXCEPT ![s].todo = @ \ ({o} \ job[s].twice)]
  BY DEF RemoveObject
<1> DEFINE rest == job[s].todo \ ({o} \ job[s].twice)
           j == [job[s] EXCEPT !.todo = rest]
<1>3. job[s] \in JobSet(DOMAIN files) /\ InUse(s) /\ RoundOK(s) /\ spent.upsets \in Nat
  BY ItsRecord
<1>4. /\ rest \subseteq job[s].todo /\ rest \in SUBSET DOMAIN files
      /\ job[s].twice = {} => o \notin rest
  BY <1>3 DEF JobSet
<1> HIDE DEF rest
<1>5. job' = [job EXCEPT ![s] = j]
  BY <1>2 DEF rest
<1>6. /\ j \in JobSet(DOMAIN files) /\ j.pc = job[s].pc /\ j.mode = job[s].mode
      /\ j.batch = job[s].batch /\ j.tries = job[s].tries /\ j.size = job[s].size
      /\ j.todo = rest /\ j.twice = job[s].twice /\ j.taken = job[s].taken
      /\ j.page = job[s].page /\ j.dropping = job[s].dropping /\ j.deleting = job[s].deleting
  BY <1>3, <1>4 DEF JobSet
<1> HIDE DEF j
<1>7. /\ job' \in [Sessions -> JobSet(DOMAIN files)] /\ job'[s] = j
      /\ \A t \in Sessions \ {s} : job'[t] = job[t]
  BY <1>5, <1>6, Moved DEF RestInv
<1>8. InUse(s)'
  <2>1. job'[s].todo \cup job'[s].twice \subseteq job'[s].taken
    BY <1>3, <1>4, <1>6, <1>7 DEF InUse
  <2> QED
    BY <1>1, <1>3, <1>6, <1>7, <2>1 DEF InUse
<1>9. PageOK(s)'
  BY <1>1, <1>6, <1>7 DEF PageOK
<1>10. RoundOK(s)'
  <2>1. Poisoned(s)' => job[s].twice # {} \/ ~ (rest \subseteq objects \ {o})
    BY <1>1, <1>2, <1>6, <1>7 DEF Poisoned
  <2>2. Poisoned(s)' => Poisoned(s)
    BY <1>1, <1>4, <2>1 DEF Poisoned
  <2>3. job[s].mode = "safe" => job[s].tries <= spent.upsets
    BY <1>3 DEF RoundOK
  <2>4. job[s].mode = "safe" /\ Poisoned(s)' => job[s].tries < spent.upsets
    BY <1>3, <2>2 DEF RoundOK
  <2> QED
    BY <1>1, <1>6, <1>7, <2>3, <2>4 DEF RoundOK
<1> QED
  BY <1>1, <1>7, <1>8, <1>9, <1>10, InsideKeepsRest

\* A crash of the removal starts the next round, with one crash more on the
\* count and one upset more, now or before, to answer for it.
LEMMA RemovalCrashesKeepsRest ==
  ASSUME UpkeepInv, RestInv, NEW s \in Sessions, NoSuchKey(s) \/ RemovalFails(s)
  PROVE  RestInv'
<1>1. /\ job[s].pc = "remove" /\ Busy(s) /\ RemovalCrashes(s)
      /\ UNCHANGED <<files, rows, kept, queue, objects, inlined>> /\ (UNCHANGED spent \/ Upset)
  BY DEF NoSuchKey, RemovalFails, RemovalCrashes, At, Busy, lists
<1>2. job[s] \in JobSet(DOMAIN files) /\ InUse(s) /\ RoundOK(s) /\ spent.upsets \in Nat
  BY ItsRecord
<1>3. CASE job[s].mode # "safe"
  BY <1>1, <1>3, QuietEndKeepsRest DEF RemovalCrashes
<1>4. CASE job[s].mode = "safe"
  <2> DEFINE tries == job[s].tries + 1
             pc == IF tries = MaxIterations THEN "exhausted" ELSE "dedup"
             j == [IdleJob EXCEPT !.mode = "safe", !.tries = tries, !.size = StartSize, !.pc = pc]
  <2>1. job' = [job EXCEPT ![s] = j] /\ lock' \in {lock, "free"}
    BY <1>1, <1>4 DEF RemovalCrashes
  <2>2. job[s].tries \in Nat /\ MaxIterations \in Nat \ {0} /\ job[s].tries < MaxIterations
    BY <1>1, <1>2, <1>4, NumberAssumption DEF JobSet, InUse
  <2>3. /\ tries \in Nat /\ tries <= MaxIterations /\ pc \in {"exhausted", "dedup"}
        /\ pc = "exhausted" => tries = MaxIterations
        /\ pc # "exhausted" => tries < MaxIterations
    BY <2>2
  <2>4. tries <= spent'.upsets
    <3>1. job[s].tries <= spent.upsets /\ (Poisoned(s) => job[s].tries < spent.upsets)
      BY <1>2, <1>4 DEF RoundOK
    <3>2. CASE NoSuchKey(s)
      <4>1. Poisoned(s) /\ spent' = spent
        BY <1>1, <3>2 DEF NoSuchKey, Poisoned
      <4> QED
        BY <1>2, <2>2, <3>1, <4>1
    <3>3. CASE RemovalFails(s)
      <4>1. spent'.upsets = spent.upsets + 1
        BY <3>3 DEF RemovalFails, Upset, RestInv, BoundsOK
      <4> QED
        BY <1>2, <2>2, <3>1, <4>1
    <3> QED
      BY <3>2, <3>3
  <2> HIDE DEF tries, pc
  <2>5. /\ j \in JobSet(DOMAIN files) /\ j.pc = pc /\ j.mode = "safe"
        /\ j.batch = {} /\ j.tries = tries /\ j.size = StartSize
        /\ j.todo = {} /\ j.twice = {} /\ j.taken = {}
        /\ j.page = {} /\ j.dropping = {} /\ j.deleting = {}
    BY <2>3, StartSizeBounds DEF JobSet, IdleJob, Pcs, Modes
  <2> HIDE DEF j
  <2>6. /\ job' \in [Sessions -> JobSet(DOMAIN files)] /\ job'[s] = j
        /\ \A t \in Sessions \ {s} : job'[t] = job[t]
    BY <2>1, <2>5, Moved DEF RestInv
  <2>7. InUse(s)'
    BY <2>3, <2>5, <2>6, StartSizeBounds DEF InUse
  <2>8. PageOK(s)'
    BY <2>3, <2>5, <2>6 DEF PageOK
  <2>9. RoundOK(s)'
    <3>1. ~ Poisoned(s)'
      BY <2>3, <2>5, <2>6 DEF Poisoned
    <3> QED
      BY <2>3, <2>4, <2>5, <2>6, <3>1 DEF RoundOK
  <2> QED
    BY <1>1, <2>1, <2>6, <2>7, <2>8, <2>9, InsideKeepsRest
<1> QED
  BY <1>3, <1>4

\* The rows of what was deleted go out of the queue.
LEMMA RemovalCommitsKeepsRest ==
  ASSUME UpkeepInv, RestInv, NEW s \in Sessions, RemovalCommits(s)
  PROVE  RestInv'
<1>1. /\ Busy(s) /\ UNCHANGED <<files, rows, kept, objects, inlined, spent>> /\ Ends(s)
      /\ queue' = [o \in DOMAIN queue |-> IF o \in job[s].taken THEN 0 ELSE queue[o]]
  BY DEF RemovalCommits, At, Busy
<1>2. queue \in [DOMAIN files -> Nat]
  BY DEF UpkeepInv, CatalogShape
<1>3. /\ \A o \in DOMAIN files : queue'[o] \in Nat /\ queue'[o] <= queue[o]
      /\ DOMAIN queue' = DOMAIN queue
  BY <1>1, <1>2
<1>4. QueueOK'
  BY <1>1, <1>3, QueueShrinks
<1>5. TablesOK'
  BY <1>1, TablesStay DEF RestInv, Head
<1> QED
  BY <1>1, <1>4, <1>5, EndsKeepsRest

-----------------------------------------------------------------------------
(* drop-orphan-inline-tables.                                              *)

\* A page is no longer than its size, and holds only what no snapshot reads.
LEMMA PageBounds ==
  ASSUME UpkeepInv, RestInv, NEW key \in Nat, NEW size \in Nat
  PROVE  /\ PageAfter(key, size) \subseteq Tables /\ Cardinality(PageAfter(key, size)) \in Nat
         /\ Cardinality(PageAfter(key, size)) <= size
         /\ \A t \in PageAfter(key, size) :
              life[t].end # 0 /\ \A n \in kept : life[t].end <= n
<1> DEFINE orphans == {t \in registry : t > key /\ ~Reachable(t)}
<1>1. registry \subseteq Tables /\ Tables \subseteq Nat /\ IsFiniteSet(Tables)
  BY HistoryAssumption DEF RestInv, TablesOK
<1>2. orphans \subseteq Tables
  BY <1>1
<1>3. \A t \in orphans : life[t].end # 0 /\ \A n \in kept : life[t].end <= n
  <2>1. kept \in SUBSET Nat /\ kept # {}
    BY HeadIsNewest DEF UpkeepInv, ClockOK
  <2>2. LowestIn(kept) \in Nat /\ \A n \in kept : n \in Nat /\ LowestIn(kept) <= n
    BY <2>1, LowestExists
  <2>3. SUFFICES ASSUME NEW t \in orphans
                 PROVE  life[t].end # 0 /\ life[t].end <= LowestIn(kept) /\ life[t].end \in Nat
    BY <2>2
  <2>4. life[t].begin <= Head /\ life[t].end \in Nat
    BY <1>2 DEF RestInv, TablesOK
  <2>5. ~ (life[t].end = 0 \/ life[t].end > LowestIn(kept))
    BY <2>4 DEF Reachable, Head
  <2> QED
    BY <2>2, <2>4, <2>5
<1>4. PageAfter(key, size) = {t \in orphans : Cardinality({u \in orphans : u < t}) < size}
  BY DEF PageAfter
<1> HIDE DEF orphans
<1>5. orphans \in SUBSET Nat /\ IsFiniteSet(orphans)
  BY <1>1, <1>2, FS_Subset
<1>6. Cardinality(PageAfter(key, size)) \in Nat /\ Cardinality(PageAfter(key, size)) <= size
  BY <1>4, <1>5, FirstOnes
<1>7. PageAfter(key, size) \subseteq orphans
  BY <1>4
<1> QED
  BY <1>2, <1>3, <1>6, <1>7

\* The page that is read next.
LEMMA SelectPageKeepsRest ==
  ASSUME UpkeepInv, RestInv, NEW s \in Sessions, SelectPage(s)
  PROVE  RestInv'
<1> DEFINE page == PageAfter(LastKey(s), job[s].size)
           full == Cardinality(page) = job[s].size
           j == [job[s] EXCEPT !.pc = "row", !.page = page, !.full = full]
<1>1. job[s].pc = "page" /\ Busy(s) /\ UNCHANGED <<files, rows, kept, queue, objects, inlined, spent>>
  BY DEF SelectPage, At, Busy, lists
<1>2. CASE page = {}
  BY <1>1, <1>2, QuietEndKeepsRest DEF SelectPage
<1>3. CASE page # {}
  <2>1. job' = [job EXCEPT ![s] = j] /\ lock' = lock
    BY <1>3 DEF SelectPage
  <2>2. job[s] \in JobSet(DOMAIN files) /\ InUse(s) /\ RoundOK(s)
    BY ItsRecord
  <2>3. LastKey(s) \in Nat /\ job[s].size \in Nat
    BY <2>2 DEF LastKey, JobSet
  <2>4. /\ page \subseteq Tables /\ Cardinality(page) \in Nat /\ Cardinality(page) <= job[s].size
        /\ \A t \in page : life[t].end # 0 /\ \A n \in kept : life[t].end <= n
    BY <2>3, PageBounds
  <2>5. full \in BOOLEAN
    OBVIOUS
  <2> HIDE DEF page, full
  <2>6. /\ j \in JobSet(DOMAIN files) /\ j.pc = "row" /\ j.mode = job[s].mode
        /\ j.batch = job[s].batch /\ j.tries = job[s].tries /\ j.size = job[s].size
        /\ j.todo = job[s].todo /\ j.twice = job[s].twice /\ j.taken = job[s].taken
        /\ j.page = page /\ j.dropping = job[s].dropping /\ j.deleting = job[s].deleting
    BY <2>2, <2>4, <2>5 DEF JobSet, Pcs
  <2> HIDE DEF j
  <2>7. /\ job' \in [Sessions -> JobSet(DOMAIN files)] /\ job'[s] = j
        /\ \A t \in Sessions \ {s} : job'[t] = job[t]
    BY <2>1, <2>6, Moved DEF RestInv
  <2>8. job[s].dropping = {} /\ job[s].deleting = {}
    BY <1>1, <2>2 DEF InUse
  <2>9. InUse(s)'
    BY <1>1, <2>2, <2>6, <2>7 DEF InUse
  <2>10. PageOK(s)'
    <3>1. Cardinality(job'[s].page) + Cardinality(job'[s].dropping) <= job'[s].size
      BY <2>3, <2>4, <2>6, <2>7, <2>8, FS_EmptySet
    <3>2. \A t \in job'[s].page \cup job'[s].deleting :
            life'[t].end # 0 /\ \A n \in kept' : life'[t].end <= n
      BY <1>1, <2>4, <2>6, <2>7, <2>8 DEF inlined
    <3> QED
      BY <2>6, <2>7, <2>8, <3>1, <3>2 DEF PageOK
  <2>11. RoundOK(s)'
    <3>1. job'[s].mode = "inline"
      BY <1>1, <2>2, <2>6, <2>7 DEF InUse
    <3> QED
      BY <2>6, <2>7, <3>1 DEF RoundOK
  <2> QED
    BY <1>1, <2>1, <2>7, <2>9, <2>10, <2>11, InsideKeepsRest
<1> QED
  BY <1>2, <1>3

\* A row leaves the page, and at most its table is dropped for it.
LEMMA OneRow ==
  ASSUME NEW page \in SUBSET Tables, NEW dropping \in SUBSET Tables, NEW t \in page,
         NEW D \in SUBSET {t}
  PROVE  Cardinality(page \ {t}) + Cardinality(dropping \cup D)
           <= Cardinality(page) + Cardinality(dropping)
<1>1. IsFiniteSet(page) /\ IsFiniteSet(dropping) /\ IsFiniteSet(dropping \cup {t})
      /\ IsFiniteSet(page \ {t})
  BY HistoryAssumption, FS_Subset, FS_AddElement
<1>2. Cardinality(page \ {t}) = Cardinality(page) - 1
  BY <1>1, FS_RemoveElement
<1>3. Cardinality(dropping \cup D) <= Cardinality(dropping) + 1
  <2>1. Cardinality(dropping) \in Nat
    BY <1>1, FS_CardinalityType
  <2>2. dropping \cup D = dropping \/ dropping \cup D = dropping \cup {t}
    OBVIOUS
  <2>3. Cardinality(dropping \cup {t}) \in {Cardinality(dropping), Cardinality(dropping) + 1}
    BY <1>1, FS_AddElement
  <2>4. CASE dropping \cup D = dropping
    <3>1. Cardinality(dropping) <= Cardinality(dropping) + 1
      BY <2>1
    <3>2. Cardinality(dropping \cup D) = Cardinality(dropping)
      BY <2>4
    <3> QED
      BY <3>1, <3>2
  <2>5. CASE dropping \cup D = dropping \cup {t}
    <3>1. \A c : c \in {Cardinality(dropping), Cardinality(dropping) + 1}
                   => c <= Cardinality(dropping) + 1
      BY <2>1
    <3>2. Cardinality(dropping \cup D) = Cardinality(dropping \cup {t})
      BY <2>5
    <3> QED
      BY <2>3, <3>1, <3>2
  <2> QED
    BY <2>2, <2>4, <2>5
<1>4. /\ Cardinality(page) \in Nat /\ Cardinality(dropping) \in Nat
      /\ Cardinality(dropping \cup D) \in Nat
  <2>1. IsFiniteSet(dropping \cup D)
    BY <1>1, FS_Subset
  <2> QED
    BY <1>1, <2>1, FS_CardinalityType
<1> QED
  BY <1>2, <1>3, <1>4

\* A row of the page is decided.
LEMMA TakeRowKeepsRest ==
  ASSUME UpkeepInv, RestInv, NEW s \in Sessions, TakeRow(s)
  PROVE  RestInv'
<1> DEFINE t == LowestIn(job[s].page)
           page == job[s].page \ {t}
           D == IF Spared(t) THEN {} ELSE {t} \cap present
           dropping == job[s].dropping \cup D
           deleting == job[s].deleting \cup RegistryRow(t)
           j == [job[s] EXCEPT !.page = page, !.last = t, !.dropping = dropping,
                               !.deleting = deleting]
<1>1. /\ job[s].pc = "row" /\ Busy(s) /\ job[s].page # {}
      /\ UNCHANGED <<files, rows, kept, queue, objects, inlined, lock, spent>>
  BY DEF TakeRow, At, Busy, lists
<1>2. job' = [job EXCEPT ![s] = j]
  BY DEF TakeRow
<1>3. job[s] \in JobSet(DOMAIN files) /\ InUse(s) /\ PageOK(s)
  BY ItsRecord
<1>4. /\ job[s].page \subseteq Tables /\ job[s].dropping \subseteq Tables
      /\ job[s].deleting \subseteq Tables /\ Tables \subseteq Nat /\ job[s].size \in Nat
  BY <1>3, HistoryAssumption DEF JobSet
<1>5. t \in job[s].page /\ t \in Nat
  <2>1. job[s].page \in SUBSET Nat
    BY <1>4
  <2> QED
    BY <1>1, <2>1, LowestExists
<1>6. D = RegistryRow(t) \cap present /\ RegistryRow(t) \subseteq {t} /\ D \cap filled = {}
  BY DEF RegistryRow, Spared
<1> HIDE DEF t, D
<1>7. /\ page \subseteq Tables /\ dropping \subseteq Tables /\ deleting \subseteq Tables
  BY <1>4, <1>5, <1>6
<1>8. Cardinality(page) + Cardinality(dropping) <= job[s].size
  <2>1. Cardinality(job[s].page) + Cardinality(job[s].dropping) <= job[s].size
    BY <1>1, <1>3 DEF PageOK
  <2>2. D \in SUBSET {t}
    BY <1>6
  <2>3. Cardinality(page) + Cardinality(dropping)
          <= Cardinality(job[s].page) + Cardinality(job[s].dropping)
    BY <1>4, <1>5, <2>2, OneRow
  <2>4. /\ Cardinality(page) \in Nat /\ Cardinality(dropping) \in Nat
        /\ Cardinality(job[s].page) \in Nat /\ Cardinality(job[s].dropping) \in Nat
    BY <1>4, <1>7, HistoryAssumption, FS_Subset, FS_CardinalityType
  <2> QED
    BY <1>4, <2>1, <2>3, <2>4
<1>9. dropping = deleting \cap present /\ dropping \cap filled = {} /\ dropping \subseteq deleting
  BY <1>1, <1>3, <1>6 DEF PageOK
<1>10. page \cup deleting \subseteq job[s].page \cup job[s].deleting
  BY <1>5, <1>6
<1> HIDE DEF page, dropping, deleting
<1>11. /\ j \in JobSet(DOMAIN files) /\ j.pc = "row" /\ j.mode = job[s].mode
       /\ j.batch = job[s].batch /\ j.tries = job[s].tries /\ j.size = job[s].size
       /\ j.todo = job[s].todo /\ j.twice = job[s].twice /\ j.taken = job[s].taken
       /\ j.page = page /\ j.dropping = dropping /\ j.deleting = deleting
  BY <1>1, <1>3, <1>5, <1>7 DEF JobSet
<1> HIDE DEF j
<1>12. /\ job' \in [Sessions -> JobSet(DOMAIN files)] /\ job'[s] = j
       /\ \A u \in Sessions \ {s} : job'[u] = job[u]
  BY <1>2, <1>11, Moved DEF RestInv
<1>13. InUse(s)'
  BY <1>1, <1>3, <1>9, <1>11, <1>12 DEF InUse
<1>14. PageOK(s)'
  <2>1. \A u \in job[s].page \cup job[s].deleting :
          life[u].end # 0 /\ \A n \in kept : life[u].end <= n
    BY <1>1, <1>3 DEF PageOK
  <2>2. \A u \in job'[s].page \cup job'[s].deleting :
          life'[u].end # 0 /\ \A n \in kept' : life'[u].end <= n
    BY <1>1, <1>10, <1>11, <1>12, <2>1 DEF inlined
  <2> QED
    BY <1>1, <1>8, <1>9, <1>11, <1>12, <2>2 DEF PageOK, inlined
<1>15. RoundOK(s)'
  <2>1. job'[s].mode = "inline"
    BY <1>1, <1>3, <1>11, <1>12 DEF InUse
  <2> QED
    BY <1>11, <1>12, <2>1 DEF RoundOK
<1> QED
  BY <1>1, <1>12, <1>13, <1>14, <1>15, InsideKeepsRest

\* The rest of the page is given up.
LEMMA TruncateKeepsRest ==
  ASSUME UpkeepInv, RestInv, NEW s \in Sessions, Truncate(s)
  PROVE  RestInv'
<1> DEFINE j == [job[s] EXCEPT !.page = {}, !.full = FALSE]
<1>1. /\ job[s].pc = "row" /\ Busy(s)
      /\ UNCHANGED <<files, rows, kept, queue, objects, inlined, lock, spent>>
  BY DEF Truncate, At, Busy, lists
<1>2. job' = [job EXCEPT ![s] = j]
  BY DEF Truncate
<1>3. job[s] \in JobSet(DOMAIN files) /\ InUse(s) /\ PageOK(s)
  BY ItsRecord
<1>4. /\ j \in JobSet(DOMAIN files) /\ j.pc = "row" /\ j.mode = job[s].mode
      /\ j.batch = job[s].batch /\ j.tries = job[s].tries /\ j.size = job[s].size
      /\ j.todo = job[s].todo /\ j.twice = job[s].twice /\ j.taken = job[s].taken
      /\ j.page = {} /\ j.dropping = job[s].dropping /\ j.deleting = job[s].deleting
  BY <1>1, <1>3 DEF JobSet
<1> HIDE DEF j
<1>5. /\ job' \in [Sessions -> JobSet(DOMAIN files)] /\ job'[s] = j
      /\ \A u \in Sessions \ {s} : job'[u] = job[u]
  BY <1>2, <1>4, Moved DEF RestInv
<1>6. InUse(s)'
  BY <1>1, <1>3, <1>4, <1>5 DEF InUse
<1>7. PageOK(s)'
  <2>1. /\ Cardinality(job[s].page) \in Nat /\ Cardinality(job[s].dropping) \in Nat
        /\ job[s].size \in Nat
    BY <1>3, HistoryAssumption, FS_Subset, FS_CardinalityType DEF JobSet
  <2>2. Cardinality(job'[s].page) + Cardinality(job'[s].dropping) <= job'[s].size
    <3>1. Cardinality(job[s].page) + Cardinality(job[s].dropping) <= job[s].size
      BY <1>1, <1>3 DEF PageOK
    <3>2. Cardinality(job'[s].page) = 0
      BY <1>4, <1>5, FS_EmptySet
    <3>3. Cardinality(job'[s].dropping) = Cardinality(job[s].dropping) /\ job'[s].size = job[s].size
      BY <1>4, <1>5
    <3> QED
      BY <2>1, <3>1, <3>2, <3>3
  <2>3. \A u \in job'[s].page \cup job'[s].deleting :
          life'[u].end # 0 /\ \A n \in kept' : life'[u].end <= n
    BY <1>1, <1>3, <1>4, <1>5 DEF PageOK, inlined
  <2>4. job'[s].dropping = job'[s].deleting \cap present' /\ job'[s].dropping \cap filled' = {}
    BY <1>1, <1>3, <1>4, <1>5 DEF PageOK, inlined
  <2> QED
    BY <2>2, <2>3, <2>4 DEF PageOK
<1>8. RoundOK(s)'
  <2>1. job'[s].mode = "inline"
    BY <1>1, <1>3, <1>4, <1>5 DEF InUse
  <2> QED
    BY <1>4, <1>5, <2>1 DEF RoundOK
<1> QED
  BY <1>1, <1>5, <1>6, <1>7, <1>8, InsideKeepsRest

\* The page commits: no table that is needed goes, and no registry row without
\* its table.
LEMMA CommitPageKeepsTables ==
  ASSUME UpkeepInv, RestInv, NEW s \in Sessions, CommitPage(s)
  PROVE  TablesOK'
<1>1. /\ job[s].pc = "row" /\ UNCHANGED <<kept, life, filled>>
      /\ present' = present \ job[s].dropping /\ registry' = registry \ job[s].deleting
  BY DEF CommitPage, At, lists
<1>2. /\ \A t \in job[s].deleting : life[t].end # 0 /\ \A n \in kept : life[t].end <= n
      /\ job[s].dropping = job[s].deleting \cap present /\ job[s].dropping \cap filled = {}
  BY <1>1, ItsRecord DEF PageOK
<1>3. Head' = Head
  BY <1>1 DEF Head
<1>4. TablesOK
  BY DEF RestInv
<1>5. present' \subseteq registry'
  BY <1>1, <1>2, <1>4 DEF TablesOK, NeededTablesStay
<1>6. ASSUME NEW t \in Tables \ Missing, t \in filled' \/ \E n \in kept' : Reads(n, life'[t])
      PROVE  t \in present'
  <2>1. t \in present
    BY <1>1, <1>4, <1>6 DEF TablesOK, NeededTablesStay
  <2>2. t \notin job[s].dropping
    <3>1. CASE t \in filled'
      BY <1>1, <1>2, <3>1
    <3>2. CASE \E n \in kept' : Reads(n, life'[t])
      <4>1. PICK n \in kept : Reads(n, life[t])
        BY <1>1, <3>2
      <4>2. n \in Nat /\ life[t].end \in Nat
        BY <1>4 DEF TablesOK, UpkeepInv, ClockOK
      <4>3. ~ (life[t].end # 0 /\ life[t].end <= n)
        BY <4>1, <4>2 DEF Reads
      <4> QED
        BY <1>2, <4>3
    <3> QED
      BY <1>6, <3>1, <3>2
  <2> QED
    BY <1>1, <2>1, <2>2
<1>7. NeededTablesStay'
  BY <1>5, <1>6 DEF NeededTablesStay
<1> QED
  BY <1>1, <1>3, <1>4, <1>7 DEF TablesOK

\* The batch of the next page is within the size the command started with.
LEMMA CommitPageKeepsRest ==
  ASSUME UpkeepInv, RestInv, NEW s \in Sessions, CommitPage(s)
  PROVE  RestInv'
<1>1. /\ job[s].pc = "row" /\ Busy(s) /\ UNCHANGED <<files, rows, kept, queue, objects, spent>>
  BY DEF CommitPage, At, Busy, lists
<1>2. TablesOK'
  BY CommitPageKeepsTables
<1>3. QueueOK'
  BY <1>1, QueueStays DEF RestInv
<1>4. job[s] \in JobSet(DOMAIN files) /\ InUse(s)
  BY ItsRecord
<1>5. CASE ~ job[s].full
  BY <1>1, <1>2, <1>3, <1>5, EndsKeepsRest DEF CommitPage
<1>6. CASE job[s].full
  <2> DEFINE clean == IF job[s].tries = 0 THEN job[s].clean + 1 ELSE 0
             grows == clean >= RegrowAfter /\ job[s].size < StartSize
             streak == IF grows THEN 0 ELSE Lesser(clean, RegrowAfter)
             size == IF grows THEN Regrown(job[s].size) ELSE job[s].size
             j == [IdleJob EXCEPT !.pc = "page", !.mode = "inline", !.after = job[s].last,
                     !.last = job[s].last, !.clean = streak, !.size = size]
  <2>1. job' = [job EXCEPT ![s] = j] /\ lock' = lock
    BY <1>6 DEF CommitPage
  <2>2. /\ job[s].clean \in Nat /\ job[s].size \in Nat /\ job[s].last \in Nat
        /\ job[s].size <= StartSize
    BY <1>4 DEF JobSet, InUse
  <2>3. RegrowAfter \in Nat \ {0} /\ MaxAttempts \in Nat \ {0} /\ StartSize \in Nat
    BY NumberAssumption, StartSizeBounds
  <2>4. clean \in Nat
    BY <2>2
  <2>5. streak \in Nat
    <3> HIDE DEF clean
    <3> QED
      BY <2>3, <2>4 DEF Lesser
  <2>6. size \in Nat /\ size <= StartSize
    <3>1. Regrown(job[s].size) \in Nat /\ Regrown(job[s].size) <= StartSize
      <4>1. job[s].size * 2 \in Nat
        BY <2>2
      <4> QED
        BY <2>3, <4>1 DEF Regrown, Lesser
    <3> HIDE DEF grows
    <3> QED
      BY <2>2, <3>1
  <2> HIDE DEF clean, grows, streak, size
  <2>7. /\ j \in JobSet(DOMAIN files) /\ j.pc = "page" /\ j.mode = "inline"
        /\ j.batch = {} /\ j.tries = 0 /\ j.size = size
        /\ j.todo = {} /\ j.twice = {} /\ j.taken = {}
        /\ j.page = {} /\ j.dropping = {} /\ j.deleting = {}
    BY <2>2, <2>5, <2>6 DEF JobSet, IdleJob, Pcs, Modes
  <2> HIDE DEF j
  <2>8. /\ job' \in [Sessions -> JobSet(DOMAIN files)] /\ job'[s] = j
        /\ \A t \in Sessions \ {s} : job'[t] = job[t]
    BY <2>1, <2>7, Moved DEF RestInv
  <2>9. InUse(s)'
    BY <2>3, <2>6, <2>7, <2>8 DEF InUse
  <2>10. PageOK(s)' /\ RoundOK(s)'
    BY <2>7, <2>8 DEF PageOK, RoundOK
  <2> QED
    BY <1>1, <1>2, <1>3, <2>1, <2>8, <2>9, <2>10, RestSession
<1> QED
  BY <1>5, <1>6

\* A page that fails is tried again, as large as it was or smaller.
LEMMA PageFailsKeepsRest ==
  ASSUME UpkeepInv, RestInv, NEW s \in Sessions, PageFails(s)
  PROVE  RestInv'
<1>1. /\ job[s].pc = "row" /\ Busy(s) /\ Upset
      /\ UNCHANGED <<files, rows, kept, queue, objects, inlined>>
  BY DEF PageFails, At, Busy, lists
<1>2. job[s] \in JobSet(DOMAIN files) /\ InUse(s)
  BY ItsRecord
<1>3. CASE job[s].tries + 1 = MaxAttempts
  BY <1>1, <1>3, QuietEndKeepsRest DEF PageFails
<1>4. CASE job[s].tries + 1 # MaxAttempts
  <2>1. lock' = lock /\ \E size \in {job[s].size, Halved(job[s].size)} :
               job' = [job EXCEPT ![s].pc = "page", ![s].tries = @ + 1, ![s].size = size,
                         ![s].last = job[s].after, ![s].page = {}, ![s].full = FALSE,
                         ![s].dropping = {}, ![s].deleting = {}]
    BY <1>4 DEF PageFails
  <2>2. PICK size \in {job[s].size, Halved(job[s].size)} :
               job' = [job EXCEPT ![s].pc = "page", ![s].tries = @ + 1, ![s].size = size,
                         ![s].last = job[s].after, ![s].page = {}, ![s].full = FALSE,
                         ![s].dropping = {}, ![s].deleting = {}]
    BY <2>1
  <2> DEFINE tries == job[s].tries + 1
             last == job[s].after
             j == [job[s] EXCEPT !.pc = "page", !.tries = tries, !.size = size,
                     !.last = last, !.page = {}, !.full = FALSE, !.dropping = {}, !.deleting = {}]
  <2>3. job' = [job EXCEPT ![s] = j]
    BY <2>2
  <2>4. /\ job[s].size \in Nat /\ job[s].size <= StartSize /\ job[s].tries \in Nat
        /\ job[s].mode = "inline" /\ job[s].tries < MaxAttempts /\ last \in Nat
    BY <1>1, <1>2 DEF JobSet, InUse
  <2>5. MaxAttempts \in Nat /\ MinBatch \in Nat /\ StartSize \in Nat
    BY NumberAssumption, StartSizeBounds
  <2>6. size \in Nat /\ size <= StartSize
    <3>1. job[s].size \div 2 \in Nat
      BY <2>4
    <3>2. Halved(job[s].size) \in Nat /\ Halved(job[s].size) <= job[s].size
      BY <2>4, <2>5, <3>1 DEF Halved, Lesser, Greater
    <3> QED
      BY <2>4, <2>5, <3>2
  <2>7. tries \in Nat /\ tries < MaxAttempts
    BY <1>4, <2>4, <2>5
  <2> HIDE DEF tries, last
  <2>8. /\ j \in JobSet(DOMAIN files) /\ j.pc = "page" /\ j.mode = job[s].mode
        /\ j.batch = job[s].batch /\ j.tries = tries /\ j.size = size
        /\ j.todo = job[s].todo /\ j.twice = job[s].twice /\ j.taken = job[s].taken
        /\ j.page = {} /\ j.dropping = {} /\ j.deleting = {}
    BY <1>2, <2>4, <2>6, <2>7 DEF JobSet, Pcs
  <2> HIDE DEF j
  <2>9. /\ job' \in [Sessions -> JobSet(DOMAIN files)] /\ job'[s] = j
        /\ \A t \in Sessions \ {s} : job'[t] = job[t]
    BY <2>3, <2>8, Moved DEF RestInv
  <2>10. InUse(s)'
    BY <1>1, <1>2, <2>4, <2>6, <2>7, <2>8, <2>9 DEF InUse
  <2>11. PageOK(s)' /\ RoundOK(s)'
    BY <2>4, <2>8, <2>9 DEF PageOK, RoundOK
  <2> QED
    BY <1>1, <2>1, <2>9, <2>10, <2>11, InsideKeepsRest
<1> QED
  BY <1>3, <1>4

-----------------------------------------------------------------------------
(* The rest of the invariant holds at first, and always.                   *)

\* The catalog before the first command.
LEMMA RestInit == Init => RestInv
<1> SUFFICES ASSUME Init
             PROVE  RestInv
  OBVIOUS
<1>1. JobsOK
  <2>1. \A s \in Sessions : job[s] = IdleJob
    BY DEF Init
  <2>2. job \in [Sessions -> JobSet(DOMAIN files)]
    BY <2>1, IdleIsFine DEF Init
  <2>3. MaxAttempts \in Nat \ {0}
    BY NumberAssumption
  <2>4. \A s \in Sessions : InUse(s)
    BY <2>1, <2>3, IdleIsFine, StartSizeBounds DEF InUse
  <2> QED
    BY <2>2, <2>4 DEF JobsOK
<1>2. BoundsOK
  BY NumberAssumption DEF Init, BoundsOK
<1>3. \A o \in DOMAIN files : queue[o] = 0 /\ o \notin Queued
  BY DEF Init, Queued
<1>4. QueueOK
  <2>1. \A o \in rows : o \notin Queued
    BY DEF Init, Queued
  <2> QED
    BY <1>3, <2>1 DEF QueueOK, Init
<1>5. SessionsOK
  BY IdleIsFine DEF Init, SessionsOK, PageOK, RoundOK
<1>6. TablesOK
  <2>1. /\ life = InitialTables /\ registry = Tables /\ present = Tables \ Missing
        /\ filled = Unflushed /\ kept = DOMAIN SnapshotTime
    BY DEF Init
  <2>2. Head \in Nat /\ \A n \in kept : n <= Head
    BY UpkeepInvInit, HeadIsNewest DEF UpkeepInv
  <2>3. DOMAIN SnapshotTime \subseteq Nat
    BY UpkeepInvInit, <2>1 DEF UpkeepInv, ClockOK
  <2>4. /\ InitialTables \in [Tables -> [begin : DOMAIN SnapshotTime, end : DOMAIN SnapshotTime \cup {0}]]
        /\ Unflushed \subseteq Tables /\ Missing \cap Unflushed = {}
    BY HistoryAssumption
  <2>5. life \in [Tables -> [begin : Nat, end : Nat]] /\ \A t \in Tables : life[t].begin <= Head
    BY <2>1, <2>2, <2>3, <2>4
  <2>6. NeededTablesStay
    BY <2>1 DEF NeededTablesStay
  <2> QED
    BY <2>1, <2>4, <2>5, <2>6 DEF TablesOK
<1> QED
  BY <1>1, <1>2, <1>4, <1>5, <1>6 DEF RestInv

\* Every step keeps it.
LEMMA RestStep == UpkeepInv /\ RestInv /\ [Next]_vars => RestInv'
<1> SUFFICES ASSUME UpkeepInv, RestInv, [Next]_vars
             PROVE  RestInv'
  OBVIOUS
<1>1. CASE Engine
  BY <1>1, EngineKeepsRest
<1>2. ASSUME NEW s \in Sessions, Start(s)
      PROVE  RestInv'
  BY <1>2, StartKeepsRest
<1>3. ASSUME NEW s \in Sessions, Step(s)
      PROVE  RestInv'
  BY <1>3, ExpireKeepsRest, SelectKeepsRest, ScheduleKeepsRest, CommitBatchKeepsRest,
     DedupKeepsRest, ScanKeepsRest, PassGateKeepsRest, EndingKeepsRest, HealKeepsRest,
     TakeQueueKeepsRest, RemoveObjectKeepsRest, RemovalCrashesKeepsRest, RemovalCommitsKeepsRest,
     SelectPageKeepsRest, TakeRowKeepsRest, CommitPageKeepsRest DEF Step
<1>4. ASSUME NEW s \in Sessions, Faults(s)
      PROVE  RestInv'
  BY <1>4, EndingKeepsRest, RemovalCrashesKeepsRest, PageFailsKeepsRest, TruncateKeepsRest
     DEF Faults
<1>5. CASE UNCHANGED vars
  <2>1. UNCHANGED <<files, rows, kept, queue, objects, life, registry, present, filled, lock, job, spent>>
    BY <1>5 DEF vars, lists, inlined
  <2>2. JobsOK' /\ BoundsOK'
    BY <2>1 DEF RestInv, JobsOK, InUse, BoundsOK
  <2>3. TablesOK' /\ QueueOK'
    BY <2>1 DEF RestInv, TablesOK, NeededTablesStay, Head, QueueOK, Queued
  <2>4. \A s \in Sessions : PageOK(s)' /\ RoundOK(s)'
    BY <2>1 DEF RestInv, SessionsOK, PageOK, RoundOK, Poisoned, Queued
  <2> QED
    BY <2>2, <2>3, <2>4 DEF RestInv, SessionsOK
<1> QED
  BY <1>1, <1>2, <1>3, <1>4, <1>5 DEF Next

\* What the sessions do, the inlined tables, the queue: all of it holds of
\* every state that is reached.
THEOREM RestInvariant == Spec => [](UpkeepInv /\ RestInv)
<1>1. Init => UpkeepInv /\ RestInv
  BY UpkeepInvInit, RestInit
<1>2. UpkeepInv /\ RestInv /\ [Next]_vars => UpkeepInv' /\ RestInv'
  BY UpkeepInvStep, RestStep
<1> QED
  BY <1>1, <1>2, PTL DEF Spec

\* Every variable keeps its type, within the stated bounds.
THEOREM TypeCorrect == Spec => []TypeOK
<1>1. UpkeepInv /\ RestInv => TypeOK
  <2> SUFFICES ASSUME UpkeepInv, RestInv
               PROVE  TypeOK
    OBVIOUS
  <2>1. /\ files \in [DOMAIN files -> [begin : Nat, end : Nat, of : Nat]]
        /\ rows \subseteq DOMAIN files /\ objects \subseteq DOMAIN files
        /\ queue \in [DOMAIN files -> Nat]
    BY DEF UpkeepInv, CatalogShape, ClockOK
  <2>2. queue \in [DOMAIN files -> 0 .. 1 + MaxUpsets]
    <3>1. spent.upsets \in Nat /\ spent.upsets <= MaxUpsets /\ MaxUpsets \in Nat
      BY NumberAssumption DEF RestInv, BoundsOK
    <3>2. \A o \in DOMAIN files : queue[o] \in Nat /\ queue[o] <= 1 + spent.upsets
      BY <2>1 DEF RestInv, QueueOK
    <3>3. \A o \in DOMAIN files : queue[o] \in 0 .. 1 + MaxUpsets
      BY <3>1, <3>2
    <3> QED
      BY <2>1, <3>3
  <2>3. /\ present \subseteq Tables /\ registry \subseteq Tables /\ filled \subseteq Tables
        /\ lock \in Sessions \cup {"free"}
    BY DEF RestInv, TablesOK, BoundsOK
  <2>4. Head \in kept /\ Head \in Nat
    BY HeadIsNewest DEF UpkeepInv
  <2>5. ASSUME NEW s \in Sessions
        PROVE  /\ job[s].batch \cap {Head} = {} /\ job[s].mode \in Modes
               /\ job[s].tries \in 0 .. Greater(MaxIterations, MaxAttempts)
               /\ job[s].dead \cup job[s].found \cup job[s].taken \subseteq DOMAIN files
               /\ job[s].todo \cup job[s].twice \subseteq job[s].taken
               /\ job[s].dropping \subseteq job[s].deleting /\ job[s].deleting \subseteq Tables
    <3>1. job[s] \in JobSet(DOMAIN files) /\ InUse(s)
      BY ItsRecord
    <3>2. job[s].batch \cap {Head} = {}
      <4>1. CASE job[s].pc \in {"schedule", "cascade"}
        <5>1. \A n \in job[s].batch : n < Head
          BY <4>1 DEF UpkeepInv, ReadingsHold, StillTrue, StillOld
        <5> QED
          BY <2>4, <5>1
      <4>2. CASE job[s].pc \notin {"schedule", "cascade"}
        BY <3>1, <4>2 DEF InUse
      <4> QED
        BY <4>1, <4>2
    <3>3. job[s].tries \in 0 .. Greater(MaxIterations, MaxAttempts)
      <4>1. /\ job[s].tries \in Nat /\ MaxIterations \in Nat /\ MaxAttempts \in Nat
        BY <3>1, NumberAssumption DEF JobSet
      <4>2. job[s].tries <= MaxIterations \/ job[s].tries <= MaxAttempts
        BY <3>1, <4>1 DEF InUse
      <4> QED
        BY <4>1, <4>2 DEF Greater
    <3> QED
      BY <3>1, <3>2, <3>3 DEF JobSet, InUse
  <2> QED
    BY <2>1, <2>2, <2>3, <2>4, <2>5 DEF TypeOK
<1> QED
  BY <1>1, RestInvariant, PTL

\* ducklake_maintenance.py:3837-3871, 3996-4023: whatever the ingest pods commit
\* between the reading of a page and its commit, no table that a snapshot can
\* read or that holds a row is dropped, and none loses its registry row.
THEOREM NeededTablesAlwaysStay == Spec => []NeededTablesStay
<1>1. RestInv => NeededTablesStay
  BY DEF RestInv, TablesOK
<1> QED
  BY <1>1, RestInvariant, PTL

\* ducklake_maintenance.py:360-363 and 1630-1657: an object is queued twice, and
\* cleanup-all-safe gives up, only for what happens outside the lock.
THEOREM QueueTroubleIsUpset == Spec => []QueueTroubleNeedsUpsets
<1>1. UpkeepInv /\ RestInv => QueueTroubleNeedsUpsets
  <2> SUFFICES ASSUME UpkeepInv, RestInv
               PROVE  QueueTroubleNeedsUpsets
    OBVIOUS
  <2>1. spent.upsets \in Nat
    BY DEF RestInv, BoundsOK
  <2>2. ASSUME NEW o \in Queued, queue[o] > 1
        PROVE  spent.upsets > 0
    <3>1. o \in DOMAIN files /\ queue[o] \in Nat
      BY DEF UpkeepInv, CatalogShape, Queued
    <3>2. queue[o] <= 1 + spent.upsets
      BY <3>1 DEF RestInv, QueueOK
    <3> QED
      BY <2>1, <2>2, <3>1, <3>2
  <2>3. ASSUME NEW s \in Sessions, At(s, "exhausted")
        PROVE  spent.upsets >= MaxIterations
    <3>1. job[s].mode = "safe" /\ job[s].tries = MaxIterations
      BY <2>3, ItsRecord DEF InUse, At
    <3>2. job[s].tries <= spent.upsets
      BY <3>1, ItsRecord DEF RoundOK
    <3>3. MaxIterations \in Nat
      BY NumberAssumption
    <3> QED
      BY <2>1, <3>1, <3>2, <3>3
  <2> QED
    BY <2>2, <2>3 DEF QueueTroubleNeedsUpsets
<1> QED
  BY <1>1, RestInvariant, PTL

\* What fits the budget fits the share of the lock table it was computed from.
LEMMA BudgetFits ==
  ASSUME NEW c \in Nat, c <= StartSize
  PROVE  c * EntriesPerDrop <= Greater(Capacity \div ShareOf, MinBatch * EntriesPerDrop)
<1> DEFINE share == Capacity \div ShareOf
<1>1. /\ share \in Nat /\ StartSize \in Nat /\ LockBudget \in Nat
      /\ StartSize <= MinBatch \/ StartSize <= LockBudget
      /\ LockBudget = share \div EntriesPerDrop
  BY StartSizeBounds DEF LockBudget
<1>2. EntriesPerDrop \in Nat \ {0} /\ MinBatch \in Nat \ {0}
  BY NumberAssumption
<1> HIDE DEF share
<1>3. \A a, b, e \in Nat : a <= b => a * e <= b * e
  OBVIOUS
<1>4. \A a \in Nat, e \in Nat \ {0} : (a \div e) * e <= a
  OBVIOUS
<1>5. \A a, e \in Nat : a * e \in Nat
  OBVIOUS
<1>6. CASE c <= MinBatch
  <2>1. c * EntriesPerDrop <= MinBatch * EntriesPerDrop
    BY <1>2, <1>3, <1>6
  <2>2. c * EntriesPerDrop \in Nat /\ MinBatch * EntriesPerDrop \in Nat
    BY <1>2, <1>5
  <2> QED
    BY <1>1, <2>1, <2>2 DEF Greater, share
<1>7. CASE c <= LockBudget
  <2>1. c * EntriesPerDrop <= LockBudget * EntriesPerDrop
    BY <1>1, <1>2, <1>3, <1>7
  <2>2. LockBudget * EntriesPerDrop <= share
    BY <1>1, <1>2, <1>4
  <2>3. /\ c * EntriesPerDrop \in Nat /\ MinBatch * EntriesPerDrop \in Nat
        /\ LockBudget * EntriesPerDrop \in Nat
    BY <1>1, <1>2, <1>5
  <2> QED
    BY <1>1, <2>1, <2>2, <2>3 DEF Greater, share
<1> QED
  BY <1>1, <1>2, <1>6, <1>7

\* ducklake_maintenance.py:3718-3763: halved, grown back or as it started, a
\* batch never holds more of the lock table than its share, or the minimum.
THEOREM LockTableIsShared == Spec => []LockTableShare
<1>1. RestInv => LockTableShare
  <2> SUFFICES ASSUME RestInv, NEW s \in Sessions
               PROVE  Cardinality(job[s].dropping) * EntriesPerDrop
                        <= Greater(Capacity \div ShareOf, MinBatch * EntriesPerDrop)
    BY DEF LockTableShare
  <2>1. job[s] \in JobSet(DOMAIN files) /\ InUse(s) /\ PageOK(s)
    BY ItsRecord
  <2>2. /\ Cardinality(job[s].dropping) \in Nat /\ Cardinality(job[s].page) \in Nat
        /\ job[s].size \in Nat /\ job[s].size <= StartSize /\ StartSize \in Nat
    BY <2>1, HistoryAssumption, FS_Subset, FS_CardinalityType, StartSizeBounds DEF JobSet, InUse
  <2>3. Cardinality(job[s].dropping) <= StartSize
    <3>1. CASE job[s].pc = "row"
      <4>1. Cardinality(job[s].page) + Cardinality(job[s].dropping) <= job[s].size
        BY <2>1, <3>1 DEF PageOK
      <4> QED
        BY <2>2, <4>1
    <3>2. CASE job[s].pc # "row"
      <4>1. Cardinality(job[s].dropping) = 0
        BY <2>1, <3>2, FS_EmptySet DEF InUse
      <4> QED
        BY <2>2, <4>1
    <3> QED
      BY <3>1, <3>2
  <2> QED
    BY <2>2, <2>3, BudgetFits
<1> QED
  BY <1>1, RestInvariant, PTL
=============================================================================
