---------------------------- MODULE ConsumeLoop ----------------------------
(***************************************************************************)
(* The consume-write loop of one millpond pod (millpond/main.py), with the *)
(* start-up of its consumer (millpond/consumer.py), the batch size of      *)
(* millpond/backpressure.py, and a destination seen through sink.write().  *)
(*                                                                         *)
(* A record is a pair <<p, o>>: partition and offset.  Its payload is      *)
(* abstracted to what the loop does with it:                               *)
(*   "row"        converts to one row that passes both filters,            *)
(*   "drop"       has a value that yields no row (undecodable, filtered),  *)
(*   "tombstone"  has no value: the loop does not even note its offset,    *)
(*   "poison"     makes the conversion of its whole poll batch raise.      *)
(***************************************************************************)
EXTENDS Integers, FiniteSets

CONSTANTS
  Partitions,        \* the partitions assigned to this pod
  LogLength,         \* bound: records per partition over the whole run
  Kinds,             \* the kinds of record that producers send
  AutoOffsetReset,   \* KAFKA_AUTO_OFFSET_RESET
  Keyed,             \* TRUE: the sink publishes under the flush's offset key
  FlushSize,         \* FLUSH_SIZE, in rows
  MinBatch,          \* backpressure.MIN_BATCH_SIZE
  MaxBatch,          \* CONSUME_BATCH_SIZE
  WriteAttempts,     \* the sink's write_retry_budget, or _WRITE_MAX_RETRIES
  CommitAttempts,    \* _COMMIT_MAX_RETRIES
  MaxFaults,         \* bound: crashes, failed writes, failed commits, rewinds
  MaxStops,          \* bound: SIGTERMs
  MaxExpired         \* bound: records of a partition retention deletes

ASSUME PartitionAssumption == IsFiniteSet(Partitions)
ASSUME LogAssumption == LogLength \in Nat
ASSUME KindAssumption == Kinds \subseteq {"row", "drop", "tombstone", "poison"}
ASSUME ResetAssumption == AutoOffsetReset \in {"earliest", "latest"}
ASSUME KeyedAssumption == Keyed \in BOOLEAN
ASSUME BudgetAssumption ==
  /\ WriteAttempts \in Nat \ {0} /\ CommitAttempts \in Nat \ {0}
  /\ MaxFaults \in Nat /\ MaxStops \in Nat /\ MaxExpired \in Nat
ASSUME BatchAssumption ==
  /\ FlushSize \in Nat \ {0} /\ MinBatch \in Nat \ {0} /\ MaxBatch \in Nat
  /\ MinBatch <= MaxBatch

Offsets == 0 .. LogLength - 1
OffsetInvalid == -1      \* no offset is committed for the partition
Unset == -1              \* the partition is not a key of the offsets dict

VARIABLES
  kind,       \* kind[p][o]: what the record at offset o of p is, once produced
  low,        \* low[p]: first offset the broker still retains
  high,       \* high[p]: next offset to be produced
  committed,  \* committed[p]: the group's offset in __consumer_offsets
  lake,       \* lake[p][o]: how many times the row is in the destination
  receipts,   \* the flush keys the destination has recorded
  phase,      \* where the pod's single thread is
  pos,        \* pos[p]: the consumer's fetch position
  first,      \* offsets[p] == (first, last) in main(), Unset when absent
  last,
  pending,    \* the rows in the pending buffer
  attempt,    \* the loop counter of _write_with_retry and of _flush
  final,      \* TRUE: this flush is the final flush of the shutdown path
  permanent,  \* loop_error carries _PERMANENT_WRITE_ATTR
  shutdown,   \* on_signal has run
  seen,       \* history: every offset ever handed to a pod
  mine,       \* history: the rows this process published
  faults,     \* how much of MaxFaults is spent
  stops       \* how much of MaxStops is spent

broker == <<kind, low, high>>
memory == <<pos, first, last, pending, attempt, final, permanent, shutdown>>
history == <<seen, mine, faults, stops>>
vars == <<broker, committed, lake, receipts, phase, memory, history>>

Phases == {"down", "poll", "write", "commit", "unwind", "closing"}
Running == phase # "down"

---------------------------------------------------------------------------
(* What the broker and the destination tell apart.                         *)

IsRow(p, o) == kind[p][o] = "row"
Published(p, o) == lake[p][o] > 0

\* Where auto.offset.reset sends a consumer that has no usable offset.
ResetTarget(p) == IF AutoOffsetReset = "latest" THEN high[p] ELSE low[p]

\* Mutant: the stored offset is never used.
ResumeFromReset(p, stored) == ResetTarget(p)

\* OFFSET_STORED: where a consumer assigned to p starts, given a stored offset.
ResumeFrom(p, stored) ==
  IF stored = OffsetInvalid \/ stored < low[p] THEN ResetTarget(p) ELSE stored

\* Mutants: a key that names only the high end of each range, and one that
\* makes the flush trigger part of the identity.
FlushKeyHighOnly == [p \in {q \in Partitions : last[q] # Unset} |-> last[p]]
FlushKeyWithTrigger == <<final, first, last>>

\* The name of a flush: every partition in it with both ends of its range.
FlushKey ==
  [p \in {q \in Partitions : last[q] # Unset} |-> [first |-> first[p], last |-> last[p]]]

---------------------------------------------------------------------------
Init ==
  /\ kind = [p \in Partitions |-> [o \in Offsets |-> "unwritten"]]
  /\ low = [p \in Partitions |-> 0]
  /\ high = [p \in Partitions |-> 0]
  /\ committed = [p \in Partitions |-> OffsetInvalid]
  /\ lake = [p \in Partitions |-> [o \in Offsets |-> 0]]
  /\ receipts = {}
  /\ phase = "down"
  /\ pos = [p \in Partitions |-> 0]
  /\ first = [p \in Partitions |-> Unset]
  /\ last = [p \in Partitions |-> Unset]
  /\ pending = {}
  /\ attempt = 0
  /\ final = FALSE /\ permanent = FALSE /\ shutdown = FALSE
  /\ seen = [p \in Partitions |-> {}]
  /\ mine = {}
  /\ faults = 0 /\ stops = 0

---------------------------------------------------------------------------
(* The broker and the operator.                                            *)

Produce(p) ==
  /\ high[p] < LogLength
  /\ \E k \in Kinds : kind' = [kind EXCEPT ![p][high[p]] = k]
  /\ high' = [high EXCEPT ![p] = @ + 1]
  /\ UNCHANGED <<low, committed, lake, receipts, phase, memory, history>>

\* Retention deletes the oldest record of p.
Expire(p) ==
  /\ low[p] < high[p] /\ low[p] < MaxExpired
  /\ low' = [low EXCEPT ![p] = @ + 1]
  /\ UNCHANGED <<kind, high, committed, lake, receipts, phase, memory, history>>

\* An operator resets the group's offset of p to re-consume it.  Kafka allows
\* this only while no consumer of the group is up.
Rewind(p) ==
  /\ phase = "down" /\ faults < MaxFaults
  /\ committed[p] > 0
  /\ \E o \in 0 .. committed[p] - 1 : committed' = [committed EXCEPT ![p] = o]
  /\ faults' = faults + 1
  /\ UNCHANGED <<broker, lake, receipts, phase, memory, seen, mine, stops>>

\* The process ends, losing everything it held in memory.
Die ==
  /\ phase' = "down"
  /\ pos' = [p \in Partitions |-> 0]
  /\ first' = [p \in Partitions |-> Unset]
  /\ last' = [p \in Partitions |-> Unset]
  /\ pending' = {}
  /\ attempt' = 0
  /\ final' = FALSE /\ permanent' = FALSE /\ shutdown' = FALSE
  /\ mine' = {}

\* SIGKILL, OOM kill, node loss: at any point of the loop.
Crash ==
  /\ Running /\ faults < MaxFaults
  /\ faults' = faults + 1
  /\ Die
  /\ UNCHANGED <<broker, committed, lake, receipts, seen, stops>>

\* on_signal: the flag is read only at the top of the loop.
Sigterm ==
  /\ Running /\ ~shutdown /\ stops < MaxStops
  /\ shutdown' = TRUE
  /\ stops' = stops + 1
  /\ UNCHANGED <<broker, committed, lake, receipts, phase, pos, first, last,
                 pending, attempt, final, permanent, seen, mine, faults>>

---------------------------------------------------------------------------
(* Start-up: consumer.create().                                            *)

\* _recover_stale_committed_offsets: partitions whose committed offset fell
\* below retention get the reset target committed.  `queried` are those whose
\* committed offset and watermarks could be read; the commit itself may fail.
\* Mutant: the low watermark is committed, stale or not.
RecoveredToLow(queried, commitOk) ==
  [p \in Partitions |->
     IF commitOk /\ p \in queried /\ committed[p] # OffsetInvalid THEN low[p] ELSE committed[p]]

Recovered(queried, commitOk) ==
  [p \in Partitions |->
     IF /\ commitOk /\ p \in queried
        /\ committed[p] # OffsetInvalid /\ committed[p] < low[p]
     THEN ResetTarget(p) ELSE committed[p]]

Start ==
  /\ phase = "down"
  /\ \E queried \in SUBSET Partitions, commitOk \in BOOLEAN :
       /\ committed' = Recovered(queried, commitOk)
       /\ pos' = [p \in Partitions |-> ResumeFrom(p, committed'[p])]
  /\ phase' = "poll"
  /\ UNCHANGED <<broker, lake, receipts, first, last, pending, attempt, final,
                 permanent, shutdown, history>>

\* The position fell out of retention while the pod was busy: librdkafka
\* applies auto.offset.reset by itself.
PositionReset(p) ==
  /\ phase = "poll"
  /\ pos[p] < low[p]
  /\ pos' = [pos EXCEPT ![p] = ResetTarget(p)]
  /\ UNCHANGED <<broker, committed, lake, receipts, phase, first, last, pending,
                 attempt, final, permanent, shutdown, history>>

---------------------------------------------------------------------------
(* One turn of the loop: consume, note offsets, convert, filter, buffer.   *)

\* Mutant: no backpressure.
BatchSizeFixed == MaxBatch

\* backpressure.compute_batch_size
BatchSize ==
  LET fitted == (MaxBatch * (FlushSize - Cardinality(pending))) \div FlushSize
  IN  IF fitted > MinBatch THEN fitted ELSE MinBatch

\* The records a poll returns when it delivers n[p] records of each p.
Delivered(n) ==
  {r \in Partitions \X Offsets : pos[r[1]] <= r[2] /\ r[2] < pos[r[1]] + n[r[1]]}

OfKind(records, k) == {r \in records : kind[r[1]][r[2]] = k}

OffsetsOf(records, p) == {o \in Offsets : <<p, o>> \in records}
Least(S) == CHOOSE x \in S : \A y \in S : x <= y
Greatest(S) == CHOOSE x \in S : \A y \in S : y <= x

\* Mutant: the range starts at the latest poll batch.
NotedFirstOfBatch(valued) ==
  [p \in Partitions |->
     IF OffsetsOf(valued, p) = {} THEN first[p] ELSE Least(OffsetsOf(valued, p))]

\* The message loop: the offsets of valued messages widen the range of p.
NotedFirst(valued) ==
  [p \in Partitions |->
     IF OffsetsOf(valued, p) = {} THEN first[p]
     ELSE Least(OffsetsOf(valued, p) \cup ({first[p]} \ {Unset}))]

NotedLast(valued) ==
  [p \in Partitions |->
     IF OffsetsOf(valued, p) = {} THEN last[p]
     ELSE Greatest(OffsetsOf(valued, p) \cup ({last[p]} \ {Unset}))]

\* Mutant: only the size trigger.
ShouldFlushOnSize(buffer, timeUp) == Cardinality(buffer) >= FlushSize

\* The flush triggers, checked after every poll.
ShouldFlush(buffer, timeUp) ==
  /\ buffer # {}
  /\ Cardinality(buffer) >= FlushSize \/ timeUp

\* A consume() that returns n records per partition.  timeUp says whether
\* flush_interval_s has elapsed when the triggers are checked.  A poison
\* record raises out of _convert_batch: the offsets are already noted, the
\* batch is not buffered.
Consume(n, timeUp) ==
  LET batch  == Delivered(n)
      valued == batch \ OfKind(batch, "tombstone")
      buffer == pending \cup OfKind(batch, "row")
  IN  /\ phase = "poll" /\ ~shutdown
      /\ \A p \in Partitions :
           n[p] > 0 => /\ pos[p] >= low[p]
                       /\ pos[p] + n[p] <= high[p]
      /\ Cardinality(batch) <= BatchSize
      /\ pos' = [p \in Partitions |-> pos[p] + n[p]]
      /\ seen' = [p \in Partitions |-> seen[p] \cup (pos[p] .. pos[p] + n[p] - 1)]
      /\ first' = NotedFirst(valued)
      /\ last' = NotedLast(valued)
      /\ IF OfKind(batch, "poison") # {}
         THEN /\ phase' = "unwind"
              /\ UNCHANGED pending
         ELSE /\ pending' = buffer
              /\ phase' = IF ShouldFlush(buffer, timeUp) THEN "write" ELSE "poll"
      /\ UNCHANGED <<broker, committed, lake, receipts, attempt, final, permanent,
                     shutdown, mine, faults, stops>>

Poll == \E n \in [Partitions -> 0 .. LogLength], timeUp \in BOOLEAN : Consume(n, timeUp)

\* SIGTERM was seen: the loop ends without an error.
LeaveLoop ==
  /\ phase = "poll" /\ shutdown
  /\ phase' = "unwind"
  /\ UNCHANGED <<broker, committed, lake, receipts, memory, history>>

---------------------------------------------------------------------------
(* _write_with_retry                                                       *)

\* The destination publishes the pending rows; a keyed one that already holds
\* a receipt for this key answers from it and publishes nothing.
Publish ==
  LET replay == Keyed /\ FlushKey \in receipts
  IN  /\ lake' = IF replay THEN lake
                 ELSE [p \in Partitions |-> [o \in Offsets |->
                         IF <<p, o>> \in pending THEN lake[p][o] + 1 ELSE lake[p][o]]]
      /\ receipts' = IF Keyed THEN receipts \cup {FlushKey} ELSE receipts
      /\ mine' = IF replay THEN mine ELSE mine \cup pending

\* Mutant: the error of the last attempt is swallowed.
RaiseSwallowed == phase' = "commit"

\* An exception leaves _flush: out of the loop, or swallowed by the final flush.
Raise == phase' = IF final THEN "closing" ELSE "unwind"

WriteOk ==
  /\ phase = "write"
  /\ Publish
  /\ phase' = "commit"
  /\ attempt' = 0
  /\ UNCHANGED <<broker, committed, pos, first, last, pending, final, permanent,
                 shutdown, seen, faults, stops>>

\* A retryable failure: nothing was published, or (applied) it was and the
\* answer got lost.  The loop retries, unless this was the last attempt or
\* the flush deadline leaves no room for another.
WriteFails(applied) ==
  /\ phase = "write" /\ faults < MaxFaults
  /\ faults' = faults + 1
  /\ IF applied THEN Publish ELSE UNCHANGED <<lake, receipts, mine>>
  /\ \/ /\ attempt < WriteAttempts - 1
        /\ attempt' = attempt + 1
        /\ UNCHANGED phase
     \/ /\ attempt' = 0
        /\ Raise
  /\ UNCHANGED <<broker, committed, pos, first, last, pending, final, permanent,
                 shutdown, seen, stops>>

\* The sink's is_retryable() says no: nothing was published, no more attempts.
WriteFailsPermanently ==
  /\ phase = "write" /\ faults < MaxFaults
  /\ faults' = faults + 1
  /\ permanent' = TRUE
  /\ attempt' = 0
  /\ Raise
  /\ UNCHANGED <<broker, committed, lake, receipts, pos, first, last, pending, final,
                 shutdown, seen, mine, stops>>

---------------------------------------------------------------------------
(* The rest of _flush: the synchronous offset commit, then the clean-up of *)
(* the loop (or the end of the final flush).                               *)

\* Mutants: one past the next offset to fetch; every assigned partition.
CommittedTooFar == [p \in Partitions |-> IF last[p] = Unset THEN committed[p] ELSE last[p] + 2]
CommittedAll == [p \in Partitions |-> last[p] + 1]

\* Kafka stores last + 1 for every partition in the offsets dict.
CommittedThrough ==
  [p \in Partitions |-> IF last[p] = Unset THEN committed[p] ELSE last[p] + 1]

CommitOk ==
  /\ phase = "commit"
  /\ committed' = CommittedThrough
  /\ attempt' = 0
  /\ IF final
     THEN /\ phase' = "closing"
          /\ UNCHANGED <<pending, first, last>>
     ELSE /\ phase' = "poll"
          /\ pending' = {}
          /\ first' = [p \in Partitions |-> Unset]
          /\ last' = [p \in Partitions |-> Unset]
  /\ UNCHANGED <<broker, lake, receipts, pos, final, permanent, shutdown, history>>

\* A commit that raises, whether or not the coordinator stored it.
CommitFails(applied) ==
  /\ phase = "commit" /\ faults < MaxFaults
  /\ faults' = faults + 1
  /\ committed' = IF applied THEN CommittedThrough ELSE committed
  /\ IF attempt < CommitAttempts - 1
     THEN /\ attempt' = attempt + 1
          /\ UNCHANGED phase
     ELSE /\ attempt' = 0
          /\ Raise
  /\ UNCHANGED <<broker, lake, receipts, pos, first, last, pending, final, permanent,
                 shutdown, seen, mine, stops>>

---------------------------------------------------------------------------
(* The finally block of main().                                            *)

\* _final_flush_decision; a pod that got as far as polling is `started`.
FinalFlush ==
  /\ phase = "unwind"
  /\ IF pending # {} /\ ~permanent
     THEN /\ phase' = "write"
          /\ final' = TRUE
     ELSE /\ phase' = "closing"
          /\ UNCHANGED final
  /\ UNCHANGED <<broker, committed, lake, receipts, pos, first, last, pending, attempt,
                 permanent, shutdown, history>>

\* Everything is closed and run() ends the process.
Exit ==
  /\ phase = "closing"
  /\ Die
  /\ UNCHANGED <<broker, committed, lake, receipts, seen, faults, stops>>

---------------------------------------------------------------------------
Environment ==
  \/ \E p \in Partitions : Produce(p) \/ Expire(p) \/ Rewind(p)
  \/ Crash
  \/ Sigterm

Pod ==
  \/ Start
  \/ \E p \in Partitions : PositionReset(p)
  \/ Poll
  \/ LeaveLoop
  \/ WriteOk
  \/ \E applied \in BOOLEAN : WriteFails(applied)
  \/ WriteFailsPermanently
  \/ CommitOk
  \/ \E applied \in BOOLEAN : CommitFails(applied)
  \/ FinalFlush
  \/ Exit

Next == Environment \/ Pod

Spec == Init /\ [][Next]_vars

\* A consume() that makes progress on p, and one after the interval elapsed.
PollDelivers(p) ==
  \E n \in [Partitions -> 0 .. LogLength], timeUp \in BOOLEAN :
    n[p] > 0 /\ Consume(n, timeUp)
PollTimeUp == \E n \in [Partitions -> 0 .. LogLength] : Consume(n, TRUE)

\* The pod's thread keeps running, Kubernetes restarts it, consume() returns
\* what there is, and time passes.  Write and commit eventually succeed
\* because failures draw on the finite budget MaxFaults.
Fairness ==
  /\ WF_vars(Start) /\ WF_vars(LeaveLoop) /\ WF_vars(FinalFlush) /\ WF_vars(Exit)
  /\ WF_vars(WriteOk) /\ WF_vars(CommitOk)
  /\ WF_vars(PollTimeUp)
  /\ \A p \in Partitions : WF_vars(PositionReset(p)) /\ WF_vars(PollDelivers(p))

FairSpec == Spec /\ Fairness

---------------------------------------------------------------------------
(* Properties                                                              *)

\* Types: positions, ranges and committed offsets of main() stay within the log,
\* and the buffer within the records of the assigned partitions.
TypeOK ==
  /\ kind \in [Partitions -> [Offsets -> Kinds \cup {"unwritten"}]]
  /\ low \in [Partitions -> 0 .. LogLength]
  /\ high \in [Partitions -> 0 .. LogLength]
  /\ committed \in [Partitions -> -1 .. LogLength]
  /\ lake \in [Partitions -> [Offsets -> Nat]]
  /\ phase \in Phases
  /\ pos \in [Partitions -> 0 .. LogLength]
  /\ first \in [Partitions -> -1 .. LogLength - 1]
  /\ last \in [Partitions -> -1 .. LogLength - 1]
  /\ pending \subseteq Partitions \X Offsets
  /\ attempt \in Nat
  /\ final \in BOOLEAN /\ permanent \in BOOLEAN /\ shutdown \in BOOLEAN
  /\ seen \in [Partitions -> SUBSET Offsets]
  /\ mine \subseteq Partitions \X Offsets
  /\ faults \in 0 .. MaxFaults
  /\ stops \in 0 .. MaxStops

\* The rows millpond owes the destination: those a pod was handed, and for an
\* "earliest" consumer every row the broker retains.
Owed(p, o) ==
  /\ IsRow(p, o)
  /\ o >= low[p]
  /\ o \in seen[p] \/ AutoOffsetReset = "earliest"

\* No loss (main.py _flush, main): whatever has failed so far, an owed row that
\* is not in the destination is at or above the offset the next consumer would
\* resume from, so Kafka still replays it.
NoLoss ==
  \A p \in Partitions, o \in Offsets :
    Owed(p, o) /\ ~Published(p, o) => o >= ResumeFrom(p, committed[p])

\* Offsets are committed only after every buffered row is in the destination,
\* also when the destination answered from the receipt of an earlier flush
\* with the same key (main.py _sink_write_kwargs, _flush).
CommitOnlyWritten ==
  phase = "commit" => \A r \in pending : Published(r[1], r[2])

\* The buffer holds what the offset ranges of main() say: every buffered row
\* lies inside the range its partition will commit and be keyed by, and no
\* range reaches past what was consumed.
BufferWithinOffsets ==
  /\ \A r \in pending :
       first[r[1]] # Unset /\ first[r[1]] <= r[2] /\ r[2] <= last[r[1]]
  /\ Running => \A p \in Partitions : last[p] < pos[p]

\* Kafka replays (README.md, "Pod dies before the commit is sent"; main.py's
\* "data safe in Kafka, will replay on restart"): an owed row that a running
\* pod's position has passed is in the destination or in the buffer.
NothingSkipped ==
  Running => \A p \in Partitions, o \in Offsets :
    Owed(p, o) /\ o < pos[p] => Published(p, o) \/ <<p, o>> \in pending

(* The inductive invariant behind NoLoss, for "earliest" and no poison.     *)

LogBounds ==
  \A p \in Partitions :
    low[p] <= high[p] /\ committed[p] <= high[p] /\ pos[p] <= high[p]

DownIsEmpty ==
  ~Running => pending = {} /\ \A p \in Partitions : last[p] = Unset

BufferIsRows == \A r \in pending : IsRow(r[1], r[2]) /\ r[2] < high[r[1]]

\* Every row in the range a receipt names is in the destination, except rows
\* that expired before the flush could read them.
ReceiptsCover ==
  \A k \in receipts : \A p \in DOMAIN k :
    /\ p \in Partitions
    /\ k[p].first \in Int /\ k[p].last \in Int
    /\ k[p].last < high[p]
    /\ \A o \in Offsets :
         k[p].first <= o /\ o <= k[p].last /\ IsRow(p, o) =>
           Published(p, o) \/ (o < low[p] /\ <<p, o>> \notin pending)

LoopInv ==
  /\ TypeOK
  /\ LogBounds
  /\ DownIsEmpty
  /\ NoLoss
  /\ NothingSkipped
  /\ BufferWithinOffsets
  /\ BufferIsRows
  /\ CommitOnlyWritten
  /\ ReceiptsCover

\* Duplicates need a fault: a row is in the destination at most once more than
\* the number of crashes, failed attempts and rewinds so far (README: duplicates
\* come from the write/commit gap).  A clean SIGTERM never duplicates.
DuplicatesNeedFaults ==
  \A p \in Partitions, o \in Offsets : lake[p][o] <= 1 + faults

\* The pod only moves an offset forward: in the start-up recovery of a stale one
\* (consumer.py _recover_stale_committed_offsets), in a flush, and through the
\* retries of its commit.  Only an operator moves one back, while no pod is up.
CommitNeverRewinds ==
  [][Running \/ Running' => \A p \in Partitions : committed'[p] >= committed[p]]_vars

\* With a keyed destination one process publishes a row at most once, through
\* lost answers, retries and a final flush that repeats the failed one.
PublishedOncePerProcess ==
  [][Keyed => \A r \in mine : lake'[r[1]][r[2]] = lake[r[1]][r[2]]]_vars

\* The buffer stays bounded: a poll starts with less than FlushSize buffered and
\* its batch size shrinks as the buffer fills (backpressure.py).
BufferBounded ==
  \/ Cardinality(pending) <= MaxBatch
  \/ Cardinality(pending) <= FlushSize - 1 + MinBatch

\* Every produced row is eventually in the destination, or retention took it.
EventuallyPublished ==
  \A p \in Partitions, o \in Offsets :
    (o < high[p] /\ IsRow(p, o)) ~> (Published(p, o) \/ o < low[p])
=============================================================================
