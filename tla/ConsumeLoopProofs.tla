------------------------- MODULE ConsumeLoopProofs -------------------------
(***************************************************************************)
(* Proofs about ConsumeLoop for every set of partitions, log length, batch *)
(* size, retry budget and number of faults.                                *)
(***************************************************************************)
EXTENDS ConsumeLoop, WellFoundedInduction, TLAPS

---------------------------------------------------------------------------
(* The least and greatest offset of a non-empty set exist.                 *)

\* Least(S), the min() of main()'s message loop, is an element of a non-empty
\* set of offsets that no other element is below.
LEMMA LeastOffset ==
  ASSUME NEW S \in SUBSET Offsets, S # {}
  PROVE  Least(S) \in S /\ \A y \in S : Least(S) <= y
<1>1. S \subseteq Nat
  BY LogAssumption DEF Offsets
<1>2. PICK x \in S : \A y \in S : ~ (<<y, x>> \in OpToRel(<, Nat))
  BY <1>1, WFMin, NatLessThanWellFounded, Zenon
<1>3. \A y \in S : ~ (y < x)
  BY <1>1, <1>2, Zenon DEF OpToRel
<1>4. \A y \in S : x <= y
  BY <1>1, <1>3
<1> QED
  BY <1>4, Zenon DEF Least

\* Greatest(S), the max() of main()'s message loop, likewise.
LEMMA GreatestOffset ==
  ASSUME NEW S \in SUBSET Offsets, S # {}
  PROVE  Greatest(S) \in S /\ \A y \in S : y <= Greatest(S)
<1> DEFINE T == {z \in Nat : LogLength - z \in S}
<1>1. \A y \in S : y \in Nat /\ y <= LogLength
  BY LogAssumption DEF Offsets
<1>2. T # {}
  <2>1. PICK y \in S : TRUE
    OBVIOUS
  <2>2. LogLength - y \in Nat /\ LogLength - (LogLength - y) = y
    BY <1>1, LogAssumption
  <2> QED
    BY <2>1, <2>2
<1>3. PICK z \in T : \A y \in T : ~ (<<y, z>> \in OpToRel(<, Nat))
  <2>1. T \subseteq Nat
    OBVIOUS
  <2> HIDE DEF T
  <2> QED
    BY <1>2, <2>1, WFMin, NatLessThanWellFounded, Zenon
<1>4. \A y \in S : y <= LogLength - z
  <2>1. SUFFICES ASSUME NEW y \in S PROVE y <= LogLength - z
    OBVIOUS
  <2>2. LogLength - y \in T
    BY <1>1, LogAssumption
  <2>3. ~ (LogLength - y < z)
    BY <1>3, <2>2, Zenon DEF OpToRel
  <2> QED
    BY <1>1, <2>3, LogAssumption
<1>5. LogLength - z \in S
  OBVIOUS
<1> QED
  BY <1>4, <1>5, Zenon DEF Greatest

---------------------------------------------------------------------------
(* Type correctness.                                                       *)

\* The ranges noted for a batch stay within the log, and a set range contains
\* the offsets of the batch and the old range.
LEMMA NotedRange ==
  ASSUME TypeOK, NEW valued \in SUBSET (Partitions \X Offsets)
  PROVE  /\ NotedFirst(valued) \in [Partitions -> -1 .. LogLength - 1]
         /\ NotedLast(valued) \in [Partitions -> -1 .. LogLength - 1]
         /\ \A p \in Partitions :
              IF OffsetsOf(valued, p) = {}
              THEN NotedFirst(valued)[p] = first[p] /\ NotedLast(valued)[p] = last[p]
              ELSE /\ \A o \in OffsetsOf(valued, p) :
                        NotedFirst(valued)[p] <= o /\ o <= NotedLast(valued)[p]
                   /\ first[p] # Unset => NotedFirst(valued)[p] <= first[p]
                   /\ last[p] # Unset => last[p] <= NotedLast(valued)[p]
                   /\ NotedFirst(valued)[p] \in OffsetsOf(valued, p) \cup ({first[p]} \ {Unset})
                   /\ NotedLast(valued)[p] \in OffsetsOf(valued, p) \cup ({last[p]} \ {Unset})
<1> DEFINE F(p) == OffsetsOf(valued, p) \cup ({first[p]} \ {Unset})
           L(p) == OffsetsOf(valued, p) \cup ({last[p]} \ {Unset})
<1>1. \A p \in Partitions : F(p) \in SUBSET Offsets /\ L(p) \in SUBSET Offsets
  BY LogAssumption DEF TypeOK, OffsetsOf, Offsets, Unset
<1>2. ASSUME NEW p \in Partitions, OffsetsOf(valued, p) # {}
      PROVE  /\ Least(F(p)) \in F(p) /\ \A y \in F(p) : Least(F(p)) <= y
             /\ Greatest(L(p)) \in L(p) /\ \A y \in L(p) : y <= Greatest(L(p))
  <2>1. F(p) # {} /\ L(p) # {}
    BY <1>2
  <2> HIDE DEF F, L
  <2> QED
    BY <1>1, <2>1, LeastOffset, GreatestOffset
<1>3. \A p \in Partitions :
        /\ NotedFirst(valued)[p] = IF OffsetsOf(valued, p) = {} THEN first[p] ELSE Least(F(p))
        /\ NotedLast(valued)[p] = IF OffsetsOf(valued, p) = {} THEN last[p] ELSE Greatest(L(p))
  BY Zenon DEF NotedFirst, NotedLast
<1>4. ASSUME NEW p \in Partitions
      PROVE  /\ NotedFirst(valued)[p] \in -1 .. LogLength - 1
             /\ NotedLast(valued)[p] \in -1 .. LogLength - 1
  <2> HIDE DEF F, L
  <2>1. CASE OffsetsOf(valued, p) = {}
    BY <1>3, <2>1 DEF TypeOK
  <2>2. CASE OffsetsOf(valued, p) # {}
    <3>1. NotedFirst(valued)[p] \in Offsets /\ NotedLast(valued)[p] \in Offsets
      BY <1>1, <1>2, <1>3, <2>2
    <3> QED
      BY <3>1, LogAssumption DEF Offsets
  <2> QED
    BY <2>1, <2>2
<1>5. /\ NotedFirst(valued) \in [Partitions -> -1 .. LogLength - 1]
      /\ NotedLast(valued) \in [Partitions -> -1 .. LogLength - 1]
  BY <1>4 DEF NotedFirst, NotedLast
<1>6. ASSUME NEW p \in Partitions, OffsetsOf(valued, p) # {}
      PROVE  /\ \A o \in OffsetsOf(valued, p) :
                  NotedFirst(valued)[p] <= o /\ o <= NotedLast(valued)[p]
             /\ first[p] # Unset => NotedFirst(valued)[p] <= first[p]
             /\ last[p] # Unset => last[p] <= NotedLast(valued)[p]
             /\ NotedFirst(valued)[p] \in F(p)
             /\ NotedLast(valued)[p] \in L(p)
  <2>1. NotedFirst(valued)[p] = Least(F(p)) /\ NotedLast(valued)[p] = Greatest(L(p))
    BY <1>3, <1>6
  <2> QED
    BY <1>2, <1>6, <2>1, Zenon
<1> QED
  BY <1>3, <1>5, <1>6, Zenon

\* A process that ends leaves a well-typed empty memory.
LEMMA DieTypes ==
  ASSUME Die
  PROVE  /\ phase' \in Phases
         /\ pos' \in [Partitions -> 0 .. LogLength]
         /\ first' \in [Partitions -> -1 .. LogLength - 1]
         /\ last' \in [Partitions -> -1 .. LogLength - 1]
         /\ pending' \subseteq Partitions \X Offsets
         /\ mine' \subseteq Partitions \X Offsets
         /\ attempt' \in Nat
         /\ final' \in BOOLEAN /\ permanent' \in BOOLEAN /\ shutdown' \in BOOLEAN
<1>1. 0 \in 0 .. LogLength /\ -1 \in -1 .. LogLength - 1
  BY LogAssumption
<1>2. /\ pos' \in [Partitions -> 0 .. LogLength]
      /\ first' \in [Partitions -> -1 .. LogLength - 1]
      /\ last' \in [Partitions -> -1 .. LogLength - 1]
  BY <1>1 DEF Die, Unset
<1> QED
  BY <1>2 DEF Die, Phases

\* Publishing keeps the destination's counts natural numbers and never lowers one.
LEMMA PublishCounts ==
  ASSUME TypeOK, Publish
  PROVE  /\ lake' \in [Partitions -> [Offsets -> Nat]]
         /\ mine' \subseteq Partitions \X Offsets
         /\ \A p \in Partitions, o \in Offsets : lake'[p][o] >= lake[p][o]
BY DEF TypeOK, Publish

\* Every variable keeps its type in every step.
LEMMA TypeStep == TypeOK /\ [Next]_vars => TypeOK'
<1> SUFFICES ASSUME TypeOK, [Next]_vars PROVE TypeOK'
  OBVIOUS
<1> USE LogAssumption, BudgetAssumption
<1>1. CASE UNCHANGED vars
  BY <1>1 DEF TypeOK, vars, broker, memory, history
<1>2. ASSUME NEW p \in Partitions, Produce(p) PROVE TypeOK'
  <2>1. high[p] \in Offsets
    BY <1>2 DEF TypeOK, Produce, Offsets
  <2> QED
    BY <1>2, <2>1 DEF TypeOK, Produce, memory, history
<1>3. ASSUME NEW p \in Partitions, Expire(p) PROVE TypeOK'
  BY <1>3 DEF TypeOK, Expire, memory, history
<1>4. ASSUME NEW p \in Partitions, Rewind(p) PROVE TypeOK'
  BY <1>4 DEF TypeOK, Rewind, broker, memory
<1>5. CASE Crash
  BY <1>5, DieTypes DEF TypeOK, Crash, broker
<1>6. CASE Sigterm
  BY <1>6 DEF TypeOK, Sigterm, broker
<1>7. CASE Start
  <2>1. PICK queried \in SUBSET Partitions, commitOk \in BOOLEAN :
          /\ committed' = Recovered(queried, commitOk)
          /\ pos' = [p \in Partitions |-> ResumeFrom(p, committed'[p])]
    BY <1>7 DEF Start
  <2>2. committed' \in [Partitions -> -1 .. LogLength]
    BY <2>1 DEF TypeOK, Recovered, ResetTarget
  <2>3. pos' \in [Partitions -> 0 .. LogLength]
    BY <2>1, <2>2 DEF TypeOK, ResumeFrom, ResetTarget, OffsetInvalid
  <2> QED
    BY <1>7, <2>2, <2>3 DEF TypeOK, Start, Phases, broker, history
<1>8. ASSUME NEW p \in Partitions, PositionReset(p) PROVE TypeOK'
  BY <1>8 DEF TypeOK, PositionReset, ResetTarget, broker, history
<1>9. ASSUME NEW n \in [Partitions -> 0 .. LogLength], NEW timeUp \in BOOLEAN,
             Consume(n, timeUp)
      PROVE  TypeOK'
  <2> DEFINE batch == Delivered(n)
             valued == batch \ OfKind(batch, "tombstone")
  <2>1. batch \subseteq Partitions \X Offsets
    BY DEF Delivered
  <2>2. first' \in [Partitions -> -1 .. LogLength - 1] /\ last' \in [Partitions -> -1 .. LogLength - 1]
    BY <1>9, <2>1, NotedRange DEF Consume
  <2>3. pos' \in [Partitions -> 0 .. LogLength]
    <3>1. ASSUME NEW p \in Partitions PROVE pos[p] + n[p] \in 0 .. LogLength
      <4>1. pos[p] \in 0 .. LogLength /\ n[p] \in 0 .. LogLength /\ high[p] \in 0 .. LogLength
        BY DEF TypeOK
      <4>2. n[p] > 0 => pos[p] + n[p] <= high[p]
        BY <1>9 DEF Consume
      <4> QED
        BY <4>1, <4>2
    <3> QED
      BY <1>9, <3>1 DEF Consume
  <2>4. seen' \in [Partitions -> SUBSET Offsets]
    <3>1. ASSUME NEW p \in Partitions
          PROVE  (pos[p] .. pos[p] + n[p] - 1) \subseteq Offsets
      <4>1. pos[p] \in 0 .. LogLength /\ n[p] \in 0 .. LogLength /\ high[p] \in 0 .. LogLength
        BY DEF TypeOK
      <4>2. n[p] > 0 => pos[p] + n[p] <= high[p]
        BY <1>9 DEF Consume
      <4> QED
        BY <4>1, <4>2 DEF Offsets
    <3>2. \A p \in Partitions : seen[p] \subseteq Offsets
      BY DEF TypeOK
    <3>3. seen' = [p \in Partitions |-> seen[p] \cup (pos[p] .. pos[p] + n[p] - 1)]
      BY <1>9 DEF Consume
    <3> QED
      BY <3>1, <3>2, <3>3
  <2>5. pending' \subseteq Partitions \X Offsets
    BY <1>9, <2>1 DEF Consume, TypeOK, OfKind
  <2>6. phase' \in Phases
    BY <1>9 DEF Consume, Phases
  <2> QED
    BY <1>9, <2>2, <2>3, <2>4, <2>5, <2>6 DEF TypeOK, Consume, broker
<1>10. CASE LeaveLoop
  BY <1>10 DEF TypeOK, LeaveLoop, Phases, broker, memory, history
<1>11. CASE WriteOk
  BY <1>11, PublishCounts DEF TypeOK, WriteOk, Phases, broker
<1>12. ASSUME NEW applied \in BOOLEAN, WriteFails(applied) PROVE TypeOK'
  <2>1. /\ lake' \in [Partitions -> [Offsets -> Nat]]
        /\ mine' \subseteq Partitions \X Offsets
    BY <1>12, PublishCounts DEF WriteFails, TypeOK
  <2>2. phase' \in Phases /\ attempt' \in Nat
    BY <1>12 DEF WriteFails, Raise, Phases, TypeOK
  <2> QED
    BY <1>12, <2>1, <2>2 DEF TypeOK, WriteFails, broker
<1>13. CASE WriteFailsPermanently
  BY <1>13 DEF TypeOK, WriteFailsPermanently, Raise, Phases, broker
<1>14. CASE CommitOk
  <2>1. CommittedThrough \in [Partitions -> -1 .. LogLength]
    BY DEF TypeOK, CommittedThrough
  <2>2. /\ phase' \in Phases /\ pending' \subseteq Partitions \X Offsets
        /\ first' \in [Partitions -> -1 .. LogLength - 1]
        /\ last' \in [Partitions -> -1 .. LogLength - 1]
    BY <1>14 DEF TypeOK, CommitOk, Phases, Unset
  <2> QED
    BY <1>14, <2>1, <2>2 DEF TypeOK, CommitOk, broker, history
<1>15. ASSUME NEW applied \in BOOLEAN, CommitFails(applied) PROVE TypeOK'
  <2>1. CommittedThrough \in [Partitions -> -1 .. LogLength]
    BY DEF TypeOK, CommittedThrough
  <2>2. phase' \in Phases /\ attempt' \in Nat
    BY <1>15 DEF CommitFails, Raise, Phases, TypeOK
  <2> QED
    BY <1>15, <2>1, <2>2 DEF TypeOK, CommitFails, broker
<1>16. CASE FinalFlush
  BY <1>16 DEF TypeOK, FinalFlush, Phases, broker, history
<1>17. CASE Exit
  BY <1>17, DieTypes DEF TypeOK, Exit, broker
<1> QED
  BY <1>1, <1>2, <1>3, <1>4, <1>5, <1>6, <1>7, <1>8, <1>9, <1>10, <1>11, <1>12,
     <1>13, <1>14, <1>15, <1>16, <1>17 DEF Next, Environment, Pod, Poll

\* The initial state is well typed.
LEMMA InitTypes == ASSUME Init PROVE TypeOK
<1>1. Init
  OBVIOUS
<1>2. TypeOK
  <2>1. 0 \in 0 .. LogLength /\ -1 \in -1 .. LogLength - 1 /\ -1 \in -1 .. LogLength
    BY LogAssumption
  <2>2. /\ kind \in [Partitions -> [Offsets -> Kinds \cup {"unwritten"}]]
        /\ lake \in [Partitions -> [Offsets -> Nat]]
        /\ seen \in [Partitions -> SUBSET Offsets]
    BY <1>1 DEF Init
  <2>3. /\ low \in [Partitions -> 0 .. LogLength]
        /\ high \in [Partitions -> 0 .. LogLength]
        /\ pos \in [Partitions -> 0 .. LogLength]
        /\ committed \in [Partitions -> -1 .. LogLength]
        /\ first \in [Partitions -> -1 .. LogLength - 1]
        /\ last \in [Partitions -> -1 .. LogLength - 1]
    BY <1>1, <2>1 DEF Init, OffsetInvalid, Unset
  <2> QED
    <3>1. faults \in 0 .. MaxFaults /\ stops \in 0 .. MaxStops /\ attempt \in Nat
      BY <1>1, BudgetAssumption DEF Init
    <3>2. phase \in Phases /\ pending \subseteq Partitions \X Offsets
          /\ mine \subseteq Partitions \X Offsets
      BY <1>1 DEF Init, Phases
    <3>3. final \in BOOLEAN /\ permanent \in BOOLEAN /\ shutdown \in BOOLEAN
      BY <1>1 DEF Init
    <3> QED
      BY <2>2, <2>3, <3>1, <3>2, <3>3 DEF TypeOK
<1> QED
  BY <1>2

\* Type correctness of the consume loop, its broker and its destination.
THEOREM TypeCorrect == Spec => []TypeOK
<1>1. Init => TypeOK
  BY InitTypes
<1> QED
  BY <1>1, TypeStep, PTL DEF Spec

---------------------------------------------------------------------------
(* No loss.                                                                *)

\* An "earliest" consumer whose producers send no poison record.
Earliest == AutoOffsetReset = "earliest" /\ "poison" \notin Kinds

\* For such a consumer a retained row is owed whether or not it was seen.
LEMMA EarliestOwes ==
  ASSUME Earliest, NEW p, NEW o
  PROVE  /\ Owed(p, o) <=> IsRow(p, o) /\ o >= low[p]
         /\ Owed(p, o)' <=> IsRow(p, o)' /\ o >= low'[p]
BY DEF Earliest, Owed

\* The flush key has the range of every partition that has one.
LEMMA KeyRanges ==
  \A p : /\ p \in DOMAIN FlushKey <=> p \in Partitions /\ last[p] # Unset
         /\ p \in DOMAIN FlushKey =>
              FlushKey[p].first = first[p] /\ FlushKey[p].last = last[p]
BY DEF FlushKey

\* Once the destination has answered a write, every buffered row is in it: it
\* was just published, or the receipt that answered covers it.
LEMMA PublishedAll ==
  ASSUME LoopInv, Publish
  PROVE  \A r \in pending : Published(r[1], r[2])'
<1> SUFFICES ASSUME NEW r \in pending PROVE lake'[r[1]][r[2]] > 0
  BY DEF Published
<1> DEFINE p == r[1]  o == r[2]
<1>1. p \in Partitions /\ o \in Offsets /\ r = <<p, o>>
  BY DEF LoopInv, TypeOK
<1>2. lake[p][o] \in Nat
  BY <1>1 DEF LoopInv, TypeOK
<1>3. CASE Keyed /\ FlushKey \in receipts
  <2>1. first[p] <= o /\ o <= last[p] /\ last[p] # Unset
    <3>1. first[p] <= o /\ o <= last[p]
      BY DEF LoopInv, BufferWithinOffsets
    <3> QED
      BY <1>1, <3>1, LogAssumption DEF LoopInv, TypeOK, Offsets, Unset
  <2>2. IsRow(p, o)
    BY DEF LoopInv, BufferIsRows
  <2>3. Published(p, o)
    <3>1. p \in DOMAIN FlushKey /\ FlushKey[p].first = first[p] /\ FlushKey[p].last = last[p]
      BY <1>1, <2>1, KeyRanges
    <3> QED
      BY <1>1, <1>3, <2>1, <2>2, <3>1 DEF LoopInv, ReceiptsCover
  <2>4. lake' = lake
    BY <1>3 DEF Publish
  <2> QED
    BY <2>3, <2>4 DEF Published
<1>4. CASE ~ (Keyed /\ FlushKey \in receipts)
  BY <1>1, <1>2, <1>4 DEF Publish
<1> QED
  BY <1>3, <1>4

\* Publishing keeps the receipts honest.
LEMMA PublishKeepsReceipts ==
  ASSUME Earliest, LoopInv, Running, Publish, UNCHANGED <<broker, pending>>
  PROVE  ReceiptsCover'
<1>1. \A p \in Partitions, o \in Offsets : Published(p, o) => Published(p, o)'
  <2> SUFFICES ASSUME NEW p \in Partitions, NEW o \in Offsets, Published(p, o)
               PROVE  Published(p, o)'
    OBVIOUS
  <2>1. lake[p][o] \in Nat /\ lake'[p][o] \in Nat /\ lake'[p][o] >= lake[p][o]
    BY PublishCounts DEF LoopInv, TypeOK
  <2> QED
    BY <2>1 DEF Published
<1>2. ASSUME NEW k \in receipts', NEW p \in DOMAIN k
      PROVE  /\ p \in Partitions
             /\ k[p].first \in Int /\ k[p].last \in Int /\ k[p].last < high[p]
             /\ \A o \in Offsets :
                  k[p].first <= o /\ o <= k[p].last /\ IsRow(p, o) =>
                    Published(p, o)' \/ (o < low[p] /\ <<p, o>> \notin pending)
  <2>1. CASE k \in receipts
    BY <1>1, <1>2, <2>1 DEF LoopInv, ReceiptsCover
  <2>2. CASE k = FlushKey
    <3>1. /\ p \in Partitions /\ last[p] # Unset
          /\ k[p].first = first[p] /\ k[p].last = last[p]
      BY <1>2, <2>2, KeyRanges
    <3>2. first[p] \in Int /\ last[p] \in Int /\ pos[p] \in Int /\ high[p] \in Int
      BY <3>1, LogAssumption DEF LoopInv, TypeOK
    <3>3. last[p] < pos[p] /\ pos[p] <= high[p]
      BY <3>1 DEF LoopInv, LogBounds, BufferWithinOffsets
    <3>4. ASSUME NEW o \in Offsets, o <= last[p], IsRow(p, o)
          PROVE  Published(p, o)' \/ (o < low[p] /\ <<p, o>> \notin pending)
      <4>1. o \in Int /\ low[p] \in Int
        BY <3>1, LogAssumption DEF Offsets, LoopInv, TypeOK
      <4>2. CASE <<p, o>> \in pending
        BY <4>2, PublishedAll
      <4>3. CASE <<p, o>> \notin pending /\ o >= low[p]
        <5>1. Owed(p, o) /\ o < pos[p]
          BY <3>2, <3>3, <3>4, <4>1, <4>3, EarliestOwes
        <5> QED
          BY <1>1, <3>1, <4>3, <5>1 DEF LoopInv, NothingSkipped
      <4> QED
        BY <4>1, <4>2, <4>3
    <3> QED
      BY <3>1, <3>2, <3>3, <3>4
  <2> QED
    BY <2>1, <2>2 DEF Publish
<1> QED
  BY <1>2 DEF ReceiptsCover, broker, IsRow

\* The part of the invariant that TypeStep does not give.
Core ==
  /\ LogBounds /\ DownIsEmpty /\ NoLoss /\ NothingSkipped
  /\ BufferWithinOffsets /\ BufferIsRows /\ CommitOnlyWritten /\ ReceiptsCover

\* A step that changes none of the broker, the destination, the committed
\* offsets, the position, the ranges and the buffer keeps the invariant, as long
\* as it neither enters the commit phase nor stops or starts the process.
LEMMA QuietStep ==
  ASSUME LoopInv,
         UNCHANGED <<broker, committed, lake, receipts, pos, first, last, pending, seen>>,
         Running, Running', phase' = "commit" => phase = "commit"
  PROVE  Core'
BY DEF LoopInv, Core, LogBounds, DownIsEmpty, NoLoss, NothingSkipped, BufferWithinOffsets,
       BufferIsRows, CommitOnlyWritten, ReceiptsCover, Owed, IsRow, Published, ResumeFrom,
       ResetTarget, Running, broker

\* The environment's steps keep the invariant: producers append above every
\* position, retention only excuses rows, a rewind only replays more.
LEMMA ProduceStep ==
  ASSUME Earliest, LoopInv, NEW q \in Partitions, Produce(q)
  PROVE  Core'
<1> USE LogAssumption
<1>1. /\ \A p \in Partitions : high'[p] \in 0 .. LogLength /\ high'[p] >= high[p]
      /\ \A p \in Partitions, o \in Offsets : o < high[p] => kind'[p][o] = kind[p][o]
      /\ \A p \in Partitions, o \in Offsets :
           kind'[p][o] # kind[p][o] => p = q /\ o = high[q]
  <2>1. PICK k \in Kinds : kind' = [kind EXCEPT ![q][high[q]] = k]
    BY DEF Produce
  <2>2. high' = [high EXCEPT ![q] = @ + 1] /\ high[q] < LogLength
    BY DEF Produce
  <2> QED
    BY <2>1, <2>2 DEF LoopInv, TypeOK
<1>2. UNCHANGED <<low, committed, lake, receipts, phase, pos, first, last, pending, seen>>
  BY DEF Produce, memory, history
<1>3. LogBounds' /\ DownIsEmpty' /\ BufferWithinOffsets' /\ CommitOnlyWritten'
  BY <1>1, <1>2 DEF LoopInv, TypeOK, LogBounds, DownIsEmpty, BufferWithinOffsets,
                    CommitOnlyWritten, Running, Published
<1>4. NoLoss'
  <2> SUFFICES ASSUME NEW p \in Partitions, NEW o \in Offsets,
                      Owed(p, o)', ~Published(p, o)'
               PROVE  (o >= ResumeFrom(p, committed[p]))'
    BY DEF NoLoss
  <2>1. IsRow(p, o)' /\ o >= low[p]
    BY <1>2, EarliestOwes
  <2>2. /\ low[p] \in Int /\ committed[p] \in Int /\ high[p] \in Int /\ o \in Int
        /\ low[p] <= high[p] /\ committed[p] <= high[p]
    BY DEF LoopInv, TypeOK, LogBounds, Offsets
  <2>3. ResumeFrom(p, committed[p])' = ResumeFrom(p, committed[p])
    BY <1>2 DEF ResumeFrom, ResetTarget, Earliest
  <2>4. CASE IsRow(p, o)
    BY <1>2, <2>1, <2>3, <2>4, EarliestOwes DEF LoopInv, NoLoss, Published
  <2>5. CASE ~IsRow(p, o)
    <3>1. o >= high[p]
      BY <1>1, <2>1, <2>2, <2>5 DEF IsRow
    <3> QED
      BY <2>2, <2>3, <3>1 DEF ResumeFrom, ResetTarget, Earliest
  <2> QED
    BY <2>4, <2>5
<1>5. NothingSkipped'
  <2> SUFFICES ASSUME Running', NEW p \in Partitions, NEW o \in Offsets,
                      Owed(p, o)', (o < pos[p])'
               PROVE  (Published(p, o) \/ <<p, o>> \in pending)'
    BY DEF NothingSkipped
  <2>1. pos[p] <= high[p] /\ pos[p] \in Int /\ high[p] \in Int /\ o \in Int
    BY DEF LoopInv, TypeOK, LogBounds, Offsets
  <2>2. IsRow(p, o)
    BY <1>1, <1>2, <2>1, EarliestOwes DEF IsRow
  <2> QED
    BY <1>2, <2>2, EarliestOwes DEF LoopInv, NothingSkipped, Running, Published
<1>6. BufferIsRows' /\ ReceiptsCover'
  <2>1. BufferIsRows'
    <3> SUFFICES ASSUME NEW r \in pending
                 PROVE  kind'[r[1]][r[2]] = "row" /\ r[2] < high'[r[1]]
      BY <1>2 DEF BufferIsRows, IsRow
    <3>1. r[1] \in Partitions /\ r[2] \in Offsets
      BY DEF LoopInv, TypeOK
    <3>2. kind[r[1]][r[2]] = "row" /\ r[2] < high[r[1]]
      BY DEF LoopInv, BufferIsRows, IsRow
    <3>3. r[2] \in Int /\ high[r[1]] \in Int /\ high'[r[1]] \in Int
      <4>1. r[2] \in Int
        BY <3>1 DEF Offsets
      <4>2. high[r[1]] \in Int
        BY <3>1 DEF LoopInv, TypeOK
      <4>3. high'[r[1]] \in Int
        BY <1>1, <3>1
      <4> QED
        BY <4>1, <4>2, <4>3
    <3> QED
      BY <1>1, <3>1, <3>2, <3>3
  <2>2. ASSUME NEW k \in receipts', NEW p \in DOMAIN k
        PROVE  /\ p \in Partitions
               /\ k[p].first \in Int /\ k[p].last \in Int /\ k[p].last < high'[p]
               /\ \A o \in Offsets :
                    k[p].first <= o /\ o <= k[p].last /\ IsRow(p, o)' =>
                      Published(p, o)' \/ (o < low'[p] /\ <<p, o>> \notin pending')
    <3>1. /\ p \in Partitions
          /\ k[p].first \in Int /\ k[p].last \in Int /\ k[p].last < high[p]
          /\ \A o \in Offsets :
               k[p].first <= o /\ o <= k[p].last /\ IsRow(p, o) =>
                 Published(p, o) \/ (o < low[p] /\ <<p, o>> \notin pending)
      BY <1>2 DEF LoopInv, ReceiptsCover
    <3>2. high[p] \in Int /\ high'[p] \in Int /\ high'[p] >= high[p]
      BY <1>1, <3>1 DEF LoopInv, TypeOK
    <3>3. \A o \in Offsets : o <= k[p].last /\ IsRow(p, o)' => IsRow(p, o)
      BY <1>1, <3>1, <3>2 DEF IsRow, Offsets
    <3> QED
      BY <1>2, <3>1, <3>2, <3>3 DEF Published
  <2> QED
    BY <2>1, <2>2 DEF ReceiptsCover
<1> QED
  BY <1>3, <1>4, <1>5, <1>6 DEF Core

\* Retention deletes a record: it is owed no more, nothing else moves.
LEMMA ExpireStep ==
  ASSUME Earliest, LoopInv, NEW q \in Partitions, Expire(q)
  PROVE  Core'
<1> USE LogAssumption
<1>1. \A p \in Partitions :
        low[p] \in Int /\ high[p] \in Int /\ low'[p] \in Int /\ low[p] <= low'[p] /\ low'[p] <= high[p]
  BY DEF Expire, LoopInv, TypeOK, LogBounds
<1>2. UNCHANGED <<kind, high, committed, lake, receipts, phase, pos, first, last, pending, seen>>
  BY DEF Expire, memory, history
<1>3. /\ LogBounds' /\ DownIsEmpty' /\ BufferWithinOffsets' /\ BufferIsRows'
      /\ CommitOnlyWritten'
  BY <1>1, <1>2 DEF LoopInv, LogBounds, DownIsEmpty, BufferWithinOffsets, BufferIsRows,
                    CommitOnlyWritten, IsRow, Running, Published
<1>4. \A p \in Partitions, o \in Offsets : Owed(p, o)' => Owed(p, o)
  BY <1>1, <1>2, EarliestOwes DEF IsRow, Offsets
<1>5. NoLoss'
  <2> SUFFICES ASSUME NEW p \in Partitions, NEW o \in Offsets,
                      Owed(p, o)', ~Published(p, o)'
               PROVE  (o >= ResumeFrom(p, committed[p]))'
    BY DEF NoLoss
  <2>1. o >= ResumeFrom(p, committed[p])
    BY <1>2, <1>4 DEF LoopInv, NoLoss, Published
  <2>2. o >= low'[p]
    BY EarliestOwes
  <2>3. o \in Int /\ committed[p] \in Int
    BY DEF Offsets, LoopInv, TypeOK
  <2> QED
    BY <1>1, <1>2, <2>1, <2>2, <2>3 DEF ResumeFrom, ResetTarget, Earliest
<1>6. NothingSkipped'
  BY <1>2, <1>4 DEF LoopInv, NothingSkipped, Running, Published
<1>7. ReceiptsCover'
  <2>1. \A p \in Partitions, o \in Offsets : o < low[p] => o < low'[p]
    BY <1>1 DEF Offsets
  <2> QED
    BY <1>2, <2>1 DEF LoopInv, ReceiptsCover, IsRow, Published
<1> QED
  BY <1>3, <1>5, <1>6, <1>7 DEF Core

\* A rewind lowers a committed offset: more is replayed, nothing is skipped.
LEMMA RewindStep ==
  ASSUME Earliest, LoopInv, NEW q \in Partitions, Rewind(q)
  PROVE  Core'
<1> USE LogAssumption
<1>1. \A p \in Partitions :
        committed[p] \in Int /\ committed'[p] \in Int /\ committed'[p] <= committed[p]
  BY DEF Rewind, LoopInv, TypeOK
<1>2. UNCHANGED <<broker, lake, receipts, phase, pos, first, last, pending, seen>>
  BY DEF Rewind, memory
<1>3. /\ LogBounds' /\ DownIsEmpty' /\ BufferWithinOffsets' /\ BufferIsRows'
      /\ CommitOnlyWritten' /\ NothingSkipped' /\ ReceiptsCover'
  <2>1. LogBounds'
    BY <1>1, <1>2 DEF LoopInv, TypeOK, LogBounds, broker
  <2> QED
    BY <1>2, <2>1 DEF LoopInv, DownIsEmpty, BufferWithinOffsets, BufferIsRows, CommitOnlyWritten,
       NothingSkipped, ReceiptsCover, Owed, IsRow, Running, Published, broker
<1>4. NoLoss'
  <2> SUFFICES ASSUME NEW p \in Partitions, NEW o \in Offsets,
                      Owed(p, o)', ~Published(p, o)'
               PROVE  (o >= ResumeFrom(p, committed[p]))'
    BY DEF NoLoss
  <2>1. Owed(p, o) /\ o >= low[p] /\ o >= ResumeFrom(p, committed[p])
    BY <1>2, EarliestOwes DEF LoopInv, NoLoss, Published, IsRow, broker
  <2>2. o \in Int /\ low[p] \in Int /\ 0 <= low[p]
    BY DEF Offsets, LoopInv, TypeOK
  <2>3. ResumeFrom(p, committed[p])'
          = IF committed'[p] = -1 \/ committed'[p] < low[p] THEN low[p] ELSE committed'[p]
    BY <1>2 DEF ResumeFrom, ResetTarget, Earliest, OffsetInvalid, broker
  <2>4. ResumeFrom(p, committed[p])
          = IF committed[p] = -1 \/ committed[p] < low[p] THEN low[p] ELSE committed[p]
    BY DEF ResumeFrom, ResetTarget, Earliest, OffsetInvalid
  <2> QED
    BY <1>1, <2>1, <2>2, <2>3, <2>4
<1> QED
  BY <1>3, <1>4 DEF Core

\* A process that ends takes the buffer and the ranges with it; what is
\* committed, published and recorded stays.
LEMMA DieStep ==
  ASSUME LoopInv, Die, UNCHANGED <<broker, committed, lake, receipts, seen>>
  PROVE  Core'
<1> USE LogAssumption
<1>1. /\ phase' = "down" /\ pending' = {}
      /\ \A p \in Partitions : pos'[p] = 0 /\ last'[p] = Unset /\ first'[p] = Unset
  BY DEF Die
<1>2. LogBounds'
  <2>1. \A p \in Partitions : 0 <= high[p]
    BY DEF LoopInv, TypeOK
  <2> QED
    BY <1>1, <2>1 DEF LoopInv, LogBounds, broker
<1>3. NoLoss' /\ ReceiptsCover'
  BY <1>1 DEF LoopInv, NoLoss, ReceiptsCover, Owed, IsRow, Published, ResumeFrom, ResetTarget, broker
<1>4. /\ DownIsEmpty' /\ NothingSkipped' /\ BufferWithinOffsets' /\ BufferIsRows'
      /\ CommitOnlyWritten'
  BY <1>1 DEF DownIsEmpty, NothingSkipped, BufferWithinOffsets, BufferIsRows, CommitOnlyWritten, Running
<1> QED
  BY <1>2, <1>3, <1>4 DEF Core

\* Recovery of stale offsets moves them to where the consumer would have gone
\* anyway, so everything below the position it starts from is published.
LEMMA StartStep ==
  ASSUME Earliest, LoopInv, Start
  PROVE  Core'
<1> USE LogAssumption
<1>1. PICK queried \in SUBSET Partitions, commitOk \in BOOLEAN :
        /\ committed' = Recovered(queried, commitOk)
        /\ pos' = [p \in Partitions |-> ResumeFrom(p, committed'[p])]
  BY DEF Start
<1>2. UNCHANGED <<broker, lake, receipts, first, last, pending, seen>>
  BY DEF Start, history
<1>3. \A p \in Partitions :
        /\ low[p] \in Int /\ high[p] \in Int /\ committed[p] \in Int
        /\ 0 <= low[p] /\ low[p] <= high[p] /\ committed[p] <= high[p]
  BY DEF LoopInv, TypeOK, LogBounds
<1>4. \A p \in Partitions : committed'[p] = committed[p] \/ committed'[p] = low[p]
  BY <1>1 DEF Recovered, ResetTarget, Earliest
<1>5. \A p \in Partitions : ResumeFrom(p, committed'[p]) = ResumeFrom(p, committed[p])
  BY <1>1, <1>3 DEF Recovered, ResumeFrom, ResetTarget, Earliest
<1>6. \A p \in Partitions :
        /\ ResumeFrom(p, committed[p]) \in Int
        /\ low[p] <= ResumeFrom(p, committed[p]) /\ ResumeFrom(p, committed[p]) <= high[p]
  BY <1>3 DEF ResumeFrom, ResetTarget, Earliest
<1>7. \A p \in Partitions : pos'[p] = ResumeFrom(p, committed[p])
  BY <1>1, <1>5
<1>8. phase = "down" /\ phase' = "poll" /\ pending = {} /\ \A p \in Partitions : last[p] = Unset
  BY DEF Start, LoopInv, DownIsEmpty, Running
<1>9. LogBounds' /\ DownIsEmpty'
  BY <1>2, <1>3, <1>4, <1>6, <1>7, <1>8 DEF LogBounds, DownIsEmpty, Running, broker
<1>10. NoLoss'
  <2>1. \A p \in Partitions : ResumeFrom(p, committed[p])' = ResumeFrom(p, committed[p])
    BY <1>2, <1>5 DEF ResumeFrom, ResetTarget, broker
  <2> QED
    BY <1>2, <2>1 DEF LoopInv, NoLoss, Owed, IsRow, Published, broker
<1>11. NothingSkipped'
  <2> SUFFICES ASSUME NEW p \in Partitions, NEW o \in Offsets, Owed(p, o)', (o < pos[p])'
               PROVE  Published(p, o)'
    BY DEF NothingSkipped
  <2>1. Owed(p, o)
    BY <1>2 DEF Owed, IsRow, broker
  <2>2. o < ResumeFrom(p, committed[p]) /\ o \in Int
    BY <1>7 DEF Offsets
  <2> QED
    BY <1>2, <1>6, <2>1, <2>2 DEF LoopInv, NoLoss, Published
<1>12. BufferWithinOffsets' /\ BufferIsRows' /\ CommitOnlyWritten' /\ ReceiptsCover'
  <2>1. \A p \in Partitions : Unset < pos'[p]
    BY <1>3, <1>6, <1>7 DEF Unset
  <2> QED
    BY <1>2, <1>8, <2>1 DEF LoopInv, BufferWithinOffsets, BufferIsRows, CommitOnlyWritten,
       ReceiptsCover, IsRow, Published, broker
<1> QED
  BY <1>9, <1>10, <1>11, <1>12 DEF Core

\* An "earliest" reset lands on the first retained record: nothing retained is
\* passed over.
LEMMA PositionResetStep ==
  ASSUME Earliest, LoopInv, NEW q \in Partitions, PositionReset(q)
  PROVE  Core'
<1> USE LogAssumption
<1>1. UNCHANGED <<broker, committed, lake, receipts, phase, first, last, pending, seen>>
  BY DEF PositionReset, history
<1>2. \A p \in Partitions :
        /\ pos[p] \in Int /\ pos'[p] \in Int /\ low[p] \in Int /\ high[p] \in Int
        /\ last[p] \in Int
        /\ low[p] <= high[p] /\ pos[p] <= high[p]
        /\ pos'[p] = pos[p] \/ (pos[p] < low[p] /\ pos'[p] = low[p])
  BY DEF PositionReset, ResetTarget, Earliest, LoopInv, TypeOK, LogBounds
<1>3. LogBounds' /\ BufferWithinOffsets'
  <2>1. LogBounds'
    BY <1>1, <1>2 DEF LoopInv, LogBounds, broker
  <2>2. \A p \in Partitions : Running => last[p] < pos'[p]
    BY <1>2 DEF LoopInv, BufferWithinOffsets
  <2> QED
    BY <1>1, <2>1, <2>2 DEF LoopInv, BufferWithinOffsets, Running
<1>4. NothingSkipped'
  <2> SUFFICES ASSUME Running', NEW p \in Partitions, NEW o \in Offsets, Owed(p, o)', (o < pos[p])'
               PROVE  (Published(p, o) \/ <<p, o>> \in pending)'
    BY DEF NothingSkipped
  <2>1. Owed(p, o) /\ o >= low[p] /\ o \in Int
    BY <1>1, EarliestOwes DEF IsRow, Offsets, broker
  <2> QED
    BY <1>1, <1>2, <2>1 DEF LoopInv, NothingSkipped, Running, Published
<1>5. /\ DownIsEmpty' /\ NoLoss' /\ BufferIsRows' /\ CommitOnlyWritten' /\ ReceiptsCover'
  BY <1>1 DEF LoopInv, DownIsEmpty, NoLoss, BufferIsRows, CommitOnlyWritten, ReceiptsCover,
     Owed, IsRow, Published, ResumeFrom, ResetTarget, Running, broker
<1> QED
  BY <1>3, <1>4, <1>5 DEF Core

\* A poll buffers every row it moves past, and widens the ranges over them.
LEMMA ConsumeStep ==
  ASSUME Earliest, LoopInv, NEW n \in [Partitions -> 0 .. LogLength], NEW timeUp \in BOOLEAN,
         Consume(n, timeUp)
  PROVE  Core'
<1> USE LogAssumption
<1> DEFINE batch == Delivered(n)
           valued == batch \ OfKind(batch, "tombstone")
           rows == OfKind(batch, "row")
<1>1. UNCHANGED <<broker, committed, lake, receipts>> /\ phase = "poll" /\ phase' # "commit"
      /\ phase' # "down"
  BY DEF Consume
<1>2. \A p \in Partitions, o \in Offsets :
        <<p, o>> \in batch <=> pos[p] <= o /\ o < pos[p] + n[p]
  BY DEF Delivered
<1>3. batch \subseteq Partitions \X Offsets
  BY DEF Delivered
<1>4. OfKind(batch, "poison") = {}
  <2>1. \A r \in batch : kind[r[1]][r[2]] \in Kinds \cup {"unwritten"}
    BY <1>3 DEF LoopInv, TypeOK
  <2> QED
    BY <2>1 DEF Earliest, OfKind
<1>5. pending' = pending \cup rows
  BY <1>4 DEF Consume
<1>6. \A p \in Partitions :
        /\ pos[p] \in Int /\ n[p] \in Int /\ n[p] >= 0 /\ low[p] \in Int /\ high[p] \in Int
        /\ pos'[p] = pos[p] + n[p] /\ pos'[p] <= high[p]
        /\ n[p] > 0 => low[p] <= pos[p]
        /\ pos[p] <= high[p]
  BY DEF Consume, LoopInv, TypeOK, LogBounds
<1>7. /\ first' = NotedFirst(valued) /\ last' = NotedLast(valued)
      /\ valued \in SUBSET (Partitions \X Offsets)
  BY <1>3 DEF Consume
<1>8. \A p \in Partitions :
        /\ last[p] \in Int /\ first[p] \in Int /\ last'[p] \in Int /\ first'[p] \in Int
        /\ \A o \in OffsetsOf(valued, p) : first'[p] <= o /\ o <= last'[p]
        /\ first[p] # Unset => first'[p] <= first[p]
        /\ last[p] # Unset => last[p] <= last'[p]
        /\ last'[p] = last[p] \/ last'[p] \in OffsetsOf(valued, p)
        /\ first[p] # Unset \/ OffsetsOf(valued, p) # {} => first'[p] # Unset
  <2>1. TypeOK
    BY DEF LoopInv
  <2> HIDE DEF valued
  <2> SUFFICES ASSUME NEW p \in Partitions
               PROVE  /\ last[p] \in Int /\ first[p] \in Int /\ last'[p] \in Int /\ first'[p] \in Int
                      /\ \A o \in OffsetsOf(valued, p) : first'[p] <= o /\ o <= last'[p]
                      /\ first[p] # Unset => first'[p] <= first[p]
                      /\ last[p] # Unset => last[p] <= last'[p]
                      /\ last'[p] = last[p] \/ last'[p] \in OffsetsOf(valued, p)
                      /\ first[p] # Unset \/ OffsetsOf(valued, p) # {} => first'[p] # Unset
    BY Zenon
  <2>2. last[p] \in Int /\ first[p] \in Int
    BY <2>1 DEF TypeOK
  <2>3. last'[p] \in Int /\ first'[p] \in Int
    BY <1>7, <2>1, NotedRange
  <2>4. CASE OffsetsOf(valued, p) = {}
    BY <1>7, <2>1, <2>2, <2>3, <2>4, NotedRange
  <2>5. CASE OffsetsOf(valued, p) # {}
    <3>1. OffsetsOf(valued, p) \subseteq Offsets /\ Unset \notin Offsets
      BY DEF OffsetsOf, Offsets, Unset
    <3>2. first'[p] # Unset
      BY <1>7, <2>1, <2>5, <3>1, NotedRange
    <3>3. last'[p] = last[p] \/ last'[p] \in OffsetsOf(valued, p)
      BY <1>7, <2>1, <2>5, NotedRange
    <3> QED
      BY <1>7, <2>1, <2>2, <2>3, <2>5, <3>2, <3>3, NotedRange
  <2> QED
    BY <2>4, <2>5
<1>9. LogBounds' /\ DownIsEmpty' /\ CommitOnlyWritten'
  BY <1>1, <1>6 DEF LoopInv, LogBounds, DownIsEmpty, CommitOnlyWritten, Running, broker
<1>10. NoLoss'
  BY <1>1, EarliestOwes DEF LoopInv, NoLoss, IsRow, Published, ResumeFrom, ResetTarget, Earliest, broker
<1>11. NothingSkipped'
  <2> SUFFICES ASSUME NEW p \in Partitions, NEW o \in Offsets, Owed(p, o)', (o < pos[p])'
               PROVE  Published(p, o)' \/ <<p, o>> \in pending'
    BY DEF NothingSkipped
  <2>1. IsRow(p, o) /\ Owed(p, o) /\ o \in Int
    BY <1>1, EarliestOwes DEF IsRow, Offsets, broker
  <2>2. CASE o < pos[p]
    BY <1>1, <1>5, <2>1, <2>2 DEF LoopInv, NothingSkipped, Running, Published
  <2>3. CASE pos[p] <= o
    BY <1>2, <1>5, <1>6, <2>1, <2>3 DEF OfKind, IsRow
  <2> QED
    BY <1>6, <2>1, <2>2, <2>3
<1>12. BufferWithinOffsets'
  <2>1. \A p \in Partitions : last[p] < pos[p]
    BY <1>1 DEF LoopInv, BufferWithinOffsets, Running
  <2>2. ASSUME NEW p \in Partitions PROVE last'[p] < pos'[p]
    <3>1. \A o \in OffsetsOf(valued, p) : o < pos[p] + n[p]
      BY <1>2 DEF OffsetsOf
    <3>2. last'[p] = last[p] \/ last'[p] < pos[p] + n[p]
      BY <1>8, <3>1, Zenon
    <3>3. last[p] \in Int /\ last[p] < pos[p]
      BY <1>8, <2>1
    <3> QED
      BY <1>6, <3>2, <3>3
  <2>3. ASSUME NEW r \in pending' 
      PROVE  first'[r[1]] # Unset /\ first'[r[1]] <= r[2] /\ r[2] <= last'[r[1]]
    <3>1. r[1] \in Partitions /\ r[2] \in Offsets /\ r = <<r[1], r[2]>>
      BY <1>3, <1>5 DEF LoopInv, TypeOK, OfKind
    <3>2. CASE r \in pending
      <4>1. /\ first[r[1]] # Unset /\ first[r[1]] <= r[2] /\ r[2] <= last[r[1]]
            /\ r[2] \in Int /\ r[2] >= 0
        BY <3>1, <3>2 DEF LoopInv, BufferWithinOffsets, Offsets
      <4>2. last[r[1]] # Unset
        BY <1>8, <3>1, <4>1 DEF Unset
      <4> QED
        BY <1>8, <3>1, <4>1, <4>2
    <3>3. CASE r \in rows
      <4>1. r[2] \in OffsetsOf(valued, r[1])
        BY <3>1, <3>3 DEF OfKind, OffsetsOf
      <4> QED
        BY <1>8, <3>1, <4>1
    <3> QED
      BY <1>5, <3>2, <3>3
  <2> QED
    BY <2>2, <2>3 DEF BufferWithinOffsets
<1>13. BufferIsRows'
  <2> SUFFICES ASSUME NEW r \in pending' PROVE IsRow(r[1], r[2]) /\ r[2] < high[r[1]]
    BY <1>1 DEF BufferIsRows, IsRow, broker
  <2>1. CASE r \in pending
    BY <2>1 DEF LoopInv, BufferIsRows
  <2>2. CASE r \in rows
    <3>1. r \in batch /\ IsRow(r[1], r[2]) /\ r[1] \in Partitions /\ r[2] \in Offsets
          /\ r = <<r[1], r[2]>>
      BY <1>3, <2>2 DEF OfKind, IsRow
    <3>2. r[2] < pos[r[1]] + n[r[1]] /\ r[2] \in Int
      BY <1>2, <3>1 DEF Offsets
    <3> QED
      BY <1>6, <3>1, <3>2
  <2> QED
    BY <1>5, <2>1, <2>2
<1>14. ReceiptsCover'
  <2>1. \A p \in Partitions, o \in Offsets : o < low[p] /\ <<p, o>> \notin pending => <<p, o>> \notin pending'
    <3> SUFFICES ASSUME NEW p \in Partitions, NEW o \in Offsets, o < low[p], <<p, o>> \in rows
                 PROVE  FALSE
      BY <1>5
    <3>1. pos[p] <= o /\ o < pos[p] + n[p] /\ o \in Int
      BY <1>2 DEF OfKind, Offsets
    <3> QED
      BY <1>6, <3>1
  <2> QED
    BY <1>1, <2>1 DEF LoopInv, ReceiptsCover, IsRow, Published, broker
<1> QED
  BY <1>9, <1>10, <1>11, <1>12, <1>13, <1>14 DEF Core

\* A write that applied makes more rows published, and buffered rows with it.
LEMMA PublishStep ==
  ASSUME Earliest, LoopInv, phase = "write", phase' # "down", Publish,
         UNCHANGED <<broker, committed, pos, first, last, pending, seen>>
  PROVE  Core'
<1> USE LogAssumption
<1>1. \A p \in Partitions, o \in Offsets : Published(p, o) => Published(p, o)'
  <2> SUFFICES ASSUME NEW p \in Partitions, NEW o \in Offsets, Published(p, o)
               PROVE  Published(p, o)'
    OBVIOUS
  <2>1. lake[p][o] \in Nat /\ lake'[p][o] \in Nat /\ lake'[p][o] >= lake[p][o]
    BY PublishCounts DEF LoopInv, TypeOK
  <2> QED
    BY <2>1 DEF Published
<1>2. ReceiptsCover'
  BY PublishKeepsReceipts DEF Running
<1>3. CommitOnlyWritten'
  <2>1. \A r \in pending : Published(r[1], r[2])'
    BY PublishedAll
  <2> QED
    BY <2>1 DEF CommitOnlyWritten
<1>4. NoLoss' /\ NothingSkipped'
  BY <1>1 DEF LoopInv, NoLoss, NothingSkipped, Owed, IsRow, ResumeFrom, ResetTarget, Running, broker
<1>5. LogBounds' /\ DownIsEmpty' /\ BufferWithinOffsets' /\ BufferIsRows'
  BY DEF LoopInv, LogBounds, DownIsEmpty, BufferWithinOffsets, BufferIsRows, IsRow, Running, broker
<1> QED
  BY <1>2, <1>3, <1>4, <1>5 DEF Core

\* Everything below last + 1 is published when the offsets are committed.
LEMMA CommitCovers ==
  ASSUME Earliest, LoopInv, phase = "commit", committed' = CommittedThrough,
         UNCHANGED <<broker, lake, seen>>
  PROVE  NoLoss' /\ \A p \in Partitions : committed'[p] <= high[p]
<1> USE LogAssumption
<1>1. ASSUME NEW p \in Partitions
      PROVE  /\ last[p] \in Int /\ pos[p] \in Int /\ low[p] \in Int /\ high[p] \in Int
             /\ committed[p] \in Int /\ last[p] < pos[p]
             /\ pos[p] <= high[p] /\ committed[p] <= high[p]
  <2>1. last[p] \in Int /\ pos[p] \in Int /\ low[p] \in Int /\ high[p] \in Int /\ committed[p] \in Int
    BY DEF LoopInv, TypeOK
  <2> QED
    BY <2>1 DEF LoopInv, LogBounds, BufferWithinOffsets, Running
<1>2. \A p \in Partitions :
        committed'[p] = IF last[p] = Unset THEN committed[p] ELSE last[p] + 1
  BY DEF CommittedThrough
<1>3. NoLoss'
  <2> SUFFICES ASSUME NEW p \in Partitions, NEW o \in Offsets, Owed(p, o)', ~Published(p, o)'
               PROVE  (o >= ResumeFrom(p, committed[p]))'
    BY DEF NoLoss
  <2>1. Owed(p, o) /\ o >= low[p] /\ ~Published(p, o) /\ o \in Int
    BY EarliestOwes DEF IsRow, Published, Offsets, broker
  <2>2. <<p, o>> \notin pending
    BY <2>1 DEF LoopInv, CommitOnlyWritten
  <2>3. o >= pos[p]
    BY <1>1, <2>1, <2>2 DEF LoopInv, NothingSkipped, Running
  <2>4. CASE last[p] = Unset
    <3>1. o >= ResumeFrom(p, committed[p]) /\ committed'[p] = committed[p]
      BY <1>2, <2>1, <2>4 DEF LoopInv, NoLoss
    <3> QED
      BY <3>1 DEF ResumeFrom, ResetTarget, broker
  <2>5. CASE last[p] # Unset
    <3>1. committed'[p] = last[p] + 1
      BY <1>2, <2>5
    <3> QED
      BY <1>1, <2>1, <2>3, <3>1 DEF ResumeFrom, ResetTarget, Earliest, broker
  <2> QED
    BY <2>4, <2>5
<1>4. \A p \in Partitions : committed'[p] <= high[p]
  BY <1>1, <1>2
<1> QED
  BY <1>3, <1>4

\* Committing, answered or not, and clearing the buffer keep the invariant.
LEMMA CommitStep ==
  ASSUME Earliest, LoopInv, CommitOk \/ \E applied \in BOOLEAN : CommitFails(applied)
  PROVE  Core'
<1> USE LogAssumption
<1>1. /\ UNCHANGED <<broker, lake, receipts, pos, seen>>
      /\ phase = "commit" /\ phase' # "down"
      /\ committed' = CommittedThrough \/ committed' = committed
  BY DEF CommitOk, CommitFails, Raise, history
<1>2. \/ UNCHANGED <<pending, first, last>>
      \/ pending' = {} /\ phase' = "poll" /\ \A p \in Partitions : last'[p] = Unset
  BY DEF CommitOk, CommitFails
<1>3. NoLoss' /\ \A p \in Partitions : committed'[p] <= high[p]
  <2>1. CASE committed' = CommittedThrough
    BY <1>1, <2>1, CommitCovers
  <2>2. CASE committed' = committed
    BY <1>1, <2>2 DEF LoopInv, LogBounds, NoLoss, Owed, IsRow, Published, ResumeFrom, ResetTarget, broker
  <2> QED
    BY <1>1, <2>1, <2>2
<1>4. LogBounds' /\ DownIsEmpty'
  BY <1>1, <1>3 DEF LoopInv, LogBounds, DownIsEmpty, Running, broker
<1>5. \A r \in pending : Published(r[1], r[2])
  BY <1>1 DEF LoopInv, CommitOnlyWritten
<1>6. NothingSkipped'
  <2> SUFFICES ASSUME NEW p \in Partitions, NEW o \in Offsets, Owed(p, o)', (o < pos[p])'
               PROVE  Published(p, o)'
    BY DEF NothingSkipped
  <2>1. Owed(p, o) /\ o < pos[p]
    BY <1>1 DEF Owed, IsRow, broker
  <2>2. Published(p, o)
    BY <1>1, <1>5, <2>1 DEF LoopInv, NothingSkipped, Running
  <2> QED
    BY <1>1, <2>2 DEF Published
<1>7. BufferWithinOffsets' /\ BufferIsRows' /\ CommitOnlyWritten'
  <2>1. \A p \in Partitions : Unset < pos[p]
    BY DEF LoopInv, TypeOK, Unset
  <2>2. CASE UNCHANGED <<pending, first, last>>
    BY <1>1, <1>5, <2>2 DEF LoopInv, BufferWithinOffsets, BufferIsRows, CommitOnlyWritten, IsRow,
       Published, Running, broker
  <2>3. CASE pending' = {} /\ \A p \in Partitions : last'[p] = Unset
    BY <1>1, <2>1, <2>3 DEF BufferWithinOffsets, BufferIsRows, CommitOnlyWritten
  <2> QED
    BY <1>2, <2>2, <2>3
<1>8. ReceiptsCover'
  <2>1. pending' \subseteq pending
    BY <1>2
  <2> QED
    BY <1>1, <2>1 DEF LoopInv, ReceiptsCover, IsRow, Published, broker
<1> QED
  BY <1>3, <1>4, <1>6, <1>7, <1>8 DEF Core

\* The invariant is inductive.
LEMMA LoopInvStep ==
  ASSUME Earliest, LoopInv, [Next]_vars
  PROVE  LoopInv'
<1>1. TypeOK'
  BY TypeStep DEF LoopInv
<1>2. Core'
  <2>1. CASE UNCHANGED vars
    BY <2>1 DEF LoopInv, Core, LogBounds, DownIsEmpty, NoLoss, NothingSkipped, BufferWithinOffsets,
       BufferIsRows, CommitOnlyWritten, ReceiptsCover, Owed, IsRow, Published, ResumeFrom,
       ResetTarget, Running, vars, broker, memory, history
  <2>2. ASSUME NEW p \in Partitions, Produce(p) \/ Expire(p) \/ Rewind(p) PROVE Core'
    BY <2>2, ProduceStep, ExpireStep, RewindStep
  <2>3. CASE Crash \/ Exit
    BY <2>3, DieStep DEF Crash, Exit
  <2>4. CASE Sigterm \/ LeaveLoop \/ FinalFlush \/ WriteFailsPermanently
    BY <2>4, QuietStep
       DEF Sigterm, LeaveLoop, FinalFlush, WriteFailsPermanently, Raise, Running, memory, history
  <2>5. CASE Start
    BY <2>5, StartStep
  <2>6. ASSUME NEW p \in Partitions, PositionReset(p) PROVE Core'
    BY <2>6, PositionResetStep
  <2>7. CASE Poll
    BY <2>7, ConsumeStep DEF Poll
  <2>8. CASE WriteOk
    BY <2>8, PublishStep DEF WriteOk
  <2>9. ASSUME NEW applied \in BOOLEAN, WriteFails(applied) PROVE Core'
    <3>1. phase = "write" /\ phase' # "down" /\ phase' # "commit"
          /\ UNCHANGED <<broker, committed, pos, first, last, pending, seen>>
      BY <2>9 DEF WriteFails, Raise
    <3>2. CASE applied
      BY <2>9, <3>1, <3>2, PublishStep DEF WriteFails
    <3>3. CASE ~applied
      BY <2>9, <3>1, <3>3, QuietStep DEF WriteFails, Running
    <3> QED
      BY <3>2, <3>3
  <2>10. CASE CommitOk \/ \E applied \in BOOLEAN : CommitFails(applied)
    BY <2>10, CommitStep
  <2> QED
    BY <2>1, <2>2, <2>3, <2>4, <2>5, <2>6, <2>7, <2>8, <2>9, <2>10 DEF Next, Environment, Pod
<1> QED
  BY <1>1, <1>2 DEF LoopInv, Core

\* The initial state satisfies the invariant.
LEMMA LoopInvInit == Init => LoopInv
<1> SUFFICES ASSUME Init PROVE LoopInv
  OBVIOUS
<1>1. TypeOK
  BY InitTypes
<1>2. \A p \in Partitions :
        /\ low[p] = 0 /\ high[p] = 0 /\ pos[p] = 0 /\ committed[p] = -1 /\ last[p] = Unset
        /\ \A o \in Offsets : ~ IsRow(p, o)
  BY DEF Init, OffsetInvalid, IsRow
<1>3. LogBounds
  BY <1>2 DEF LogBounds
<1>4. NoLoss /\ NothingSkipped
  BY <1>2 DEF NoLoss, NothingSkipped, Owed
<1>5. phase = "down" /\ pending = {} /\ receipts = {}
  BY DEF Init
<1>6. DownIsEmpty /\ BufferWithinOffsets /\ BufferIsRows /\ CommitOnlyWritten /\ ReceiptsCover
  BY <1>2, <1>5
     DEF DownIsEmpty, BufferWithinOffsets, BufferIsRows, CommitOnlyWritten, ReceiptsCover, Running
<1> QED
  BY <1>1, <1>3, <1>4, <1>6 DEF LoopInv

\* For an "earliest" consumer without poison records the invariant holds in
\* every reachable state.
THEOREM LoopInvariant == ASSUME Earliest PROVE Spec => []LoopInv
<1>1. Init => LoopInv
  BY LoopInvInit
<1>2. LoopInv /\ [Next]_vars => LoopInv'
  BY LoopInvStep
<1> QED
  BY <1>1, <1>2, PTL DEF Spec

\* No loss: whatever crashes, failed writes, failed commits, retention and
\* rewinds happen, an owed row that is not in the destination is replayed.
THEOREM RowsAreNeverLost == ASSUME Earliest PROVE Spec => []NoLoss
<1>1. LoopInv => NoLoss
  BY DEF LoopInv
<1> QED
  BY <1>1, LoopInvariant, PTL

\* A running pod never moves past an owed row it has not published or buffered.
THEOREM RunningPodSkipsNothing == ASSUME Earliest PROVE Spec => []NothingSkipped
<1>1. LoopInv => NothingSkipped
  BY DEF LoopInv
<1> QED
  BY <1>1, LoopInvariant, PTL
=============================================================================
