----------------------------- MODULE FlushProofs -----------------------------
(***************************************************************************)
(* More about ConsumeLoop: what the offset ranges of a flush, the offsets  *)
(* it commits, the key it publishes under and the size of its buffer say   *)
(* of each other, for "earliest" and "latest" alike.                       *)
(***************************************************************************)
EXTENDS ConsumeLoopProofs, FiniteSetTheorems

---------------------------------------------------------------------------
(* What the range of a flush and the offsets say of each other.            *)

\* Each range has both ends or none, and ends before the position; and a pod
\* never has committed past its position, nor past the range it would commit.
RangesOK ==
  /\ \A p \in Partitions :
       (first[p] = Unset <=> last[p] = Unset) /\ first[p] <= last[p]
  /\ Running => \A p \in Partitions :
       committed[p] <= pos[p] /\ (last[p] # Unset => committed[p] <= last[p] + 1)

RangeInv ==
  /\ TypeOK /\ LogBounds /\ DownIsEmpty /\ BufferWithinOffsets /\ BufferIsRows /\ RangesOK

\* No pod writes the row again unless a fault comes in between: it is about to
\* be committed, or below the committed offset.
Settled(p, o) ==
  \/ phase = "commit" /\ <<p, o>> \in pending
  \/ o < committed[p] /\ (<<p, o>> \notin pending \/ phase = "closing")

CountInv ==
  /\ DuplicatesNeedFaults
  /\ \A p \in Partitions, o \in Offsets : lake[p][o] <= faults \/ Settled(p, o)

\* What this process published is behind its position, and, as long as it is
\* buffered, under a key that has its receipt.
OnceInv ==
  /\ ~Running => mine = {}
  /\ Keyed => \A r \in mine :
       /\ r[2] < pos[r[1]]
       /\ r \in pending => FlushKey \in receipts /\ phase # "poll"

\* A range holds every row between its ends, unless the position was reset:
\* then its first offset is retained no more.
RangeBuffered ==
  Running => \A p \in Partitions, o \in Offsets :
    first[p] # Unset /\ first[p] <= o /\ o < pos[p] /\ IsRow(p, o) =>
      <<p, o>> \in pending \/ first[p] < low[p]

\* A receipt that covers a row it did not publish is of such a range, and
\* answers no flush that has the row.
KeysCover ==
  \A k \in receipts : \A p \in DOMAIN k :
    /\ p \in Partitions
    /\ k[p].first \in Nat /\ k[p].last \in Nat /\ k[p].last < high[p]
    /\ \A o \in Offsets :
         k[p].first <= o /\ o <= k[p].last /\ IsRow(p, o) =>
           \/ Published(p, o)
           \/ /\ k[p].first < low[p]
              /\ k[p].first = first[p] => phase # "poll" /\ <<p, o>> \notin pending

CoverInv == RangeBuffered /\ KeysCover /\ CommitOnlyWritten

SizeInv ==
  /\ IsFiniteSet(pending)
  /\ phase = "poll" => Cardinality(pending) < FlushSize
  /\ BufferBounded

---------------------------------------------------------------------------
(* The ranges.                                                             *)

\* What TypeOK says of one partition.
LEMMA Numbers ==
  ASSUME TypeOK, NEW p \in Partitions
  PROVE  /\ low[p] \in Nat /\ high[p] \in Nat /\ pos[p] \in Nat
         /\ committed[p] \in Int /\ committed[p] >= -1
         /\ first[p] \in Int /\ first[p] >= -1 /\ last[p] \in Int /\ last[p] >= -1
BY LogAssumption DEF TypeOK

\* What an invariant of the ranges gives for one partition.
LEMMA RangeOf ==
  ASSUME RangeInv, NEW p \in Partitions
  PROVE  /\ low[p] <= high[p] /\ committed[p] <= high[p] /\ pos[p] <= high[p]
         /\ (first[p] = Unset <=> last[p] = Unset) /\ first[p] <= last[p]
         /\ Running => /\ last[p] < pos[p] /\ committed[p] <= pos[p]
                       /\ last[p] # Unset => committed[p] <= last[p] + 1
         /\ ~Running => first[p] = Unset /\ last[p] = Unset
BY DEF RangeInv, LogBounds, RangesOK, BufferWithinOffsets, DownIsEmpty

\* A buffered row is in its partition's range.
LEMMA RowOf ==
  ASSUME RangeInv, NEW r \in pending
  PROVE  /\ r[1] \in Partitions /\ r[2] \in Offsets /\ r = <<r[1], r[2]>>
         /\ first[r[1]] # Unset /\ first[r[1]] <= r[2] /\ r[2] <= last[r[1]]
         /\ IsRow(r[1], r[2]) /\ Running
BY DEF RangeInv, TypeOK, BufferWithinOffsets, BufferIsRows, DownIsEmpty

\* A poll moves the position, and the range with it: it begins a range where
\* there is none, and extends one only at its end.
LEMMA Polled ==
  ASSUME RangeInv, NEW n \in [Partitions -> 0 .. LogLength], NEW timeUp \in BOOLEAN,
         Consume(n, timeUp)
  PROVE  /\ \A p \in Partitions :
              /\ pos'[p] \in Nat /\ pos[p] <= pos'[p] /\ pos'[p] <= high[p]
              /\ pos'[p] # pos[p] => low[p] <= pos[p]
         /\ \A p \in Partitions :
              \/ first'[p] = first[p] /\ last'[p] = last[p]
              \/ /\ pos[p] <= last'[p] /\ last'[p] < pos'[p] /\ first'[p] \in Nat
                 /\ \/ first[p] # Unset /\ first'[p] = first[p]
                    \/ first[p] = Unset /\ pos[p] <= first'[p] /\ first'[p] <= last'[p]
         /\ pending \subseteq pending'
         /\ \A r \in pending' \ pending :
              /\ r[1] \in Partitions /\ r[2] \in Offsets /\ IsRow(r[1], r[2])
              /\ pos[r[1]] <= r[2] /\ r[2] < pos'[r[1]]
              /\ first'[r[1]] # Unset /\ first'[r[1]] <= r[2] /\ r[2] <= last'[r[1]]
         /\ "poison" \notin Kinds =>
              \A p \in Partitions, o \in Offsets :
                pos[p] <= o /\ o < pos'[p] /\ IsRow(p, o) => <<p, o>> \in pending'
<1> USE LogAssumption
<1> DEFINE batch == Delivered(n)
           valued == batch \ OfKind(batch, "tombstone")
           rows == OfKind(batch, "row")
<1>1. TypeOK /\ phase = "poll" /\ Running
  BY DEF Consume, RangeInv, Running
<1>2. \A p \in Partitions, o \in Offsets :
        <<p, o>> \in batch <=> pos[p] <= o /\ o < pos[p] + n[p]
  BY DEF Delivered
<1>3. batch \subseteq Partitions \X Offsets /\ valued \in SUBSET (Partitions \X Offsets)
  BY DEF Delivered
<1>4. first' = NotedFirst(valued) /\ last' = NotedLast(valued)
  BY DEF Consume
<1>5. pending' = pending \/ pending' = pending \cup rows
  BY DEF Consume
<1>6. rows \subseteq valued /\ \A r \in rows : IsRow(r[1], r[2])
  BY DEF OfKind, IsRow
<1>7. "poison" \notin Kinds => pending' = pending \cup rows
  <2>1. \A r \in batch : kind[r[1]][r[2]] \in Kinds \cup {"unwritten"}
    BY <1>1, <1>3 DEF TypeOK
  <2>2. "poison" \notin Kinds => OfKind(batch, "poison") = {}
    BY <2>1 DEF OfKind
  <2> QED
    BY <2>2 DEF Consume
<1>8. \A p \in Partitions, o \in Offsets : <<p, o>> \in batch /\ IsRow(p, o) => <<p, o>> \in rows
  BY DEF OfKind, IsRow
<1>9. ASSUME NEW p \in Partitions
      PROVE  /\ pos'[p] = pos[p] + n[p] /\ pos'[p] \in Nat /\ pos[p] <= pos'[p] /\ pos'[p] <= high[p]
             /\ pos'[p] # pos[p] => low[p] <= pos[p]
  <2>1. pos[p] \in Nat /\ n[p] \in Nat /\ low[p] \in Nat /\ high[p] \in Nat /\ pos[p] <= high[p]
    BY <1>1, Numbers, RangeOf
  <2>2. pos'[p] = pos[p] + n[p] /\ (n[p] > 0 => pos[p] >= low[p] /\ pos[p] + n[p] <= high[p])
    BY DEF Consume
  <2> QED
    BY <2>1, <2>2
<1> HIDE DEF batch, valued, rows
<1>10. \A p \in Partitions : \A o \in OffsetsOf(valued, p) :
         o \in Nat /\ pos[p] <= o /\ o < pos'[p]
  <2> SUFFICES ASSUME NEW p \in Partitions, NEW o \in OffsetsOf(valued, p)
               PROVE  o \in Nat /\ pos[p] <= o /\ o < pos'[p]
    OBVIOUS
  <2>1. o \in Offsets /\ <<p, o>> \in batch
    BY DEF OffsetsOf, valued
  <2>2. pos[p] <= o /\ o < pos[p] + n[p]
    BY <1>2, <2>1
  <2>3. o \in Nat
    BY <2>1 DEF Offsets
  <2> QED
    BY <1>9, <2>2, <2>3
<1>11. ASSUME NEW p \in Partitions
       PROVE  \/ OffsetsOf(valued, p) = {} /\ first'[p] = first[p] /\ last'[p] = last[p]
              \/ /\ pos[p] <= last'[p] /\ last'[p] < pos'[p] /\ first'[p] \in Nat
                 /\ \A o \in OffsetsOf(valued, p) : first'[p] <= o /\ o <= last'[p]
                 /\ \/ first[p] # Unset /\ first'[p] = first[p]
                    \/ first[p] = Unset /\ pos[p] <= first'[p] /\ first'[p] <= last'[p]
  <2>1. CASE OffsetsOf(valued, p) = {}
    BY <1>1, <1>3, <1>4, <2>1, NotedRange
  <2>2. CASE OffsetsOf(valued, p) # {}
    <3>1. PICK o \in OffsetsOf(valued, p) : TRUE
      BY <2>2
    <3>2. /\ \A x \in OffsetsOf(valued, p) : first'[p] <= x /\ x <= last'[p]
          /\ first[p] # Unset => first'[p] <= first[p]
          /\ first'[p] \in OffsetsOf(valued, p) \/ (first'[p] = first[p] /\ first[p] # Unset)
          /\ last'[p] \in OffsetsOf(valued, p) \/ last'[p] = last[p]
      BY <1>1, <1>3, <1>4, <2>2, NotedRange
    <3>3. /\ first[p] \in Int /\ last[p] \in Int /\ pos[p] \in Nat /\ pos'[p] \in Nat
          /\ first[p] <= last[p] /\ last[p] < pos[p] /\ first[p] >= -1
      BY <1>1, <1>9, Numbers, RangeOf
    <3>4. o \in Nat /\ pos[p] <= o /\ first'[p] <= o /\ o <= last'[p]
      BY <1>10, <3>1, <3>2
    <3>5. last'[p] \in OffsetsOf(valued, p)
      <4>1. CASE last'[p] = last[p]
        BY <3>3, <3>4, <4>1
      <4> QED
        BY <3>2, <4>1
    <3>6. last'[p] \in Nat /\ pos[p] <= last'[p] /\ last'[p] < pos'[p]
      BY <1>10, <3>5
    <3>7. CASE first[p] # Unset
      <4>1. first'[p] = first[p]
        <5>1. CASE first'[p] \in OffsetsOf(valued, p)
          <6>1. first'[p] \in Nat /\ pos[p] <= first'[p] /\ first'[p] <= first[p]
            BY <1>10, <3>2, <3>7, <5>1
          <6> QED
            BY <3>3, <6>1
        <5> QED
          BY <3>2, <5>1
      <4>2. first'[p] \in Nat
        BY <3>3, <3>7, <4>1 DEF Unset
      <4> QED
        BY <3>2, <3>6, <3>7, <4>1, <4>2
    <3>8. CASE first[p] = Unset
      <4>1. first'[p] \in OffsetsOf(valued, p)
        BY <3>2, <3>8
      <4>2. first'[p] \in Nat /\ pos[p] <= first'[p] /\ first'[p] <= last'[p]
        BY <1>10, <3>2, <4>1
      <4> QED
        BY <3>2, <3>6, <3>8, <4>2
    <3> QED
      BY <3>7, <3>8
  <2> QED
    BY <2>1, <2>2
<1>12. ASSUME NEW r \in pending' \ pending
       PROVE  /\ r[1] \in Partitions /\ r[2] \in Offsets /\ IsRow(r[1], r[2])
              /\ pos[r[1]] <= r[2] /\ r[2] < pos'[r[1]]
              /\ first'[r[1]] # Unset /\ first'[r[1]] <= r[2] /\ r[2] <= last'[r[1]]
  <2>1. r \in rows /\ r \in valued /\ IsRow(r[1], r[2])
    BY <1>5, <1>6
  <2>2. r[1] \in Partitions /\ r[2] \in Offsets /\ r = <<r[1], r[2]>>
    BY <1>3, <2>1
  <2>3. r[2] \in OffsetsOf(valued, r[1])
    BY <2>1, <2>2 DEF OffsetsOf
  <2>4. first'[r[1]] \in Nat /\ first'[r[1]] <= r[2] /\ r[2] <= last'[r[1]]
    BY <1>11, <2>2, <2>3
  <2>5. first'[r[1]] # Unset
    BY <2>4 DEF Unset
  <2> QED
    BY <1>10, <2>1, <2>2, <2>3, <2>4, <2>5
<1>13. ASSUME "poison" \notin Kinds, NEW p \in Partitions, NEW o \in Offsets,
              pos[p] <= o, o < pos'[p], IsRow(p, o)
       PROVE  <<p, o>> \in pending'
  <2>1. <<p, o>> \in batch
    BY <1>2, <1>9, <1>13
  <2>2. <<p, o>> \in rows
    BY <1>8, <1>13, <2>1
  <2> QED
    BY <1>7, <1>13, <2>2
<1>14. \A p \in Partitions :
         \/ first'[p] = first[p] /\ last'[p] = last[p]
         \/ /\ pos[p] <= last'[p] /\ last'[p] < pos'[p] /\ first'[p] \in Nat
            /\ \/ first[p] # Unset /\ first'[p] = first[p]
               \/ first[p] = Unset /\ pos[p] <= first'[p] /\ first'[p] <= last'[p]
  BY <1>11, Zenon
<1>15. pending \subseteq pending'
  BY <1>5
<1> QED
  BY <1>9, <1>12, <1>13, <1>14, <1>15

\* The part of the invariant that TypeStep does not give.
Ranges == LogBounds /\ DownIsEmpty /\ BufferWithinOffsets /\ BufferIsRows /\ RangesOK

\* A step that moves neither the log nor the position, the ranges, the buffer
\* and the committed offsets.
LEMMA RangesStay ==
  ASSUME RangeInv, UNCHANGED <<broker, committed, pos, first, last, pending>>, Running = Running'
  PROVE  Ranges'
BY DEF RangeInv, Ranges, LogBounds, DownIsEmpty, BufferWithinOffsets, BufferIsRows, RangesOK,
       IsRow, Running, broker

\* A poll keeps the ranges.
LEMMA RangesPoll ==
  ASSUME RangeInv, NEW n \in [Partitions -> 0 .. LogLength], NEW timeUp \in BOOLEAN,
         Consume(n, timeUp), TypeOK'
  PROVE  Ranges'
<1>1. UNCHANGED <<broker, committed>> /\ Running /\ Running' /\ TypeOK
  BY DEF Consume, Running, RangeInv
<1>2. /\ \A p \in Partitions :
           /\ pos'[p] \in Nat /\ pos[p] <= pos'[p] /\ pos'[p] <= high[p]
      /\ \A p \in Partitions :
           \/ first'[p] = first[p] /\ last'[p] = last[p]
           \/ /\ pos[p] <= last'[p] /\ last'[p] < pos'[p] /\ first'[p] \in Nat
              /\ \/ first[p] # Unset /\ first'[p] = first[p]
                 \/ first[p] = Unset /\ pos[p] <= first'[p] /\ first'[p] <= last'[p]
      /\ pending \subseteq pending'
      /\ \A r \in pending' \ pending :
           /\ r[1] \in Partitions /\ r[2] \in Offsets /\ IsRow(r[1], r[2])
           /\ r[2] < pos'[r[1]]
           /\ first'[r[1]] # Unset /\ first'[r[1]] <= r[2] /\ r[2] <= last'[r[1]]
  BY Polled
<1>3. ASSUME NEW p \in Partitions
      PROVE  /\ low[p] <= high[p] /\ committed[p] <= high[p] /\ pos'[p] <= high[p]
             /\ (first'[p] = Unset <=> last'[p] = Unset) /\ first'[p] <= last'[p]
             /\ last'[p] < pos'[p] /\ committed[p] <= pos'[p]
             /\ last'[p] # Unset => committed[p] <= last'[p] + 1
             /\ first[p] # Unset => first'[p] = first[p] /\ last[p] <= last'[p]
  <2>1. /\ low[p] \in Nat /\ high[p] \in Nat /\ pos[p] \in Nat /\ committed[p] \in Int
        /\ first[p] \in Int /\ last[p] \in Int /\ first[p] >= -1 /\ last[p] >= -1
        /\ first'[p] \in Int /\ last'[p] \in Int
    BY <1>1, Numbers DEF TypeOK
  <2>2. /\ low[p] <= high[p] /\ committed[p] <= high[p] /\ committed[p] <= pos[p]
        /\ (first[p] = Unset <=> last[p] = Unset) /\ first[p] <= last[p] /\ last[p] < pos[p]
        /\ last[p] # Unset => committed[p] <= last[p] + 1
    BY <1>1, RangeOf
  <2>3. pos'[p] \in Nat /\ pos[p] <= pos'[p] /\ pos'[p] <= high[p]
    BY <1>2
  <2>4. CASE first'[p] = first[p] /\ last'[p] = last[p]
    BY <2>1, <2>2, <2>3, <2>4
  <2>5. CASE /\ pos[p] <= last'[p] /\ last'[p] < pos'[p] /\ first'[p] \in Nat
             /\ first[p] # Unset /\ first'[p] = first[p]
    BY <2>1, <2>2, <2>3, <2>5 DEF Unset
  <2>6. CASE /\ pos[p] <= last'[p] /\ last'[p] < pos'[p] /\ first'[p] \in Nat
             /\ first[p] = Unset /\ pos[p] <= first'[p] /\ first'[p] <= last'[p]
    BY <2>1, <2>2, <2>3, <2>6 DEF Unset
  <2> QED
    BY <1>2, <2>4, <2>5, <2>6
<1>4. LogBounds'
  BY <1>1, <1>3 DEF LogBounds, broker
<1>5. DownIsEmpty'
  BY <1>1 DEF DownIsEmpty
<1>6. RangesOK'
  BY <1>1, <1>3 DEF RangesOK
<1>7. ASSUME NEW r \in pending'
      PROVE  /\ first'[r[1]] # Unset /\ first'[r[1]] <= r[2] /\ r[2] <= last'[r[1]]
             /\ IsRow(r[1], r[2]) /\ r[2] < high[r[1]]
  <2>1. CASE r \in pending
    <3>1. /\ r[1] \in Partitions /\ r[2] \in Offsets /\ IsRow(r[1], r[2])
          /\ first[r[1]] # Unset /\ first[r[1]] <= r[2] /\ r[2] <= last[r[1]]
      BY <2>1, RowOf
    <3>2. r[2] < high[r[1]]
      BY <2>1 DEF RangeInv, BufferIsRows
    <3>3. r[2] \in Int /\ last[r[1]] \in Int /\ last'[r[1]] \in Int
      BY <3>1, <1>1, Numbers DEF TypeOK, Offsets
    <3> QED
      BY <1>3, <3>1, <3>2, <3>3
  <2>2. CASE r \notin pending
    <3>1. /\ r[1] \in Partitions /\ r[2] \in Offsets /\ r[2] < pos'[r[1]]
      BY <1>2, <2>2
    <3>2. r[2] \in Int /\ pos'[r[1]] \in Int /\ pos'[r[1]] <= high[r[1]] /\ high[r[1]] \in Int
      BY <1>1, <1>2, <3>1, Numbers DEF Offsets
    <3> QED
      BY <1>2, <2>2, <3>1, <3>2
  <2> QED
    BY <2>1, <2>2
<1>8. BufferWithinOffsets'
  BY <1>3, <1>7 DEF BufferWithinOffsets
<1>9. BufferIsRows'
  BY <1>1, <1>7 DEF BufferIsRows, IsRow, broker
<1> QED
  BY <1>4, <1>5, <1>6, <1>8, <1>9 DEF Ranges

\* Producers, retention and operators keep them.
LEMMA RangesOutside ==
  ASSUME RangeInv, NEW q \in Partitions, Produce(q) \/ Expire(q) \/ Rewind(q), TypeOK'
  PROVE  Ranges'
<1>1. UNCHANGED <<phase, pos, first, last, pending>> /\ TypeOK
  BY DEF Produce, Expire, Rewind, memory, RangeInv
<1>2. \A p \in Partitions :
        /\ low'[p] <= high'[p] /\ committed'[p] <= committed[p] /\ high[p] <= high'[p]
        /\ Running => committed'[p] = committed[p]
  <2>1. CASE Produce(q)
    BY <1>1, <2>1, Numbers, RangeOf DEF Produce, TypeOK
  <2>2. CASE Expire(q)
    BY <1>1, <2>2, Numbers, RangeOf DEF Expire, TypeOK
  <2>3. CASE Rewind(q)
    <3>1. UNCHANGED <<low, high>> /\ ~Running
      BY <2>3 DEF Rewind, Running, broker
    <3>2. \A p \in Partitions : committed'[p] <= committed[p]
      BY <1>1, <2>3, Numbers DEF Rewind, TypeOK
    <3> QED
      BY <1>1, <3>1, <3>2, Numbers, RangeOf
  <2> QED
    BY <2>1, <2>2, <2>3
<1>3. \A p \in Partitions :
        /\ low[p] \in Nat /\ high[p] \in Nat /\ pos[p] \in Nat /\ committed[p] \in Int
        /\ high'[p] \in Nat /\ committed'[p] \in Int
  BY <1>1, Numbers DEF TypeOK
<1>4. LogBounds'
  <2>1. \A p \in Partitions : committed'[p] <= high'[p] /\ pos[p] <= high'[p]
    BY <1>2, <1>3, RangeOf
  <2> QED
    BY <1>1, <1>2, <2>1 DEF LogBounds
<1>5. DownIsEmpty' /\ BufferWithinOffsets'
  BY <1>1 DEF RangeInv, DownIsEmpty, BufferWithinOffsets, Running
<1>6. RangesOK'
  BY <1>1, <1>2 DEF RangeInv, RangesOK, Running
<1>7. BufferIsRows'
  <2> SUFFICES ASSUME NEW r \in pending
               PROVE  kind'[r[1]][r[2]] = "row" /\ r[2] < high'[r[1]]
    BY <1>1 DEF BufferIsRows, IsRow
  <2>1. /\ r[1] \in Partitions /\ r[2] \in Offsets /\ kind[r[1]][r[2]] = "row"
        /\ r[2] < high[r[1]]
    BY RowOf DEF RangeInv, BufferIsRows, IsRow
  <2>2. r[2] \in Int
    BY <2>1 DEF Offsets
  <2>3. kind'[r[1]][r[2]] = kind[r[1]][r[2]]
    <3>1. CASE Produce(q)
      BY <1>1, <1>3, <2>1, <2>2, <3>1 DEF Produce, TypeOK
    <3>2. CASE ~ Produce(q)
      BY <3>2 DEF Expire, Rewind, broker
    <3> QED
      BY <3>1, <3>2
  <2> QED
    BY <1>2, <1>3, <2>1, <2>2, <2>3
<1> QED
  BY <1>4, <1>5, <1>6, <1>7 DEF Ranges

\* A process that ends has no ranges.
LEMMA RangesEnd ==
  ASSUME RangeInv, Die, UNCHANGED <<broker, committed>>
  PROVE  Ranges'
<1>1. /\ ~Running' /\ pending' = {}
      /\ \A p \in Partitions : pos'[p] = 0 /\ last'[p] = Unset /\ first'[p] = Unset
  BY DEF Die, Running
<1>2. LogBounds'
  <2>1. \A p \in Partitions : 0 <= high[p]
    BY Numbers DEF RangeInv
  <2> QED
    BY <1>1, <2>1 DEF RangeInv, LogBounds, broker
<1>3. RangesOK'
  BY <1>1 DEF RangesOK, Unset
<1> QED
  BY <1>1, <1>2, <1>3 DEF Ranges, DownIsEmpty, BufferWithinOffsets, BufferIsRows

\* Where a consumer starts is not behind what is committed then.
LEMMA Resumes ==
  ASSUME RangeInv, Start, NEW p \in Partitions
  PROVE  /\ pos'[p] \in Nat /\ pos'[p] <= high[p] /\ committed'[p] \in Int
         /\ committed'[p] <= pos'[p] /\ committed[p] <= committed'[p]
<1>1. PICK queried \in SUBSET Partitions, commitOk \in BOOLEAN :
        /\ committed' = Recovered(queried, commitOk)
        /\ pos' = [x \in Partitions |-> ResumeFrom(x, committed'[x])]
  BY DEF Start
<1>2. /\ low[p] \in Nat /\ high[p] \in Nat /\ committed[p] \in Int /\ committed[p] >= -1
      /\ low[p] <= high[p] /\ committed[p] <= high[p]
  BY Numbers, RangeOf DEF RangeInv
<1>3. ResetTarget(p) \in Nat /\ low[p] <= ResetTarget(p) /\ ResetTarget(p) <= high[p]
  BY <1>2 DEF ResetTarget
<1>4. \/ committed'[p] = committed[p]
      \/ committed[p] < low[p] /\ committed'[p] = ResetTarget(p)
  BY <1>1 DEF Recovered
<1>5. committed'[p] \in Int /\ committed[p] <= committed'[p] /\ committed'[p] >= -1
      /\ committed'[p] <= high[p]
  BY <1>2, <1>3, <1>4
<1>6. \/ pos'[p] = ResetTarget(p) /\ (committed'[p] = -1 \/ committed'[p] < low[p])
      \/ pos'[p] = committed'[p] /\ committed'[p] # -1
  BY <1>1 DEF ResumeFrom, OffsetInvalid
<1> QED
  BY <1>2, <1>3, <1>5, <1>6

\* A process that starts has no ranges yet.
LEMMA RangesStart ==
  ASSUME RangeInv, Start
  PROVE  Ranges'
<1>1. UNCHANGED <<broker, first, last, pending>> /\ ~Running /\ Running'
  BY DEF Start, Running
<1>2. pending' = {} /\ \A p \in Partitions : first'[p] = Unset /\ last'[p] = Unset
  BY <1>1, RangeOf DEF RangeInv, DownIsEmpty
<1>3. \A p \in Partitions :
        /\ pos'[p] \in Nat /\ pos'[p] <= high[p] /\ committed'[p] \in Int /\ committed'[p] <= pos'[p]
  BY Resumes
<1>4. LogBounds'
  <2>1. \A p \in Partitions : committed'[p] <= high[p] /\ low[p] <= high[p]
    <3> SUFFICES ASSUME NEW p \in Partitions
                 PROVE  committed'[p] <= high[p] /\ low[p] <= high[p]
      OBVIOUS
    <3>1. high[p] \in Nat /\ low[p] <= high[p]
      BY Numbers, RangeOf DEF RangeInv
    <3> QED
      BY <1>3, <3>1
  <2> QED
    BY <1>1, <1>3, <2>1 DEF LogBounds, broker
<1>5. BufferWithinOffsets'
  BY <1>2, <1>3 DEF BufferWithinOffsets, Unset
<1>6. RangesOK'
  BY <1>2, <1>3 DEF RangesOK, Unset
<1> QED
  BY <1>1, <1>2, <1>4, <1>5, <1>6 DEF Ranges, DownIsEmpty, BufferIsRows

\* The position moves forward to where the reset sends it.
LEMMA RangesReset ==
  ASSUME RangeInv, NEW q \in Partitions, PositionReset(q)
  PROVE  Ranges'
<1>1. UNCHANGED <<broker, committed, phase, first, last, pending>> /\ Running
  BY DEF PositionReset, history, Running
<1>2. \A p \in Partitions :
        pos'[p] \in Nat /\ pos[p] \in Nat /\ pos[p] <= pos'[p] /\ pos'[p] <= high[p]
  <2> SUFFICES ASSUME NEW p \in Partitions
               PROVE  pos'[p] \in Nat /\ pos[p] \in Nat /\ pos[p] <= pos'[p] /\ pos'[p] <= high[p]
    OBVIOUS
  <2>1. /\ low[p] \in Nat /\ high[p] \in Nat /\ pos[p] \in Nat /\ low[p] <= high[p]
        /\ pos[p] <= high[p]
    BY Numbers, RangeOf DEF RangeInv
  <2>2. pos'[p] = pos[p] \/ (pos[p] < low[p] /\ (pos'[p] = low[p] \/ pos'[p] = high[p]))
    BY DEF PositionReset, ResetTarget, RangeInv, TypeOK
  <2> QED
    BY <2>1, <2>2
<1>3. LogBounds'
  BY <1>1, <1>2, RangeOf DEF LogBounds, broker
<1>4. \A p \in Partitions : last[p] < pos'[p] /\ committed[p] <= pos'[p]
  <2> SUFFICES ASSUME NEW p \in Partitions
               PROVE  last[p] < pos'[p] /\ committed[p] <= pos'[p]
    OBVIOUS
  <2>1. last[p] \in Int /\ committed[p] \in Int /\ last[p] < pos[p] /\ committed[p] <= pos[p]
    BY <1>1, Numbers, RangeOf DEF RangeInv
  <2> QED
    BY <1>2, <2>1
<1>5. BufferWithinOffsets' /\ RangesOK'
  BY <1>1, <1>4 DEF RangeInv, BufferWithinOffsets, RangesOK, Running
<1>6. DownIsEmpty' /\ BufferIsRows'
  BY <1>1 DEF RangeInv, DownIsEmpty, BufferIsRows, IsRow, Running, broker
<1> QED
  BY <1>3, <1>5, <1>6 DEF Ranges

\* What a pod commits is not behind what is committed, nor past its position.
LEMMA CommitsForward ==
  ASSUME RangeInv, Running, NEW p \in Partitions
  PROVE  /\ CommittedThrough[p] \in Int /\ committed[p] <= CommittedThrough[p]
         /\ CommittedThrough[p] <= pos[p]
         /\ last[p] # Unset => CommittedThrough[p] = last[p] + 1
<1>1. committed[p] \in Int /\ last[p] \in Int /\ pos[p] \in Nat
  BY Numbers DEF RangeInv
<1>2. CommittedThrough[p] = IF last[p] = Unset THEN committed[p] ELSE last[p] + 1
  BY DEF CommittedThrough
<1>3. /\ last[p] < pos[p] /\ committed[p] <= pos[p]
      /\ last[p] # Unset => committed[p] <= last[p] + 1
  BY RangeOf
<1> QED
  BY <1>1, <1>2, <1>3

\* A commit, whether it is answered or not, keeps the ranges.
LEMMA RangesCommit ==
  ASSUME RangeInv, CommitOk \/ \E applied \in BOOLEAN : CommitFails(applied)
  PROVE  Ranges'
<1>1. UNCHANGED <<broker, pos>> /\ Running /\ Running'
  BY DEF CommitOk, CommitFails, Raise, history, Running
<1>2. committed' = CommittedThrough \/ committed' = committed
  BY DEF CommitOk, CommitFails
<1>3. \/ UNCHANGED <<pending, first, last>>
      \/ pending' = {} /\ \A p \in Partitions : first'[p] = Unset /\ last'[p] = Unset
  BY DEF CommitOk, CommitFails
<1>4. \A p \in Partitions :
        /\ committed'[p] \in Int /\ committed'[p] <= pos[p] /\ pos[p] \in Nat /\ high[p] \in Nat
        /\ last[p] # Unset => committed'[p] <= last[p] + 1
        /\ pos[p] <= high[p] /\ low[p] <= high[p] /\ last[p] < pos[p]
  <2> SUFFICES ASSUME NEW p \in Partitions
               PROVE  /\ committed'[p] \in Int /\ committed'[p] <= pos[p] /\ pos[p] \in Nat
                      /\ high[p] \in Nat
                      /\ last[p] # Unset => committed'[p] <= last[p] + 1
                      /\ pos[p] <= high[p] /\ low[p] <= high[p] /\ last[p] < pos[p]
    OBVIOUS
  <2>1. /\ pos[p] \in Nat /\ high[p] \in Nat /\ committed[p] \in Int /\ last[p] \in Int
        /\ committed[p] <= pos[p] /\ (last[p] # Unset => committed[p] <= last[p] + 1)
        /\ pos[p] <= high[p] /\ low[p] <= high[p] /\ last[p] < pos[p]
    BY <1>1, Numbers, RangeOf DEF RangeInv
  <2>2. CASE committed' = committed
    BY <2>1, <2>2
  <2>3. CASE committed' = CommittedThrough
    BY <1>1, <2>1, <2>3, CommitsForward
  <2> QED
    BY <1>2, <2>2, <2>3
<1>5. LogBounds'
  <2>1. \A p \in Partitions : committed'[p] <= high[p]
    BY <1>4
  <2> QED
    BY <1>1, <1>4, <2>1 DEF LogBounds, broker
<1>6. RangesOK'
  <2>1. CASE UNCHANGED <<pending, first, last>>
    BY <1>1, <1>4, <2>1 DEF RangeInv, RangesOK
  <2>2. CASE pending' = {} /\ \A p \in Partitions : first'[p] = Unset /\ last'[p] = Unset
    BY <1>1, <1>4, <2>2 DEF RangesOK, Unset
  <2> QED
    BY <1>3, <2>1, <2>2
<1>7. BufferWithinOffsets' /\ BufferIsRows'
  <2>1. CASE UNCHANGED <<pending, first, last>>
    BY <1>1, <2>1 DEF RangeInv, BufferWithinOffsets, BufferIsRows, IsRow, broker
  <2>2. CASE pending' = {} /\ \A p \in Partitions : first'[p] = Unset /\ last'[p] = Unset
    BY <1>1, <1>4, <2>2 DEF BufferWithinOffsets, BufferIsRows, Unset
  <2> QED
    BY <1>3, <2>1, <2>2
<1> QED
  BY <1>1, <1>5, <1>6, <1>7 DEF Ranges, DownIsEmpty

\* Every step keeps the ranges.
LEMMA RangeInvStep == RangeInv /\ [Next]_vars => RangeInv'
<1> SUFFICES ASSUME RangeInv, [Next]_vars
             PROVE  RangeInv'
  OBVIOUS
<1>1. TypeOK'
  BY TypeStep DEF RangeInv
<1>2. CASE UNCHANGED vars
  BY <1>2, RangesStay, <1>1 DEF vars, broker, memory, history, Running, Ranges, RangeInv
<1>3. Ranges'
  <2>1. ASSUME NEW p \in Partitions, Produce(p) \/ Expire(p) \/ Rewind(p)
        PROVE  Ranges'
    BY <1>1, <2>1, RangesOutside
  <2>2. CASE Crash \/ Exit
    BY <2>2, RangesEnd DEF Crash, Exit
  <2>3. CASE Start
    BY <2>3, RangesStart
  <2>4. ASSUME NEW p \in Partitions, PositionReset(p)
        PROVE  Ranges'
    BY <2>4, RangesReset
  <2>5. CASE Poll
    BY <1>1, <2>5, RangesPoll DEF Poll
  <2>6. CASE CommitOk \/ \E applied \in BOOLEAN : CommitFails(applied)
    BY <2>6, RangesCommit
  <2>7. CASE Sigterm \/ LeaveLoop \/ FinalFlush \/ WriteFailsPermanently
    BY <2>7, RangesStay
       DEF Sigterm, LeaveLoop, FinalFlush, WriteFailsPermanently, Raise, Running, memory, history
  <2>8. CASE WriteOk \/ \E applied \in BOOLEAN : WriteFails(applied)
    BY <2>8, RangesStay DEF WriteOk, WriteFails, Raise, Running
  <2>9. CASE UNCHANGED vars
    BY <1>2, <2>9 DEF Ranges, RangeInv
  <2> QED
    BY <2>1, <2>2, <2>3, <2>4, <2>5, <2>6, <2>7, <2>8, <2>9 DEF Next, Environment, Pod
<1> QED
  BY <1>1, <1>3 DEF Ranges, RangeInv

\* There are no ranges at first.
LEMMA RangeInvInit == Init => RangeInv
<1> SUFFICES ASSUME Init PROVE RangeInv
  OBVIOUS
<1>1. TypeOK
  BY InitTypes
<1>2. /\ phase = "down" /\ pending = {}
      /\ \A p \in Partitions :
           /\ low[p] = 0 /\ high[p] = 0 /\ pos[p] = 0 /\ committed[p] = -1
           /\ first[p] = Unset /\ last[p] = Unset
  BY DEF Init, OffsetInvalid
<1> QED
  BY <1>1, <1>2 DEF RangeInv, LogBounds, DownIsEmpty, BufferWithinOffsets, BufferIsRows,
                    RangesOK, Running, Unset

\* The ranges hold in every state that is reached, whatever the consumer's
\* reset policy and whatever the producers send.
THEOREM RangeInvariant == Spec => []RangeInv
BY RangeInvInit, RangeInvStep, PTL DEF Spec

---------------------------------------------------------------------------
(* Commits never rewind, and what duplicates a row is a fault.             *)

\* consumer.py _recover_stale_committed_offsets, main.py _flush, consumer.py
\* commit_offsets: a pod only moves the group's offset forward, from the recovery
\* of a stale one at its start through failed and repeated commits and positions
\* that were reset under it.
THEOREM CommitsNeverRewind == Spec => CommitNeverRewinds
<1>1. RangeInv /\ [Next]_vars
        => [Running \/ Running' => \A p \in Partitions : committed'[p] >= committed[p]]_vars
  <2> SUFFICES ASSUME RangeInv, Next, Running \/ Running', NEW p \in Partitions
               PROVE  committed'[p] >= committed[p]
    OBVIOUS
  <2>1. committed[p] \in Int
    BY Numbers DEF RangeInv
  <2>2. CASE Start
    BY <2>1, <2>2, Resumes
  <2>3. CASE ~Start
    <3>1. committed' = committed \/ committed' = CommittedThrough
      BY <2>3 DEF Next, Environment, Pod, Poll, Produce, Expire, Rewind, Crash, Sigterm,
             PositionReset, Consume, LeaveLoop, WriteOk, WriteFails, WriteFailsPermanently,
             CommitOk, CommitFails, FinalFlush, Exit, Running
    <3>2. Running
      BY <2>3 DEF Next, Environment, Pod, Poll, Produce, Expire, Rewind, Crash, Sigterm,
             PositionReset, Consume, LeaveLoop, WriteOk, WriteFails, WriteFailsPermanently,
             CommitOk, CommitFails, FinalFlush, Exit, Running
    <3> QED
      BY <2>1, <3>1, <3>2, CommitsForward
  <2> QED
    BY <2>2, <2>3
<1> QED
  BY <1>1, RangeInvariant, PTL DEF Spec, CommitNeverRewinds

\* A step that publishes nothing, spends no fault and keeps what is settled.
LEMMA CountsStay ==
  ASSUME CountInv, UNCHANGED <<lake, faults>>,
         \A p \in Partitions, o \in Offsets : Settled(p, o) => Settled(p, o)'
  PROVE  CountInv'
BY DEF CountInv, DuplicatesNeedFaults

\* A fault pays for one more copy of every row.
LEMMA CountsFault ==
  ASSUME RangeInv, CountInv, faults' = faults + 1, phase # "commit", phase # "closing",
         UNCHANGED lake \/ Publish
  PROVE  CountInv'
<1>1. \A p \in Partitions, o \in Offsets : lake'[p][o] <= faults'
  <2> SUFFICES ASSUME NEW p \in Partitions, NEW o \in Offsets
               PROVE  lake'[p][o] <= faults'
    OBVIOUS
  <2>1. lake[p][o] \in Nat /\ faults \in Nat
    BY BudgetAssumption DEF RangeInv, TypeOK
  <2>2. lake[p][o] <= 1 + faults /\ (<<p, o>> \in pending => lake[p][o] <= faults)
    BY DEF CountInv, DuplicatesNeedFaults, Settled
  <2>3. lake'[p][o] = lake[p][o] \/ (<<p, o>> \in pending /\ lake'[p][o] = lake[p][o] + 1)
    BY DEF Publish
  <2> QED
    BY <2>1, <2>2, <2>3
<1>2. faults' \in Nat /\ \A p \in Partitions, o \in Offsets : lake'[p][o] \in Nat
  BY PublishCounts, BudgetAssumption DEF RangeInv, TypeOK
<1>3. \A p \in Partitions, o \in Offsets : lake'[p][o] <= 1 + faults'
  BY <1>1, <1>2
<1> QED
  BY <1>1, <1>3 DEF CountInv, DuplicatesNeedFaults

\* The same where nothing is published.
LEMMA CountsQuietFault ==
  ASSUME RangeInv, CountInv, faults' = faults + 1, UNCHANGED lake
  PROVE  CountInv'
<1>1. \A p \in Partitions, o \in Offsets :
        lake[p][o] \in Nat /\ faults \in Nat /\ lake[p][o] <= 1 + faults
  BY BudgetAssumption DEF RangeInv, TypeOK, CountInv, DuplicatesNeedFaults
<1>2. \A p \in Partitions, o \in Offsets : lake'[p][o] <= faults' /\ lake'[p][o] <= 1 + faults'
  BY <1>1
<1> QED
  BY <1>2 DEF CountInv, DuplicatesNeedFaults

\* A write that is answered: the rows it publishes were not settled, and now
\* wait for their commit.
LEMMA CountsWrite ==
  ASSUME RangeInv, CountInv, WriteOk
  PROVE  CountInv'
<1>1. phase = "write" /\ phase' = "commit" /\ UNCHANGED <<faults, pending, committed>> /\ Publish
  BY DEF WriteOk
<1>2. ASSUME NEW p \in Partitions, NEW o \in Offsets
      PROVE  /\ lake'[p][o] <= 1 + faults'
             /\ lake'[p][o] <= faults' \/ Settled(p, o)'
  <2>1. lake[p][o] \in Nat /\ faults \in Nat
    BY BudgetAssumption DEF RangeInv, TypeOK
  <2>2. lake[p][o] <= 1 + faults /\ (lake[p][o] <= faults \/ Settled(p, o))
    BY DEF CountInv, DuplicatesNeedFaults
  <2>3. CASE <<p, o>> \in pending
    <3>1. lake[p][o] <= faults
      BY <1>1, <2>2, <2>3 DEF Settled
    <3>2. lake'[p][o] = lake[p][o] \/ lake'[p][o] = lake[p][o] + 1
      BY <1>1 DEF Publish
    <3>3. Settled(p, o)'
      BY <1>1, <2>3 DEF Settled
    <3> QED
      BY <1>1, <2>1, <3>1, <3>2, <3>3
  <2>4. CASE <<p, o>> \notin pending
    <3>1. lake'[p][o] = lake[p][o]
      BY <1>1, <2>4 DEF Publish
    <3>2. Settled(p, o) => Settled(p, o)'
      BY <1>1, <2>4 DEF Settled
    <3> QED
      BY <1>1, <2>2, <3>1, <3>2
  <2> QED
    BY <2>3, <2>4
<1> QED
  BY <1>2 DEF CountInv, DuplicatesNeedFaults

\* A commit puts the rows of the flush below the committed offset.
LEMMA CountsCommit ==
  ASSUME RangeInv, CountInv, CommitOk
  PROVE  CountInv'
<1>1. /\ phase = "commit" /\ Running /\ committed' = CommittedThrough /\ UNCHANGED <<lake, faults>>
      /\ (phase' = "closing" /\ UNCHANGED pending) \/ pending' = {}
  BY DEF CommitOk, history, Running
<1>2. ASSUME NEW p \in Partitions, NEW o \in Offsets, Settled(p, o)
      PROVE  Settled(p, o)'
  <2>1. /\ committed[p] \in Int /\ committed'[p] \in Int /\ committed[p] <= committed'[p]
        /\ last[p] # Unset => committed'[p] = last[p] + 1
    BY <1>1, CommitsForward, Numbers DEF RangeInv
  <2>2. o \in Int /\ last[p] \in Int
    BY Numbers DEF RangeInv, Offsets
  <2>3. CASE <<p, o>> \in pending
    <3>1. o <= last[p] /\ first[p] # Unset
      BY <2>3, RowOf
    <3>2. last[p] # Unset
      BY <3>1, RangeOf
    <3>3. o < committed'[p]
      BY <2>1, <2>2, <3>1, <3>2
    <3> QED
      BY <1>1, <3>3 DEF Settled
  <2>4. CASE <<p, o>> \notin pending
    <3>1. o < committed[p]
      BY <1>2, <2>4 DEF Settled
    <3>2. o < committed'[p]
      BY <2>1, <2>2, <3>1
    <3> QED
      BY <1>1, <2>4, <3>2 DEF Settled
  <2> QED
    BY <2>3, <2>4
<1> QED
  BY <1>1, <1>2, CountsStay

\* A poll buffers only what is at or past the position, so at or past what is
\* committed.
LEMMA CountsPoll ==
  ASSUME RangeInv, CountInv, NEW n \in [Partitions -> 0 .. LogLength], NEW timeUp \in BOOLEAN,
         Consume(n, timeUp)
  PROVE  CountInv'
<1>1. phase = "poll" /\ Running /\ UNCHANGED <<committed, lake, faults>>
  BY DEF Consume, Running
<1>2. ASSUME NEW p \in Partitions, NEW o \in Offsets, Settled(p, o)
      PROVE  Settled(p, o)'
  <2>1. o < committed[p] /\ <<p, o>> \notin pending
    BY <1>1, <1>2 DEF Settled
  <2>2. committed[p] \in Int /\ pos[p] \in Int /\ committed[p] <= pos[p] /\ o \in Int
    BY <1>1, Numbers, RangeOf DEF RangeInv, Offsets
  <2>3. <<p, o>> \notin pending'
    <3>1. ASSUME <<p, o>> \in pending'
          PROVE  pos[p] <= o
      <4>1. \A r \in pending' \ pending : pos[r[1]] <= r[2]
        BY Polled
      <4> QED
        BY <2>1, <3>1, <4>1
    <3> QED
      BY <2>1, <2>2, <3>1
  <2> QED
    BY <1>1, <2>1, <2>3 DEF Settled
<1> QED
  BY <1>1, <1>2, CountsStay

\* Every step keeps the counts.
LEMMA CountInvStep == RangeInv /\ CountInv /\ [Next]_vars => CountInv'
<1> SUFFICES ASSUME RangeInv, CountInv, [Next]_vars
             PROVE  CountInv'
  OBVIOUS
<1>1. ASSUME NEW p \in Partitions, Produce(p) \/ Expire(p)
      PROVE  CountInv'
  BY <1>1, CountsStay DEF Produce, Expire, memory, history, Settled
<1>2. ASSUME NEW p \in Partitions, Rewind(p)
      PROVE  CountInv'
  BY <1>2, CountsQuietFault DEF Rewind
<1>3. CASE Crash
  BY <1>3, CountsQuietFault DEF Crash
<1>4. CASE Exit
  <2>1. \A p \in Partitions, o \in Offsets : Settled(p, o) => Settled(p, o)'
    BY <1>4 DEF Exit, Die, Settled
  <2> QED
    BY <1>4, <2>1, CountsStay DEF Exit
<1>5. CASE Sigterm \/ LeaveLoop
  BY <1>5, CountsStay DEF Sigterm, LeaveLoop, memory, history, Settled
<1>6. CASE FinalFlush
  BY <1>6, CountsStay DEF FinalFlush, history, Settled
<1>7. CASE Start
  <2>1. ASSUME NEW p \in Partitions, NEW o \in Offsets, Settled(p, o)
        PROVE  Settled(p, o)'
    <3>1. phase = "down" /\ UNCHANGED pending
      BY <1>7 DEF Start
    <3>2. o < committed[p] /\ <<p, o>> \notin pending
      BY <2>1, <3>1 DEF Settled
    <3>3. o \in Int /\ committed[p] \in Int /\ committed'[p] \in Int /\ committed[p] <= committed'[p]
      BY <1>7, Resumes, Numbers DEF RangeInv, Offsets
    <3>4. o < committed'[p]
      BY <3>2, <3>3
    <3> QED
      BY <3>1, <3>2, <3>4 DEF Settled
  <2> QED
    BY <1>7, <2>1, CountsStay DEF Start, history
<1>8. ASSUME NEW p \in Partitions, PositionReset(p)
      PROVE  CountInv'
  BY <1>8, CountsStay DEF PositionReset, history, Settled
<1>9. CASE Poll
  BY <1>9, CountsPoll DEF Poll
<1>10. CASE WriteOk
  BY <1>10, CountsWrite
<1>11. ASSUME NEW applied \in BOOLEAN, WriteFails(applied)
       PROVE  CountInv'
  BY <1>11, CountsFault DEF WriteFails
<1>12. CASE WriteFailsPermanently
  BY <1>12, CountsQuietFault DEF WriteFailsPermanently
<1>13. CASE CommitOk
  BY <1>13, CountsCommit
<1>14. ASSUME NEW applied \in BOOLEAN, CommitFails(applied)
       PROVE  CountInv'
  BY <1>14, CountsQuietFault DEF CommitFails
<1>15. CASE UNCHANGED vars
  BY <1>15, CountsStay DEF vars, memory, history, Settled
<1> QED
  BY <1>1, <1>2, <1>3, <1>4, <1>5, <1>6, <1>7, <1>8, <1>9, <1>10, <1>11, <1>12, <1>13, <1>14, <1>15
     DEF Next, Environment, Pod

\* README.md, the write/commit gap: a row is in the destination at most once
\* more than there were crashes, failed attempts and rewinds; a clean shutdown
\* and a clean start write nothing twice.
THEOREM DuplicatesAlwaysNeedFaults == Spec => []DuplicatesNeedFaults
<1>1. Init => CountInv
  BY DEF Init, CountInv, DuplicatesNeedFaults
<1>2. CountInv => DuplicatesNeedFaults
  BY DEF CountInv
<1> QED
  BY <1>1, <1>2, CountInvStep, RangeInvariant, PTL DEF Spec

---------------------------------------------------------------------------
(* A keyed destination is written once per process.                        *)

\* What a process has published stays behind its position, and under its key.
LEMMA OnceInvStep == RangeInv /\ OnceInv /\ [Next]_vars => OnceInv'
<1> SUFFICES ASSUME RangeInv, OnceInv, [Next]_vars
             PROVE  OnceInv'
  OBVIOUS
<1>1. CASE Crash \/ Exit
  BY <1>1 DEF Crash, Exit, Die, OnceInv
<1>2. CASE Start
  BY <1>2 DEF Start, history, OnceInv, Running
<1>3. CASE WriteOk \/ \E applied \in BOOLEAN : WriteFails(applied)
  <2>1. /\ UNCHANGED <<pos, first, last, pending>> /\ Running /\ Running' /\ phase' # "poll"
        /\ Publish \/ UNCHANGED <<receipts, mine>>
    BY <1>3 DEF WriteOk, WriteFails, Raise, Running
  <2>2. FlushKey' = FlushKey
    BY <2>1 DEF FlushKey
  <2>3. receipts \subseteq receipts' /\ mine' \subseteq mine \cup pending
    BY <2>1 DEF Publish
  <2>4. ASSUME Keyed, NEW r \in mine'
        PROVE  r[2] < pos[r[1]] /\ (r \in pending => FlushKey \in receipts')
    <3>1. CASE r \in pending /\ Publish
      <4>1. r[1] \in Partitions /\ r[2] \in Offsets /\ r[2] <= last[r[1]] /\ last[r[1]] < pos[r[1]]
        BY <2>1, <3>1, RowOf, RangeOf
      <4>2. r[2] \in Int /\ last[r[1]] \in Int /\ pos[r[1]] \in Int
        BY <4>1, Numbers DEF RangeInv, Offsets
      <4>3. FlushKey \in receipts'
        BY <2>4, <3>1 DEF Publish
      <4> QED
        BY <4>1, <4>2, <4>3
    <3>2. CASE r \in mine
      BY <2>3, <2>4, <3>2 DEF OnceInv
    <3> QED
      BY <2>1, <2>4, <3>1, <3>2 DEF Publish
  <2> QED
    BY <2>1, <2>2, <2>4 DEF OnceInv
<1>4. CASE Poll
  <2>1. PICK n \in [Partitions -> 0 .. LogLength], timeUp \in BOOLEAN : Consume(n, timeUp)
    BY <1>4 DEF Poll
  <2>2. UNCHANGED <<receipts, mine>> /\ phase = "poll" /\ Running /\ Running'
    BY <2>1 DEF Consume, Running
  <2>3. /\ \A p \in Partitions : pos'[p] \in Nat /\ pos[p] <= pos'[p]
        /\ \A r \in pending' \ pending : pos[r[1]] <= r[2]
    BY <2>1, Polled
  <2>4. ASSUME Keyed, NEW r \in mine
        PROVE  r[2] < pos'[r[1]] /\ r \notin pending'
    <3>1. r[1] \in Partitions /\ r[2] \in Offsets /\ r[2] < pos[r[1]] /\ r \notin pending
      BY <2>2, <2>4 DEF OnceInv, RangeInv, TypeOK
    <3>2. r[2] \in Int /\ pos[r[1]] \in Int /\ pos'[r[1]] \in Int /\ pos[r[1]] <= pos'[r[1]]
      BY <2>3, <3>1, Numbers DEF RangeInv, Offsets
    <3>3. r[2] < pos'[r[1]] /\ ~ (pos[r[1]] <= r[2])
      BY <3>1, <3>2
    <3> QED
      BY <2>3, <3>1, <3>3
  <2> QED
    BY <2>2, <2>4 DEF OnceInv
<1>5. ASSUME NEW q \in Partitions, PositionReset(q)
      PROVE  OnceInv'
  <2>1. UNCHANGED <<receipts, mine, phase, first, last, pending>>
    BY <1>5 DEF PositionReset, history
  <2>2. FlushKey' = FlushKey
    BY <2>1 DEF FlushKey
  <2>3. \A p \in Partitions : pos[p] \in Nat /\ pos'[p] \in Nat /\ pos[p] <= pos'[p]
    <3> SUFFICES ASSUME NEW p \in Partitions
                 PROVE  pos[p] \in Nat /\ pos'[p] \in Nat /\ pos[p] <= pos'[p]
      OBVIOUS
    <3>1. pos[p] \in Nat /\ low[p] \in Nat /\ high[p] \in Nat /\ low[p] <= high[p]
      BY Numbers, RangeOf DEF RangeInv
    <3>2. pos'[p] = pos[p] \/ (pos[p] < low[p] /\ (pos'[p] = low[p] \/ pos'[p] = high[p]))
      BY <1>5 DEF PositionReset, ResetTarget, RangeInv, TypeOK
    <3> QED
      BY <3>1, <3>2
  <2>4. \A r \in mine : r[1] \in Partitions /\ r[2] \in Int
    <3>1. \A o \in Offsets : o \in Int
      BY DEF Offsets
    <3>2. mine \subseteq Partitions \X Offsets
      BY DEF RangeInv, TypeOK
    <3> QED
      BY <3>1, <3>2
  <2>5. Keyed => \A r \in mine : r[2] < pos'[r[1]]
    <3> SUFFICES ASSUME Keyed, NEW r \in mine
                 PROVE  r[2] < pos'[r[1]]
      OBVIOUS
    <3>1. r[2] < pos[r[1]]
      BY DEF OnceInv
    <3> QED
      BY <2>3, <2>4, <3>1
  <2> QED
    BY <2>1, <2>2, <2>5 DEF OnceInv, Running
<1>6. CASE CommitOk
  <2>1. /\ UNCHANGED <<receipts, mine, pos>> /\ Running /\ Running'
        /\ pending' = {} \/ (UNCHANGED <<pending, first, last>> /\ phase' # "poll")
    BY <1>6 DEF CommitOk, history, Running
  <2>2. CASE pending' = {}
    BY <2>1, <2>2 DEF OnceInv
  <2>3. CASE UNCHANGED <<pending, first, last>> /\ phase' # "poll"
    <3>1. FlushKey' = FlushKey
      BY <2>3 DEF FlushKey
    <3> QED
      BY <2>1, <2>3, <3>1 DEF OnceInv
  <2> QED
    BY <2>1, <2>2, <2>3
<1>7. CASE \/ \E p \in Partitions : Produce(p) \/ Expire(p) \/ Rewind(p)
           \/ Sigterm \/ LeaveLoop \/ FinalFlush \/ WriteFailsPermanently
           \/ \E applied \in BOOLEAN : CommitFails(applied)
           \/ UNCHANGED vars
  <2>1. /\ UNCHANGED <<receipts, mine, pos, first, last, pending>> /\ Running' = Running
        /\ phase' = "poll" => phase = "poll"
    BY <1>7 DEF Produce, Expire, Rewind, Sigterm, LeaveLoop, FinalFlush, WriteFailsPermanently,
                CommitFails, Raise, vars, memory, history, Running
  <2>2. FlushKey' = FlushKey
    BY <2>1 DEF FlushKey
  <2> QED
    BY <2>1, <2>2 DEF OnceInv
<1> QED
  BY <1>1, <1>2, <1>3, <1>4, <1>5, <1>6, <1>7 DEF Next, Environment, Pod

\* main.py _sink_write_kwargs: with a keyed destination one process publishes a
\* row at most once, through lost answers, retries and the final flush that
\* repeats the failed one.
THEOREM OncePublishedStays == Spec => PublishedOncePerProcess
<1>1. Init => OnceInv
  BY DEF Init, OnceInv
<1>2. RangeInv /\ OnceInv /\ [Next]_vars
        => [Keyed => \A r \in mine : lake'[r[1]][r[2]] = lake[r[1]][r[2]]]_vars
  <2> SUFFICES ASSUME RangeInv, OnceInv, Next, Keyed, NEW r \in mine
               PROVE  lake'[r[1]][r[2]] = lake[r[1]][r[2]]
    OBVIOUS
  <2>1. UNCHANGED lake \/ Publish
    BY DEF Next, Environment, Pod, Poll, Produce, Expire, Rewind, Crash, Sigterm, Start,
           PositionReset, Consume, LeaveLoop, WriteOk, WriteFails, WriteFailsPermanently, CommitOk,
           CommitFails, FinalFlush, Exit
  <2>2. r[1] \in Partitions /\ r[2] \in Offsets /\ r = <<r[1], r[2]>>
    BY DEF RangeInv, TypeOK
  <2>3. r \in pending => FlushKey \in receipts
    BY DEF OnceInv
  <2> QED
    BY <2>1, <2>2, <2>3 DEF Publish
<1> QED
  BY <1>1, <1>2, OnceInvStep, RangeInvariant, PTL DEF Spec, PublishedOncePerProcess

---------------------------------------------------------------------------
(* Offsets are committed only for rows that are in the destination.        *)

\* When the destination answers, it has every row of the buffer: no receipt
\* answers for a row that the key's first flush did not publish.
LEMMA AnsweredAll ==
  ASSUME RangeInv, CoverInv, Publish
  PROVE  \A r \in pending : Published(r[1], r[2])'
<1> SUFFICES ASSUME NEW r \in pending
             PROVE  lake'[r[1]][r[2]] > 0
  BY DEF Published
<1> DEFINE p == r[1]  o == r[2]
<1>1. /\ p \in Partitions /\ o \in Offsets /\ r = <<p, o>> /\ IsRow(p, o)
      /\ first[p] # Unset /\ first[p] <= o /\ o <= last[p]
  BY RowOf
<1>2. lake[p][o] \in Nat
  BY <1>1 DEF RangeInv, TypeOK
<1>3. CASE Keyed /\ FlushKey \in receipts
  <2>1. p \in DOMAIN FlushKey /\ FlushKey[p].first = first[p] /\ FlushKey[p].last = last[p]
    BY <1>1, KeyRanges, RangeOf
  <2>2. Published(p, o)
    BY <1>1, <1>3, <2>1 DEF CoverInv, KeysCover
  <2>3. lake' = lake
    BY <1>3 DEF Publish
  <2> QED
    BY <2>2, <2>3 DEF Published
<1>4. CASE ~ (Keyed /\ FlushKey \in receipts)
  BY <1>1, <1>2, <1>4 DEF Publish
<1> QED
  BY <1>3, <1>4

\* What is in the destination stays.
LEMMA StaysPublished ==
  ASSUME TypeOK, Publish \/ UNCHANGED lake, NEW p \in Partitions, NEW o \in Offsets,
         Published(p, o)
  PROVE  Published(p, o)'
<1>1. CASE UNCHANGED lake
  BY <1>1 DEF Published
<1>2. CASE Publish
  <2>1. lake[p][o] \in Nat /\ lake'[p][o] \in Nat /\ lake'[p][o] >= lake[p][o]
    BY <1>2, PublishCounts DEF TypeOK
  <2> QED
    BY <2>1 DEF Published
<1> QED
  BY <1>1, <1>2

\* A receipt keeps what it says as long as no buffer grows under a range that
\* begins where the receipt's does.
LEMMA KeysStay ==
  ASSUME RangeInv, KeysCover, UNCHANGED <<receipts, lake>>,
         \A p \in Partitions :
           /\ low'[p] \in Nat /\ low[p] <= low'[p] /\ high'[p] \in Nat /\ high[p] <= high'[p]
           /\ \A o \in Offsets : o < high[p] /\ IsRow(p, o)' => IsRow(p, o)
           /\ \/ first'[p] = Unset \/ low[p] <= first'[p]
              \/ first'[p] = first[p] /\ phase = "poll"
              \/ first'[p] = first[p] /\ phase' # "poll" /\ pending' \subseteq pending
  PROVE  KeysCover'
<1> SUFFICES ASSUME NEW k \in receipts, NEW p \in DOMAIN k
             PROVE  /\ p \in Partitions
                    /\ k[p].first \in Nat /\ k[p].last \in Nat /\ k[p].last < high'[p]
                    /\ \A o \in Offsets :
                         k[p].first <= o /\ o <= k[p].last /\ IsRow(p, o)' =>
                           \/ Published(p, o)'
                           \/ /\ k[p].first < low'[p]
                              /\ k[p].first = first'[p] => phase' # "poll" /\ <<p, o>> \notin pending'
  BY DEF KeysCover
<1>1. /\ p \in Partitions
      /\ k[p].first \in Nat /\ k[p].last \in Nat /\ k[p].last < high[p]
      /\ \A o \in Offsets :
           k[p].first <= o /\ o <= k[p].last /\ IsRow(p, o) =>
             \/ Published(p, o)
             \/ /\ k[p].first < low[p]
                /\ k[p].first = first[p] => phase # "poll" /\ <<p, o>> \notin pending
  BY DEF KeysCover
<1>2. /\ low[p] \in Nat /\ high[p] \in Nat /\ low'[p] \in Nat /\ high'[p] \in Nat
      /\ low[p] <= low'[p] /\ high[p] <= high'[p]
  BY <1>1, Numbers DEF RangeInv
<1>3. k[p].last < high'[p]
  BY <1>1, <1>2
<1>4. ASSUME NEW o \in Offsets, k[p].first <= o, o <= k[p].last, IsRow(p, o)', ~ Published(p, o)'
      PROVE  /\ k[p].first < low'[p]
             /\ k[p].first = first'[p] => phase' # "poll" /\ <<p, o>> \notin pending'
  <2>1. o \in Int
    BY DEF Offsets
  <2>2. o < high[p]
    BY <1>1, <1>2, <1>4, <2>1
  <2>3. IsRow(p, o) /\ ~ Published(p, o)
    BY <1>1, <1>4, <2>2 DEF Published
  <2>4. /\ k[p].first < low[p]
        /\ k[p].first = first[p] => phase # "poll" /\ <<p, o>> \notin pending
    BY <1>1, <1>4, <2>3
  <2>5. k[p].first < low'[p]
    BY <1>1, <1>2, <2>4
  <2>6. ASSUME k[p].first = first'[p]
        PROVE  phase' # "poll" /\ <<p, o>> \notin pending'
    <3>1. first'[p] # Unset
      BY <1>1, <2>6 DEF Unset
    <3>2. ~ (low[p] <= first'[p])
      BY <1>1, <1>2, <2>4, <2>6
    <3> QED
      BY <1>1, <2>4, <2>6, <3>1, <3>2
  <2> QED
    BY <2>5, <2>6
<1> QED
  BY <1>1, <1>3, <1>4

\* A step that changes neither the log nor the destination, the position, the
\* ranges and the buffer.
LEMMA CoverStays ==
  ASSUME RangeInv, CoverInv,
         UNCHANGED <<broker, lake, receipts, pos, first, last, pending>>, Running' = Running,
         phase' = "poll" => phase = "poll", phase' = "commit" => phase = "commit"
  PROVE  CoverInv'
<1>1. RangeBuffered'
  BY DEF CoverInv, RangeBuffered, IsRow, broker
<1>2. CommitOnlyWritten'
  BY DEF CoverInv, CommitOnlyWritten, Published
<1>3. \A p \in Partitions : low[p] \in Nat /\ high[p] \in Nat
  BY Numbers DEF RangeInv
<1>4. KeysCover'
  BY <1>3, KeysStay DEF CoverInv, IsRow, broker
<1> QED
  BY <1>1, <1>2, <1>4 DEF CoverInv

\* Producers and retention.
LEMMA CoverOutside ==
  ASSUME RangeInv, CoverInv, NEW q \in Partitions, Produce(q) \/ Expire(q)
  PROVE  CoverInv'
<1>1. UNCHANGED <<lake, receipts, phase, pos, first, last, pending>> /\ TypeOK
  BY DEF Produce, Expire, memory, RangeInv
<1>2. ASSUME NEW p \in Partitions
      PROVE  /\ low[p] \in Nat /\ high[p] \in Nat /\ pos[p] <= high[p] /\ pos[p] \in Nat
             /\ first[p] \in Int
             /\ low'[p] \in Nat /\ low[p] <= low'[p] /\ high'[p] \in Nat /\ high[p] <= high'[p]
             /\ \A o \in Offsets : o < high[p] /\ IsRow(p, o)' => IsRow(p, o)
  <2>1. /\ low[p] \in Nat /\ high[p] \in Nat /\ pos[p] \in Nat /\ pos[p] <= high[p]
        /\ first[p] \in Int
    BY <1>1, Numbers, RangeOf
  <2>2. CASE Produce(q)
    <3>1. low' = low /\ high' = [high EXCEPT ![q] = @ + 1]
          /\ \E k \in Kinds : kind' = [kind EXCEPT ![q][high[q]] = k]
      BY <2>2 DEF Produce
    <3>2. high'[p] = high[p] \/ high'[p] = high[p] + 1
      BY <1>1, <3>1 DEF TypeOK
    <3>3. \A o \in Offsets : o < high[p] => kind'[p][o] = kind[p][o]
      BY <1>1, <2>1, <3>1 DEF TypeOK, Offsets
    <3> QED
      BY <2>1, <3>1, <3>2, <3>3 DEF IsRow
  <2>3. CASE Expire(q)
    <3>1. kind' = kind /\ high' = high /\ low' = [low EXCEPT ![q] = @ + 1]
      BY <2>3 DEF Expire
    <3>2. low'[p] = low[p] \/ low'[p] = low[p] + 1
      BY <1>1, <3>1 DEF TypeOK
    <3> QED
      BY <2>1, <3>1, <3>2 DEF IsRow
  <2> QED
    BY <2>2, <2>3
<1>3. RangeBuffered'
  <2> SUFFICES ASSUME Running, NEW p \in Partitions, NEW o \in Offsets,
                      first[p] # Unset, first[p] <= o, o < pos[p], IsRow(p, o)'
               PROVE  <<p, o>> \in pending \/ first[p] < low'[p]
    BY <1>1 DEF RangeBuffered, Running
  <2>1. o \in Int
    BY DEF Offsets
  <2>2. o < high[p]
    BY <1>2, <2>1
  <2>3. <<p, o>> \in pending \/ first[p] < low[p]
    BY <1>2, <2>2 DEF CoverInv, RangeBuffered
  <2> QED
    BY <1>2, <2>3
<1>4. CommitOnlyWritten'
  BY <1>1 DEF CoverInv, CommitOnlyWritten, Published
<1>5. KeysCover'
  <2>1. \A p \in Partitions :
          \/ first'[p] = first[p] /\ phase = "poll"
          \/ first'[p] = first[p] /\ phase' # "poll" /\ pending' \subseteq pending
    BY <1>1
  <2> QED
    BY <1>1, <1>2, <2>1, KeysStay DEF CoverInv
<1> QED
  BY <1>3, <1>4, <1>5 DEF CoverInv

\* The write of a flush, answered or not.
LEMMA CoverWrite ==
  ASSUME RangeInv, CoverInv, Publish, Running,
         UNCHANGED <<broker, pos, first, last, pending>>, phase' # "poll"
  PROVE  CoverInv'
<1>1. \A r \in pending : Published(r[1], r[2])'
  BY AnsweredAll
<1>2. \A p \in Partitions, o \in Offsets : Published(p, o) => Published(p, o)'
  BY StaysPublished DEF RangeInv
<1>3. ASSUME NEW k \in receipts', NEW p \in DOMAIN k
      PROVE  /\ p \in Partitions
             /\ k[p].first \in Nat /\ k[p].last \in Nat /\ k[p].last < high[p]
             /\ \A o \in Offsets :
                  k[p].first <= o /\ o <= k[p].last /\ IsRow(p, o) =>
                    \/ Published(p, o)'
                    \/ /\ k[p].first < low[p]
                       /\ k[p].first = first[p] => <<p, o>> \notin pending
  <2>1. CASE k \in receipts
    BY <1>2, <1>3, <2>1 DEF CoverInv, KeysCover
  <2>2. CASE k = FlushKey
    <3>1. p \in Partitions /\ last[p] # Unset /\ k[p].first = first[p] /\ k[p].last = last[p]
      BY <1>3, <2>2, KeyRanges
    <3>2. /\ first[p] \in Nat /\ last[p] \in Nat /\ pos[p] \in Nat /\ high[p] \in Nat
          /\ last[p] < pos[p] /\ pos[p] <= high[p] /\ first[p] # Unset
      <4>1. /\ first[p] \in Int /\ first[p] >= -1 /\ last[p] \in Int /\ last[p] >= -1
            /\ pos[p] \in Nat /\ high[p] \in Nat
        BY <3>1, Numbers DEF RangeInv
      <4>2. /\ last[p] < pos[p] /\ pos[p] <= high[p] /\ first[p] # Unset /\ last[p] # Unset
        BY <3>1, RangeOf
      <4> QED
        BY <4>1, <4>2 DEF Unset
    <3>3. ASSUME NEW o \in Offsets, first[p] <= o, o <= last[p], IsRow(p, o)
          PROVE  Published(p, o)' \/ (first[p] < low[p] /\ <<p, o>> \notin pending)
      <4>1. o < pos[p]
        BY <3>2, <3>3 DEF Offsets
      <4>2. <<p, o>> \in pending \/ first[p] < low[p]
        BY <3>1, <3>2, <3>3, <4>1 DEF CoverInv, RangeBuffered
      <4> QED
        BY <1>1, <4>2
    <3> QED
      BY <3>1, <3>2, <3>3
  <2> QED
    BY <2>1, <2>2 DEF Publish
<1>4. KeysCover'
  BY <1>3 DEF KeysCover, IsRow, broker
<1>5. RangeBuffered'
  BY DEF CoverInv, RangeBuffered, IsRow, broker
<1>6. CommitOnlyWritten'
  BY <1>1 DEF CommitOnlyWritten
<1> QED
  BY <1>4, <1>5, <1>6 DEF CoverInv

\* A poll without a poison record leaves no gap in a range.
LEMMA CoverPoll ==
  ASSUME RangeInv, CoverInv, "poison" \notin Kinds,
         NEW n \in [Partitions -> 0 .. LogLength], NEW timeUp \in BOOLEAN, Consume(n, timeUp),
         TypeOK'
  PROVE  CoverInv'
<1>1. /\ UNCHANGED <<broker, lake, receipts>> /\ phase = "poll" /\ phase' # "commit"
      /\ Running
  BY DEF Consume, Running
<1>2. /\ \A p \in Partitions :
           /\ pos'[p] \in Nat /\ pos[p] <= pos'[p] /\ (pos'[p] # pos[p] => low[p] <= pos[p])
           /\ \/ first'[p] = first[p]
              \/ /\ pos[p] < pos'[p] /\ first'[p] \in Nat
                 /\ first[p] = Unset /\ pos[p] <= first'[p]
      /\ pending \subseteq pending'
      /\ \A p \in Partitions, o \in Offsets :
           pos[p] <= o /\ o < pos'[p] /\ IsRow(p, o) => <<p, o>> \in pending'
  <2>1. ASSUME NEW p \in Partitions
        PROVE  /\ pos'[p] \in Nat /\ pos[p] <= pos'[p] /\ (pos'[p] # pos[p] => low[p] <= pos[p])
               /\ \/ first'[p] = first[p]
                  \/ /\ pos[p] < pos'[p] /\ first'[p] \in Nat
                     /\ first[p] = Unset /\ pos[p] <= first'[p]
    <3>1. pos'[p] \in Nat /\ pos[p] <= pos'[p] /\ (pos'[p] # pos[p] => low[p] <= pos[p])
      BY Polled
    <3>2. \/ first'[p] = first[p]
          \/ /\ pos[p] <= last'[p] /\ last'[p] < pos'[p] /\ first'[p] \in Nat
             /\ first[p] = Unset /\ pos[p] <= first'[p] /\ first'[p] <= last'[p]
      BY Polled
    <3>3. pos[p] \in Nat /\ last'[p] \in Int
      BY Numbers, LogAssumption DEF RangeInv, TypeOK
    <3> QED
      BY <3>1, <3>2, <3>3
  <2> QED
    BY <2>1, Polled
<1>3. RangeBuffered'
  <2> SUFFICES ASSUME NEW p \in Partitions, NEW o \in Offsets,
                      first'[p] # Unset, first'[p] <= o, o < pos'[p], IsRow(p, o)
               PROVE  <<p, o>> \in pending' \/ first'[p] < low[p]
    BY <1>1 DEF RangeBuffered, IsRow, broker
  <2>1. o \in Int /\ pos[p] \in Nat /\ first[p] \in Int
    BY Numbers DEF RangeInv, Offsets
  <2>2. CASE pos[p] <= o
    BY <1>2, <2>2
  <2>3. CASE o < pos[p]
    <3>1. first'[p] = first[p]
      BY <1>2, <2>1, <2>3
    <3>2. <<p, o>> \in pending \/ first[p] < low[p]
      BY <1>1, <2>3, <3>1 DEF CoverInv, RangeBuffered
    <3> QED
      BY <1>2, <3>1, <3>2
  <2> QED
    BY <2>1, <2>2, <2>3
<1>4. CommitOnlyWritten'
  BY <1>1 DEF CommitOnlyWritten
<1>5. KeysCover'
  <2>1. ASSUME NEW p \in Partitions
        PROVE  /\ low'[p] \in Nat /\ low[p] <= low'[p] /\ high'[p] \in Nat /\ high[p] <= high'[p]
               /\ \A o \in Offsets : IsRow(p, o)' => IsRow(p, o)
               /\ low[p] <= first'[p] \/ (first'[p] = first[p] /\ phase = "poll")
    <3>1. low[p] \in Nat /\ high[p] \in Nat /\ pos[p] \in Nat
      BY Numbers DEF RangeInv
    <3>2. low[p] <= first'[p] \/ first'[p] = first[p]
      BY <1>2, <3>1
    <3> QED
      BY <1>1, <3>1, <3>2 DEF IsRow, broker
  <2> QED
    BY <1>1, <2>1, KeysStay DEF CoverInv
<1> QED
  BY <1>3, <1>4, <1>5 DEF CoverInv

\* A step after which no partition has a range.
LEMMA CoverEmpty ==
  ASSUME RangeInv, CoverInv, UNCHANGED <<broker, lake, receipts>>, phase' # "commit",
         \A p \in Partitions : first'[p] = Unset
  PROVE  CoverInv'
<1>1. RangeBuffered' /\ CommitOnlyWritten'
  BY DEF RangeBuffered, CommitOnlyWritten
<1>2. \A p \in Partitions : low[p] \in Nat /\ high[p] \in Nat
  BY Numbers DEF RangeInv
<1>3. KeysCover'
  BY <1>2, KeysStay DEF CoverInv, IsRow, broker
<1> QED
  BY <1>1, <1>3 DEF CoverInv

\* A position that retention overtook: what it skips is no longer retained, and
\* neither is where its range begins.
LEMMA CoverReset ==
  ASSUME RangeInv, CoverInv, NEW q \in Partitions, PositionReset(q)
  PROVE  CoverInv'
<1>1. /\ UNCHANGED <<broker, lake, receipts, first, last, pending>> /\ phase = "poll" /\ phase' = "poll"
      /\ pos[q] < low[q] /\ Running
  BY DEF PositionReset, Running
<1>2. \A p \in Partitions : low[p] \in Nat /\ high[p] \in Nat
  BY Numbers DEF RangeInv
<1>3. first[q] < low[q]
  <2>1. /\ first[q] \in Int /\ last[q] \in Int /\ pos[q] \in Nat /\ low[q] \in Nat
        /\ first[q] <= last[q] /\ last[q] < pos[q]
    BY <1>1, Numbers, RangeOf DEF RangeInv
  <2> QED
    BY <1>1, <2>1
<1>4. \A p \in Partitions : p # q => pos'[p] = pos[p]
  BY DEF PositionReset, RangeInv, TypeOK
<1>5. RangeBuffered'
  <2> SUFFICES ASSUME NEW p \in Partitions, NEW o \in Offsets,
                      first[p] # Unset, first[p] <= o, o < pos'[p], IsRow(p, o)
               PROVE  <<p, o>> \in pending \/ first[p] < low[p]
    BY <1>1 DEF RangeBuffered, IsRow, broker
  <2>1. CASE p = q
    BY <1>3, <2>1
  <2>2. CASE p # q
    BY <1>1, <1>4, <2>2 DEF CoverInv, RangeBuffered
  <2> QED
    BY <2>1, <2>2
<1>6. CommitOnlyWritten'
  BY <1>1 DEF CommitOnlyWritten
<1>7. KeysCover'
  BY <1>1, <1>2, KeysStay DEF CoverInv, IsRow, broker
<1> QED
  BY <1>5, <1>6, <1>7 DEF CoverInv

\* Every step keeps what ranges and receipts cover.
LEMMA CoverInvStep ==
  ASSUME "poison" \notin Kinds
  PROVE  RangeInv /\ CoverInv /\ [Next]_vars => CoverInv'
<1> SUFFICES ASSUME RangeInv, CoverInv, [Next]_vars
             PROVE  CoverInv'
  OBVIOUS
<1>1. ASSUME NEW q \in Partitions, Produce(q) \/ Expire(q)
      PROVE  CoverInv'
  BY <1>1, CoverOutside
<1>2. CASE Crash \/ Exit
  <2>1. /\ UNCHANGED <<broker, lake, receipts>> /\ phase' # "commit"
        /\ \A p \in Partitions : first'[p] = Unset
    BY <1>2 DEF Crash, Exit, Die
  <2> QED
    BY <2>1, CoverEmpty
<1>3. CASE Start
  <2>1. UNCHANGED <<broker, lake, receipts, first>> /\ phase' # "commit" /\ ~Running
    BY <1>3 DEF Start, Running
  <2>2. \A p \in Partitions : first'[p] = Unset
    BY <2>1, RangeOf
  <2> QED
    BY <2>1, <2>2, CoverEmpty
<1>4. ASSUME NEW q \in Partitions, PositionReset(q)
      PROVE  CoverInv'
  BY <1>4, CoverReset
<1>5. CASE Poll
  BY <1>5, CoverPoll, TypeStep DEF Poll, RangeInv
<1>6. CASE CommitOk
  <2>1. CASE final
    <3>1. /\ UNCHANGED <<broker, lake, receipts, pos, first, last, pending>>
          /\ phase' = "closing" /\ phase = "commit"
      BY <1>6, <2>1 DEF CommitOk
    <3> QED
      BY <3>1, CoverStays DEF Running
  <2>2. CASE ~final
    <3>1. /\ UNCHANGED <<broker, lake, receipts>> /\ phase' = "poll"
          /\ \A p \in Partitions : first'[p] = Unset
      BY <1>6, <2>2 DEF CommitOk
    <3> QED
      BY <3>1, CoverEmpty
  <2> QED
    BY <2>1, <2>2
<1>7. CASE WriteOk
  <2>1. Publish /\ Running /\ UNCHANGED <<broker, pos, first, last, pending>> /\ phase' # "poll"
    BY <1>7 DEF WriteOk, Running
  <2> QED
    BY <2>1, CoverWrite
<1>8. ASSUME NEW applied \in BOOLEAN, WriteFails(applied)
      PROVE  CoverInv'
  <2>1. /\ UNCHANGED <<broker, pos, first, last, pending>> /\ Running /\ Running'
        /\ phase' # "poll" /\ phase' # "commit"
        /\ Publish \/ UNCHANGED <<lake, receipts>>
    BY <1>8 DEF WriteFails, Raise, Running
  <2>2. CASE Publish
    BY <2>1, <2>2, CoverWrite
  <2>3. CASE UNCHANGED <<lake, receipts>>
    BY <2>1, <2>3, CoverStays
  <2> QED
    BY <2>1, <2>2, <2>3
<1>9. CASE \/ \E p \in Partitions : Rewind(p)
           \/ Sigterm \/ LeaveLoop \/ FinalFlush \/ WriteFailsPermanently
           \/ \E applied \in BOOLEAN : CommitFails(applied)
           \/ UNCHANGED vars
  <2>1. /\ UNCHANGED <<broker, lake, receipts, pos, first, last, pending>> /\ Running' = Running
        /\ (phase' = "poll" => phase = "poll") /\ (phase' = "commit" => phase = "commit")
    BY <1>9 DEF Rewind, Sigterm, LeaveLoop, FinalFlush, WriteFailsPermanently,
                CommitFails, Raise, vars, memory, history, Running
  <2> QED
    BY <2>1, CoverStays
<1> QED
  BY <1>1, <1>2, <1>3, <1>4, <1>5, <1>6, <1>7, <1>8, <1>9 DEF Next, Environment, Pod

\* main.py _flush, _sink_write_kwargs: offsets are committed only when every row
\* of the buffer is in the destination, also when the destination answered from
\* a receipt, for "earliest" and "latest".  A poll batch that raises leaves its
\* offsets noted and its rows unbuffered, so that the final flush's receipt
\* covers rows that nobody published: hence no poison.
THEOREM CommitsOnlyWhatIsWritten ==
  ASSUME "poison" \notin Kinds
  PROVE  Spec => []CommitOnlyWritten
<1>1. Init => CoverInv
  BY DEF Init, CoverInv, RangeBuffered, KeysCover, CommitOnlyWritten, Running
<1>2. CoverInv => CommitOnlyWritten
  BY DEF CoverInv
<1> QED
  BY <1>1, <1>2, CoverInvStep, RangeInvariant, PTL DEF Spec

---------------------------------------------------------------------------
(* The buffer stays bounded.                                               *)

\* A product grows with its factor.
LEMMA ProductsGrow ==
  ASSUME NEW a \in Nat, NEW b \in Nat, NEW f \in Nat, a <= b
  PROVE  a * f <= b * f
<1>1. PICK d \in Nat : b = a + d
  <2> WITNESS b - a \in Nat
  <2> QED
    OBVIOUS
<1>2. (a + d) * f = a * f + d * f /\ d * f \in Nat /\ a * f \in Nat
  OBVIOUS
<1> QED
  BY <1>1, <1>2

\* Products by the same positive factor compare as the other factors do.
LEMMA ProductsCompare ==
  ASSUME NEW a \in Nat, NEW b \in Nat, NEW f \in Nat \ {0}, a * f <= b * f
  PROVE  a <= b
<1> SUFFICES ASSUME b + 1 <= a PROVE FALSE
  OBVIOUS
<1>1. (b + 1) * f <= a * f
  BY ProductsGrow
<1>2. (b + 1) * f = b * f + f /\ a * f \in Nat /\ b * f \in Nat
  OBVIOUS
<1> DEFINE u == a * f  v == b * f
<1>3. u \in Nat /\ v \in Nat /\ u <= v /\ v + f <= u
  BY <1>1, <1>2
<1> QED
  BY <1>3

\* A quotient, multiplied again, does not exceed what was divided.
LEMMA QuotientBound ==
  ASSUME NEW x \in Nat, NEW f \in Nat \ {0}
  PROVE  x \div f \in Nat /\ (x \div f) * f <= x
BY Z3

\* backpressure.compute_batch_size: the part of m that fits above c buffered
\* rows fills the buffer to m at most, or stays below the flush size f.
LEMMA FillBound ==
  ASSUME NEW m \in Nat, NEW f \in Nat \ {0}, NEW c \in Nat, c < f
  PROVE  LET q == (m * (f - c)) \div f
         IN  q \in Nat /\ (c + q <= m \/ c + q <= f - 1)
<1> DEFINE q == (m * (f - c)) \div f
<1>1. f - c \in Nat \ {0} /\ m * (f - c) \in Nat
  OBVIOUS
<1>2. q \in Nat /\ q * f <= m * (f - c)
  BY <1>1, QuotientBound
<1> HIDE DEF q
<1>3. CASE f <= m
  <2>1. c * f <= c * m
    <3>1. f * c <= m * c
      BY <1>3, ProductsGrow
    <3> QED
      BY <3>1
  <2>2. m * (f - c) = m * f - c * m
    OBVIOUS
  <2>3. (q + c) * f = q * f + c * f
    BY <1>2
  <2>4. (q + c) * f <= m * f
    BY <1>2, <2>1, <2>2, <2>3
  <2> QED
    BY <1>2, <2>4, ProductsCompare
<1>4. CASE m < f
  <2>1. m * (f - c) <= (f - 1) * (f - c)
    BY <1>1, <1>4, ProductsGrow
  <2>2. (f - 1) * (f - c) = f * (f - c) - (f - c)
    OBVIOUS
  <2>3. f * (f - c) = (f - c) * f /\ (f - c) * f \in Nat
    OBVIOUS
  <2>4. q * f < (f - c) * f
    BY <1>1, <1>2, <2>1, <2>2, <2>3
  <2>5. ASSUME f - c <= q PROVE FALSE
    <3>1. (f - c) * f <= q * f
      BY <1>1, <1>2, <2>5, ProductsGrow
    <3>2. (f - c) * f \in Nat /\ q * f \in Nat
      BY <1>1, <1>2
    <3> QED
      BY <2>4, <3>1, <3>2
  <2> QED
    BY <1>2, <2>5
<1> QED
  BY <1>2, <1>3, <1>4 DEF q

\* A poll on a buffer below the flush size.
LEMMA SizePoll ==
  ASSUME SizeInv, NEW n \in [Partitions -> 0 .. LogLength], NEW timeUp \in BOOLEAN,
         Consume(n, timeUp)
  PROVE  SizeInv'
<1> USE BatchAssumption
<1> DEFINE batch == Delivered(n)
           rows == OfKind(batch, "row")
<1>1. phase = "poll" /\ IsFiniteSet(pending) /\ Cardinality(pending) < FlushSize
  BY DEF Consume, SizeInv
<1>2. IsFiniteSet(batch)
  <2>1. IsFiniteSet(Offsets)
    BY FS_Interval, LogAssumption DEF Offsets
  <2>2. IsFiniteSet(Partitions \X Offsets)
    BY <2>1, FS_Product, PartitionAssumption
  <2>3. batch \subseteq Partitions \X Offsets
    BY DEF Delivered
  <2> QED
    BY <2>2, <2>3, FS_Subset
<1>3. Cardinality(batch) \in Nat /\ Cardinality(batch) <= BatchSize
  BY <1>2, FS_CardinalityType DEF Consume
<1>4. IsFiniteSet(rows) /\ Cardinality(rows) \in Nat /\ Cardinality(rows) <= Cardinality(batch)
  <2>1. rows \subseteq batch
    BY DEF OfKind
  <2> QED
    BY <1>2, <2>1, FS_Subset, FS_CardinalityType
<1>5. \/ pending' = pending /\ phase' = "unwind"
      \/ pending' = pending \cup rows /\ (phase' = "poll" => ~ ShouldFlush(pending', timeUp))
  BY DEF Consume
<1> DEFINE c == Cardinality(pending)
           q == (MaxBatch * (FlushSize - c)) \div FlushSize
<1>6. c \in Nat /\ c < FlushSize
  BY <1>1, FS_CardinalityType
<1>7. q \in Nat /\ (c + q <= MaxBatch \/ c + q <= FlushSize - 1)
  BY <1>6, FillBound
<1>8. BatchSize = IF q > MinBatch THEN q ELSE MinBatch
  BY DEF BatchSize
<1> HIDE DEF batch, rows
<1>9. IsFiniteSet(pending') /\ Cardinality(pending') \in Nat
      /\ Cardinality(pending') <= c + Cardinality(batch)
  <2>1. CASE pending' = pending
    BY <1>1, <1>3, <1>6, <2>1
  <2>2. CASE pending' = pending \cup rows
    <3>1. /\ IsFiniteSet(pending') /\ Cardinality(pending') \in Nat
          /\ Cardinality(pending') = c + Cardinality(rows) - Cardinality(pending \cap rows)
      BY <1>1, <1>4, <2>2, FS_Union, FS_CardinalityType
    <3>2. Cardinality(pending \cap rows) \in Nat
      BY <1>1, FS_Subset, FS_CardinalityType
    <3> HIDE DEF c
    <3> QED
      BY <1>3, <1>4, <1>6, <3>1, <3>2
  <2> QED
    BY <1>5, <2>1, <2>2
<1> HIDE DEF c, q
<1>10. Cardinality(pending') <= MaxBatch \/ Cardinality(pending') <= FlushSize - 1 + MinBatch
  <2>1. CASE q > MinBatch
    BY <1>3, <1>6, <1>7, <1>8, <1>9, <2>1
  <2>2. CASE ~ (q > MinBatch)
    BY <1>3, <1>6, <1>7, <1>8, <1>9, <2>2
  <2> QED
    BY <2>1, <2>2
<1>11. ASSUME phase' = "poll"
       PROVE  Cardinality(pending') < FlushSize
  <2>1. pending' = {} \/ ~ (Cardinality(pending') >= FlushSize)
    BY <1>5, <1>11 DEF ShouldFlush
  <2>2. CASE pending' = {}
    BY <2>2, FS_EmptySet
  <2>3. CASE ~ (Cardinality(pending') >= FlushSize)
    BY <1>9, <2>3
  <2> QED
    BY <2>1, <2>2, <2>3
<1> QED
  BY <1>9, <1>10, <1>11 DEF SizeInv, BufferBounded

\* The bound holds of an empty buffer.
LEMMA SizeEmpty ==
  ASSUME pending' = {}
  PROVE  SizeInv'
<1>1. IsFiniteSet(pending') /\ Cardinality(pending') = 0
  BY FS_EmptySet
<1> QED
  BY <1>1, BatchAssumption DEF SizeInv, BufferBounded

\* Every step keeps the bound.
LEMMA SizeInvStep == RangeInv /\ SizeInv /\ [Next]_vars => SizeInv'
<1> SUFFICES ASSUME RangeInv, SizeInv, [Next]_vars
             PROVE  SizeInv'
  OBVIOUS
<1>1. CASE Poll
  BY <1>1, SizePoll DEF Poll
<1>2. CASE Crash \/ Exit \/ Start
  BY <1>2, SizeEmpty DEF Crash, Exit, Die, Start, RangeInv, DownIsEmpty, Running
<1>3. CASE CommitOk
  <2>1. pending' = {} \/ (pending' = pending /\ phase' # "poll")
    BY <1>3 DEF CommitOk
  <2>2. CASE pending' = {}
    BY <2>2, SizeEmpty
  <2>3. CASE pending' = pending /\ phase' # "poll"
    BY <2>3 DEF SizeInv, BufferBounded
  <2> QED
    BY <2>1, <2>2, <2>3
<1>4. CASE \/ \E p \in Partitions : Produce(p) \/ Expire(p) \/ Rewind(p) \/ PositionReset(p)
           \/ Sigterm \/ LeaveLoop \/ FinalFlush \/ WriteFailsPermanently \/ WriteOk
           \/ \E applied \in BOOLEAN : WriteFails(applied) \/ CommitFails(applied)
           \/ UNCHANGED vars
  <2>1. pending' = pending /\ (phase' = "poll" => phase = "poll")
    BY <1>4 DEF Produce, Expire, Rewind, PositionReset, Sigterm, LeaveLoop, FinalFlush,
                WriteFailsPermanently, WriteOk, WriteFails, CommitFails, Raise, vars, memory, history
  <2> QED
    BY <2>1 DEF SizeInv, BufferBounded
<1> QED
  BY <1>1, <1>2, <1>3, <1>4 DEF Next, Environment, Pod

\* backpressure.compute_batch_size, main.py's flush triggers: no poll, whatever
\* the sizes are configured to, leaves more rows in the buffer than one full
\* batch, or one minimal batch on top of a buffer below the flush size.
THEOREM BufferStaysBounded == Spec => []BufferBounded
<1>1. Init => SizeInv
  <2> SUFFICES ASSUME Init PROVE SizeInv
    OBVIOUS
  <2>1. pending = {} /\ IsFiniteSet({}) /\ Cardinality({}) = 0
    BY FS_EmptySet DEF Init
  <2> QED
    BY <2>1, BatchAssumption DEF SizeInv, BufferBounded
<1>2. SizeInv => BufferBounded
  BY DEF SizeInv
<1> QED
  BY <1>1, <1>2, SizeInvStep, RangeInvariant, PTL DEF Spec
=============================================================================
