-------------------------- MODULE HoglakeSinkProofs --------------------------
(***************************************************************************)
(* Proofs about HoglakeSink for every log length, retention, set of        *)
(* layouts, retry budget and number of faults, drops and alters.           *)
(***************************************************************************)
EXTENDS HoglakeSink, TLAPS

-----------------------------------------------------------------------------
(* The shape of the state, on which every other part rests.                *)

\* From the start of a flush until its outcome is known.
InFlush == {"write", "resolve", "create", "declare_new", "declare_found", "declare_lost", "evolve",
            "shape", "declare_live", "upload", "send"}

LayoutNames == Layouts \cup {"unread"}
SinkSet ==
  [handle : BOOLEAN, uuid : Nat, shape : [spec : LayoutNames, age : Nat], verdict : LayoutNames,
   client : [incarnation : Nat, basis : Nat, age : Nat]]
PayloadSet ==
  [id : Nat \ {0}, key : [incarnation : Nat, range : Ranges], range : Ranges, valid : BOOLEAN,
   incarnation : Nat, basis : Nat, age : Nat, values : LayoutNames]

CatalogOK ==
  /\ live \in Nat /\ made \in Nat /\ live <= made /\ layout \in Layouts
  /\ altered \in Nat /\ changes \in Nat /\ altered <= changes /\ expired \in Nat

\* A request that was, or will be, sent: its key names the incarnation it was
\* prepared for and the offsets of its rows.
PayloadOK(p) ==
  /\ p \in PayloadSet /\ p.id <= uploads /\ p.incarnation <= made /\ p.basis <= changes
  /\ p.key = FlushKey(p.incarnation, p.range)

RequestsOK ==
  /\ uploads \in Nat /\ born \in Nat
  /\ \A p \in delayed : PayloadOK(p)
  /\ prepared = NoPayload \/ PayloadOK(prepared)

\* A sink whose caches stem from a catalog of m incarnations and c changes.
SinkOK(s, m, c) ==
  s \in SinkSet /\ s.uuid <= m /\ s.client.incarnation <= m /\ s.client.basis <= c

PodOK ==
  /\ phase \in Phases /\ SinkOK(sink, made, changes)
  /\ attempt \in 0 .. MaxAttempts - 1 /\ final \in BOOLEAN
  /\ spent \in [{"faults", "drops", "alters", "columns", "rewinds"} -> Nat]

OffsetsOK ==
  /\ committed \in 0 .. LogLength
  /\ flush \in [first : 0 .. LogLength, last : 0 .. LogLength]
  /\ phase \in InFlush \cup {"commit"} => flush \in Ranges /\ flush.first = committed
  /\ since \in Nat /\ since <= made + 1

\* What a phase tells of the payload and the handle: a payload is held only for
\* the offsets being flushed.
PhaseOK ==
  /\ prepared # NoPayload => phase \in {"write", "send", "closing"} /\ prepared.range = flush
  /\ phase = "send" => prepared # NoPayload
  /\ phase \in {"evolve", "shape", "declare_live", "upload"} => sink.handle
  /\ phase \in {"resolve", "create", "declare_new", "declare_found", "declare_lost"} => ~sink.handle
  /\ phase = "down" => sink = ColdSink

ShapeInv == CatalogOK /\ RequestsOK /\ PodOK /\ OffsetsOK /\ PhaseOK

-----------------------------------------------------------------------------
(* Requests, receipts and registered uploads.                              *)

\* The requests that can still reach the server.
Requests == delayed \cup ({prepared} \ {NoPayload})

SameRequest(p, q) ==
  /\ p.key = q.key /\ p.range = q.range /\ p.valid = q.valid
  /\ p.incarnation = q.incarnation /\ p.basis = q.basis /\ p.values = q.values

\* A receipt goes with a registered upload, and an id stands for one request.
LedgerInv ==
  /\ \A r \in receipts :
       /\ r.id \in 1 .. uploads
       /\ \E f \in registered : f.id = r.id /\ f.range = r.key.range /\ f.incarnation = r.key.incarnation
  /\ \A f \in registered :
       /\ f.incarnation \in 1 .. made /\ f.range \in Ranges
       /\ \E r \in receipts : r.id = f.id
  /\ \A f, g \in registered : f.id = g.id => f = g
  /\ \A p \in Requests : \A r \in receipts : r.id = p.id => r.key = p.key
  /\ \A p, q \in Requests : p.id = q.id => SameRequest(p, q)

\* What the server will never apply, whenever it arrives.
Doomed(p) ==
  \/ \E r \in receipts : r.key = p.key
  \/ ~p.valid
  \/ live = 0 \/ live # p.incarnation
  \/ p.id <= expired
  \/ altered > p.basis

\* A refused upload is in no table and none of its requests can put it there.
RefusalInv ==
  \A o \in orphaned :
    /\ o.id \in 1 .. uploads
    /\ o.reason # "shutdown" =>
         /\ \A f \in registered : f.id # o.id
         /\ \A p \in delayed : p.id = o.id => Doomed(p)
         /\ prepared.id # o.id

-----------------------------------------------------------------------------
(* One process publishes a range once.                                     *)

\* A late request for a range that is published is doomed, and of two late
\* requests for a range at most one is not.
LateIsDoomed ==
  /\ \A f \in registered, p \in delayed :
       f.id > born /\ p.id > born /\ f.range = p.range /\ f.id # p.id => Doomed(p)
  /\ \A p, q \in delayed :
       p.id > born /\ q.id > born /\ p.range = q.range /\ p.id # q.id => Doomed(p) \/ Doomed(q)

\* While a range is flushed, only the payload held for it can be its upload.
HeldIsTheOne ==
  phase \in InFlush =>
    /\ \A f \in registered : f.id > born /\ f.range = flush => f.id = prepared.id
    /\ \A p \in delayed : p.id > born /\ p.range = flush => p.id = prepared.id \/ Doomed(p)

\* The uploads of this process are for the range being flushed, or behind it.
UploadsAreBehind ==
  phase \in InFlush \cup {"commit", "idle"} =>
    \A x \in registered \cup delayed :
      x.id > born => x.range.last < committed \/ (phase # "idle" /\ x.range = flush)

OnceInv == OncePerProcess /\ LateIsDoomed /\ HeldIsTheOne /\ UploadsAreBehind

-----------------------------------------------------------------------------
(* What is acknowledged is published since the flush began.                *)

\* Nothing has been prepared beyond the committed offset.
NothingAhead ==
  /\ \A p \in Requests : p.range.first <= committed
  /\ \A r \in receipts : r.key.range.first <= committed

\* A pod that kept its handle between flushes has no request for the next one.
KeptHandleIsFresh ==
  phase = "idle" /\ sink.handle =>
    /\ \A p \in Requests : p.range.first < committed
    /\ \A r \in receipts : r.key.range.first < committed

\* During a flush, a receipt for its range in an incarnation from before the
\* flush is neither for the handle nor for the payload.
OldReceiptsMiss ==
  phase \in InFlush =>
    /\ live = 0 \/ since <= live
    /\ \A r \in receipts :
         r.key.range = flush /\ r.key.incarnation < since =>
           /\ sink.handle => sink.uuid # r.key.incarnation
           /\ prepared # NoPayload => prepared.incarnation # r.key.incarnation

AckInv == NothingAhead /\ KeptHandleIsFresh /\ OldReceiptsMiss /\ AckedIsPublished

-----------------------------------------------------------------------------
(* Files are written under the declared layout.                            *)

\* Unless it was altered since change b, incarnation i has layout l.
StillHas(i, b, l) == live # 0 /\ live = i /\ altered <= b => layout = l

\* A request was computed under the declared layout, and is applied only where
\* that is the table's.
RequestsMatch == \A p \in Requests : p.values = Want /\ StillHas(p.incarnation, p.basis, Want)

\* The shape is what the client's cache was read with, and is not younger.
ShapeMatches(s) == s.shape # NoShape => StillHas(s.client.incarnation, s.client.basis, s.shape.spec)
AgesAgree(s) ==
  s.shape # NoShape =>
    /\ s.shape.spec \in Layouts /\ s.client # NoClient
    /\ s.shape.age < LiveInfoTTL => s.client.age <= s.shape.age

CachesAgree ==
  /\ sink.verdict \in {"unread", Want}
  /\ sink.handle => ShapeMatches(sink)
  /\ AgesAgree(sink)
  /\ phase # "closing" /\ ~sink.handle /\ Want = "none" => sink.shape = NoShape

\* What is uploaded is computed under the declared layout and a usable cache.
UploadsDeclared ==
  phase = "upload" =>
    /\ sink.shape.spec = Want
    /\ sink.client.age <= sink.shape.age /\ sink.shape.age <= LiveInfoTTL

FilesDeclared == \A f \in registered : f.values = Want /\ f.stamped = Want

LayoutInv == RequestsMatch /\ CachesAgree /\ UploadsDeclared /\ FilesDeclared

-----------------------------------------------------------------------------
\* How the table may change: not at all, by an alter, a creation or a drop.
TableMove ==
  \/ UNCHANGED table
  \/ live # 0 /\ \E l \in Layouts : Altering(l)
  \/ live = 0 /\ \E l \in Layouts : Creating(l)
  \/ live' = 0 /\ layout' = "none" /\ changes' = changes + 1 /\ UNCHANGED <<altered, made>>

\* The catalog's counters only grow, and an incarnation does not come back.
LEMMA TableMoves ==
  ASSUME CatalogOK, TableMove, expired' \in Nat
  PROVE  /\ CatalogOK'
         /\ made <= made' /\ changes <= changes' /\ altered <= altered'
         /\ live' = live \/ live' = 0 \/ (live' = made + 1 /\ made' = made + 1)
BY LayoutAssumption DEF CatalogOK, TableMove, Altering, Creating, table

\* What the operators on a sink make of a well-formed one.
LEMMA SinkOps ==
  ASSUME NEW s, NEW m \in Nat, NEW c \in Nat, SinkOK(s, m, c)
  PROVE  /\ SinkOK(ColdSink, m, c)
         /\ s.shape.spec \in LayoutNames
         /\ SinkOK(Resolved(s), m, c) /\ SinkOK(Approved(s), m, c)
         /\ SinkOK(ShapeDropped(s), m, c) /\ SinkOK(ClientDropped(s), m, c)
         /\ SinkOK(ShapeDropped(ClientDropped(s)), m, c)
         /\ \A n, d \in Nat : m <= n /\ c <= d => SinkOK(s, n, d)
<1> USE DEF SinkOK, SinkSet, LayoutNames
<1>1. SinkOK(ColdSink, m, c)
  BY DEF ColdSink, NoShape, NoClient, Unreconciled
<1>2. SinkOK(Resolved(s), m, c) /\ SinkOK(Approved(s), m, c)
  BY DEF Resolved, Approved
<1>3. \A t : SinkOK(t, m, c) => SinkOK(ShapeDropped(t), m, c)
  BY DEF ShapeDropped, NoShape, Unreconciled
<1>4. SinkOK(ClientDropped(s), m, c)
  BY DEF ClientDropped, NoClient
<1>5. SinkOK(ShapeDropped(ClientDropped(s)), m, c)
  BY <1>3, <1>4
<1>6. \A n, d \in Nat : m <= n /\ c <= d => SinkOK(s, n, d)
  OBVIOUS
<1> QED  BY <1>1, <1>2, <1>3, <1>4, <1>5, <1>6

\* A read or an alter receipt leaves a well-formed sink.
LEMMA AdoptedOK ==
  ASSUME CatalogOK, NEW s, NEW m \in Nat, NEW c \in Nat, SinkOK(s, m, c),
         NEW l \in Layouts, NEW d \in Nat, d <= c, live <= m
  PROVE  SinkOK(Adopted(s, l, d), m, c)
BY DEF SinkOK, SinkSet, LayoutNames, Adopted, CatalogOK

\* Where the retry loop goes after a retryable exception.
LEMMA RetryGoes ==
  ASSUME PodOK, NEW after, NEW payload, RetryOrRaise(after, payload)
  PROVE  /\ phase' \in {"write", "closing"}
         /\ attempt' \in 0 .. MaxAttempts - 1 /\ final' \in BOOLEAN
         /\ sink' \in {ColdSink, after}
         /\ prepared' = payload
<1>1. CASE AttemptsLeft /\ attempt' = attempt + 1 /\ phase' = "write" /\ sink' = ColdSink
            /\ prepared' = payload /\ UNCHANGED final
  BY <1>1, BoundAssumption DEF PodOK, AttemptsLeft
<1>2. CASE attempt' = 0 /\ phase' = (IF final THEN "closing" ELSE "write") /\ final' = TRUE
            /\ sink' = after /\ prepared' = payload
  BY <1>2, BoundAssumption
<1> QED  BY <1>1, <1>2 DEF RetryOrRaise, HeldThroughReset

\* Every step changes the table in one of these ways, and moves the expiry floor up.
LEMMA EveryTableMove ==
  ASSUME CatalogOK, RequestsOK, PodOK, [Next]_vars
  PROVE  TableMove /\ expired' \in Nat /\ expired <= expired'
<1> USE DEF TableMove, table, catalog, CatalogOK
<1>1. CASE Tick
  BY <1>1 DEF Tick
<1>2. CASE Drop
  BY <1>2 DEF Drop, Spend
<1>3. CASE \E l \in {"none", Want} : CreateElsewhere(l)
  BY LayoutAssumption, <1>3 DEF CreateElsewhere, Spend, Creating
<1>4. CASE \E l \in Layouts : AlterElsewhere(l)
  BY <1>4 DEF AlterElsewhere, Spend, Altering
<1>5. CASE Expire
  BY <1>5 DEF Expire, RequestsOK, PayloadOK, PayloadSet, NoPayload
<1>6. CASE \E p \in delayed : LateArrival(p)
  BY <1>6 DEF LateArrival
<1>7. CASE Rewind
  BY <1>7 DEF Rewind
<1>8. CASE Crash
  BY <1>8 DEF Crash
<1>9. CASE CallFails
  BY <1>9 DEF CallFails
<1>10. CASE CallRefused
  BY <1>10 DEF CallRefused
<1>11. CASE \E valid \in BOOLEAN : Upload(valid)
  BY <1>11 DEF Upload
<1>12. CASE \E landed \in BOOLEAN : UploadFails(landed)
  BY <1>12 DEF UploadFails
<1>13. CASE SendUnavailable
  BY <1>13 DEF SendUnavailable
<1>14. CASE \E arrives \in BOOLEAN : SendTimesOut(arrives)
  BY <1>14 DEF SendTimesOut
<1>15. CASE Start
  BY <1>15 DEF Start
<1>16. CASE Begin
  BY <1>16 DEF Begin
<1>17. CASE Commit
  BY <1>17 DEF Commit
<1>18. CASE Close
  BY <1>18 DEF Close
<1>19. CASE Write
  BY <1>19 DEF Write
<1>20. CASE ResolveFound
  BY <1>20 DEF ResolveFound
<1>20a. CASE ResolveMissing
  BY <1>20a DEF ResolveMissing
<1>21. CASE ResolveCreates
  BY LayoutAssumption, <1>21 DEF ResolveCreates, Creating
<1>22. CASE Declare
  BY LayoutAssumption, <1>22 DEF Declare, Declaring, Altering
<1>23. CASE DeclareConflicts
  BY <1>23 DEF DeclareConflicts, Declaring
<1>24. CASE EvolveNothing
  BY <1>24 DEF EvolveNothing
<1>25. CASE EvolveColumn
  BY LayoutAssumption, <1>25 DEF EvolveColumn, Altering
<1>26. CASE TakeShape
  BY <1>26 DEF TakeShape
<1>27. CASE UploadPinned
  BY <1>27 DEF UploadPinned
<1>28. CASE NameIsGone
  BY <1>28 DEF NameIsGone, Declaring
<1>29. CASE SendOk
  BY <1>29 DEF SendOk
<1>30. CASE SendReused
  BY <1>30 DEF SendReused
<1>31. CASE SendRecreated
  BY <1>31 DEF SendRecreated, Moved, Discarded
<1>32. CASE SendAfterDDL
  BY <1>32 DEF SendAfterDDL, Moved, Discarded
<1>33. CASE SendExpired
  BY <1>33 DEF SendExpired, Moved, Discarded
<1>34. CASE SendRefused
  BY <1>34 DEF SendRefused, Moved, Discarded
<1>35. CASE SendInvalid
  BY <1>35 DEF SendInvalid
<1>36. CASE UNCHANGED vars
  BY <1>36 DEF vars
<1> QED
  BY <1>1, <1>2, <1>3, <1>4, <1>5, <1>6, <1>7, <1>8, <1>9, <1>10, <1>11, <1>12, <1>13, <1>14,
     <1>15, <1>16, <1>17, <1>18, <1>19, <1>20, <1>20a, <1>21, <1>22, <1>23, <1>24, <1>25, <1>26, <1>27,
     <1>28, <1>29, <1>30, <1>31, <1>32, <1>33, <1>34, <1>35, <1>36
     DEF Next, Environment, Failing, Progress

\* How a step moves the offsets being flushed: they are taken up by Begin,
\* committed by Commit, and otherwise the pod can only let go of them.
OffsetMove ==
  \/ /\ UNCHANGED <<committed, flush, since>>
     /\ phase' \in InFlush \cup {"commit"} => phase \in InFlush \cup {"commit"}
  \/ phase = "down" /\ committed' \in 0 .. committed - 1 /\ UNCHANGED <<phase, flush, since>>
  \/ /\ phase = "idle" /\ phase' = "write"
     /\ \E last \in committed .. LogLength - 1 : flush' = [first |-> committed, last |-> last]
     /\ since' = (IF live = 0 THEN made + 1 ELSE live) /\ UNCHANGED committed
  \/ /\ phase = "commit" /\ committed' = flush.last + 1 /\ phase' \in {"idle", "closing"}
     /\ UNCHANGED <<flush, since>>

\* Every step moves them in one of these ways.
LEMMA EveryOffsetMove ==
  ASSUME PodOK, [Next]_vars
  PROVE  OffsetMove
<1>1. CASE Tick
  BY <1>1 DEF Tick, OffsetMove, InFlush, pod
<1>2. CASE Drop
  BY <1>2 DEF Drop, OffsetMove, InFlush, pod
<1>3. CASE \E l \in {"none", Want} : CreateElsewhere(l)
  BY <1>3 DEF CreateElsewhere, OffsetMove, InFlush, pod
<1>4. CASE \E l \in Layouts : AlterElsewhere(l)
  BY <1>4 DEF AlterElsewhere, OffsetMove, InFlush, pod
<1>5. CASE Expire
  BY <1>5 DEF Expire, OffsetMove, InFlush, pod
<1>6. CASE \E p \in delayed : LateArrival(p)
  BY <1>6 DEF LateArrival, OffsetMove, InFlush, pod
<1>7. CASE Rewind
  BY <1>7 DEF Rewind, Running, OffsetMove, InFlush, pod
<1>8. CASE Crash
  BY <1>8 DEF Crash, Running, OffsetMove, InFlush, pod
<1>9. CASE CallFails
  BY <1>9, RetryGoes DEF CallFails, BeforeUpload, OffsetMove, InFlush, pod
<1>10. CASE CallRefused
  BY <1>10 DEF CallRefused, Permanent, OffsetMove, InFlush, pod
<1>11. CASE \E valid \in BOOLEAN : Upload(valid)
  BY <1>11 DEF Upload, OffsetMove, InFlush, pod
<1>12. CASE \E landed \in BOOLEAN : UploadFails(landed)
  BY <1>12, RetryGoes DEF UploadFails, OffsetMove, InFlush, pod
<1>13. CASE SendUnavailable
  BY <1>13, RetryGoes DEF SendUnavailable, Held, OffsetMove, InFlush, pod
<1>14. CASE \E arrives \in BOOLEAN : SendTimesOut(arrives)
  BY <1>14, RetryGoes DEF SendTimesOut, Held, OffsetMove, InFlush, pod
<1>15. CASE Start
  BY <1>15 DEF Start, OffsetMove, InFlush, pod
<1>16. CASE Begin
  BY <1>16 DEF Begin, OffsetMove, InFlush, pod
<1>17. CASE Commit
  BY <1>17 DEF Commit, OffsetMove, InFlush, pod
<1>18. CASE Close
  BY <1>18 DEF Close, OffsetMove, InFlush, pod
<1>19. CASE Write
  BY <1>19 DEF Write, OffsetMove, InFlush, pod
<1>20. CASE ResolveFound
  BY <1>20 DEF ResolveFound, Permanent, OffsetMove, InFlush, pod
<1>20a. CASE ResolveMissing
  BY <1>20a DEF ResolveMissing, OffsetMove, InFlush, pod
<1>21. CASE ResolveCreates
  BY <1>21 DEF ResolveCreates, OffsetMove, InFlush, pod
<1>22. CASE Declare
  BY <1>22 DEF Declare, Declaring, Declared, OffsetMove, InFlush, pod
<1>23. CASE DeclareConflicts
  BY <1>23 DEF DeclareConflicts, Declaring, Permanent, Declared, OffsetMove, InFlush, pod
<1>24. CASE EvolveNothing
  BY <1>24 DEF EvolveNothing, OffsetMove, InFlush, pod
<1>25. CASE EvolveColumn
  BY <1>25 DEF EvolveColumn, OffsetMove, InFlush, pod
<1>26. CASE TakeShape
  BY <1>26 DEF TakeShape, Permanent, OffsetMove, InFlush, pod
<1>27. CASE UploadPinned
  BY <1>27, RetryGoes DEF UploadPinned, OffsetMove, InFlush, pod
<1>28. CASE NameIsGone
  BY <1>28, RetryGoes DEF NameIsGone, Declaring, OffsetMove, InFlush, pod
<1>29. CASE SendOk
  BY <1>29 DEF SendOk, OffsetMove, InFlush, pod
<1>30. CASE SendReused
  BY <1>30 DEF SendReused, OffsetMove, InFlush, pod
<1>31. CASE SendRecreated
  BY <1>31, RetryGoes DEF SendRecreated, Moved, Discarded, OffsetMove, InFlush, pod
<1>32. CASE SendAfterDDL
  BY <1>32, RetryGoes DEF SendAfterDDL, Moved, Discarded, OffsetMove, InFlush, pod
<1>33. CASE SendExpired
  BY <1>33, RetryGoes DEF SendExpired, Moved, Discarded, OffsetMove, InFlush, pod
<1>34. CASE SendRefused
  BY <1>34, RetryGoes DEF SendRefused, Moved, Discarded, OffsetMove, InFlush, pod
<1>35. CASE SendInvalid
  BY <1>35 DEF SendInvalid, OffsetMove, InFlush, pod
<1>36. CASE UNCHANGED vars
  BY <1>36 DEF vars, OffsetMove, InFlush, pod
<1> QED
  BY <1>1, <1>2, <1>3, <1>4, <1>5, <1>6, <1>7, <1>8, <1>9, <1>10, <1>11, <1>12, <1>13, <1>14,
     <1>15, <1>16, <1>17, <1>18, <1>19, <1>20, <1>20a, <1>21, <1>22, <1>23, <1>24, <1>25, <1>26, <1>27,
     <1>28, <1>29, <1>30, <1>31, <1>32, <1>33, <1>34, <1>35, <1>36
     DEF Next, Environment, Failing, Progress

\* Arithmetic of a bound that grows.
LEMMA StillBelowNext == \A m, n, s \in Nat : s <= m + 1 /\ m <= n => s <= n + 1
OBVIOUS

\* The offsets in flight stay well formed.
LEMMA OffsetStep ==
  ASSUME ShapeInv, OffsetMove, TableMove, expired' \in Nat
  PROVE  OffsetsOK'
<1>1. made' \in Nat /\ made <= made' /\ made \in Nat /\ live \in Nat /\ live <= made
  BY TableMoves DEF ShapeInv, CatalogOK
<1>2. since <= made' + 1 /\ since \in Nat
  <2>1. since \in Nat /\ since <= made + 1
    BY DEF ShapeInv, OffsetsOK
  <2> QED  BY <1>1, <2>1, StillBelowNext
<1>3. since \in Nat /\ committed \in 0 .. LogLength
      /\ flush \in [first : 0 .. LogLength, last : 0 .. LogLength]
  BY DEF ShapeInv, OffsetsOK
<1>4. CASE /\ UNCHANGED <<committed, flush, since>>
           /\ phase' \in InFlush \cup {"commit"} => phase \in InFlush \cup {"commit"}
  <2>1. since' = since /\ committed' = committed /\ flush' = flush
        /\ (phase' \in InFlush \cup {"commit"} => flush \in Ranges /\ flush.first = committed)
    BY <1>4 DEF ShapeInv, OffsetsOK
  <2>2. since' <= made' + 1
    BY <1>2, <2>1
  <2> QED  BY <1>3, <2>1, <2>2 DEF OffsetsOK
<1>5. CASE phase = "down" /\ committed' \in 0 .. committed - 1 /\ UNCHANGED <<phase, flush, since>>
  <2>1. committed' \in 0 .. LogLength
    BY <1>3, <1>5, BoundAssumption
  <2>2. since' = since /\ flush' = flush /\ phase' \notin InFlush \cup {"commit"}
    BY <1>5 DEF InFlush
  <2>3. since' <= made' + 1
    BY <1>2, <2>2
  <2> QED  BY <1>3, <2>1, <2>2, <2>3 DEF OffsetsOK
<1>6. CASE /\ phase = "idle" /\ phase' = "write"
           /\ \E last \in committed .. LogLength - 1 : flush' = [first |-> committed, last |-> last]
           /\ since' = (IF live = 0 THEN made + 1 ELSE live) /\ UNCHANGED committed
  <2>1. flush' \in Ranges /\ flush'.first = committed'
        /\ flush' \in [first : 0 .. LogLength, last : 0 .. LogLength]
    BY <1>3, <1>6, BoundAssumption DEF Ranges
  <2>2. since' \in Nat /\ since' <= made' + 1
    <3>1. since' = made + 1 \/ since' = live
      BY <1>6
    <3> QED  BY <1>1, <3>1
  <2> QED  BY <1>3, <1>6, <2>1, <2>2 DEF OffsetsOK
<1>7. CASE /\ phase = "commit" /\ committed' = flush.last + 1 /\ phase' \in {"idle", "closing"}
           /\ UNCHANGED <<flush, since>>
  <2>1. flush \in Ranges
    BY <1>7 DEF ShapeInv, OffsetsOK
  <2>2. committed' \in 0 .. LogLength
    BY <1>7, <2>1, BoundAssumption DEF Ranges
  <2>3. since' = since /\ flush' = flush /\ phase' \notin InFlush \cup {"commit"}
    BY <1>7 DEF InFlush
  <2>4. since' <= made' + 1
    BY <1>2, <2>3
  <2> QED  BY <1>3, <2>2, <2>3, <2>4 DEF OffsetsOK
<1> QED  BY <1>4, <1>5, <1>6, <1>7 DEF OffsetMove

\* The caches of the sink stem from what the catalog has been.
LEMMA SinkStep ==
  ASSUME ShapeInv, [Next]_vars
  PROVE  SinkOK(sink, made, changes)'
<1> DEFINE OK(s) == SinkOK(s, made', changes')
<1>1. CatalogOK' /\ made' \in Nat /\ changes' \in Nat /\ live' \in Nat /\ live' <= made' /\ layout \in Layouts
      /\ layout' \in Layouts
  BY EveryTableMove, TableMoves DEF ShapeInv, CatalogOK
<1>2. OK(ColdSink) /\ OK(sink)
  <2>1. SinkOK(sink, made, changes) /\ made \in Nat /\ changes \in Nat
    BY DEF ShapeInv, PodOK, CatalogOK
  <2>2. made <= made' /\ changes <= changes'
    BY EveryTableMove, TableMoves DEF ShapeInv
  <2> QED  BY <1>1, <2>1, <2>2, SinkOps
<1>3. ASSUME NEW s, OK(s)
      PROVE  OK(Resolved(s)) /\ OK(Approved(s)) /\ OK(ShapeDropped(s)) /\ OK(ClientDropped(s))
             /\ OK(ShapeDropped(ClientDropped(s))) /\ OK(Resolved(Approved(s)))
  BY <1>1, <1>3, SinkOps
<1>4. ASSUME NEW s, OK(s), NEW l \in Layouts, NEW d \in Nat, d <= changes', live = live'
      PROVE  OK(Adopted(s, l, d))
  BY <1>1, <1>4 DEF SinkOK, SinkSet, LayoutNames, Adopted
<1>5. ASSUME UNCHANGED table
      PROVE  OK(Reread(sink))
  BY <1>1, <1>2, <1>4, <1>5 DEF Reread, table
<1> SUFFICES OK(sink')
  OBVIOUS
<1> HIDE DEF OK
<1>6. ASSUME NEW after, NEW payload, RetryOrRaise(after, payload), OK(after)
      PROVE  OK(sink')
  BY <1>2, <1>6 DEF RetryOrRaise
<1>7. ASSUME live' = live, changes' = changes
      PROVE  OK([sink EXCEPT !.client = Client])
  <2>1. ClientRead \in [incarnation : Nat, basis : Nat, age : Nat]
        /\ ClientRead.incarnation <= made' /\ ClientRead.basis <= changes'
    BY <1>1, <1>7 DEF ClientRead
  <2>2. Client \in [incarnation : Nat, basis : Nat, age : Nat]
        /\ Client.incarnation <= made' /\ Client.basis <= changes'
    BY <1>2, <2>1 DEF Client, OK, SinkOK, SinkSet
  <2> HIDE DEF Client
  <2> QED  BY <1>2, <2>2 DEF OK, SinkOK, SinkSet
<1>8. CASE Tick
  <2>1. ASSUME NEW a \in Nat, NEW b \in Nat
        PROVE  OK([sink EXCEPT !.shape.age = a, !.client.age = b])
    BY <1>2 DEF OK, SinkOK, SinkSet
  <2>2. sink.shape.age \in Nat /\ sink.client.age \in Nat
    BY <1>2 DEF OK, SinkOK, SinkSet
  <2>3. \A n \in Nat : Older(n, LiveInfoTTL) \in Nat /\ Older(n, ClientTTL) \in Nat
    BY DEF Older
  <2> QED  BY <1>8, <2>1, <2>2, <2>3 DEF Tick
<1>9. CASE Drop
  BY <1>9, <1>2 DEF Drop, pod
<1>10. CASE \E l \in {"none", Want} : CreateElsewhere(l)
  BY <1>10, <1>2 DEF CreateElsewhere, pod
<1>11. CASE \E l \in Layouts : AlterElsewhere(l)
  BY <1>11, <1>2 DEF AlterElsewhere, pod
<1>12. CASE Expire
  BY <1>12, <1>2 DEF Expire, pod
<1>13. CASE \E p \in delayed : LateArrival(p)
  BY <1>13, <1>2 DEF LateArrival, pod
<1>14. CASE Rewind
  BY <1>14, <1>2 DEF Rewind, Running, pod
<1>15. CASE Crash
  BY <1>15, <1>2 DEF Crash, Running, pod
<1>16. CASE CallFails
  BY <1>16, <1>2, <1>6 DEF CallFails, BeforeUpload, pod
<1>17. CASE CallRefused
  BY <1>17, <1>2 DEF CallRefused, Permanent, pod
<1>18. CASE \E valid \in BOOLEAN : Upload(valid)
  <2>1. live' = live /\ changes' = changes /\ sink' = [sink EXCEPT !.client = Client]
    BY <1>18 DEF Upload, catalog, table
  <2> QED  BY <1>2, <1>7, <2>1
<1>19. CASE \E landed \in BOOLEAN : UploadFails(landed)
  BY <1>19, <1>2, <1>6 DEF UploadFails, pod
<1>20. CASE SendUnavailable
  BY <1>20, <1>2, <1>3, <1>6 DEF SendUnavailable, Held, pod
<1>21. CASE \E arrives \in BOOLEAN : SendTimesOut(arrives)
  BY <1>21, <1>2, <1>6 DEF SendTimesOut, Held, pod
<1>22. CASE Start
  BY <1>22, <1>2 DEF Start, pod
<1>23. CASE Begin
  BY <1>23, <1>2 DEF Begin, pod
<1>24. CASE Commit
  BY <1>24, <1>2 DEF Commit, pod
<1>25. CASE Close
  BY <1>25, <1>2 DEF Close, pod
<1>26. CASE Write
  BY <1>26, <1>2 DEF Write, pod
<1>27. CASE ResolveFound
  BY <1>27, <1>2, <1>3, <1>5 DEF ResolveFound, Permanent, catalog, pod
<1>27a. CASE ResolveMissing
  BY <1>27a, <1>2 DEF ResolveMissing, pod
<1>28. CASE ResolveCreates
  <2> DEFINE s == [sink EXCEPT !.client = [incarnation |-> made + 1, basis |-> changes + 1, age |-> 0]]
  <2>1. sink' \in {s, Resolved(s)} /\ made' = made + 1 /\ changes' = changes + 1
    BY <1>28 DEF ResolveCreates, Creating
  <2>2. OK(s)
    BY <1>1, <1>2, <2>1 DEF OK, SinkOK, SinkSet
  <2> QED  BY <1>3, <2>1, <2>2
<1>29. CASE Declare
  <2> DEFINE s == Adopted(sink, Want, changes + 1)
  <2>1. live' = live /\ changes' = changes + 1 /\ changes + 1 \in Nat
        /\ sink' \in {Resolved(s), Resolved(Approved(s)), Approved(s)}
    BY <1>1, <1>29 DEF Declare, Declaring, Declared, Altering, ShapeInv, CatalogOK
  <2>2. OK(s)
    BY <1>1, <1>2, <1>4, <2>1, LayoutAssumption
  <2> QED  BY <1>3, <2>1, <2>2
<1>30. CASE DeclareConflicts
  BY <1>30, <1>2, <1>3, <1>5 DEF DeclareConflicts, Declaring, Permanent, Declared, pod
<1>31. CASE EvolveNothing
  BY <1>31, <1>2 DEF EvolveNothing, pod
<1>32. CASE EvolveColumn
  BY <1>32, <1>2, <1>1, <1>4, <1>5 DEF EvolveColumn, Altering, pod
<1>33. CASE TakeShape
  BY <1>33, <1>2, <1>3, <1>5 DEF TakeShape, Permanent, catalog, pod
<1>34. CASE UploadPinned
  <2>1. live' = live /\ changes' = changes /\ \E payload : RetryOrRaise([sink EXCEPT !.client = Client], payload)
    BY <1>34 DEF UploadPinned, catalog, table
  <2> QED  BY <1>6, <1>7, <2>1
<1>35. CASE NameIsGone
  BY <1>35, <1>2, <1>6 DEF NameIsGone, Declaring, pod
<1>36. CASE SendOk
  BY <1>36, <1>2 DEF SendOk, pod
<1>37. CASE SendReused
  BY <1>37, <1>2, <1>3 DEF SendReused, pod
<1>38. CASE SendRecreated
  BY <1>38, <1>2, <1>6 DEF SendRecreated, Moved, Discarded, pod
<1>39. CASE SendAfterDDL
  BY <1>39, <1>2, <1>3, <1>6 DEF SendAfterDDL, Moved, Discarded, pod
<1>40. CASE SendExpired
  BY <1>40, <1>2, <1>3, <1>6 DEF SendExpired, Moved, Discarded, pod
<1>41. CASE SendRefused
  BY <1>41, <1>2, <1>3, <1>6 DEF SendRefused, Moved, Discarded, pod
<1>42. CASE SendInvalid
  BY <1>42, <1>2, <1>3 DEF SendInvalid, pod
<1>43. CASE UNCHANGED vars
  BY <1>43, <1>2 DEF vars, pod
<1> QED
  BY <1>8, <1>9, <1>10, <1>11, <1>12, <1>13, <1>14, <1>15, <1>16, <1>17, <1>18, <1>19, <1>20,
     <1>21, <1>22, <1>23, <1>24, <1>25, <1>26, <1>27, <1>27a, <1>28, <1>29, <1>30, <1>31, <1>32, <1>33,
     <1>34, <1>35, <1>36, <1>37, <1>38, <1>39, <1>40, <1>41, <1>42, <1>43
     DEF Next, Environment, Failing, Progress

\* A payload, or no payload, that has aged.
Aged(q, p) == q = p \/ (p # NoPayload /\ \E a \in Nat : q = [p EXCEPT !.age = a])

\* A step that books, sends, uploads and acknowledges nothing: inside a flush it
\* goes on with it or gives up.
Quiet ==
  /\ UNCHANGED <<registered, receipts, delayed, committed, flush, since, history>>
  /\ Aged(prepared', prepared)
  /\ phase' = phase \/ (phase \in InFlush /\ phase' \in InFlush \cup {"closing"})
  /\ prepared # NoPayload => phase' \in {phase, "write", "send", "closing"}

\* An upload that failed after an object landed.
UploadLost ==
  /\ phase = "upload" /\ phase' \in {"write", "closing"}
  /\ uploads' = uploads + 1
  /\ orphaned' = orphaned \cup {[id |-> uploads + 1, reason |-> "prepare_failed"]}
  /\ UNCHANGED <<table, registered, receipts, delayed, committed, flush, since, prepared, born,
                 abandoned>>

\* The server refused the payload, which is booked and dropped.
Refusal ==
  /\ phase = "send" /\ phase' \in {"write", "closing"}
  /\ Verdict(prepared) \in {"recreated", "ddl", "expired", "dropped", "invalid"}
  /\ \E reason \in {"table_recreated", "ddl_since_read_snapshot", "read_snapshot_expired",
                    "commit_refused"} : orphaned' = Booked(prepared, reason)
  /\ prepared' = NoPayload
  /\ UNCHANGED <<catalog, delayed, committed, flush, since, uploads, born, abandoned>>

\* A send whose outcome stays open.
Unanswered(arrives) ==
  /\ phase = "send" /\ phase' \in {"write", "closing"}
  /\ IF arrives THEN Process(prepared) /\ UNCHANGED delayed
     ELSE delayed' = delayed \cup {prepared} /\ UNCHANGED <<registered, receipts>>
  /\ UNCHANGED <<table, expired, committed, flush, since, prepared, history>>

StepKind ==
  \/ Quiet \/ Rewind \/ Crash \/ Start \/ Begin \/ Commit \/ Close
  \/ \E p \in delayed : LateArrival(p)
  \/ \E valid \in BOOLEAN : Upload(valid)
  \/ UploadLost \/ SendOk \/ SendReused \/ Refusal
  \/ \E arrives \in BOOLEAN : Unanswered(arrives)

\* What each step does to requests, receipts, offsets and the phase.
LEMMA EveryStepKind ==
  ASSUME ShapeInv, [Next]_vars
  PROVE  StepKind
<1> USE DEF StepKind
<1>1. PodOK /\ (phase \in {"resolve", "create", "declare_new", "declare_found", "declare_lost", "evolve", "shape",
                           "declare_live", "upload"} => prepared = NoPayload)
      /\ (prepared # NoPayload => prepared.age \in Nat /\ prepared.range = flush)
  BY DEF ShapeInv, PhaseOK, RequestsOK, PayloadOK, PayloadSet
<1>2. CASE Tick
  <2>1. prepared # NoPayload => Older(prepared.age, Retention) \in Nat
    BY <1>1 DEF Older
  <2>2. Aged(prepared', prepared)
    BY <1>2, <2>1 DEF Tick, Aged
  <2> QED  BY <1>2, <2>2 DEF Tick, Quiet, catalog, history
<1>3. CASE Drop
  BY <1>3, <1>1 DEF Drop, Quiet, InFlush, Aged, catalog, table, pod, history
<1>4. CASE \E l \in {"none", Want} : CreateElsewhere(l)
  BY <1>4, <1>1 DEF CreateElsewhere, Quiet, InFlush, Aged, catalog, table, pod, history
<1>5. CASE \E l \in Layouts : AlterElsewhere(l)
  BY <1>5, <1>1 DEF AlterElsewhere, Quiet, InFlush, Aged, catalog, table, pod, history
<1>6. CASE Expire
  BY <1>6, <1>1 DEF Expire, Quiet, InFlush, Aged, catalog, table, pod, history
<1>7. CASE \E p \in delayed : LateArrival(p)
  BY <1>7, <1>1 DEF LateArrival, catalog, table, pod, history
<1>8. CASE Rewind
  BY <1>8, <1>1 DEF Rewind, Running, catalog, table, pod, history
<1>9. CASE Crash
  BY <1>9, <1>1 DEF Crash, Running, catalog, table, pod, history
<1>10. CASE CallFails
  BY <1>10, <1>1, RetryGoes
     DEF CallFails, BeforeUpload, Quiet, InFlush, Aged, catalog, table, pod, history
<1>11. CASE CallRefused
  BY <1>11, <1>1
     DEF CallRefused, Permanent, BeforeUpload, Quiet, InFlush, Aged, catalog, table, pod, history
<1>12. CASE \E valid \in BOOLEAN : Upload(valid)
  BY <1>12, <1>1 DEF Upload, catalog, table, pod, history
<1>13. CASE \E landed \in BOOLEAN : UploadFails(landed)
  BY <1>13, <1>1, RetryGoes
     DEF UploadFails, Quiet, InFlush, Aged, UploadLost, catalog, table, pod, history
<1>14. CASE SendUnavailable
  BY <1>14, <1>1, RetryGoes
     DEF SendUnavailable, Held, Quiet, InFlush, Aged, catalog, table, pod, history
<1>15. CASE \E arrives \in BOOLEAN : SendTimesOut(arrives)
  BY <1>15, <1>1, RetryGoes DEF SendTimesOut, Held, Unanswered, catalog, table, pod, history
<1>16. CASE Start
  BY <1>16, <1>1 DEF Start, catalog, table, pod, history
<1>17. CASE Begin
  BY <1>17, <1>1 DEF Begin, catalog, table, pod, history
<1>18. CASE Commit
  BY <1>18, <1>1 DEF Commit, catalog, table, pod, history
<1>19. CASE Close
  BY <1>19, <1>1 DEF Close, catalog, table, pod, history
<1>20. CASE Write
  BY <1>20, <1>1 DEF Write, Quiet, InFlush, Aged, Booked, catalog, table, pod, history
<1>21. CASE ResolveFound
  BY <1>21, <1>1 DEF ResolveFound, Permanent, Quiet, InFlush, Aged, catalog, table, pod, history
<1>21a. CASE ResolveMissing
  BY <1>21a, <1>1 DEF ResolveMissing, Quiet, InFlush, Aged, catalog, table, pod, history
<1>22. CASE ResolveCreates
  BY <1>22, <1>1 DEF ResolveCreates, Quiet, InFlush, Aged, catalog, table, pod, history
<1>23. CASE Declare
  BY <1>23, <1>1
     DEF Declare, Declaring, Declared, Quiet, InFlush, Aged, catalog, table, pod, history
<1>24. CASE DeclareConflicts
  BY <1>24, <1>1
     DEF DeclareConflicts, Declaring, Permanent, Declared, Quiet, InFlush, Aged, catalog, table, pod, history
<1>25. CASE EvolveNothing
  BY <1>25, <1>1 DEF EvolveNothing, Quiet, InFlush, Aged, catalog, table, pod, history
<1>26. CASE EvolveColumn
  BY <1>26, <1>1 DEF EvolveColumn, Quiet, InFlush, Aged, catalog, table, pod, history
<1>27. CASE TakeShape
  BY <1>27, <1>1 DEF TakeShape, Permanent, Quiet, InFlush, Aged, catalog, table, pod, history
<1>28. CASE UploadPinned
  BY <1>28, <1>1, RetryGoes DEF UploadPinned, Quiet, InFlush, Aged, catalog, table, pod, history
<1>29. CASE NameIsGone
  BY <1>29, <1>1, RetryGoes
     DEF NameIsGone, Declaring, Quiet, InFlush, Aged, catalog, table, pod, history
<1>30. CASE SendOk
  BY <1>30, <1>1 DEF SendOk, catalog, table, pod, history
<1>31. CASE SendReused
  BY <1>31, <1>1 DEF SendReused, catalog, table, pod, history
<1>32. CASE SendRecreated
  BY <1>32, <1>1, RetryGoes
     DEF SendRecreated, Moved, Discarded, Refusal, catalog, table, pod, history
<1>33. CASE SendAfterDDL
  BY <1>33, <1>1, RetryGoes
     DEF SendAfterDDL, Moved, Discarded, Refusal, catalog, table, pod, history
<1>34. CASE SendExpired
  BY <1>34, <1>1, RetryGoes DEF SendExpired, Moved, Discarded, Refusal, catalog, table, pod, history
<1>35. CASE SendRefused
  BY <1>35, <1>1, RetryGoes DEF SendRefused, Moved, Discarded, Refusal, catalog, table, pod, history
<1>36. CASE SendInvalid
  BY <1>36, <1>1 DEF SendInvalid, Refusal, catalog, table, pod, history
<1>37. CASE UNCHANGED vars
  BY <1>37, <1>1 DEF vars, Quiet, InFlush, Aged, catalog, table, pod, history
<1> QED
  BY <1>2, <1>3, <1>4, <1>5, <1>6, <1>7, <1>8, <1>9, <1>10, <1>11, <1>12, <1>13, <1>14, <1>15,
     <1>16, <1>17, <1>18, <1>19, <1>20, <1>21, <1>21a, <1>22, <1>23, <1>24, <1>25, <1>26, <1>27, <1>28,
     <1>29, <1>30, <1>31, <1>32, <1>33, <1>34, <1>35, <1>36, <1>37
     DEF Next, Environment, Failing, Progress

\* Ageing changes nothing that a request says.
LEMMA AgedOK ==
  ASSUME NEW p, NEW q, Aged(q, p), PayloadOK(p)
  PROVE  /\ PayloadOK(q) /\ q.id = p.id
         /\ SameRequest(q, p)
BY DEF Aged, PayloadOK, PayloadSet, SameRequest

\* The payloads held and delayed are requests for what they were prepared for.
LEMMA RequestsStep ==
  ASSUME ShapeInv, StepKind, CatalogOK', SinkOK(sink, made, changes)', OffsetsOK,
         made <= made', changes <= changes'
  PROVE  RequestsOK'
<1>1. uploads \in Nat /\ born \in Nat /\ uploads' \in {uploads, uploads + 1} /\ born' \in {born, uploads}
  BY DEF StepKind, Quiet, Rewind, Crash, Start, Begin, Commit, Close, LateArrival, Upload,
         UploadLost, SendOk, SendReused, Refusal, Unanswered, history, ShapeInv, RequestsOK
<1>2. uploads' \in Nat /\ born' \in Nat /\ uploads <= uploads'
  BY <1>1
<1>3. ASSUME NEW p, PayloadOK(p)
      PROVE  PayloadOK(p)'
  <2>1. made \in Nat /\ made' \in Nat /\ changes \in Nat /\ changes' \in Nat
    BY DEF ShapeInv, CatalogOK
  <2> QED  BY <1>1, <1>2, <1>3, <2>1 DEF PayloadOK, PayloadSet
<1>4. ASSUME NEW valid \in BOOLEAN, Upload(valid)
      PROVE  PayloadOK(prepared)' /\ UNCHANGED delayed
  <2>1. /\ prepared' = [id |-> uploads + 1, key |-> FlushKey(sink.uuid, flush), range |-> flush,
                        valid |-> valid,
                        incarnation |-> sink.uuid, basis |-> Client.basis, age |-> Client.age,
                        values |-> sink.shape.spec]
        /\ uploads' = uploads + 1 /\ phase = "upload"
        /\ sink' = [sink EXCEPT !.client = Client] /\ UNCHANGED <<delayed, made, changes>>
    BY <1>4 DEF Upload, catalog, table
  <2>2. flush \in Ranges
    BY <2>1 DEF OffsetsOK, InFlush
  <2>3. /\ sink.uuid \in Nat /\ sink.shape.spec \in LayoutNames
        /\ sink \in SinkSet /\ sink' \in SinkSet /\ sink'.client.basis <= changes' /\ sink.uuid <= made'
    BY <2>1 DEF ShapeInv, PodOK, SinkOK, SinkSet
  <2>4. Client = sink'.client /\ Client.basis \in Nat /\ Client.age \in Nat /\ Client.basis <= changes'
    BY <2>1, <2>3 DEF SinkSet
  <2> HIDE DEF Client
  <2> QED  BY <1>1, <2>1, <2>2, <2>3, <2>4 DEF PayloadOK, PayloadSet, FlushKey
<1>5. /\ \A p \in delayed : PayloadOK(p)
      /\ prepared = NoPayload \/ PayloadOK(prepared)
      /\ phase = "send" => PayloadOK(prepared)
  BY DEF ShapeInv, RequestsOK, PhaseOK
<1>6. prepared' = NoPayload \/ PayloadOK(prepared)'
  <2>1. ASSUME Aged(prepared', prepared)
        PROVE  prepared' = NoPayload \/ PayloadOK(prepared)'
    BY <1>3, <1>5, <2>1, AgedOK DEF Aged
  <2> QED
    BY <1>3, <1>4, <1>5, <2>1
       DEF StepKind, Quiet, Rewind, Crash, Start, Begin, Commit, Close, LateArrival,
           UploadLost, SendOk, SendReused, Refusal, Unanswered, pod
<1>7. delayed' \subseteq delayed \cup {prepared} /\ (phase = "send" \/ delayed' \subseteq delayed)
  BY <1>4
     DEF StepKind, Quiet, Rewind, Crash, Start, Begin, Commit, Close, LateArrival,
         UploadLost, SendOk, SendReused, Refusal, Unanswered
<1>8. \A p \in delayed' : PayloadOK(p)'
  BY <1>3, <1>5, <1>7
<1> QED  BY <1>2, <1>6, <1>8 DEF RequestsOK

\* The phase, the attempts and the bounds stay well formed.
LEMMA ControlStep ==
  ASSUME ShapeInv, [Next]_vars
  PROVE  /\ phase' \in Phases /\ attempt' \in 0 .. MaxAttempts - 1 /\ final' \in BOOLEAN
         /\ spent' \in [{"faults", "drops", "alters", "columns", "rewinds"} -> Nat]
<1>1. PodOK
  BY DEF ShapeInv
<1>2. /\ phase \in Phases /\ attempt \in 0 .. MaxAttempts - 1 /\ final \in BOOLEAN
      /\ 0 \in 0 .. MaxAttempts - 1
      /\ spent \in [{"faults", "drops", "alters", "columns", "rewinds"} -> Nat]
  BY BoundAssumption DEF ShapeInv, PodOK
<1>3. ASSUME NEW b, Spend(b)
      PROVE  spent' \in [{"faults", "drops", "alters", "columns", "rewinds"} -> Nat]
  <2> DEFINE bounds == {"faults", "drops", "alters", "columns", "rewinds"}
  <2>1. b \in bounds => spent[b] + 1 \in Nat
    BY <1>2
  <2>2. [spent EXCEPT ![b] = spent[b] + 1] \in [bounds -> Nat]
    <3> HIDE DEF bounds
    <3>1. spent \in [bounds -> Nat]
      BY <1>2 DEF bounds
    <3> QED  BY <2>1, <3>1
  <2> QED  BY <1>3, <2>2 DEF Spend
<1>4. CASE Tick
  BY <1>4, <1>1, <1>2, <1>3 DEF Tick, Phases, pod
<1>5. CASE Drop
  BY <1>5, <1>1, <1>2, <1>3 DEF Drop, Phases, pod
<1>6. CASE \E l \in {"none", Want} : CreateElsewhere(l)
  BY <1>6, <1>1, <1>2, <1>3 DEF CreateElsewhere, Phases, pod
<1>7. CASE \E l \in Layouts : AlterElsewhere(l)
  BY <1>7, <1>1, <1>2, <1>3 DEF AlterElsewhere, Phases, pod
<1>8. CASE Expire
  BY <1>8, <1>1, <1>2, <1>3 DEF Expire, Phases, pod
<1>9. CASE \E p \in delayed : LateArrival(p)
  BY <1>9, <1>1, <1>2, <1>3 DEF LateArrival, Phases, pod
<1>10. CASE Rewind
  BY <1>10, <1>1, <1>2, <1>3 DEF Rewind, Running, Phases, pod
<1>11. CASE Crash
  BY <1>11, <1>1, <1>2, <1>3 DEF Crash, Running, Phases, pod
<1>12. CASE CallFails
  BY <1>12, <1>1, <1>2, <1>3, RetryGoes DEF CallFails, BeforeUpload, Phases, pod
<1>13. CASE CallRefused
  BY <1>13, <1>1, <1>2, <1>3 DEF CallRefused, Permanent, Phases, pod
<1>14. CASE \E valid \in BOOLEAN : Upload(valid)
  BY <1>14, <1>1, <1>2, <1>3 DEF Upload, Phases, pod
<1>15. CASE \E landed \in BOOLEAN : UploadFails(landed)
  BY <1>15, <1>1, <1>2, <1>3, RetryGoes DEF UploadFails, Phases, pod
<1>16. CASE SendUnavailable
  BY <1>16, <1>1, <1>2, <1>3, RetryGoes DEF SendUnavailable, Held, Phases, pod
<1>17. CASE \E arrives \in BOOLEAN : SendTimesOut(arrives)
  BY <1>17, <1>1, <1>2, <1>3, RetryGoes DEF SendTimesOut, Held, Phases, pod
<1>18. CASE Start
  BY <1>18, <1>1, <1>2, <1>3 DEF Start, Phases, pod
<1>19. CASE Begin
  BY <1>19, <1>1, <1>2, <1>3 DEF Begin, Phases, pod
<1>20. CASE Commit
  BY <1>20, <1>1, <1>2, <1>3 DEF Commit, Phases, pod
<1>21. CASE Close
  BY <1>21, <1>1, <1>2, <1>3 DEF Close, Phases, pod
<1>22. CASE Write
  BY <1>22, <1>1, <1>2, <1>3 DEF Write, Phases, pod
<1>23. CASE ResolveFound
  BY <1>23, <1>1, <1>2, <1>3 DEF ResolveFound, Permanent, Phases, pod
<1>23a. CASE ResolveMissing
  BY <1>23a, <1>1, <1>2, <1>3 DEF ResolveMissing, Phases, pod
<1>24. CASE ResolveCreates
  BY <1>24, <1>1, <1>2, <1>3 DEF ResolveCreates, Phases, pod
<1>25. CASE Declare
  BY <1>25, <1>1, <1>2, <1>3 DEF Declare, Declaring, Declared, Phases, pod
<1>26. CASE DeclareConflicts
  BY <1>26, <1>1, <1>2, <1>3 DEF DeclareConflicts, Declaring, Permanent, Declared, Phases, pod
<1>27. CASE EvolveNothing
  BY <1>27, <1>1, <1>2, <1>3 DEF EvolveNothing, Phases, pod
<1>28. CASE EvolveColumn
  BY <1>28, <1>1, <1>2, <1>3 DEF EvolveColumn, Phases, pod
<1>29. CASE TakeShape
  BY <1>29, <1>1, <1>2, <1>3 DEF TakeShape, Permanent, Phases, pod
<1>30. CASE UploadPinned
  BY <1>30, <1>1, <1>2, <1>3, RetryGoes DEF UploadPinned, Phases, pod
<1>31. CASE NameIsGone
  BY <1>31, <1>1, <1>2, <1>3, RetryGoes DEF NameIsGone, Declaring, Phases, pod
<1>32. CASE SendOk
  BY <1>32, <1>1, <1>2, <1>3 DEF SendOk, Phases, pod
<1>33. CASE SendReused
  BY <1>33, <1>1, <1>2, <1>3 DEF SendReused, Phases, pod
<1>34. CASE SendRecreated
  BY <1>34, <1>1, <1>2, <1>3, RetryGoes DEF SendRecreated, Moved, Discarded, Phases, pod
<1>35. CASE SendAfterDDL
  BY <1>35, <1>1, <1>2, <1>3, RetryGoes DEF SendAfterDDL, Moved, Discarded, Phases, pod
<1>36. CASE SendExpired
  BY <1>36, <1>1, <1>2, <1>3, RetryGoes DEF SendExpired, Moved, Discarded, Phases, pod
<1>37. CASE SendRefused
  BY <1>37, <1>1, <1>2, <1>3, RetryGoes DEF SendRefused, Moved, Discarded, Phases, pod
<1>38. CASE SendInvalid
  BY <1>38, <1>1, <1>2, <1>3 DEF SendInvalid, Phases, pod
<1>39. CASE UNCHANGED vars
  BY <1>39, <1>1, <1>2, <1>3 DEF vars, Phases, pod
<1> QED
  BY <1>4, <1>5, <1>6, <1>7, <1>8, <1>9, <1>10, <1>11, <1>12, <1>13, <1>14, <1>15, <1>16, <1>17,
     <1>18, <1>19, <1>20, <1>21, <1>22, <1>23, <1>23a, <1>24, <1>25, <1>26, <1>27, <1>28, <1>29, <1>30,
     <1>31, <1>32, <1>33, <1>34, <1>35, <1>36, <1>37, <1>38, <1>39
     DEF Next, Environment, Failing, Progress

\* A payload is held only for the offsets being flushed, in the phases that hold one.
LEMMA HeldStep ==
  ASSUME ShapeInv, [Next]_vars, PayloadOK(prepared)' \/ prepared' = NoPayload
  PROVE  /\ prepared' # NoPayload => phase' \in {"write", "send", "closing"} /\ prepared'.range = flush'
         /\ phase' = "send" => prepared' # NoPayload
<1>1. /\ prepared # NoPayload => phase \in {"write", "send", "closing"} /\ prepared.range = flush
      /\ phase = "send" => prepared # NoPayload
      /\ prepared = NoPayload \/ PayloadOK(prepared)
      /\ PodOK
  BY DEF ShapeInv, RequestsOK, PhaseOK
<1>2. ASSUME NEW q, Aged(q, prepared), prepared # NoPayload
      PROVE  q # NoPayload /\ q.range = prepared.range
  BY <1>1, <1>2 DEF Aged, PayloadOK, PayloadSet, NoPayload
<1>3. prepared' # NoPayload => phase' \in {"write", "send", "closing"} /\ prepared'.range = flush'
  <2>1. CASE Quiet
    <3>1. prepared = NoPayload => prepared' = NoPayload
      BY <2>1 DEF Quiet, Aged
    <3>2. prepared # NoPayload => prepared'.range = prepared.range
      BY <1>2, <2>1 DEF Quiet
    <3> QED  BY <1>1, <2>1, <3>1, <3>2 DEF Quiet
  <2>2. CASE \E valid \in BOOLEAN : Upload(valid)
    BY <2>2 DEF Upload
  <2> QED
    BY <1>1, <2>1, <2>2, EveryStepKind
       DEF StepKind, Rewind, Crash, Start, Begin, Commit, Close, LateArrival,
           UploadLost, SendOk, SendReused, Refusal, Unanswered, pod
<1>4. phase' = "send" => prepared' # NoPayload
  <2> SUFFICES ASSUME phase' = "send" PROVE prepared' # NoPayload
    OBVIOUS
  <2>1. CASE Tick
    BY <2>1, <1>1 DEF Tick, PayloadOK, PayloadSet, NoPayload
  <2>2. CASE Drop
    BY <2>2, <1>1 DEF Drop, pod
  <2>3. CASE \E l \in {"none", Want} : CreateElsewhere(l)
    BY <2>3, <1>1 DEF CreateElsewhere, pod
  <2>4. CASE \E l \in Layouts : AlterElsewhere(l)
    BY <2>4, <1>1 DEF AlterElsewhere, pod
  <2>5. CASE Expire
    BY <2>5, <1>1 DEF Expire, pod
  <2>6. CASE \E p \in delayed : LateArrival(p)
    BY <2>6, <1>1 DEF LateArrival, pod
  <2>7. CASE Rewind
    BY <2>7, <1>1 DEF Rewind, Running, pod
  <2>8. CASE Crash
    BY <2>8, <1>1 DEF Crash, Running, pod
  <2>9. CASE CallFails
    BY <2>9, <1>1, RetryGoes DEF CallFails, BeforeUpload, pod
  <2>10. CASE CallRefused
    BY <2>10, <1>1 DEF CallRefused, Permanent, pod
  <2>11. CASE \E valid \in BOOLEAN : Upload(valid)
    BY <2>11 DEF Upload, NoPayload, ShapeInv, RequestsOK
  <2>12. CASE \E landed \in BOOLEAN : UploadFails(landed)
    BY <2>12, <1>1, RetryGoes DEF UploadFails, pod
  <2>13. CASE SendUnavailable
    BY <2>13, <1>1, RetryGoes DEF SendUnavailable, Held, pod
  <2>14. CASE \E arrives \in BOOLEAN : SendTimesOut(arrives)
    BY <2>14, <1>1, RetryGoes DEF SendTimesOut, Held, pod
  <2>15. CASE Start
    BY <2>15, <1>1 DEF Start, pod
  <2>16. CASE Begin
    BY <2>16, <1>1 DEF Begin, pod
  <2>17. CASE Commit
    BY <2>17, <1>1 DEF Commit, pod
  <2>18. CASE Close
    BY <2>18, <1>1 DEF Close, pod
  <2>19. CASE Write
    BY <2>19, <1>1 DEF Write, pod
  <2>20. CASE ResolveFound
    BY <2>20, <1>1 DEF ResolveFound, Permanent, pod
  <2>20a. CASE ResolveMissing
    BY <2>20a, <1>1 DEF ResolveMissing, pod
  <2>21. CASE ResolveCreates
    BY <2>21, <1>1 DEF ResolveCreates, pod
  <2>22. CASE Declare
    BY <2>22, <1>1 DEF Declare, Declaring, Declared, pod
  <2>23. CASE DeclareConflicts
    BY <2>23, <1>1 DEF DeclareConflicts, Declaring, Permanent, Declared, pod
  <2>24. CASE EvolveNothing
    BY <2>24, <1>1 DEF EvolveNothing, pod
  <2>25. CASE EvolveColumn
    BY <2>25, <1>1 DEF EvolveColumn, pod
  <2>26. CASE TakeShape
    BY <2>26, <1>1 DEF TakeShape, Permanent, pod
  <2>27. CASE UploadPinned
    BY <2>27, <1>1, RetryGoes DEF UploadPinned, pod
  <2>28. CASE NameIsGone
    BY <2>28, <1>1, RetryGoes DEF NameIsGone, Declaring, pod
  <2>29. CASE SendOk
    BY <2>29, <1>1 DEF SendOk, pod
  <2>30. CASE SendReused
    BY <2>30, <1>1 DEF SendReused, pod
  <2>31. CASE SendRecreated
    BY <2>31, <1>1, RetryGoes DEF SendRecreated, Moved, Discarded, pod
  <2>32. CASE SendAfterDDL
    BY <2>32, <1>1, RetryGoes DEF SendAfterDDL, Moved, Discarded, pod
  <2>33. CASE SendExpired
    BY <2>33, <1>1, RetryGoes DEF SendExpired, Moved, Discarded, pod
  <2>34. CASE SendRefused
    BY <2>34, <1>1, RetryGoes DEF SendRefused, Moved, Discarded, pod
  <2>35. CASE SendInvalid
    BY <2>35, <1>1 DEF SendInvalid, pod
  <2>36. CASE UNCHANGED vars
    BY <2>36, <1>1 DEF vars, pod
  <2> QED
    BY <2>1, <2>2, <2>3, <2>4, <2>5, <2>6, <2>7, <2>8, <2>9, <2>10, <2>11, <2>12, <2>13, <2>14,
       <2>15, <2>16, <2>17, <2>18, <2>19, <2>20, <2>20a, <2>21, <2>22, <2>23, <2>24, <2>25, <2>26, <2>27,
       <2>28, <2>29, <2>30, <2>31, <2>32, <2>33, <2>34, <2>35, <2>36
       DEF Next, Environment, Failing, Progress
<1> QED  BY <1>3, <1>4

\* The handle is there in the phases that need one, and a stopped pod has none.
LEMMA HandleStep ==
  ASSUME ShapeInv, [Next]_vars
  PROVE  /\ phase' \in {"evolve", "shape", "declare_live", "upload"} => sink'.handle
         /\ phase' \in {"resolve", "create", "declare_new", "declare_found", "declare_lost"} => ~sink'.handle
         /\ phase' = "down" => sink' = ColdSink
<1>1. /\ phase \in {"evolve", "shape", "declare_live", "upload"} => sink.handle
      /\ phase \in {"resolve", "create", "declare_new", "declare_found", "declare_lost"} => ~sink.handle
      /\ phase = "down" => sink = ColdSink
      /\ PodOK
  BY DEF ShapeInv, PhaseOK
<1>2. ~ColdSink.handle
  BY DEF ColdSink
<1>3. /\ \A l, c : LET s == Adopted(sink, l, c) IN
           /\ s.handle = sink.handle /\ Approved(s).handle = sink.handle
           /\ Resolved(s).handle /\ Resolved(Approved(s)).handle
      /\ Approved(sink).handle = sink.handle
      /\ \A c : LET s == [sink EXCEPT !.client = c] IN s.handle = sink.handle /\ Resolved(s).handle
      /\ \A a, b : [sink EXCEPT !.shape.age = a, !.client.age = b].handle = sink.handle
  BY <1>1 DEF PodOK, SinkOK, SinkSet, Adopted, Resolved, Approved
<1>4. CASE Tick
  BY <1>4, <1>1, <1>3 DEF Tick, Running
<1>5. CASE Drop
  BY <1>5, <1>1, <1>2 DEF Drop, pod
<1>6. CASE \E l \in {"none", Want} : CreateElsewhere(l)
  BY <1>6, <1>1, <1>2 DEF CreateElsewhere, pod
<1>7. CASE \E l \in Layouts : AlterElsewhere(l)
  BY <1>7, <1>1, <1>2 DEF AlterElsewhere, pod
<1>8. CASE Expire
  BY <1>8, <1>1, <1>2 DEF Expire, pod
<1>9. CASE \E p \in delayed : LateArrival(p)
  BY <1>9, <1>1, <1>2 DEF LateArrival, pod
<1>10. CASE Rewind
  BY <1>10, <1>1, <1>2 DEF Rewind, Running, pod
<1>11. CASE Crash
  BY <1>11, <1>1, <1>2 DEF Crash, Running, pod
<1>12. CASE CallFails
  BY <1>12, <1>1, <1>2, RetryGoes DEF CallFails, BeforeUpload, pod
<1>13. CASE CallRefused
  BY <1>13, <1>1, <1>2 DEF CallRefused, Permanent, pod
<1>14. CASE \E valid \in BOOLEAN : Upload(valid)
  BY <1>14, <1>1, <1>2 DEF Upload, pod
<1>15. CASE \E landed \in BOOLEAN : UploadFails(landed)
  BY <1>15, <1>1, <1>2, RetryGoes DEF UploadFails, pod
<1>16. CASE SendUnavailable
  BY <1>16, <1>1, <1>2, RetryGoes DEF SendUnavailable, Held, pod
<1>17. CASE \E arrives \in BOOLEAN : SendTimesOut(arrives)
  BY <1>17, <1>1, <1>2, RetryGoes DEF SendTimesOut, Held, pod
<1>18. CASE Start
  BY <1>18, <1>1, <1>2 DEF Start, pod
<1>19. CASE Begin
  BY <1>19, <1>1, <1>2 DEF Begin, pod
<1>20. CASE Commit
  BY <1>20, <1>1, <1>2 DEF Commit, pod
<1>21. CASE Close
  BY <1>21, <1>1, <1>2 DEF Close, pod
<1>22. CASE Write
  BY <1>22, <1>1, <1>2 DEF Write, pod
<1>23. CASE ResolveFound
  BY <1>23, <1>1, <1>2, <1>3 DEF ResolveFound, Permanent, Reread, pod
<1>23a. CASE ResolveMissing
  BY <1>23a, <1>1, <1>2 DEF ResolveMissing, pod
<1>24. CASE ResolveCreates
  BY <1>24, <1>1, <1>2, <1>3 DEF ResolveCreates, pod
<1>25. CASE Declare
  BY <1>25, <1>1, <1>2, <1>3 DEF Declare, Declaring, Declared, pod
<1>26. CASE DeclareConflicts
  BY <1>26, <1>1, <1>2, <1>3 DEF DeclareConflicts, Declaring, Permanent, Declared, Reread, pod
<1>27. CASE EvolveNothing
  BY <1>27, <1>1, <1>2 DEF EvolveNothing, pod
<1>28. CASE EvolveColumn
  BY <1>28, <1>1, <1>2, <1>3 DEF EvolveColumn, Reread, pod
<1>29. CASE TakeShape
  BY <1>29, <1>1, <1>2, <1>3 DEF TakeShape, Permanent, Reread, pod
<1>30. CASE UploadPinned
  BY <1>30, <1>1, <1>2, RetryGoes DEF UploadPinned, pod
<1>31. CASE NameIsGone
  BY <1>31, <1>1, <1>2, RetryGoes DEF NameIsGone, Declaring, pod
<1>32. CASE SendOk
  BY <1>32, <1>1, <1>2 DEF SendOk, pod
<1>33. CASE SendReused
  BY <1>33, <1>1, <1>2 DEF SendReused, pod
<1>34. CASE SendRecreated
  BY <1>34, <1>1, <1>2, RetryGoes DEF SendRecreated, Moved, Discarded, pod
<1>35. CASE SendAfterDDL
  BY <1>35, <1>1, <1>2, RetryGoes DEF SendAfterDDL, Moved, Discarded, pod
<1>36. CASE SendExpired
  BY <1>36, <1>1, <1>2, RetryGoes DEF SendExpired, Moved, Discarded, pod
<1>37. CASE SendRefused
  BY <1>37, <1>1, <1>2, RetryGoes DEF SendRefused, Moved, Discarded, pod
<1>38. CASE SendInvalid
  BY <1>38, <1>1, <1>2 DEF SendInvalid, pod
<1>39. CASE UNCHANGED vars
  BY <1>39, <1>1, <1>2 DEF vars, pod
<1> QED
  BY <1>4, <1>5, <1>6, <1>7, <1>8, <1>9, <1>10, <1>11, <1>12, <1>13, <1>14, <1>15, <1>16, <1>17,
     <1>18, <1>19, <1>20, <1>21, <1>22, <1>23, <1>23a, <1>24, <1>25, <1>26, <1>27, <1>28, <1>29, <1>30,
     <1>31, <1>32, <1>33, <1>34, <1>35, <1>36, <1>37, <1>38, <1>39
     DEF Next, Environment, Failing, Progress

\* Every step keeps the shape of the state.
LEMMA ShapeStep ==
  ASSUME ShapeInv, [Next]_vars
  PROVE  ShapeInv'
<1>1. CatalogOK' /\ TableMove /\ expired' \in Nat /\ made <= made' /\ changes <= changes'
  BY EveryTableMove, TableMoves DEF ShapeInv
<1>2. SinkOK(sink, made, changes)' /\ PodOK'
  BY SinkStep, ControlStep DEF PodOK
<1>3. OffsetMove /\ OffsetsOK'
  BY <1>1, EveryOffsetMove, OffsetStep DEF ShapeInv
<1>4. RequestsOK'
  BY <1>1, <1>2, EveryStepKind, RequestsStep DEF ShapeInv
<1>5. PhaseOK'
  BY <1>4, HeldStep, HandleStep DEF RequestsOK, PhaseOK
<1> QED  BY <1>1, <1>2, <1>3, <1>4, <1>5 DEF ShapeInv

\* The program starts in that shape.
LEMMA ShapeInit == Init => ShapeInv
<1> SUFFICES ASSUME Init PROVE ShapeInv
  OBVIOUS
<1>1. CatalogOK
  BY LayoutAssumption DEF Init, CatalogOK
<1>2. PodOK
  <2>1. sink \in SinkSet /\ sink.uuid = 0 /\ sink.client.incarnation = 0 /\ sink.client.basis = 0
    BY DEF Init, SinkSet, LayoutNames, ColdSink, NoShape, NoClient, Unreconciled
  <2>2. attempt = 0 /\ final = FALSE /\ phase = "down"
    BY DEF Init
  <2>3. attempt \in 0 .. MaxAttempts - 1
    BY <2>2, BoundAssumption
  <2>4. final \in BOOLEAN /\ phase \in Phases
    BY <2>2 DEF Phases
  <2>5. spent \in [{"faults", "drops", "alters", "columns", "rewinds"} -> Nat]
    BY DEF Init
  <2> QED  BY <1>1, <2>1, <2>5, <2>3, <2>4 DEF PodOK, SinkOK, CatalogOK
<1>3. RequestsOK
  BY DEF Init, RequestsOK
<1>4. OffsetsOK
  BY <1>1, BoundAssumption DEF Init, OffsetsOK, InFlush, CatalogOK
<1>5. PhaseOK
  BY DEF Init, PhaseOK
<1> QED  BY <1>1, <1>2, <1>3, <1>4, <1>5 DEF ShapeInv

\* The shape of the state, always.
LEMMA AlwaysShape == Spec => []ShapeInv
BY ShapeInit, ShapeStep, PTL DEF Spec

-----------------------------------------------------------------------------
(* Requests and receipts.                                                  *)

\* What the server takes, and what its refusals say of a request.
LEMMA Verdicts ==
  ASSUME NEW p
  PROVE  /\ Verdict(p) = "applied" => /\ \A r \in receipts : r.key # p.key
                                      /\ p.valid /\ live # 0 /\ live = p.incarnation
                                      /\ ~(p.id <= expired) /\ ~(altered > p.basis)
         /\ Verdict(p) = "replayed" => \E r \in receipts : r.key = p.key /\ r.id = p.id
         /\ Verdict(p) = "reused" => /\ \E r \in receipts : r.key = p.key
                                     /\ \A r \in receipts : r.key = p.key => r.id # p.id
         /\ Verdict(p) \in {"recreated", "ddl", "expired", "dropped", "invalid"} =>
              /\ \A r \in receipts : r.key # p.key
              /\ Doomed(p)
BY DEF Verdict, Doomed

\* Every step but an upload leaves at most the requests there were.
LEMMA RequestsKept ==
  ASSUME ShapeInv, StepKind, ~ \E valid \in BOOLEAN : Upload(valid)
  PROVE  \A p \in Requests' : \E q \in Requests : p.id = q.id /\ SameRequest(p, q)
<1>1. \A q \in Requests : q.id = q.id /\ SameRequest(q, q)
  BY DEF SameRequest
<1>2. phase = "send" => prepared \in Requests
  BY DEF ShapeInv, PhaseOK, Requests
<1>3. \A p \in Requests : PayloadOK(p)
  BY DEF ShapeInv, RequestsOK, Requests
<1>4. CASE Quiet
  <2>1. CASE prepared' = prepared
    BY <1>1, <1>4, <2>1 DEF Quiet, Requests
  <2>2. CASE prepared # NoPayload
    <3>1. prepared \in Requests
      BY <2>2 DEF Requests
    <3>2. prepared'.id = prepared.id /\ SameRequest(prepared', prepared)
      BY <1>3, <1>4, <3>1, AgedOK DEF Quiet
    <3> QED  BY <1>1, <1>4, <3>1, <3>2 DEF Quiet, Requests
  <2> QED  BY <1>4, <2>1, <2>2 DEF Quiet, Aged
<1> QED
  BY <1>1, <1>2, <1>4
     DEF StepKind, Rewind, Crash, Start, Begin, Commit, Close, LateArrival,
         UploadLost, SendOk, SendReused, Refusal, Unanswered, pod, Requests

\* The tables and receipts change only when a request is processed.
LEMMA OnlyRequestsProcessed ==
  ASSUME ShapeInv, StepKind
  PROVE  \/ UNCHANGED <<registered, receipts>>
         \/ \E p \in Requests : /\ p \in delayed \/ (phase = "send" /\ p = prepared)
                                /\ Process(p) /\ UNCHANGED <<table, expired, uploads>>
<1>1. phase = "send" => prepared \in Requests
  BY DEF ShapeInv, PhaseOK, Requests
<1>2. ASSUME NEW p \in delayed, LateArrival(p)
      PROVE  p \in Requests /\ Process(p) /\ UNCHANGED <<table, expired, uploads>>
  BY <1>2 DEF LateArrival, history, Requests
<1>3. ASSUME NEW valid \in BOOLEAN, Upload(valid)
      PROVE  UNCHANGED <<registered, receipts>>
  BY <1>3 DEF Upload, catalog
<1>4. ASSUME NEW arrives \in BOOLEAN, Unanswered(arrives)
      PROVE  UNCHANGED <<registered, receipts>> \/ (Process(prepared) /\ UNCHANGED <<table, expired, uploads>>)
  BY <1>4 DEF Unanswered, history
<1>5. CASE SendOk
  BY <1>1, <1>5 DEF SendOk, history
<1>6. CASE Quiet \/ Rewind \/ Crash \/ Start \/ Begin
  BY <1>6 DEF Quiet, Rewind, Crash, Start, Begin, catalog
<1>7. CASE Commit \/ Close \/ UploadLost \/ SendReused \/ Refusal
  BY <1>7 DEF Commit, Close, UploadLost, SendReused, Refusal, catalog
<1>8. CASE \E arrives \in BOOLEAN : Unanswered(arrives)
  <2>1. phase = "send"
    BY <1>8 DEF Unanswered
  <2> QED  BY <1>1, <1>4, <1>8, <2>1
<1>9. CASE \E p \in delayed : LateArrival(p)
  BY <1>2, <1>9
<1>10. CASE \E valid \in BOOLEAN : Upload(valid)
  BY <1>3, <1>10
<1> QED  BY <1>5, <1>6, <1>7, <1>8, <1>9, <1>10 DEF StepKind

\* What a request that is applied adds.
FileOf(p) ==
  [id |-> p.id, incarnation |-> live, range |-> p.range, values |-> p.values, stamped |-> layout]
ReceiptOf(p) == [key |-> p.key, id |-> p.id]

\* A step applies a request, or leaves tables and receipts alone.
Applying(p) ==
  /\ p \in Requests /\ Verdict(p) = "applied"
  /\ p \in delayed \/ (phase = "send" /\ p = prepared)
  /\ registered' = registered \cup {FileOf(p)} /\ receipts' = receipts \cup {ReceiptOf(p)}
  /\ UNCHANGED <<table, expired, uploads>>

\* Every step does one or the other.
LEMMA BooksMove ==
  ASSUME ShapeInv, StepKind
  PROVE  UNCHANGED <<registered, receipts>> \/ \E p \in Requests : Applying(p)
<1>1. ASSUME NEW p \in Requests, p \in delayed \/ (phase = "send" /\ p = prepared),
             Process(p), UNCHANGED <<table, expired, uploads>>
      PROVE  UNCHANGED <<registered, receipts>> \/ Applying(p)
  BY <1>1 DEF Process, Applying, FileOf, ReceiptOf
<1> QED  BY <1>1, OnlyRequestsProcessed

\* Receipts, registered uploads and requests keep agreeing.
LEMMA LedgerStep ==
  ASSUME ShapeInv, LedgerInv, StepKind, made <= made', CatalogOK'
  PROVE  LedgerInv'
<1>1. /\ uploads \in Nat /\ made \in Nat /\ made' \in Nat
      /\ \A p \in Requests : /\ PayloadOK(p) /\ p.id \in 1 .. uploads /\ p.range \in Ranges
                             /\ p.key = FlushKey(p.incarnation, p.range)
  BY DEF ShapeInv, RequestsOK, CatalogOK, Requests, PayloadOK, PayloadSet
<1>2. uploads' \in Nat /\ uploads <= uploads'
  BY <1>1
     DEF StepKind, Quiet, Rewind, Crash, Start, Begin, Commit, Close, LateArrival, Upload,
         UploadLost, SendOk, SendReused, Refusal, Unanswered, history
<1>3. /\ \A i \in 1 .. uploads : i \in 1 .. uploads'
      /\ \A i \in 1 .. made : i \in 1 .. made'
  BY <1>1, <1>2
<1>4. CASE UNCHANGED <<registered, receipts>>
  <2>1. /\ \A r \in receipts' :
             /\ r.id \in 1 .. uploads'
             /\ \E f \in registered' : f.id = r.id /\ f.range = r.key.range /\ f.incarnation = r.key.incarnation
        /\ \A f \in registered' :
             /\ f.incarnation \in 1 .. made' /\ f.range \in Ranges
             /\ \E r \in receipts' : r.id = f.id
        /\ \A f, g \in registered' : f.id = g.id => f = g
    BY <1>4, <1>3 DEF LedgerInv
  <2>2. CASE ~ \E valid \in BOOLEAN : Upload(valid)
    <3>1. \A p \in Requests' : \E q \in Requests : p.id = q.id /\ SameRequest(p, q)
      BY <2>2, RequestsKept
    <3>2. \A p \in Requests' : \A r \in receipts' : r.id = p.id => r.key = p.key
      BY <1>4, <3>1 DEF LedgerInv, SameRequest
    <3>3. \A p, q \in Requests' : p.id = q.id => SameRequest(p, q)
      BY <3>1 DEF LedgerInv, SameRequest
    <3> QED  BY <2>1, <3>2, <3>3 DEF LedgerInv
  <2>3. CASE \E valid \in BOOLEAN : Upload(valid)
    <3>1. delayed' = delayed /\ prepared'.id = uploads + 1
      BY <2>3 DEF Upload
    <3>2. \A p \in delayed : p \in Requests
      BY DEF Requests
    <3>3. \A p \in Requests' : p = prepared' \/ p \in Requests
      BY <3>1 DEF Requests
    <3>4. \A p \in Requests' : \A r \in receipts' : r.id = p.id => r.key = p.key
      BY <1>4, <1>1, <3>1, <3>3 DEF LedgerInv
    <3>5. \A p, q \in Requests' : p.id = q.id => SameRequest(p, q)
      BY <1>1, <3>1, <3>3 DEF LedgerInv, SameRequest
    <3> QED  BY <2>1, <3>4, <3>5 DEF LedgerInv
  <2> QED  BY <2>2, <2>3
<1>5. ASSUME NEW p \in Requests, Applying(p)
      PROVE  LedgerInv'
  <2>1. /\ registered' = registered \cup {FileOf(p)} /\ receipts' = receipts \cup {ReceiptOf(p)}
        /\ uploads' = uploads /\ made' = made
        /\ live \in 1 .. made /\ live = p.incarnation
        /\ \A r \in receipts : r.key # p.key
    BY <1>5, Verdicts DEF Applying, table, ShapeInv, CatalogOK
  <2>2. ~ \E valid \in BOOLEAN : Upload(valid)
    BY <1>1, <2>1 DEF Upload
  <2>3. \A q \in Requests' : \E q0 \in Requests : q.id = q0.id /\ SameRequest(q, q0)
    BY <2>2, RequestsKept
  <2>4. \A f \in registered : f.id # p.id
    BY <2>1 DEF LedgerInv
  <2>5. /\ FileOf(p).id = p.id /\ ReceiptOf(p).id = p.id /\ ReceiptOf(p).key = p.key
        /\ FileOf(p).range = p.key.range /\ FileOf(p).incarnation = p.key.incarnation
        /\ FileOf(p).range \in Ranges /\ FileOf(p).incarnation \in 1 .. made
    <3>1. p.key.range = p.range /\ p.key.incarnation = p.incarnation /\ p.range \in Ranges
      <4>1. p.key = FlushKey(p.incarnation, p.range) /\ p.range \in Ranges
        BY <1>1
      <4> QED  BY <4>1 DEF FlushKey
    <3> QED  BY <2>1, <3>1 DEF FileOf, ReceiptOf
  <2>6. \A r \in receipts' :
             /\ r.id \in 1 .. uploads'
             /\ \E f \in registered' : f.id = r.id /\ f.range = r.key.range /\ f.incarnation = r.key.incarnation
    BY <1>1, <2>1, <2>5 DEF LedgerInv
  <2>7. \A f \in registered' :
             /\ f.incarnation \in 1 .. made' /\ f.range \in Ranges
             /\ \E r \in receipts' : r.id = f.id
    BY <2>1, <2>5 DEF LedgerInv
  <2>8. \A f, g \in registered' : f.id = g.id => f = g
    BY <2>1, <2>4, <2>5 DEF LedgerInv
  <2>9. \A q \in Requests' : \A r \in receipts' : r.id = q.id => r.key = q.key
    BY <2>1, <2>3, <2>5 DEF LedgerInv, SameRequest
  <2>10. \A q, t \in Requests' : q.id = t.id => SameRequest(q, t)
    BY <2>3 DEF LedgerInv, SameRequest
  <2> QED  BY <2>6, <2>7, <2>8, <2>9, <2>10 DEF LedgerInv
<1> QED  BY <1>4, <1>5, BooksMove

-----------------------------------------------------------------------------
(* Uploads, refusals and late arrivals.                                    *)

\* Nothing registered, booked or abandoned is forgotten.
LEMMA BooksGrow ==
  ASSUME ShapeInv, StepKind
  PROVE  /\ registered \subseteq registered' /\ receipts \subseteq receipts'
         /\ orphaned \subseteq orphaned' /\ abandoned \subseteq abandoned'
<1>1. registered \subseteq registered' /\ receipts \subseteq receipts'
  BY BooksMove DEF Applying
<1>2. abandoned \subseteq abandoned'
  BY DEF StepKind, Quiet, Rewind, Crash, Start, Begin, Commit, Close, LateArrival, Upload,
         UploadLost, SendOk, SendReused, Refusal, Unanswered, history
<1>3. orphaned \subseteq orphaned'
  BY DEF StepKind, Quiet, Rewind, Crash, Start, Begin, Commit, Close, LateArrival, Upload,
         UploadLost, SendOk, SendReused, Refusal, Unanswered, history, Booked
<1> QED  BY <1>1, <1>2, <1>3

\* No upload is lost track of.
LEMMA AccountStep ==
  ASSUME ShapeInv, LedgerInv, UploadsAccountedFor, StepKind
  PROVE  UploadsAccountedFor'
<1> DEFINE Found(id) == \/ \E f \in registered : f.id = id
                        \/ \E o \in orphaned : o.id = id
                        \/ id \in abandoned
<1> DEFINE FoundNext(id) == \/ \E f \in registered' : f.id = id
                            \/ \E o \in orphaned' : o.id = id
                            \/ id \in abandoned'
<1>1. uploads \in Nat /\ (prepared = NoPayload => prepared.id = 0)
      /\ (phase = "upload" => prepared = NoPayload)
  BY DEF ShapeInv, RequestsOK, PhaseOK, NoPayload
<1>2. \A id : Found(id) => FoundNext(id)
  BY BooksGrow
<1>3. \A id \in 1 .. uploads : Found(id) \/ id = prepared.id
  BY DEF UploadsAccountedFor
<1>4. SUFFICES \A id \in 1 .. uploads' : FoundNext(id) \/ id = prepared'.id
  BY DEF UploadsAccountedFor
<1> HIDE DEF Found, FoundNext
<1>5. CASE UNCHANGED uploads /\ prepared'.id = prepared.id
  BY <1>2, <1>3, <1>5
<1>6. CASE UNCHANGED uploads /\ (prepared # NoPayload => FoundNext(prepared.id))
  <2>1. \A id \in 1 .. uploads : id # 0
    OBVIOUS
  <2> QED  BY <1>1, <1>2, <1>3, <1>6, <2>1
<1>7. CASE phase = "upload" /\ uploads' = uploads + 1
           /\ (FoundNext(uploads + 1) \/ prepared'.id = uploads + 1)
  <2>1. \A id \in 1 .. uploads' : id \in 1 .. uploads \/ id = uploads + 1
    BY <1>1, <1>7
  <2>2. \A id \in 1 .. uploads : id # 0
    OBVIOUS
  <2> QED  BY <1>1, <1>2, <1>3, <1>7, <2>1, <2>2
<1>8. CASE Quiet
  <2>1. prepared'.id = prepared.id
    BY <1>8, AgedOK DEF Quiet, Aged, ShapeInv, RequestsOK
  <2> QED  BY <1>5, <1>8, <2>1 DEF Quiet, history
<1>9. CASE Rewind \/ Start \/ Begin \/ Commit \/ (\E arrives \in BOOLEAN : Unanswered(arrives))
           \/ (\E p \in delayed : LateArrival(p))
  BY <1>5, <1>9 DEF Rewind, Start, Begin, Commit, Unanswered, LateArrival, pod, history
<1>10. CASE Crash \/ Close \/ SendReused \/ Refusal
  <2>1. prepared # NoPayload => prepared.id # 0
    BY DEF ShapeInv, RequestsOK, PayloadOK, PayloadSet
  <2>2. UNCHANGED uploads
    BY <1>10 DEF Crash, Close, SendReused, Refusal
  <2>3. prepared # NoPayload => \/ prepared.id \in abandoned'
                                \/ \E why : [id |-> prepared.id, reason |-> why] \in orphaned'
    BY <1>10, <2>1 DEF Crash, Close, SendReused, Refusal, Booked
  <2>4. prepared # NoPayload => FoundNext(prepared.id)
    BY <2>3 DEF FoundNext
  <2> QED  BY <1>6, <2>2, <2>4
<1>11. CASE \E valid \in BOOLEAN : Upload(valid)
  BY <1>7, <1>11 DEF Upload
<1>12. CASE UploadLost
  <2>1. [id |-> uploads + 1, reason |-> "prepare_failed"] \in orphaned'
    BY <1>12 DEF UploadLost
  <2>2. FoundNext(uploads + 1)
    BY <2>1 DEF FoundNext
  <2> QED  BY <1>7, <1>12, <2>2 DEF UploadLost
<1>13. CASE SendOk
  <2>1. UNCHANGED uploads /\ prepared \in Requests
    BY <1>13 DEF SendOk, history, ShapeInv, PhaseOK, Requests
  <2>2. CASE Verdict(prepared) = "applied"
    <3>1. FileOf(prepared) \in registered'
      BY <1>13, <2>2 DEF SendOk, Process, FileOf
    <3>2. FoundNext(prepared.id)
      BY <3>1 DEF FileOf, FoundNext
    <3> QED  BY <1>6, <2>1, <3>2
  <2>3. CASE Verdict(prepared) = "replayed"
    <3>1. \E f \in registered : f.id = prepared.id
      BY <2>3, Verdicts DEF LedgerInv
    <3>2. Found(prepared.id)
      BY <3>1 DEF Found
    <3> QED  BY <1>6, <1>2, <2>1, <3>2
  <2> QED  BY <1>13, <2>2, <2>3 DEF SendOk
<1> QED  BY <1>8, <1>9, <1>10, <1>11, <1>12, <1>13 DEF StepKind

\* What is doomed stays doomed: receipts are kept, alters and the expiry floor
\* only rise, and an incarnation that is gone does not come back.
LEMMA DoomedStays ==
  ASSUME CatalogOK, TableMove, expired \in Nat, expired' \in Nat, expired <= expired',
         receipts \subseteq receipts',
         NEW p, p.id \in Nat, p.incarnation \in Nat, p.incarnation <= made, p.basis \in Nat, Doomed(p)
  PROVE  Doomed(p)'
<1>1. /\ altered <= altered' /\ altered \in Nat /\ altered' \in Nat
      /\ live' = live \/ live' = 0 \/ live' = made + 1
      /\ made \in Nat /\ live \in Nat
  BY TableMoves DEF CatalogOK
<1>2. CASE altered > p.basis
  BY <1>1, <1>2 DEF Doomed
<1>3. CASE p.id <= expired
  BY <1>3 DEF Doomed
<1>4. CASE live = 0 \/ live # p.incarnation
  <2>1. live' = 0 \/ live' # p.incarnation
    BY <1>1, <1>4
  <2> QED  BY <2>1 DEF Doomed
<1>5. CASE ~p.valid \/ \E r \in receipts : r.key = p.key
  BY <1>5 DEF Doomed
<1> QED  BY <1>2, <1>3, <1>4, <1>5 DEF Doomed

\* The same for the requests there are.
LEMMA RequestStaysDoomed ==
  ASSUME ShapeInv, StepKind, [Next]_vars, NEW p, PayloadOK(p), Doomed(p)
  PROVE  Doomed(p)'
<1>1. p.id \in Nat /\ p.incarnation \in Nat /\ p.incarnation <= made /\ p.basis \in Nat
  BY DEF PayloadOK, PayloadSet
<1> QED  BY <1>1, EveryTableMove, BooksGrow, DoomedStays DEF ShapeInv, CatalogOK

\* Requests alike but for their age share their fate.
LEMMA DoomedAlike ==
  ASSUME NEW p, NEW q, p.id = q.id, SameRequest(p, q)
  PROVE  Doomed(p) = Doomed(q)
BY DEF Doomed, SameRequest

\* A refused upload is in no table and can no longer get into one.
LEMMA RefusalStep ==
  ASSUME ShapeInv, LedgerInv, RefusalInv, StepKind, [Next]_vars
  PROVE  RefusalInv'
<1> DEFINE Gone(id) == /\ \A f \in registered' : f.id # id
                       /\ \A p \in delayed' : p.id = id => Doomed(p)'
                       /\ prepared'.id # id
<1>1. /\ uploads \in Nat /\ prepared.id \in 0 .. uploads /\ (phase = "upload" => prepared = NoPayload)
      /\ (prepared = NoPayload \/ prepared \in Requests) /\ (phase = "send" => prepared \in Requests)
      /\ (prepared # NoPayload => prepared.id \in 1 .. uploads)
      /\ NoPayload.id = 0
  BY DEF ShapeInv, RequestsOK, PhaseOK, PayloadOK, PayloadSet, Requests, NoPayload
<1>2. \A p \in delayed : p \in Requests /\ PayloadOK(p) /\ p.id \in 1 .. uploads
  BY DEF ShapeInv, RequestsOK, PayloadOK, PayloadSet, Requests
<1>3. \A f \in registered : f.id \in 1 .. uploads
  BY DEF LedgerInv
<1>4. uploads' \in Nat /\ \A i \in 1 .. uploads : i \in 1 .. uploads'
  <2>1. uploads' \in {uploads, uploads + 1}
    BY DEF StepKind, Quiet, Rewind, Crash, Start, Begin, Commit, Close, LateArrival, Upload,
           UploadLost, SendOk, SendReused, Refusal, Unanswered, history
  <2> QED  BY <1>1, <2>1
<1>5. delayed' \subseteq delayed \/ delayed' = delayed \cup {prepared}
  BY DEF StepKind, Quiet, Rewind, Crash, Start, Begin, Commit, Close, LateArrival, Upload,
         UploadLost, SendOk, SendReused, Refusal, Unanswered
<1>6. prepared'.id \in {0, prepared.id, uploads + 1}
  <2>1. CASE Quiet
    BY <2>1, AgedOK DEF Quiet, Aged, ShapeInv, RequestsOK
  <2> QED
    BY <1>1, <2>1
       DEF StepKind, Rewind, Crash, Start, Begin, Commit, Close, LateArrival, Upload,
           UploadLost, SendOk, SendReused, Refusal, Unanswered, pod
<1>7. ASSUME NEW o \in orphaned
      PROVE  o.id \in 1 .. uploads' /\ (o.reason # "shutdown" => Gone(o.id))
  <2>1. o.id \in 1 .. uploads /\ o.id \in 1 .. uploads'
    BY <1>4 DEF RefusalInv
  <2>2. SUFFICES ASSUME o.reason # "shutdown" PROVE Gone(o.id)
    BY <2>1
  <2>3. /\ \A f \in registered : f.id # o.id
        /\ \A p \in delayed : p.id = o.id => Doomed(p)
        /\ prepared.id # o.id
    BY <2>2 DEF RefusalInv
  <2>4. \A f \in registered' : f.id # o.id
    <3>1. ASSUME NEW p \in Requests, Applying(p), p.id = o.id
          PROVE  FALSE
      <4>1. p \in delayed
        BY <2>3, <3>1 DEF Requests
      <4>2. Doomed(p)
        BY <2>3, <3>1, <4>1
      <4> QED  BY <3>1, <4>2, Verdicts DEF Applying, Doomed
    <3> QED  BY <2>3, <3>1, BooksMove DEF Applying, FileOf
  <2>5. \A p \in delayed' : p.id = o.id => Doomed(p)'
    <3>1. \A p \in delayed : p.id = o.id => Doomed(p)'
      BY <1>2, <2>3, RequestStaysDoomed
    <3> QED  BY <1>5, <2>3, <3>1
  <2>6. prepared'.id # o.id
    BY <1>1, <1>6, <2>1, <2>3
  <2> QED  BY <2>4, <2>5, <2>6
<1>8. ASSUME NEW o \in orphaned', o \notin orphaned
      PROVE  o.id \in 1 .. uploads' /\ (o.reason # "shutdown" => Gone(o.id))
  <2>1. CASE UploadLost
    <3>1. /\ o.id = uploads + 1 /\ uploads' = uploads + 1 /\ UNCHANGED <<registered, delayed, prepared>>
      BY <1>8, <2>1 DEF UploadLost
    <3> QED  BY <1>1, <1>2, <1>3, <3>1
  <2>2. CASE Close
    BY <1>8, <1>1, <2>2 DEF Close, Booked
  <2>3. CASE SendReused \/ Refusal
    <3>1. /\ prepared \in Requests /\ o.id = prepared.id /\ uploads' = uploads
          /\ UNCHANGED <<registered, delayed>> /\ prepared' = NoPayload
      BY <1>8, <1>1, <2>3 DEF SendReused, Refusal, Booked, catalog
    <3>2. /\ Doomed(prepared)
          /\ \A r \in receipts : r.key = prepared.key => r.id # prepared.id
      BY <2>3, Verdicts DEF SendReused, Refusal, Doomed
    <3>3. \A f \in registered' : f.id # o.id
      BY <3>1, <3>2 DEF LedgerInv
    <3>4. \A p \in delayed : p.id = o.id => Doomed(p)
      BY <1>2, <3>1, <3>2, DoomedAlike DEF LedgerInv
    <3>5. \A p \in delayed' : p.id = o.id => Doomed(p)'
      BY <1>2, <3>1, <3>4, RequestStaysDoomed
    <3>6. prepared'.id # o.id /\ o.id \in 1 .. uploads'
      BY <1>1, <1>2, <3>1 DEF Requests
    <3> QED  BY <3>3, <3>5, <3>6
  <2> QED
    BY <1>8, <2>1, <2>2, <2>3
       DEF StepKind, Quiet, Rewind, Crash, Start, Begin, Commit, LateArrival, Upload,
           SendOk, Unanswered, history
<1> QED  BY <1>7, <1>8 DEF RefusalInv

-----------------------------------------------------------------------------
(* One publication of a range per process.                                 *)

\* Facts about ids and ranges that the cases below share.
LEMMA IdsAndRanges ==
  ASSUME ShapeInv, LedgerInv
  PROVE  /\ uploads \in Nat /\ born \in Nat /\ NoPayload.id = 0
         /\ \A f \in registered : f.id \in 1 .. uploads /\ f.range \in Ranges
         /\ \A p \in delayed : p \in Requests /\ PayloadOK(p) /\ p.id \in 1 .. uploads /\ p.range \in Ranges
         /\ phase = "send" => prepared \in Requests /\ prepared # NoPayload /\ prepared.range = flush
BY DEF ShapeInv, LedgerInv, RequestsOK, PhaseOK, PayloadOK, PayloadSet, Requests, NoPayload

\* What is late stays doomed.
LEMMA LateStaysDoomed ==
  ASSUME ShapeInv, LedgerInv, StepKind, [Next]_vars
  PROVE  \A p \in delayed : Doomed(p) => Doomed(p)'
BY IdsAndRanges, RequestStaysDoomed

\* A request is applied: no other upload of this process has its range.
LEMMA OnceApplied ==
  ASSUME ShapeInv, LedgerInv, OnceInv, StepKind, [Next]_vars, NEW p, Applying(p),
         UNCHANGED <<born, committed, flush>>, delayed' \subseteq delayed,
         prepared'.id = prepared.id \/ phase' = "commit",
         phase' = phase \/ (phase = "send" /\ phase' \in {"write", "closing", "commit"})
  PROVE  OnceInv'
<1>1. /\ p.range = FileOf(p).range /\ p.id = FileOf(p).id
      /\ registered' = registered \cup {FileOf(p)} /\ ~Doomed(p)
      /\ p \in delayed \/ (phase = "send" /\ p = prepared)
  BY Verdicts DEF Applying, FileOf, Doomed
<1>2. \A f \in registered : f.id # p.id
  BY Verdicts DEF Applying, LedgerInv
<1>3. \A q \in delayed : Doomed(q) => Doomed(q)'
  BY LateStaysDoomed
<1>4. p = prepared /\ phase = "send" => p.range = flush /\ phase \in InFlush
  BY IdsAndRanges DEF InFlush
<1>5. \A f \in registered : f.id > born /\ p.id > born => f.range # p.range
  BY <1>1, <1>2, <1>4 DEF OnceInv, LateIsDoomed, HeldIsTheOne
<1>6. OncePerProcess'
  BY <1>5, <1>1 DEF OnceInv, OncePerProcess
<1>7. \A q \in delayed : q.id > born /\ p.id > born /\ q.range = p.range /\ q.id # p.id => Doomed(q)
  BY <1>1, <1>4 DEF OnceInv, LateIsDoomed, HeldIsTheOne
<1>8. LateIsDoomed'
  BY <1>7, <1>1, <1>3 DEF OnceInv, LateIsDoomed
<1>9. HeldIsTheOne'
  <2> SUFFICES ASSUME phase' \in InFlush PROVE HeldIsTheOne'
    BY DEF HeldIsTheOne
  <2>1. phase \in InFlush /\ prepared'.id = prepared.id
    BY DEF InFlush
  <2>2. FileOf(p).id > born /\ FileOf(p).range = flush => FileOf(p).id = prepared.id
    BY <1>1, <2>1 DEF OnceInv, HeldIsTheOne
  <2> QED  BY <1>1, <1>3, <2>1, <2>2 DEF OnceInv, HeldIsTheOne
<1>10. UploadsAreBehind'
  <2> SUFFICES ASSUME phase' \in InFlush \cup {"commit", "idle"} PROVE UploadsAreBehind'
    BY DEF UploadsAreBehind
  <2>1. phase \in InFlush \cup {"commit", "idle"} /\ (phase # "idle" => phase' # "idle")
    BY DEF InFlush
  <2>2. FileOf(p).id > born => FileOf(p).range.last < committed \/ (phase # "idle" /\ FileOf(p).range = flush)
    BY <1>1, <1>4, <2>1 DEF OnceInv, UploadsAreBehind
  <2> QED  BY <1>1, <2>1, <2>2 DEF OnceInv, UploadsAreBehind
<1> QED  BY <1>6, <1>8, <1>9, <1>10 DEF OnceInv

\* Nothing is applied or delayed and the pod stays with its flush or leaves it.
LEMMA OnceKept ==
  ASSUME ShapeInv, LedgerInv, OnceInv, StepKind, [Next]_vars,
         UNCHANGED <<registered, born, committed, flush>>, delayed' \subseteq delayed,
         phase' \in InFlush => phase \in InFlush /\ prepared'.id = prepared.id,
         phase' \in {"commit", "idle"} => phase' = phase \/ (phase \in InFlush /\ phase' = "commit")
  PROVE  OnceInv'
<1>1. \A q \in delayed : Doomed(q) => Doomed(q)'
  BY LateStaysDoomed
<1>2. OncePerProcess'
  BY DEF OnceInv, OncePerProcess
<1>3. LateIsDoomed'
  BY <1>1 DEF OnceInv, LateIsDoomed
<1>4. HeldIsTheOne'
  BY <1>1 DEF OnceInv, HeldIsTheOne
<1>5. UploadsAreBehind'
  BY DEF OnceInv, UploadsAreBehind, InFlush
<1> QED  BY <1>2, <1>3, <1>4, <1>5 DEF OnceInv

\* The steps that take up offsets, let go of them, or delay a request.
LEMMA OnceMoves ==
  ASSUME ShapeInv, LedgerInv, OnceInv, StepKind, [Next]_vars,
         Rewind \/ Start \/ Begin \/ Commit
  PROVE  OnceInv'
<1>1. \A q \in delayed : Doomed(q) => Doomed(q)'
  BY LateStaysDoomed
<1>2. UNCHANGED <<registered, delayed>>
  BY DEF Rewind, Start, Begin, Commit, catalog
<1>3. CASE Rewind
  <2>1. UNCHANGED born /\ phase' = "down"
    BY <1>3 DEF Rewind, Running, pod, history
  <2> QED
    BY <1>2, <1>1, <2>1
       DEF OnceInv, OncePerProcess, LateIsDoomed, HeldIsTheOne, UploadsAreBehind, InFlush
<1>4. CASE Start
  <2>1. born' = uploads
    BY <1>4 DEF Start
  <2>2. \A x \in registered \cup delayed : ~(x.id > born')
    BY <2>1, IdsAndRanges
  <2> QED  BY <1>2, <2>2 DEF OnceInv, OncePerProcess, LateIsDoomed, HeldIsTheOne, UploadsAreBehind
<1>5. CASE Begin
  <2>1. PICK last \in committed .. LogLength - 1 : flush' = [first |-> committed, last |-> last]
    BY <1>5 DEF Begin
  <2>2. UNCHANGED <<born, committed>> /\ phase = "idle" /\ phase' = "write"
    BY <1>5 DEF Begin, history
  <2>3. \A x \in registered \cup delayed : x.id > born => x.range.last < committed
    BY <2>2 DEF OnceInv, UploadsAreBehind
  <2>4. \A x \in registered \cup delayed : x.id > born => x.range # flush'
    <3>1. flush'.last >= committed /\ committed \in Nat
      BY <2>1 DEF ShapeInv, OffsetsOK
    <3>2. \A x \in registered \cup delayed : x.range \in Ranges
      BY IdsAndRanges
    <3> QED  BY <2>3, <3>1, <3>2 DEF Ranges
  <2>5. OncePerProcess' /\ LateIsDoomed'
    BY <1>2, <1>1, <2>2 DEF OnceInv, OncePerProcess, LateIsDoomed
  <2>6. HeldIsTheOne' /\ UploadsAreBehind'
    BY <1>2, <2>2, <2>3, <2>4 DEF HeldIsTheOne, UploadsAreBehind
  <2> QED  BY <2>5, <2>6 DEF OnceInv
<1>6. CASE Commit
  <2>1. /\ phase = "commit" /\ committed' = flush.last + 1 /\ phase' \notin InFlush \cup {"commit"}
        /\ UNCHANGED born
    BY <1>6 DEF Commit, InFlush, history
  <2>2. flush \in Ranges /\ flush.first = committed
    BY <2>1 DEF ShapeInv, OffsetsOK
  <2>3. flush.last < committed' /\ committed \in Nat /\ committed <= flush.last /\ flush.last \in Nat
    BY <2>1, <2>2 DEF Ranges
  <2>4. \A x \in registered \cup delayed : x.id > born => x.range.last < committed'
    <3>1. ASSUME NEW x \in registered \cup delayed, x.id > born
          PROVE  x.range.last < committed'
      <4>1. x.range.last < committed \/ x.range = flush
        BY <2>1, <3>1 DEF OnceInv, UploadsAreBehind
      <4>2. x.range.last \in Nat
        BY IdsAndRanges DEF Ranges
      <4> QED  BY <2>1, <2>3, <4>1, <4>2
    <3> QED  BY <3>1
  <2>5. OncePerProcess' /\ LateIsDoomed'
    BY <1>2, <1>1, <2>1 DEF OnceInv, OncePerProcess, LateIsDoomed
  <2>6. HeldIsTheOne' /\ UploadsAreBehind'
    BY <1>2, <2>1, <2>4 DEF HeldIsTheOne, UploadsAreBehind
  <2> QED  BY <2>5, <2>6 DEF OnceInv
<1> QED  BY <1>3, <1>4, <1>5, <1>6

\* The steps that prepare a payload, lose it to a refusal, or delay it.
LEMMA OncePayloads ==
  ASSUME ShapeInv, LedgerInv, OnceInv, StepKind, [Next]_vars,
         \/ \E valid \in BOOLEAN : Upload(valid)
         \/ Refusal
         \/ Unanswered(FALSE)
  PROVE  OnceInv'
<1>1. \A q \in delayed : Doomed(q) => Doomed(q)'
  BY LateStaysDoomed
<1>2. UNCHANGED <<registered, born, committed, flush>> /\ phase \in InFlush
  BY DEF Upload, Refusal, Unanswered, InFlush, catalog, history
<1>3. UploadsAreBehind /\ OncePerProcess'
  BY <1>2 DEF OnceInv, OncePerProcess
<1>4. phase' # "idle" /\ phase # "idle" /\ phase \in InFlush \cup {"commit", "idle"}
  BY <1>2 DEF Upload, Refusal, Unanswered, InFlush
<1>5. /\ \A f \in registered : f.id > born /\ f.range = flush => f.id = prepared.id
      /\ \A p \in delayed : p.id > born /\ p.range = flush => p.id = prepared.id \/ Doomed(p)
  BY <1>2 DEF OnceInv, HeldIsTheOne
<1>6. CASE \E valid \in BOOLEAN : Upload(valid)
  <2>1. UNCHANGED delayed /\ prepared.id = 0
    BY <1>6, IdsAndRanges DEF Upload, ShapeInv, PhaseOK
  <2>2. LateIsDoomed'
    BY <1>1, <1>2, <2>1 DEF OnceInv, LateIsDoomed
  <2>3. \A x \in registered \cup delayed : x.id # prepared.id
    BY <2>1, IdsAndRanges
  <2>4. HeldIsTheOne'
    BY <1>1, <1>2, <1>5, <2>1, <2>3 DEF HeldIsTheOne
  <2>5. UploadsAreBehind'
    BY <1>2, <1>3, <1>4, <2>1 DEF UploadsAreBehind
  <2> QED  BY <1>3, <2>2, <2>4, <2>5 DEF OnceInv
<1>7. CASE Refusal
  <2>1. UNCHANGED delayed /\ phase = "send"
    BY <1>7 DEF Refusal
  <2>2. Doomed(prepared) /\ \A r \in receipts : r.key # prepared.key
    BY <1>7, Verdicts DEF Refusal
  <2>3. \A f \in registered : f.id # prepared.id
    BY <2>1, <2>2, IdsAndRanges DEF LedgerInv
  <2>4. \A p \in delayed : p.id = prepared.id => Doomed(p)
    BY <2>1, <2>2, IdsAndRanges, DoomedAlike DEF LedgerInv
  <2>5. LateIsDoomed'
    BY <1>1, <1>2, <2>1 DEF OnceInv, LateIsDoomed
  <2>6. HeldIsTheOne'
    BY <1>1, <1>2, <1>5, <2>1, <2>3, <2>4 DEF HeldIsTheOne
  <2>7. UploadsAreBehind'
    BY <1>2, <1>3, <1>4, <2>1 DEF UploadsAreBehind
  <2> QED  BY <1>3, <2>5, <2>6, <2>7 DEF OnceInv
<1>8. CASE Unanswered(FALSE)
  <2>1. delayed' = delayed \cup {prepared} /\ UNCHANGED prepared /\ prepared.range = flush
    BY <1>8, IdsAndRanges DEF Unanswered
  <2>2. LateIsDoomed'
    BY <1>1, <1>2, <1>5, <2>1 DEF OnceInv, LateIsDoomed
  <2>3. HeldIsTheOne'
    BY <1>1, <1>2, <1>5, <2>1 DEF HeldIsTheOne
  <2>4. UploadsAreBehind'
    BY <1>2, <1>3, <1>4, <2>1 DEF UploadsAreBehind
  <2> QED  BY <1>3, <2>2, <2>3, <2>4 DEF OnceInv
<1> QED  BY <1>6, <1>7, <1>8

\* Every step keeps a range published once.
LEMMA OnceStep ==
  ASSUME ShapeInv, LedgerInv, OnceInv, StepKind, [Next]_vars
  PROVE  OnceInv'
<1>1. phase = "send" => phase \in InFlush /\ prepared \in Requests
  BY IdsAndRanges DEF InFlush
<1>2. ASSUME NEW p \in Requests, Process(p)
      PROVE  \/ UNCHANGED <<registered, receipts>>
             \/ /\ Verdict(p) = "applied" /\ registered' = registered \cup {FileOf(p)}
                /\ receipts' = receipts \cup {ReceiptOf(p)}
  BY <1>2 DEF Process, FileOf, ReceiptOf
<1>3. CASE Quiet
  <2>1. prepared'.id = prepared.id
    BY <1>3, AgedOK DEF Quiet, Aged, ShapeInv, RequestsOK
  <2>2. /\ phase' \in InFlush => phase \in InFlush
        /\ phase' \in {"commit", "idle"} => phase' = phase
    BY <1>3 DEF Quiet, InFlush
  <2>3. UNCHANGED <<registered, delayed, committed, flush, born>>
    BY <1>3 DEF Quiet, history
  <2> QED  BY <2>1, <2>2, <2>3, OnceKept
<1>4. CASE Crash \/ Close \/ UploadLost \/ SendReused
  <2>1. UNCHANGED <<registered, delayed, committed, flush, born>>
    BY <1>4 DEF Crash, Close, UploadLost, SendReused, catalog
  <2>2. /\ phase' \in InFlush => phase \in InFlush /\ prepared'.id = prepared.id
        /\ phase' \in {"commit", "idle"} => phase \in InFlush /\ phase' = "commit"
    BY <1>4 DEF Crash, Close, UploadLost, SendReused, InFlush
  <2> QED  BY <2>1, <2>2, OnceKept
<1>5. ASSUME NEW p \in delayed, LateArrival(p)
      PROVE  OnceInv'
  <2>1. /\ p \in Requests /\ delayed' \subseteq delayed /\ Process(p)
        /\ UNCHANGED <<table, expired, uploads, born, committed, flush, phase, prepared>>
    BY <1>5, IdsAndRanges DEF LateArrival, pod, history
  <2>2. CASE UNCHANGED <<registered, receipts>>
    BY <2>1, <2>2, OnceKept
  <2>3. CASE Applying(p)
    BY <2>1, <2>3, OnceApplied
  <2> QED  BY <1>2, <2>1, <2>2, <2>3 DEF Applying
<1>6. CASE SendOk \/ Unanswered(TRUE)
  <2>1. /\ phase = "send" /\ prepared \in Requests /\ Process(prepared)
        /\ UNCHANGED <<table, expired, uploads, born, committed, flush, delayed>>
        /\ phase' \in {"write", "closing", "commit"}
        /\ prepared' = prepared \/ phase' = "commit"
    BY <1>6, <1>1 DEF SendOk, Unanswered, history
  <2>2. CASE UNCHANGED <<registered, receipts>>
    BY <1>1, <2>1, <2>2, OnceKept DEF InFlush
  <2>3. CASE Applying(prepared)
    <3> DEFINE p == prepared
    <3> QED  BY <2>1, <2>3, OnceApplied
  <2> QED  BY <1>2, <2>1, <2>2, <2>3 DEF Applying
<1>7. CASE Rewind \/ Start \/ Begin \/ Commit
  BY <1>7, OnceMoves
<1>8. CASE (\E valid \in BOOLEAN : Upload(valid)) \/ Refusal \/ Unanswered(FALSE)
  BY <1>8, OncePayloads
<1> QED  BY <1>3, <1>4, <1>5, <1>6, <1>7, <1>8 DEF StepKind

-----------------------------------------------------------------------------
(* What is acknowledged is published.                                      *)

\* The sink s2 has the handle that s has, for the same incarnation.
SameHandle(s2, s) == s2.handle = s.handle /\ s2.uuid = s.uuid

\* How the handle moves: it is kept, dropped, or resolved to the live table.
HandleMove ==
  \/ SameHandle(sink', sink)
  \/ ~sink'.handle
  \/ phase \in InFlush /\ phase' # "idle" /\ live' # 0 /\ sink'.uuid = live'

\* Every step moves the handle in one of these ways.
LEMMA EveryHandleMove ==
  ASSUME ShapeInv, [Next]_vars
  PROVE  HandleMove
<1>1. PodOK /\ CatalogOK
  BY DEF ShapeInv
<1>2. ~ColdSink.handle
  BY DEF ColdSink
<1>3. /\ \A l, c : SameHandle(Adopted(sink, l, c), sink) /\ SameHandle(Approved(Adopted(sink, l, c)), sink)
                   /\ Resolved(Adopted(sink, l, c)).uuid = live
                   /\ Resolved(Approved(Adopted(sink, l, c))).uuid = live
      /\ SameHandle(Approved(sink), sink)
      /\ \A c : LET s == [sink EXCEPT !.client = c] IN SameHandle(s, sink)
                /\ (c.incarnation = live' => Resolved(s).uuid = live')
      /\ \A a, b : SameHandle([sink EXCEPT !.shape.age = a, !.client.age = b], sink)
  BY <1>1 DEF PodOK, SinkOK, SinkSet, Adopted, Resolved, Approved, SameHandle
<1>4. /\ SameHandle(sink, sink) /\ SameHandle(ShapeDropped(sink), sink)
      /\ SameHandle(ClientDropped(sink), sink) /\ SameHandle(ShapeDropped(ClientDropped(sink)), sink)
  BY <1>1 DEF PodOK, SinkOK, SinkSet, SameHandle, ShapeDropped, ClientDropped
<1>5. CASE Tick
  BY <1>5, <1>1, <1>2, <1>4, <1>3 DEF Tick, HandleMove, pod
<1>6. CASE Drop
  BY <1>6, <1>1, <1>2, <1>4 DEF Drop, HandleMove, pod
<1>7. CASE \E l \in {"none", Want} : CreateElsewhere(l)
  BY <1>7, <1>1, <1>2, <1>4 DEF CreateElsewhere, HandleMove, pod
<1>8. CASE \E l \in Layouts : AlterElsewhere(l)
  BY <1>8, <1>1, <1>2, <1>4 DEF AlterElsewhere, HandleMove, pod
<1>9. CASE Expire
  BY <1>9, <1>1, <1>2, <1>4 DEF Expire, HandleMove, pod
<1>10. CASE \E p \in delayed : LateArrival(p)
  BY <1>10, <1>1, <1>2, <1>4 DEF LateArrival, HandleMove, pod
<1>11. CASE Rewind
  BY <1>11, <1>1, <1>2, <1>4 DEF Rewind, Running, HandleMove, pod
<1>12. CASE Crash
  BY <1>12, <1>1, <1>2, <1>4 DEF Crash, Running, HandleMove, pod
<1>13. CASE CallFails
  BY <1>13, <1>1, <1>2, <1>4, RetryGoes DEF CallFails, BeforeUpload, HandleMove, pod
<1>14. CASE CallRefused
  BY <1>14, <1>1, <1>2, <1>4 DEF CallRefused, Permanent, HandleMove, pod
<1>15. CASE \E valid \in BOOLEAN : Upload(valid)
  BY <1>15, <1>1, <1>2, <1>4, <1>3 DEF Upload, HandleMove, pod
<1>16. CASE \E landed \in BOOLEAN : UploadFails(landed)
  BY <1>16, <1>1, <1>2, <1>4, RetryGoes DEF UploadFails, HandleMove, pod
<1>17. CASE SendUnavailable
  BY <1>17, <1>1, <1>2, <1>4, RetryGoes DEF SendUnavailable, Held, HandleMove, pod
<1>18. CASE \E arrives \in BOOLEAN : SendTimesOut(arrives)
  BY <1>18, <1>1, <1>2, <1>4, RetryGoes DEF SendTimesOut, Held, HandleMove, pod
<1>19. CASE Start
  BY <1>19, <1>1, <1>2, <1>4 DEF Start, HandleMove, pod
<1>20. CASE Begin
  BY <1>20, <1>1, <1>2, <1>4 DEF Begin, HandleMove, pod
<1>21. CASE Commit
  BY <1>21, <1>1, <1>2, <1>4 DEF Commit, HandleMove, pod
<1>22. CASE Close
  BY <1>22, <1>1, <1>2, <1>4 DEF Close, HandleMove, pod
<1>23. CASE Write
  BY <1>23, <1>1, <1>2, <1>4 DEF Write, HandleMove, pod
<1>24. CASE ResolveFound
  BY <1>24, <1>1, <1>2, <1>4, <1>3
     DEF ResolveFound, Permanent, Reread, InFlush, catalog, table, HandleMove, pod
<1>24a. CASE ResolveMissing
  BY <1>24a, <1>1, <1>2, <1>4 DEF ResolveMissing, HandleMove, pod
<1>25. CASE ResolveCreates
  <2> DEFINE s == [sink EXCEPT !.client = [incarnation |-> made + 1, basis |-> changes + 1, age |-> 0]]
  <2>1. /\ live' = made + 1 /\ sink' \in {s, Resolved(s)} /\ phase = "create"
        /\ phase' \in {"evolve", "declare_new"}
    BY <1>25 DEF ResolveCreates, Creating
  <2>2. live' # 0
    BY <1>1, <2>1 DEF CatalogOK
  <2>3. SameHandle(s, sink) /\ Resolved(s).uuid = live'
    BY <1>1, <2>1 DEF PodOK, SinkOK, SinkSet, Resolved, SameHandle
  <2> QED  BY <2>1, <2>2, <2>3 DEF HandleMove, InFlush
<1>26. CASE Declare
  BY <1>26, <1>1, <1>2, <1>4, <1>3
     DEF Declare, Declaring, Declared, InFlush, Altering, HandleMove, pod
<1>27. CASE DeclareConflicts
  BY <1>27, <1>1, <1>2, <1>4, <1>3
     DEF DeclareConflicts, Declaring, Permanent, Declared, Reread, InFlush, catalog, table, HandleMove, pod
<1>28. CASE EvolveNothing
  BY <1>28, <1>1, <1>2, <1>4 DEF EvolveNothing, HandleMove, pod
<1>29. CASE EvolveColumn
  BY <1>29, <1>1, <1>2, <1>4, <1>3 DEF EvolveColumn, Reread, Altering, HandleMove, pod
<1>30. CASE TakeShape
  BY <1>30, <1>1, <1>2, <1>4, <1>3 DEF TakeShape, Permanent, Reread, HandleMove, pod
<1>31. CASE UploadPinned
  <2>1. sink' \in {ColdSink, [sink EXCEPT !.client = Client]}
    BY <1>31, <1>1, RetryGoes DEF UploadPinned
  <2>2. SameHandle([sink EXCEPT !.client = Client], sink)
    BY <1>1 DEF PodOK, SinkOK, SinkSet, SameHandle
  <2> QED  BY <1>2, <2>1, <2>2 DEF HandleMove
<1>32. CASE NameIsGone
  BY <1>32, <1>1, <1>2, <1>4, RetryGoes DEF NameIsGone, Declaring, HandleMove, pod
<1>33. CASE SendOk
  BY <1>33, <1>1, <1>2, <1>4 DEF SendOk, HandleMove, pod
<1>34. CASE SendReused
  BY <1>34, <1>1, <1>2, <1>4 DEF SendReused, HandleMove, pod
<1>35. CASE SendRecreated
  BY <1>35, <1>1, <1>2, <1>4, RetryGoes DEF SendRecreated, Moved, Discarded, HandleMove, pod
<1>36. CASE SendAfterDDL
  BY <1>36, <1>1, <1>2, <1>4, RetryGoes DEF SendAfterDDL, Moved, Discarded, HandleMove, pod
<1>37. CASE SendExpired
  BY <1>37, <1>1, <1>2, <1>4, RetryGoes DEF SendExpired, Moved, Discarded, HandleMove, pod
<1>38. CASE SendRefused
  BY <1>38, <1>1, <1>2, <1>4, RetryGoes DEF SendRefused, Moved, Discarded, HandleMove, pod
<1>39. CASE SendInvalid
  BY <1>39, <1>1, <1>2, <1>4 DEF SendInvalid, HandleMove, pod
<1>40. CASE UNCHANGED vars
  BY <1>40, <1>1, <1>2, <1>4 DEF vars, HandleMove, pod
<1> QED
  BY <1>5, <1>6, <1>7, <1>8, <1>9, <1>10, <1>11, <1>12, <1>13, <1>14, <1>15, <1>16, <1>17, <1>18,
     <1>19, <1>20, <1>21, <1>22, <1>23, <1>24, <1>24a, <1>25, <1>26, <1>27, <1>28, <1>29, <1>30, <1>31,
     <1>32, <1>33, <1>34, <1>35, <1>36, <1>37, <1>38, <1>39, <1>40
     DEF Next, Environment, Failing, Progress

\* What an applied request leaves in the ledger.
LEMMA AppliedReceipt ==
  ASSUME ShapeInv, NEW p, Applying(p)
  PROVE  /\ receipts' = receipts \cup {ReceiptOf(p)} /\ FileOf(p) \in registered'
         /\ ReceiptOf(p).key.range = p.range /\ ReceiptOf(p).key.incarnation = live
         /\ FileOf(p).range = p.range /\ FileOf(p).incarnation = live
         /\ live # 0 /\ live = p.incarnation /\ p \in Requests
<1>1. p \in Requests /\ live # 0 /\ live = p.incarnation
  BY Verdicts DEF Applying
<1>2. p.key = FlushKey(p.incarnation, p.range)
  BY <1>1 DEF ShapeInv, RequestsOK, PayloadOK, Requests
<1>3. p.key.range = p.range /\ p.key.incarnation = live
  BY <1>1, <1>2 DEF FlushKey
<1>4. ReceiptOf(p).key = p.key /\ FileOf(p).range = p.range /\ FileOf(p).incarnation = live
  BY DEF ReceiptOf, FileOf
<1> QED  BY <1>1, <1>3, <1>4 DEF Applying

\* Every request is an old one, or the one prepared now for the offsets in flight.
LEMMA RequestsFrom ==
  ASSUME ShapeInv, StepKind
  PROVE  \A p \in Requests' :
           \/ \E q \in Requests : p.id = q.id /\ SameRequest(p, q)
           \/ phase = "upload" /\ p = prepared' /\ p.range = flush /\ p.incarnation = sink.uuid
<1>1. CASE ~ \E valid \in BOOLEAN : Upload(valid)
  BY <1>1, RequestsKept
<1>2. CASE \E valid \in BOOLEAN : Upload(valid)
  <2>1. /\ phase = "upload" /\ prepared'.range = flush /\ prepared'.incarnation = sink.uuid
        /\ delayed' = delayed
    BY <1>2 DEF Upload
  <2>2. \A p \in delayed : p \in Requests /\ SameRequest(p, p)
    BY DEF Requests, SameRequest
  <2> QED  BY <2>1, <2>2 DEF Requests
<1> QED  BY <1>1, <1>2


\* An operator's rewind is the only step that moves the committed offset back.
LEMMA CommittedGrows ==
  ASSUME ShapeInv, StepKind, ~Rewind
  PROVE  /\ committed \in Nat /\ committed' \in Nat /\ committed <= committed'
         /\ Commit => committed < committed'
<1>1. committed \in Nat
  BY DEF ShapeInv, OffsetsOK
<1>2. CASE Commit
  <2>1. committed' = flush.last + 1 /\ flush \in Ranges /\ flush.first = committed
    BY <1>2 DEF Commit, ShapeInv, OffsetsOK
  <2>2. flush.first \in Nat /\ flush.last \in Nat /\ flush.first <= flush.last
    BY <2>1 DEF Ranges
  <2> QED  BY <1>1, <2>1, <2>2
<1>3. CASE UNCHANGED committed /\ ~Commit
  BY <1>1, <1>3
<1> QED
  BY <1>2, <1>3
     DEF StepKind, Quiet, Crash, Start, Begin, Close, LateArrival, Upload,
         UploadLost, SendOk, SendReused, Refusal, Unanswered

\* Without a rewind nothing is prepared or published beyond the committed offset.
LEMMA NothingAheadStep ==
  ASSUME ShapeInv, LedgerInv, NothingAhead, StepKind, ~Rewind
  PROVE  NothingAhead'
<1>1. /\ \A p \in Requests : p.range.first \in Nat /\ p.range.first <= committed
      /\ \A r \in receipts : r.key.range.first \in Nat /\ r.key.range.first <= committed
  <2>1. \A x \in Ranges : x.first \in Nat
    BY DEF Ranges
  <2>2. \A p \in Requests : p.range \in Ranges
    BY DEF ShapeInv, RequestsOK, Requests, PayloadOK, PayloadSet
  <2>3. \A r \in receipts : r.key.range \in Ranges
    BY DEF LedgerInv
  <2> QED  BY <2>1, <2>2, <2>3 DEF NothingAhead
<1>2. /\ \A p \in Requests : p.range.first <= committed'
      /\ \A r \in receipts : r.key.range.first <= committed'
  BY <1>1, CommittedGrows
<1>3. phase = "upload" => flush.first <= committed'
  BY CommittedGrows DEF ShapeInv, OffsetsOK, InFlush
<1>4. \A p \in Requests' : p.range.first <= committed'
  BY <1>2, <1>3, RequestsFrom DEF SameRequest
<1>5. \A r \in receipts' : r.key.range.first <= committed'
  BY <1>2, BooksMove, AppliedReceipt
<1> QED  BY <1>4, <1>5 DEF NothingAhead

\* How the pod comes to be idle.
LEMMA IdleFrom ==
  ASSUME ShapeInv, StepKind, ~Rewind, phase' = "idle"
  PROVE  \/ phase = "idle" /\ UNCHANGED committed
         \/ ~sink'.handle
         \/ Commit /\ phase = "commit" /\ UNCHANGED sink
<1>1. phase = "down" => ~sink.handle
  BY DEF ShapeInv, PhaseOK, ColdSink
<1> QED
  BY <1>1
     DEF StepKind, Quiet, InFlush, Crash, Start, Begin, Commit, Close, LateArrival, Upload,
         UploadLost, SendOk, SendReused, Refusal, Unanswered, pod

\* A handle kept into the next flush meets no request for its range.
LEMMA KeptHandleStep ==
  ASSUME ShapeInv, LedgerInv, NothingAhead, KeptHandleIsFresh, StepKind, HandleMove, ~Rewind
  PROVE  KeptHandleIsFresh'
<1> SUFFICES ASSUME phase' = "idle", sink'.handle
             PROVE  /\ \A p \in Requests' : p.range.first < committed'
                    /\ \A r \in receipts' : r.key.range.first < committed'
  BY DEF KeptHandleIsFresh
<1>1. phase # "upload"
  BY IdleFrom DEF Commit
<1>2. /\ \A p \in Requests : p.range.first < committed'
      /\ \A r \in receipts : r.key.range.first < committed'
  <2>1. CASE phase = "idle" /\ UNCHANGED committed
    <3>1. sink.handle
      BY <2>1 DEF HandleMove, SameHandle, InFlush
    <3> QED  BY <2>1, <3>1 DEF KeptHandleIsFresh
  <2>2. CASE Commit
    <3>1. committed \in Nat /\ committed' \in Nat /\ committed < committed'
      BY <2>2, CommittedGrows
    <3>2. \A x \in Ranges : x.first \in Nat
      BY DEF Ranges
    <3>3. /\ \A p \in Requests : p.range \in Ranges
          /\ \A r \in receipts : r.key.range \in Ranges
      BY DEF ShapeInv, RequestsOK, Requests, PayloadOK, PayloadSet, LedgerInv
    <3> QED  BY <3>1, <3>2, <3>3 DEF NothingAhead
  <2> QED  BY <2>1, <2>2, IdleFrom
<1>3. \A p \in Requests' : p.range.first < committed'
  BY <1>1, <1>2, RequestsFrom DEF SameRequest
<1>4. \A r \in receipts' : r.key.range.first < committed'
  BY <1>2, BooksMove, AppliedReceipt
<1> QED  BY <1>3, <1>4

\* How the pod comes to be in a flush.
LEMMA InFlushFrom ==
  ASSUME ShapeInv, StepKind, phase' \in InFlush
  PROVE  Begin \/ (phase \in InFlush /\ UNCHANGED <<flush, since>>)
BY DEF StepKind, Quiet, Rewind, Running, InFlush, Crash, Start, Begin, Commit, Close, LateArrival,
       Upload, UploadLost, SendOk, SendReused, Refusal, Unanswered, pod

\* A receipt is for an incarnation there has been.
LEMMA ReceiptKeys ==
  ASSUME ShapeInv, LedgerInv
  PROVE  \A r \in receipts : r.key.range \in Ranges /\ r.key.incarnation \in Nat
<1>1. made \in Nat
  BY DEF ShapeInv, CatalogOK
<1>2. \A i \in 1 .. made : i \in Nat
  BY <1>1
<1> QED  BY <1>2 DEF LedgerInv

\* A receipt from before the flush never answers for its payload.
LEMMA OldReceiptsStep ==
  ASSUME ShapeInv, LedgerInv, AckInv, StepKind, HandleMove, TableMove, CatalogOK', expired' \in Nat
  PROVE  OldReceiptsMiss'
<1> SUFFICES ASSUME phase' \in InFlush PROVE OldReceiptsMiss'
  BY DEF OldReceiptsMiss
<1>1. /\ live \in Nat /\ made \in Nat /\ live <= made /\ since \in Nat /\ since <= made + 1
      /\ live' = live \/ live' = 0 \/ live' = made + 1
  BY TableMoves DEF ShapeInv, CatalogOK, OffsetsOK
<1>2. CASE Begin
  <2>1. /\ phase = "idle" /\ since' = (IF live = 0 THEN made + 1 ELSE live) /\ flush'.first = committed
        /\ UNCHANGED <<live, receipts, sink, prepared>>
    BY <1>2 DEF Begin, catalog, table
  <2>2. live' = 0 \/ since' <= live'
    BY <1>1, <2>1
  <2>3. prepared' = NoPayload
    BY <2>1 DEF ShapeInv, PhaseOK
  <2>4. committed \in Nat
    BY DEF ShapeInv, OffsetsOK
  <2>5. \A r \in receipts' : r.key.range = flush' => ~sink'.handle
    <3>1. sink.handle => \A r \in receipts : r.key.range.first < committed
      BY <2>1 DEF AckInv, KeptHandleIsFresh
    <3> QED  BY <2>1, <2>4, <3>1
  <2> QED  BY <2>2, <2>3, <2>5 DEF OldReceiptsMiss
<1>3. CASE phase \in InFlush /\ UNCHANGED <<flush, since>>
  <2>1. live = 0 \/ since <= live
    BY <1>3 DEF AckInv, OldReceiptsMiss
  <2>2. live' = 0 \/ since' <= live'
    <3>1. since <= live => (live' = live => since <= live')
      OBVIOUS
    <3> QED  BY <1>3, <1>1, <2>1, <3>1
  <2>3. ASSUME NEW r \in receipts', r.key.range = flush', r.key.incarnation < since'
        PROVE  /\ r \in receipts
               /\ sink.handle => sink.uuid # r.key.incarnation
               /\ prepared # NoPayload => prepared.incarnation # r.key.incarnation
    <3>1. ASSUME NEW p \in Requests, Applying(p), r = ReceiptOf(p)
          PROVE  FALSE
      BY <1>3, <1>1, <2>1, <2>3, <3>1, AppliedReceipt
    <3>2. r \in receipts
      BY <3>1, BooksMove, AppliedReceipt
    <3> QED  BY <1>3, <2>3, <3>2 DEF AckInv, OldReceiptsMiss
  <2>4. ASSUME NEW r \in receipts', r.key.range = flush', r.key.incarnation < since', sink'.handle
        PROVE  sink'.uuid # r.key.incarnation
    <3>1. CASE SameHandle(sink', sink)
      BY <2>3, <2>4, <3>1 DEF SameHandle
    <3>2. CASE live' # 0 /\ sink'.uuid = live'
      <4>1. r.key.incarnation \in Nat
        BY <2>3, <2>4, ReceiptKeys
      <4>2. since' <= live' /\ since' \in Nat /\ live' \in Nat
        BY <1>3, <1>1, <2>2, <3>2 DEF CatalogOK
      <4> QED  BY <2>4, <3>2, <4>1, <4>2
    <3> QED  BY <2>4, <3>1, <3>2 DEF HandleMove
  <2>5. ASSUME NEW r \in receipts', r.key.range = flush', r.key.incarnation < since', prepared' # NoPayload
        PROVE  prepared'.incarnation # r.key.incarnation
    <3>1. CASE Quiet
      <4>1. prepared # NoPayload /\ prepared'.incarnation = prepared.incarnation
        BY <2>5, <3>1, AgedOK DEF Quiet, Aged, ShapeInv, RequestsOK, SameRequest
      <4> QED  BY <2>3, <2>5, <4>1
    <3>2. CASE \E valid \in BOOLEAN : Upload(valid)
      <4>1. prepared'.incarnation = sink.uuid /\ sink.handle
        BY <3>2 DEF Upload, ShapeInv, PhaseOK
      <4> QED  BY <2>3, <2>5, <4>1
    <3>3. CASE prepared' = prepared
      BY <2>3, <2>5, <3>3
    <3> QED
      BY <2>5, <3>1, <3>2, <3>3
         DEF StepKind, Rewind, Crash, Start, Begin, Commit, Close, LateArrival,
             UploadLost, SendOk, SendReused, Refusal, Unanswered, pod
  <2> QED  BY <2>2, <2>4, <2>5 DEF OldReceiptsMiss
<1> QED  BY <1>2, <1>3, InFlushFrom

\* Offsets become committable only over a published upload of theirs.
LEMMA AckedStep ==
  ASSUME ShapeInv, LedgerInv, AckInv, StepKind
  PROVE  AckedIsPublished'
<1> SUFFICES ASSUME phase' = "commit"
             PROVE  \E f \in registered' : f.range = flush' /\ f.incarnation >= since'
  BY DEF AckedIsPublished
<1>1. CASE phase = "commit" /\ UNCHANGED <<flush, since>>
  BY <1>1, BooksGrow DEF AckInv, AckedIsPublished
<1>2. CASE SendOk \/ SendReused
  <2>1. /\ phase = "send" /\ UNCHANGED <<flush, since>> /\ prepared \in Requests /\ prepared # NoPayload
        /\ prepared.range = flush /\ prepared.key = FlushKey(prepared.incarnation, prepared.range)
    BY <1>2, IdsAndRanges DEF SendOk, SendReused, ShapeInv, RequestsOK, PayloadOK
  <2>2. ASSUME NEW f \in registered', f.range = flush, f.incarnation >= since
        PROVE  \E g \in registered' : g.range = flush' /\ g.incarnation >= since'
    BY <2>1, <2>2
  <2>3. CASE \E r \in receipts : r.key = prepared.key
    <3>1. PICK r \in receipts : r.key = prepared.key
      BY <2>3
    <3>2. r.key.range = flush /\ r.key.incarnation = prepared.incarnation
      BY <2>1, <3>1 DEF FlushKey
    <3>3. ~(r.key.incarnation < since)
      BY <2>1, <3>2 DEF AckInv, OldReceiptsMiss, InFlush
    <3>4. r.key.incarnation >= since
      BY <3>3, ReceiptKeys DEF ShapeInv, OffsetsOK
    <3>5. \E f \in registered : f.range = r.key.range /\ f.incarnation = r.key.incarnation
      BY DEF LedgerInv
    <3> QED  BY <2>2, <3>2, <3>4, <3>5, BooksGrow
  <2>4. CASE SendOk /\ Verdict(prepared) = "applied"
    <3>1. FileOf(prepared) \in registered' /\ FileOf(prepared).range = flush /\ FileOf(prepared).incarnation = live
      BY <2>1, <2>4 DEF SendOk, Process, FileOf
    <3>2. live \in Nat /\ since \in Nat /\ since <= live
      BY <2>1, <2>4, Verdicts DEF AckInv, OldReceiptsMiss, InFlush, ShapeInv, CatalogOK, OffsetsOK
    <3>3. FileOf(prepared).incarnation >= since
      BY <3>1, <3>2
    <3> QED  BY <2>1, <3>1, <3>3
  <2> QED  BY <1>2, <2>3, <2>4, Verdicts DEF SendOk, SendReused
<1> QED
  BY <1>1, <1>2
     DEF StepKind, Quiet, Rewind, Running, InFlush, Crash, Start, Begin, Commit, Close, LateArrival,
         Upload, UploadLost, Refusal, Unanswered, pod

-----------------------------------------------------------------------------
(* Files are written under the layout of their table.                      *)

\* A shape ages out before the client's cache does.
LEMMA ShapeExpiresFirst == LiveInfoTTL \in Nat /\ ClientTTL \in Nat /\ LiveInfoTTL < ClientTTL
BY TimeAssumption DEF LiveInfoTTL, ClientTTL

\* At the upload the client's cache is in use as it is.
LEMMA ClientInUse ==
  ASSUME ShapeInv, LayoutInv, phase = "upload"
  PROVE  /\ Client = sink.client /\ ClientIsUsable
         /\ [sink EXCEPT !.client = Client] = sink
         /\ sink.shape # NoShape /\ sink.handle
<1>1. sink.shape # NoShape
  BY LayoutAssumption DEF LayoutInv, UploadsDeclared, NoShape
<1>2. sink.client # NoClient
  BY <1>1 DEF LayoutInv, CachesAgree, AgesAgree
<1>3. /\ sink.client.age \in Nat /\ sink.shape.age \in Nat
      /\ sink.client.age <= sink.shape.age /\ sink.shape.age <= LiveInfoTTL
  BY DEF ShapeInv, PodOK, SinkOK, SinkSet, LayoutInv, UploadsDeclared
<1>4. sink.client.age < ClientTTL
  BY <1>3, ShapeExpiresFirst
<1>5. Client = sink.client /\ ClientIsUsable
  BY <1>2, <1>4 DEF Client, ClientIsUsable
<1>6. [sink EXCEPT !.client = sink.client] = sink
  BY DEF ShapeInv, PodOK, SinkOK, SinkSet
<1> QED  BY <1>1, <1>5, <1>6 DEF ShapeInv, PhaseOK

\* What the table was known to be stays known until it is altered.
LEMMA StillHasStays ==
  ASSUME CatalogOK, TableMove, NEW i \in Nat, NEW b \in Nat, NEW l, i <= made, b <= changes,
         StillHas(i, b, l)
  PROVE  StillHas(i, b, l)'
<1>1. CASE UNCHANGED table
  BY <1>1 DEF table, StillHas
<1>2. CASE \E m \in Layouts : Altering(m)
  <2>1. changes \in Nat /\ altered' = changes + 1
    BY <1>2 DEF Altering, CatalogOK
  <2>2. ~(altered' <= b)
    BY <2>1
  <2> QED  BY <2>2 DEF StillHas
<1>3. CASE \E m \in Layouts : Creating(m)
  <2>1. made \in Nat /\ live' = made + 1
    BY <1>3 DEF Creating, CatalogOK
  <2>2. live' # i
    BY <2>1
  <2> QED  BY <2>2 DEF StillHas
<1>4. CASE live' = 0
  BY <1>4 DEF StillHas
<1> QED  BY <1>1, <1>2, <1>3, <1>4 DEF TableMove

\* How the caches of the sink move together.
SameCaches(s) == s.shape = sink.shape /\ s.client = sink.client /\ s.handle = sink.handle
FreshCaches(s) ==
  /\ live' # 0 /\ s.shape = [spec |-> layout', age |-> 0]
  /\ s.client.incarnation = live' /\ s.client.age = 0
CacheMove ==
  \/ SameCaches(sink') /\ (phase = "closing" => phase' = "closing")
  \/ sink'.shape = NoShape
  \/ FreshCaches(sink') /\ (phase' = "closing" \/ sink'.handle \/ Want # "none")
  \/ Tick
  \/ /\ sink'.shape = sink.shape /\ sink'.client.incarnation # 0 /\ sink'.client.age = 0
     /\ ~sink'.handle /\ Want # "none"

\* Every step moves the caches in one of these ways, and approves the declared layout only.
LEMMA EveryCacheMove ==
  ASSUME ShapeInv, LayoutInv, [Next]_vars
  PROVE  CacheMove /\ sink'.verdict \in {"unread", Want}
<1> DEFINE VerdictOK(s) == s.verdict \in {"unread", Want}
<1> DEFINE Moves(s) ==
      \/ SameCaches(s) /\ VerdictOK(s)
      \/ s.shape = NoShape /\ VerdictOK(s)
<1>1. PodOK /\ CatalogOK /\ VerdictOK(sink)
  BY DEF ShapeInv, LayoutInv, CachesAgree
<1>2. ColdSink.shape = NoShape /\ VerdictOK(ColdSink)
  BY DEF ColdSink, Unreconciled
<1>3. SameCaches(sink)
  BY DEF SameCaches
<1>4. /\ ShapeDropped(sink).shape = NoShape /\ VerdictOK(ShapeDropped(sink))
      /\ ShapeDropped(ClientDropped(sink)).shape = NoShape /\ VerdictOK(ShapeDropped(ClientDropped(sink)))
  BY <1>1 DEF PodOK, SinkOK, SinkSet, ShapeDropped, ClientDropped, Unreconciled
<1>5. phase = "closing" => phase \notin InFlush \cup {"commit", "idle", "down"}
  BY DEF InFlush
<1>6. ASSUME NEW l, NEW c, live # 0, live' = live, layout' = l
      PROVE  LET s == Adopted(sink, l, c) IN
             /\ FreshCaches(s) /\ FreshCaches(Resolved(s)) /\ FreshCaches(Approved(s))
             /\ FreshCaches(Resolved(Approved(s)))
             /\ VerdictOK(s) /\ VerdictOK(Resolved(s))
             /\ l = Want => VerdictOK(Approved(s)) /\ VerdictOK(Resolved(Approved(s)))
             /\ s.handle = sink.handle /\ Approved(s).handle = sink.handle
             /\ Resolved(s).handle /\ Resolved(Approved(s)).handle
             /\ s.shape.spec = l
  BY <1>1, <1>6 DEF PodOK, SinkOK, SinkSet, Adopted, Resolved, Approved, FreshCaches
<1>7. ASSUME NEW after, NEW payload, RetryOrRaise(after, payload), Moves(after), phase # "closing"
      PROVE  CacheMove /\ VerdictOK(sink')
  BY <1>1, <1>2, <1>7, RetryGoes DEF CacheMove
<1>8. CASE Tick
  BY <1>8, <1>1, <1>2, <1>3 DEF Tick, CacheMove, pod
<1>9. CASE Drop
  BY <1>9, <1>1, <1>2, <1>3 DEF Drop, CacheMove, pod
<1>10. CASE \E l \in {"none", Want} : CreateElsewhere(l)
  BY <1>10, <1>1, <1>2, <1>3 DEF CreateElsewhere, CacheMove, pod
<1>11. CASE \E l \in Layouts : AlterElsewhere(l)
  BY <1>11, <1>1, <1>2, <1>3 DEF AlterElsewhere, CacheMove, pod
<1>12. CASE Expire
  BY <1>12, <1>1, <1>2, <1>3 DEF Expire, CacheMove, pod
<1>13. CASE \E p \in delayed : LateArrival(p)
  BY <1>13, <1>1, <1>2, <1>3 DEF LateArrival, CacheMove, pod
<1>14. CASE Rewind
  BY <1>14, <1>1, <1>2, <1>3 DEF Rewind, Running, CacheMove, pod
<1>15. CASE Crash
  BY <1>15, <1>1, <1>2, <1>3 DEF Crash, Running, CacheMove, pod
<1>16. CASE CallFails
  BY <1>16, <1>1, <1>2, <1>3, <1>7, <1>3 DEF CallFails, BeforeUpload, CacheMove, pod
<1>17. CASE CallRefused
  BY <1>17, <1>1, <1>2, <1>3 DEF CallRefused, Permanent, CacheMove, pod
<1>18. CASE \E valid \in BOOLEAN : Upload(valid)
  <2>1. phase = "upload" /\ sink' = [sink EXCEPT !.client = Client]
    BY <1>18 DEF Upload
  <2>2. sink' = sink
    BY <2>1, ClientInUse
  <2> QED  BY <1>1, <1>3, <2>1, <2>2 DEF CacheMove
<1>19. CASE \E landed \in BOOLEAN : UploadFails(landed)
  BY <1>19, <1>1, <1>2, <1>3, <1>7, <1>3 DEF UploadFails, CacheMove, pod
<1>20. CASE SendUnavailable
  BY <1>20, <1>1, <1>2, <1>3, <1>7, <1>4 DEF SendUnavailable, Held, CacheMove, pod
<1>21. CASE \E arrives \in BOOLEAN : SendTimesOut(arrives)
  BY <1>21, <1>1, <1>2, <1>3, <1>7, <1>3 DEF SendTimesOut, Held, CacheMove, pod
<1>22. CASE Start
  BY <1>22, <1>1, <1>2, <1>3 DEF Start, CacheMove, pod
<1>23. CASE Begin
  BY <1>23, <1>1, <1>2, <1>3 DEF Begin, CacheMove, pod
<1>24. CASE Commit
  BY <1>24, <1>1, <1>2, <1>3 DEF Commit, CacheMove, pod
<1>25. CASE Close
  BY <1>25, <1>1, <1>2, <1>3 DEF Close, CacheMove, pod
<1>26. CASE Write
  BY <1>26, <1>1, <1>2, <1>3 DEF Write, CacheMove, pod
<1>27. CASE ResolveFound
  <2> DEFINE s == Adopted(sink, layout, changes)
  <2>1. live # 0 /\ live' = live /\ layout' = layout /\ Reread(sink) = s
    BY <1>27 DEF ResolveFound, catalog, table, Reread
  <2>2. /\ FreshCaches(s) /\ FreshCaches(Resolved(Approved(s))) /\ VerdictOK(s)
        /\ layout = Want => VerdictOK(Resolved(Approved(s)))
        /\ Resolved(Approved(s)).handle /\ s.shape.spec = layout
    BY <1>6, <2>1
  <2> HIDE DEF s
  <2>3. CASE MatchesConfig(s) /\ sink' = Resolved(Approved(s))
    BY <2>2, <2>3 DEF MatchesConfig, CacheMove
  <2>4. CASE LacksLayout(s) /\ sink' = s
    BY <2>2, <2>4 DEF LacksLayout, CacheMove
  <2>5. CASE sink' = s /\ phase' = "closing"
    BY <2>2, <2>5 DEF CacheMove
  <2> QED  BY <1>27, <2>1, <2>3, <2>4, <2>5 DEF ResolveFound, Permanent
<1>27a. CASE ResolveMissing
  BY <1>27a, <1>1, <1>2, <1>3 DEF ResolveMissing, CacheMove, pod
<1>28. CASE ResolveCreates
  <2> DEFINE s == [sink EXCEPT !.client = [incarnation |-> made + 1, basis |-> changes + 1, age |-> 0]]
  <2>1. /\ phase = "create" /\ ~sink.handle
        /\ \/ Want = "none" /\ sink' = Resolved(s)
           \/ Want # "none" /\ sink' = s
    BY <1>28 DEF ResolveCreates, ShapeInv, PhaseOK
  <2>2. made + 1 # 0
    BY <1>1 DEF CatalogOK
  <2>3. /\ s.shape = sink.shape /\ Resolved(s).shape = sink.shape /\ s.handle = sink.handle
        /\ s.client.incarnation # 0 /\ s.client.age = 0 /\ VerdictOK(s) /\ VerdictOK(Resolved(s))
    BY <1>1, <2>2 DEF PodOK, SinkOK, SinkSet, Resolved
  <2> HIDE DEF s
  <2>4. CASE Want = "none" /\ sink' = Resolved(s)
    <3>1. sink.shape = NoShape
      BY <2>1, <2>4 DEF LayoutInv, CachesAgree
    <3> QED  BY <2>3, <2>4, <3>1 DEF CacheMove
  <2>5. CASE Want # "none" /\ sink' = s
    BY <2>1, <2>3, <2>5 DEF CacheMove
  <2> QED  BY <2>1, <2>4, <2>5
<1>29. CASE Declare
  <2> DEFINE s == Adopted(sink, Want, changes + 1)
  <2>1. /\ live # 0 /\ live' = live /\ layout' = Want
        /\ \/ phase \in {"declare_new", "declare_found", "declare_lost"} /\ sink' \in {Resolved(s), Resolved(Approved(s))}
           \/ phase = "declare_live" /\ sink' = Approved(s)
    BY <1>29 DEF Declare, Declaring, Declared, Altering
  <2>2. /\ FreshCaches(Resolved(s)) /\ FreshCaches(Approved(s)) /\ FreshCaches(Resolved(Approved(s)))
        /\ VerdictOK(Resolved(s)) /\ VerdictOK(Approved(s)) /\ VerdictOK(Resolved(Approved(s)))
        /\ Resolved(s).handle /\ Resolved(Approved(s)).handle /\ Approved(s).handle = sink.handle
    BY <1>6, <2>1
  <2> HIDE DEF s
  <2>3. phase = "declare_live" => sink.handle
    BY DEF ShapeInv, PhaseOK
  <2> QED  BY <2>1, <2>2, <2>3 DEF CacheMove
<1>30. CASE DeclareConflicts
  <2> DEFINE s == Adopted(sink, layout, changes)
  <2>1. /\ live # 0 /\ live' = live /\ layout' = layout
        /\ \/ /\ layout = Want /\ phase \in {"declare_new", "declare_found", "declare_lost"}
              /\ sink' \in {Resolved(s), Resolved(Approved(s))}
           \/ layout = Want /\ phase = "declare_live" /\ sink' = Approved(s)
           \/ sink' = s /\ phase' = "closing"
    BY <1>30 DEF DeclareConflicts, Declaring, Declared, Permanent, Reread, table
  <2>2. /\ FreshCaches(Resolved(s)) /\ FreshCaches(Approved(s)) /\ FreshCaches(Resolved(Approved(s)))
        /\ FreshCaches(s) /\ VerdictOK(s) /\ VerdictOK(Resolved(s))
        /\ layout = Want => VerdictOK(Approved(s)) /\ VerdictOK(Resolved(Approved(s)))
        /\ Resolved(s).handle /\ Resolved(Approved(s)).handle /\ Approved(s).handle = sink.handle
    BY <1>6, <2>1
  <2> HIDE DEF s
  <2>3. phase = "declare_live" => sink.handle
    BY DEF ShapeInv, PhaseOK
  <2> QED  BY <2>1, <2>2, <2>3 DEF CacheMove
<1>31. CASE EvolveNothing
  BY <1>31, <1>1, <1>2, <1>3 DEF EvolveNothing, CacheMove, pod
<1>32. CASE EvolveColumn
  <2>1. /\ live # 0 /\ live' = live /\ layout' = layout /\ sink.handle
        /\ \E c : sink' = Adopted(sink, layout, c)
    BY <1>32 DEF EvolveColumn, Altering, Reread, table, ShapeInv, PhaseOK
  <2>2. PICK c : sink' = Adopted(sink, layout, c)
    BY <2>1
  <2>3. FreshCaches(sink') /\ VerdictOK(sink') /\ sink'.handle
    BY <1>6, <2>1, <2>2
  <2> QED  BY <2>3 DEF CacheMove
<1>33. CASE TakeShape
  <2> DEFINE s == Adopted(sink, layout, changes)
  <2>1. phase = "shape" /\ sink.handle /\ live' = live /\ layout' = layout
    BY <1>33 DEF TakeShape, ShapeInv, PhaseOK, catalog, table
  <2>2. CASE ShapeIsFresh
    <3>1. sink' = sink \/ (sink' = Approved(sink) /\ ~Contradicts(sink) /\ ~LacksLayout(sink))
      BY <1>33, <2>2 DEF TakeShape
    <3>2. SameCaches(Approved(sink)) /\ Approved(sink).verdict = sink.shape.spec
      BY <1>1 DEF PodOK, SinkOK, SinkSet, Approved, SameCaches
    <3>3. ~Contradicts(sink) /\ ~LacksLayout(sink) => sink.shape.spec = Want
      BY DEF Contradicts, LacksLayout
    <3> QED  BY <1>1, <1>3, <2>1, <3>1, <3>2, <3>3 DEF CacheMove
  <2>3. CASE ~ShapeIsFresh
    <3>1. live # 0 /\ (sink' = s \/ (sink' = Approved(s) /\ ~Contradicts(s) /\ ~LacksLayout(s)))
      BY <1>33, <2>3 DEF TakeShape, Reread
    <3>2. /\ FreshCaches(s) /\ FreshCaches(Approved(s)) /\ VerdictOK(s) /\ s.shape.spec = layout
          /\ layout = Want => VerdictOK(Approved(s))
          /\ s.handle = sink.handle /\ Approved(s).handle = sink.handle
      BY <1>6, <2>1, <3>1
    <3> HIDE DEF s
    <3>3. ~Contradicts(s) /\ ~LacksLayout(s) => layout = Want
      BY <3>2 DEF Contradicts, LacksLayout
    <3> QED  BY <2>1, <3>1, <3>2, <3>3 DEF CacheMove
  <2> QED  BY <2>2, <2>3
<1>34. CASE UploadPinned
  <2>1. phase = "upload" /\ \E payload : RetryOrRaise([sink EXCEPT !.client = Client], payload)
    BY <1>34 DEF UploadPinned
  <2>2. [sink EXCEPT !.client = Client] = sink
    BY <2>1, ClientInUse
  <2> QED  BY <1>1, <1>3, <1>7, <2>1, <2>2
<1>35. CASE NameIsGone
  BY <1>35, <1>1, <1>2, <1>3, <1>7, <1>3 DEF NameIsGone, Declaring, CacheMove, pod
<1>36. CASE SendOk
  BY <1>36, <1>1, <1>2, <1>3 DEF SendOk, CacheMove, pod
<1>37. CASE SendReused
  BY <1>37, <1>1, <1>2, <1>3, <1>4 DEF SendReused, CacheMove, pod
<1>38. CASE SendRecreated
  BY <1>38, <1>1, <1>2, <1>3, <1>7 DEF SendRecreated, Moved, Discarded, CacheMove, pod
<1>39. CASE SendAfterDDL
  BY <1>39, <1>1, <1>2, <1>3, <1>7, <1>4 DEF SendAfterDDL, Moved, Discarded, CacheMove, pod
<1>40. CASE SendExpired
  BY <1>40, <1>1, <1>2, <1>3, <1>7, <1>4 DEF SendExpired, Moved, Discarded, CacheMove, pod
<1>41. CASE SendRefused
  BY <1>41, <1>1, <1>2, <1>3, <1>7, <1>4 DEF SendRefused, Moved, Discarded, CacheMove, pod
<1>42. CASE SendInvalid
  BY <1>42, <1>1, <1>2, <1>3, <1>4 DEF SendInvalid, CacheMove, pod
<1>43. CASE UNCHANGED vars
  BY <1>43, <1>1, <1>2, <1>3 DEF vars, CacheMove, pod
<1> QED
  BY <1>8, <1>9, <1>10, <1>11, <1>12, <1>13, <1>14, <1>15, <1>16, <1>17, <1>18, <1>19, <1>20,
     <1>21, <1>22, <1>23, <1>24, <1>25, <1>26, <1>27, <1>27a, <1>28, <1>29, <1>30, <1>31, <1>32, <1>33,
     <1>34, <1>35, <1>36, <1>37, <1>38, <1>39, <1>40, <1>41, <1>42, <1>43
     DEF Next, Environment, Failing, Progress

\* A tick makes the caches older together.
LEMMA TickedCaches ==
  ASSUME ShapeInv, AgesAgree(sink), Tick
  PROVE  /\ sink'.handle = sink.handle /\ sink'.shape.spec = sink.shape.spec
         /\ sink'.client.incarnation = sink.client.incarnation /\ sink'.client.basis = sink.client.basis
         /\ (sink'.shape = NoShape) <=> (sink.shape = NoShape)
         /\ sink.shape # NoShape => /\ sink'.client # NoClient
                                    /\ sink'.shape.age = Older(sink.shape.age, LiveInfoTTL)
                                    /\ sink'.client.age <= sink.client.age + 1
<1>1. /\ sink \in SinkSet /\ sink.shape.age \in Nat /\ sink.client.age \in Nat
      /\ sink.shape \in [spec : LayoutNames, age : Nat]
      /\ sink.client \in [incarnation : Nat, basis : Nat, age : Nat]
  BY DEF ShapeInv, PodOK, SinkOK, SinkSet
<1> DEFINE a == IF sink.shape = NoShape THEN 0 ELSE Older(sink.shape.age, LiveInfoTTL)
           b == IF sink.client = NoClient THEN 0 ELSE Older(sink.client.age, ClientTTL)
<1>2. sink' = [sink EXCEPT !.shape.age = a, !.client.age = b]
  BY DEF Tick
<1>3. /\ Older(sink.shape.age, LiveInfoTTL) \in {sink.shape.age, sink.shape.age + 1}
      /\ Older(sink.client.age, ClientTTL) \in {sink.client.age, sink.client.age + 1}
  BY DEF Older
<1>4. /\ a \in Nat /\ b \in Nat /\ a >= (IF sink.shape = NoShape THEN 0 ELSE sink.shape.age)
      /\ (sink.client # NoClient => b >= sink.client.age /\ b <= sink.client.age + 1)
  BY <1>1, <1>3
<1>5. /\ sink'.handle = sink.handle /\ sink'.shape.spec = sink.shape.spec /\ sink'.shape.age = a
      /\ sink'.client.incarnation = sink.client.incarnation /\ sink'.client.basis = sink.client.basis
      /\ sink'.client.age = b
      /\ sink'.shape = [sink.shape EXCEPT !.age = a] /\ sink'.client = [sink.client EXCEPT !.age = b]
  <2> HIDE DEF a, b
  <2> QED  BY <1>1, <1>2 DEF SinkSet
<1>6. sink'.shape = NoShape <=> sink.shape = NoShape
  <2>1. CASE sink.shape = NoShape
    BY <1>5, <2>1 DEF NoShape
  <2>2. CASE sink.shape # NoShape
    <3>1. sink.shape.spec # "unread" \/ sink.shape.age # 0
      BY <1>1, <2>2 DEF NoShape
    <3>2. sink.shape.age # 0 => a # 0
      BY <1>1, <1>4, <2>2
    <3> QED  BY <1>5, <2>2, <3>1, <3>2 DEF NoShape
  <2> QED  BY <2>1, <2>2
<1>7. sink.client # NoClient => sink'.client # NoClient
  <2>1. SUFFICES ASSUME sink.client # NoClient PROVE sink'.client # NoClient
    OBVIOUS
  <2>2. sink.client.incarnation # 0 \/ sink.client.basis # 0 \/ sink.client.age # 0
    BY <1>1, <2>1 DEF NoClient
  <2>3. sink.client.age # 0 => b # 0
    BY <1>1, <1>4, <2>1
  <2> QED  BY <1>5, <2>2, <2>3 DEF NoClient
<1>8. sink.shape # NoShape => sink.client # NoClient /\ a = Older(sink.shape.age, LiveInfoTTL)
  BY DEF AgesAgree
<1> QED  BY <1>4, <1>5, <1>6, <1>7, <1>8

\* A young shape that ages had not reached its limit before.
LEMMA YoungBefore ==
  \A n \in Nat : /\ Older(n, LiveInfoTTL) < LiveInfoTTL => n < LiveInfoTTL /\ Older(n, LiveInfoTTL) = n + 1
                 /\ n < LiveInfoTTL => Older(n, LiveInfoTTL) = n + 1 /\ n + 1 <= LiveInfoTTL
BY ShapeExpiresFirst DEF Older

\* The caches keep telling the truth about the table.
LEMMA CachesStep ==
  ASSUME ShapeInv, LayoutInv, CacheMove, TableMove, CatalogOK',
         sink' \in SinkSet, sink'.verdict \in {"unread", Want}
  PROVE  CachesAgree'
<1> DEFINE Has(i, b, l) == live' # 0 /\ live' = i /\ altered' <= b => layout' = l
<1>1. /\ sink.handle => ShapeMatches(sink)
      /\ AgesAgree(sink)
      /\ phase # "closing" /\ ~sink.handle /\ Want = "none" => sink.shape = NoShape
      /\ sink.client.incarnation \in Nat /\ sink.client.incarnation <= made
      /\ sink.client.basis \in Nat /\ sink.client.basis <= changes
      /\ sink.shape.age \in Nat /\ sink.client.age \in Nat
  BY DEF LayoutInv, CachesAgree, ShapeInv, PodOK, SinkOK, SinkSet
<1>2. sink.handle /\ sink.shape # NoShape => Has(sink.client.incarnation, sink.client.basis, sink.shape.spec)
  <2>1. ASSUME NEW i \in Nat, NEW b \in Nat, NEW l, i <= made, b <= changes, StillHas(i, b, l)
        PROVE  Has(i, b, l)
    BY <2>1, StillHasStays DEF ShapeInv, StillHas
  <2> QED  BY <1>1, <2>1 DEF ShapeMatches
<1>3. SUFFICES /\ sink'.handle /\ sink'.shape # NoShape =>
                    Has(sink'.client.incarnation, sink'.client.basis, sink'.shape.spec)
               /\ AgesAgree(sink)'
               /\ phase' # "closing" /\ ~sink'.handle /\ Want = "none" => sink'.shape = NoShape
  BY DEF CachesAgree, ShapeMatches, StillHas
<1>4. CASE SameCaches(sink') /\ (phase = "closing" => phase' = "closing")
  BY <1>1, <1>2, <1>4 DEF SameCaches, AgesAgree
<1>5. CASE sink'.shape = NoShape
  BY <1>5 DEF AgesAgree
<1>6. CASE FreshCaches(sink') /\ (phase' = "closing" \/ sink'.handle \/ Want # "none")
  <2>1. sink'.shape.spec = layout' /\ sink'.shape.age = 0
    BY <1>6 DEF FreshCaches
  <2>2. layout' \in Layouts /\ sink'.client # NoClient
    BY <1>6 DEF CatalogOK, FreshCaches, NoClient
  <2>3. AgesAgree(sink)'
    BY <1>6, <2>1, <2>2 DEF AgesAgree, FreshCaches
  <2> QED  BY <1>6, <2>1, <2>3 DEF FreshCaches
<1>7. CASE Tick
  <2>1. phase' = phase
    BY <1>7 DEF Tick
  <2>2. AgesAgree(sink)'
    <3>1. SUFFICES ASSUME sink'.shape # NoShape
                   PROVE  /\ sink'.shape.spec \in Layouts /\ sink'.client # NoClient
                          /\ sink'.shape.age < LiveInfoTTL => sink'.client.age <= sink'.shape.age
      BY DEF AgesAgree
    <3>2. sink'.shape.age < LiveInfoTTL => sink'.client.age <= sink'.shape.age
      <4>1. SUFFICES ASSUME sink'.shape.age < LiveInfoTTL PROVE sink'.client.age <= sink'.shape.age
        OBVIOUS
      <4>2. sink.shape.age < LiveInfoTTL /\ sink'.shape.age = sink.shape.age + 1
        BY <1>1, <1>7, <3>1, <4>1, TickedCaches, YoungBefore
      <4>3. sink.client.age <= sink.shape.age /\ sink'.client.age <= sink.client.age + 1
        BY <1>1, <1>7, <3>1, <4>2, TickedCaches DEF AgesAgree
      <4>4. sink'.client.age \in Nat
        BY DEF SinkSet
      <4> QED  BY <1>1, <4>2, <4>3, <4>4
    <3> QED  BY <1>1, <1>7, <3>1, <3>2, TickedCaches DEF AgesAgree
  <2> QED  BY <1>1, <1>2, <1>7, <2>1, <2>2, TickedCaches
<1>8. CASE /\ sink'.shape = sink.shape /\ sink'.client.incarnation # 0 /\ sink'.client.age = 0
           /\ ~sink'.handle /\ Want # "none"
  <2>1. sink'.client # NoClient
    BY <1>8 DEF NoClient
  <2> QED  BY <1>1, <1>8, <2>1 DEF AgesAgree
<1> QED  BY <1>4, <1>5, <1>6, <1>7, <1>8 DEF CacheMove

\* How the pod comes to be uploading: it was, or it has just approved the shape.
LEMMA UploadFrom ==
  ASSUME ShapeInv, LayoutInv, [Next]_vars, phase' = "upload"
  PROVE  \/ phase = "upload" /\ (UNCHANGED sink \/ Tick)
         \/ FreshCaches(sink') /\ layout' = Want
         \/ /\ ShapeIsFresh /\ sink'.shape = sink.shape /\ sink'.client = sink.client
            /\ sink.shape.spec = Want
<1>1. PodOK /\ CatalogOK
  BY DEF ShapeInv
<1>2. /\ Approved(sink).shape = sink.shape /\ Approved(sink).client = sink.client
      /\ \A l, c : LET s == Adopted(sink, l, c) IN
           /\ Approved(s).shape = [spec |-> l, age |-> 0] /\ s.shape = [spec |-> l, age |-> 0]
           /\ Approved(s).client.incarnation = live /\ Approved(s).client.age = 0
           /\ s.client.incarnation = live /\ s.client.age = 0 /\ s.shape.spec = l
  BY <1>1 DEF PodOK, SinkOK, SinkSet, Adopted, Approved
<1>3. CASE Tick
  BY <1>3, <1>1 DEF Tick, pod
<1>4. CASE Drop
  BY <1>4, <1>1 DEF Drop, pod
<1>5. CASE \E l \in {"none", Want} : CreateElsewhere(l)
  BY <1>5, <1>1 DEF CreateElsewhere, pod
<1>6. CASE \E l \in Layouts : AlterElsewhere(l)
  BY <1>6, <1>1 DEF AlterElsewhere, pod
<1>7. CASE Expire
  BY <1>7, <1>1 DEF Expire, pod
<1>8. CASE \E p \in delayed : LateArrival(p)
  BY <1>8, <1>1 DEF LateArrival, pod
<1>9. CASE Rewind
  BY <1>9, <1>1 DEF Rewind, Running, pod
<1>10. CASE Crash
  BY <1>10, <1>1 DEF Crash, Running, pod
<1>11. CASE CallFails
  BY <1>11, <1>1, RetryGoes DEF CallFails, BeforeUpload, pod
<1>12. CASE CallRefused
  BY <1>12, <1>1 DEF CallRefused, Permanent, pod
<1>13. CASE \E valid \in BOOLEAN : Upload(valid)
  BY <1>13, <1>1 DEF Upload, pod
<1>14. CASE \E landed \in BOOLEAN : UploadFails(landed)
  BY <1>14, <1>1, RetryGoes DEF UploadFails, pod
<1>15. CASE SendUnavailable
  BY <1>15, <1>1, RetryGoes DEF SendUnavailable, Held, pod
<1>16. CASE \E arrives \in BOOLEAN : SendTimesOut(arrives)
  BY <1>16, <1>1, RetryGoes DEF SendTimesOut, Held, pod
<1>17. CASE Start
  BY <1>17, <1>1 DEF Start, pod
<1>18. CASE Begin
  BY <1>18, <1>1 DEF Begin, pod
<1>19. CASE Commit
  BY <1>19, <1>1 DEF Commit, pod
<1>20. CASE Close
  BY <1>20, <1>1 DEF Close, pod
<1>21. CASE Write
  BY <1>21, <1>1 DEF Write, pod
<1>22. CASE ResolveFound
  BY <1>22, <1>1 DEF ResolveFound, Permanent, pod
<1>22a. CASE ResolveMissing
  BY <1>22a, <1>1 DEF ResolveMissing, pod
<1>23. CASE ResolveCreates
  BY <1>23, <1>1 DEF ResolveCreates, pod
<1>24. CASE Declare
  <2> DEFINE s == Adopted(sink, Want, changes + 1)
  <2>1. live # 0 /\ live' = live /\ layout' = Want /\ sink' = Approved(s)
    BY <1>24 DEF Declare, Declaring, Declared, Altering
  <2> QED  BY <1>2, <2>1 DEF FreshCaches
<1>25. CASE DeclareConflicts
  <2> DEFINE s == Adopted(sink, layout, changes)
  <2>1. live # 0 /\ live' = live /\ layout' = Want /\ layout = Want /\ sink' = Approved(s)
    BY <1>25 DEF DeclareConflicts, Declaring, Declared, Permanent, Reread, table
  <2> QED  BY <1>2, <2>1 DEF FreshCaches
<1>26. CASE EvolveNothing
  BY <1>26, <1>1 DEF EvolveNothing, pod
<1>27. CASE EvolveColumn
  BY <1>27, <1>1 DEF EvolveColumn, pod
<1>28. CASE TakeShape
  <2> DEFINE s == Adopted(sink, layout, changes)
  <2>1. live' = live /\ layout' = layout
    BY <1>28 DEF TakeShape, catalog, table
  <2>2. CASE ShapeIsFresh
    <3>1. \/ sink' = sink /\ ~NeedsVerdict(sink)
          \/ sink' = Approved(sink) /\ ~Contradicts(sink) /\ ~LacksLayout(sink)
      BY <1>28, <2>2 DEF TakeShape, Permanent
    <3>2. sink.shape.spec = Want
      <4>1. sink.shape.spec \in Layouts /\ sink.verdict \in {"unread", Want}
        BY <2>2 DEF ShapeIsFresh, LayoutInv, CachesAgree, AgesAgree
      <4> QED  BY <3>1, <4>1, LayoutAssumption DEF NeedsVerdict, Contradicts, LacksLayout
    <3> QED  BY <1>2, <2>2, <3>1, <3>2
  <2>3. CASE ~ShapeIsFresh
    <3>1. live # 0 /\ sink' = Approved(s) /\ ~Contradicts(s) /\ ~LacksLayout(s)
      BY <1>28, <2>3 DEF TakeShape, Permanent, Reread
    <3>2. layout = Want
      BY <1>2, <3>1 DEF Contradicts, LacksLayout
    <3> QED  BY <1>2, <2>1, <3>1, <3>2 DEF FreshCaches
  <2> QED  BY <2>2, <2>3
<1>29. CASE UploadPinned
  BY <1>29, <1>1, RetryGoes DEF UploadPinned, pod
<1>30. CASE NameIsGone
  BY <1>30, <1>1, RetryGoes DEF NameIsGone, Declaring, pod
<1>31. CASE SendOk
  BY <1>31, <1>1 DEF SendOk, pod
<1>32. CASE SendReused
  BY <1>32, <1>1 DEF SendReused, pod
<1>33. CASE SendRecreated
  BY <1>33, <1>1, RetryGoes DEF SendRecreated, Moved, Discarded, pod
<1>34. CASE SendAfterDDL
  BY <1>34, <1>1, RetryGoes DEF SendAfterDDL, Moved, Discarded, pod
<1>35. CASE SendExpired
  BY <1>35, <1>1, RetryGoes DEF SendExpired, Moved, Discarded, pod
<1>36. CASE SendRefused
  BY <1>36, <1>1, RetryGoes DEF SendRefused, Moved, Discarded, pod
<1>37. CASE SendInvalid
  BY <1>37, <1>1 DEF SendInvalid, pod
<1>38. CASE UNCHANGED vars
  BY <1>38, <1>1 DEF vars, pod
<1> QED
  BY <1>3, <1>4, <1>5, <1>6, <1>7, <1>8, <1>9, <1>10, <1>11, <1>12, <1>13, <1>14, <1>15, <1>16,
     <1>17, <1>18, <1>19, <1>20, <1>21, <1>22, <1>22a, <1>23, <1>24, <1>25, <1>26, <1>27, <1>28, <1>29,
     <1>30, <1>31, <1>32, <1>33, <1>34, <1>35, <1>36, <1>37, <1>38
     DEF Next, Environment, Failing, Progress

\* The pod uploads under the declared layout, with caches that agree.
LEMMA UploadsDeclaredStep ==
  ASSUME ShapeInv, LayoutInv, [Next]_vars, sink' \in SinkSet
  PROVE  UploadsDeclared'
<1> SUFFICES ASSUME phase' = "upload"
             PROVE  /\ sink'.shape.spec = Want
                    /\ sink'.client.age <= sink'.shape.age /\ sink'.shape.age <= LiveInfoTTL
  BY DEF UploadsDeclared
<1>1. /\ LiveInfoTTL \in Nat /\ sink.shape.age \in Nat /\ sink.client.age \in Nat /\ sink'.client.age \in Nat
      /\ AgesAgree(sink)
  BY ShapeExpiresFirst DEF ShapeInv, PodOK, SinkOK, SinkSet, LayoutInv, CachesAgree
<1>2. CASE phase = "upload" /\ UNCHANGED sink
  BY <1>2 DEF LayoutInv, UploadsDeclared
<1>3. CASE phase = "upload" /\ Tick
  <2>1. sink.shape # NoShape /\ sink.shape.age < LiveInfoTTL
    BY <1>3, ClientInUse DEF Tick
  <2>2. /\ sink'.shape.spec = sink.shape.spec /\ sink'.client.age <= sink.client.age + 1
        /\ sink'.shape.age = sink.shape.age + 1 /\ sink.shape.age + 1 <= LiveInfoTTL
    BY <1>1, <1>3, <2>1, TickedCaches, YoungBefore
  <2>3. sink.client.age <= sink.shape.age /\ sink.shape.spec = Want
    BY <1>3 DEF LayoutInv, UploadsDeclared
  <2> QED  BY <1>1, <2>2, <2>3
<1>4. CASE FreshCaches(sink') /\ layout' = Want
  <2>1. sink'.shape.spec = Want /\ sink'.shape.age = 0 /\ sink'.client.age = 0
    BY <1>4 DEF FreshCaches
  <2> QED  BY <1>1, <2>1
<1>5. CASE /\ ShapeIsFresh /\ sink'.shape = sink.shape /\ sink'.client = sink.client
           /\ sink.shape.spec = Want
  <2>1. sink.shape.age < LiveInfoTTL /\ sink.client.age <= sink.shape.age
    BY <1>1, <1>5 DEF ShapeIsFresh, AgesAgree
  <2> QED  BY <1>1, <1>5, <2>1
<1> QED  BY <1>2, <1>3, <1>4, <1>5, UploadFrom

\* A request is applied only to the layout it was computed for.
LEMMA RequestsMatchStep ==
  ASSUME ShapeInv, LayoutInv, StepKind, TableMove, CatalogOK'
  PROVE  RequestsMatch'
<1> DEFINE Has(i, b, l) == live' # 0 /\ live' = i /\ altered' <= b => layout' = l
<1>1. ASSUME NEW i \in Nat, NEW b \in Nat, NEW l, i <= made, b <= changes, StillHas(i, b, l)
      PROVE  Has(i, b, l)
  BY <1>1, StillHasStays DEF ShapeInv, StillHas
<1>2. SUFFICES \A p \in Requests' : p.values = Want /\ Has(p.incarnation, p.basis, Want)
  BY DEF RequestsMatch, StillHas
<1>3. \A p \in Requests : p.values = Want /\ Has(p.incarnation, p.basis, Want)
  <2>1. \A p \in Requests : /\ p.incarnation \in Nat /\ p.incarnation <= made
                            /\ p.basis \in Nat /\ p.basis <= changes
    BY DEF ShapeInv, RequestsOK, Requests, PayloadOK, PayloadSet
  <2> QED  BY <1>1, <2>1 DEF LayoutInv, RequestsMatch
<1> HIDE DEF Has
<1>4. CASE ~ \E valid \in BOOLEAN : Upload(valid)
  <2>1. ASSUME NEW p \in Requests', NEW q \in Requests, SameRequest(p, q)
        PROVE  p.values = Want /\ Has(p.incarnation, p.basis, Want)
    BY <1>3, <2>1 DEF SameRequest
  <2> QED  BY <1>4, <2>1, RequestsKept
<1>5. CASE \E valid \in BOOLEAN : Upload(valid)
  <2>1. /\ phase = "upload" /\ Client.incarnation = sink.uuid /\ UNCHANGED delayed
        /\ prepared'.values = sink.shape.spec /\ prepared'.incarnation = sink.uuid
        /\ prepared'.basis = Client.basis
    BY <1>5 DEF Upload
  <2>2. Client = sink.client /\ sink.shape # NoShape /\ sink.handle
    BY <2>1, ClientInUse
  <2>3. prepared'.values = Want /\ prepared'.incarnation = sink.client.incarnation
        /\ prepared'.basis = sink.client.basis
    BY <2>1, <2>2 DEF LayoutInv, UploadsDeclared
  <2>4. Has(sink.client.incarnation, sink.client.basis, Want)
    <3>1. StillHas(sink.client.incarnation, sink.client.basis, Want)
      BY <2>1, <2>2 DEF LayoutInv, CachesAgree, ShapeMatches, UploadsDeclared
    <3>2. /\ sink.client.incarnation \in Nat /\ sink.client.incarnation <= made
          /\ sink.client.basis \in Nat /\ sink.client.basis <= changes
      BY DEF ShapeInv, PodOK, SinkOK, SinkSet
    <3> QED  BY <1>1, <3>1, <3>2
  <2>5. \A p \in Requests' : p = prepared' \/ p \in Requests
    BY <2>1 DEF Requests
  <2> QED  BY <1>3, <2>3, <2>4, <2>5
<1> QED  BY <1>4, <1>5

\* Every step keeps the files, the requests and the caches under the declared layout.
LEMMA LayoutStep ==
  ASSUME ShapeInv, LayoutInv, [Next]_vars
  PROVE  LayoutInv'
<1>1. StepKind /\ TableMove /\ CatalogOK' /\ sink' \in SinkSet
  BY EveryStepKind, EveryTableMove, TableMoves, SinkStep DEF ShapeInv, SinkOK
<1>2. RequestsMatch' /\ UploadsDeclared' /\ CachesAgree'
  BY <1>1, RequestsMatchStep, UploadsDeclaredStep, EveryCacheMove, CachesStep
<1>3. FilesDeclared'
  <2>1. ASSUME NEW p, Applying(p)
        PROVE  FileOf(p).values = Want /\ FileOf(p).stamped = Want
    <3>1. /\ p \in Requests /\ live # 0 /\ live = p.incarnation /\ ~(altered > p.basis)
      BY <2>1, Verdicts DEF Applying
    <3>2. altered \in Nat /\ p.basis \in Nat
      BY <3>1 DEF ShapeInv, CatalogOK, RequestsOK, Requests, PayloadOK, PayloadSet
    <3>3. p.values = Want /\ layout = Want
      BY <3>1, <3>2 DEF LayoutInv, RequestsMatch, StillHas
    <3> QED  BY <3>3 DEF FileOf
  <2>2. FilesDeclared
    BY DEF LayoutInv
  <2> QED  BY <1>1, <2>1, <2>2, BooksMove DEF FilesDeclared, Applying
<1> QED  BY <1>2, <1>3 DEF LayoutInv

-----------------------------------------------------------------------------
(* The theorems.                                                           *)

\* Initially there are no requests, receipts, uploads or caches.
LEMMA LedgerInit == Init => LedgerInv /\ RefusalInv /\ OnceInv /\ LayoutInv /\ UploadsAccountedFor
<1> SUFFICES ASSUME Init PROVE LedgerInv /\ RefusalInv /\ OnceInv /\ LayoutInv /\ UploadsAccountedFor
  OBVIOUS
<1>1. /\ registered = {} /\ receipts = {} /\ delayed = {} /\ prepared = NoPayload /\ phase = "down"
      /\ orphaned = {} /\ sink = ColdSink /\ uploads = 0 /\ Requests = {}
  BY DEF Init, Requests
<1>2. LedgerInv /\ RefusalInv
  BY <1>1 DEF LedgerInv, RefusalInv
<1>3. OnceInv
  BY <1>1 DEF OnceInv, OncePerProcess, LateIsDoomed, HeldIsTheOne, UploadsAreBehind, InFlush
<1>4. LayoutInv
  BY <1>1 DEF LayoutInv, RequestsMatch, CachesAgree, ShapeMatches, AgesAgree, UploadsDeclared,
              FilesDeclared, ColdSink, Unreconciled
<1>5. UploadsAccountedFor
  BY <1>1 DEF UploadsAccountedFor
<1> QED  BY <1>2, <1>3, <1>4, <1>5

\* Requests, receipts and registered uploads agree, and every upload is accounted for.
LEMMA AlwaysLedger == Spec => [](LedgerInv /\ UploadsAccountedFor)
<1>1. ShapeInv /\ LedgerInv /\ UploadsAccountedFor /\ [Next]_vars => (LedgerInv /\ UploadsAccountedFor)'
  <2> SUFFICES ASSUME ShapeInv, LedgerInv, UploadsAccountedFor, [Next]_vars
               PROVE  LedgerInv' /\ UploadsAccountedFor'
    OBVIOUS
  <2>1. StepKind /\ CatalogOK' /\ made <= made'
    BY EveryStepKind, EveryTableMove, TableMoves DEF ShapeInv
  <2> QED  BY <2>1, LedgerStep, AccountStep
<1> QED  BY <1>1, LedgerInit, AlwaysShape, PTL DEF Spec

\* TypeOK: the pod, its sink, the catalog and the payload to be sent are what
\* the code takes them for, whatever is dropped, altered, lost or retried.
THEOREM TypeCorrect == Spec => []TypeOK
<1>1. ShapeInv /\ LedgerInv => TypeOK
  <2> SUFFICES ASSUME ShapeInv, LedgerInv PROVE TypeOK
    OBVIOUS
  <2>1. /\ live \in 0 .. made /\ layout \in Layouts /\ altered \in 0 .. changes
        /\ changes \in Nat /\ made \in Nat /\ since \in 0 .. made + 1
    BY DEF ShapeInv, CatalogOK, OffsetsOK
  <2>2. /\ committed \in 0 .. LogLength /\ flush \in [first : 0 .. LogLength, last : 0 .. LogLength]
        /\ phase \in Phases /\ attempt \in 0 .. MaxAttempts - 1 /\ final \in BOOLEAN
    BY DEF ShapeInv, OffsetsOK, PodOK
  <2>3. sink.uuid \in 0 .. made
    BY <2>1 DEF ShapeInv, PodOK, SinkOK, SinkSet
  <2>4. /\ \A f \in registered : f.id \in Ids /\ f.incarnation \in 1 .. made /\ f.range \in Ranges
        /\ \A r \in receipts : r.id \in Ids
    <3>1. uploads \in Nat
      BY IdsAndRanges
    <3>2. \A i \in 1 .. uploads : i \in Ids
      BY <3>1 DEF Ids
    <3> QED  BY <3>2, IdsAndRanges DEF LedgerInv
  <2>5. prepared.id \in Ids
    BY DEF ShapeInv, RequestsOK, PayloadOK, PayloadSet, NoPayload, Ids
  <2>6. phase = "send" => prepared # NoPayload /\ prepared.range = flush
    BY DEF ShapeInv, PhaseOK
  <2> QED  BY <2>1, <2>2, <2>3, <2>4, <2>5, <2>6 DEF TypeOK
<1> QED  BY <1>1, AlwaysShape, AlwaysLedger, PTL

\* UploadsAccountedFor: no upload is lost track of, through failed uploads,
\* refusals, replays, shutdowns and crashes (_count_orphans).
THEOREM UploadsAreAccountedFor == Spec => []UploadsAccountedFor
BY AlwaysLedger, PTL

\* RefusedStaysUnreferenced: an upload booked as refused stays out of every
\* table, also when an earlier send of it arrives late (_is_answered_refusal).
THEOREM RefusedUploadsStayOut == Spec => []RefusedStaysUnreferenced
<1>1. ShapeInv /\ LedgerInv /\ RefusalInv /\ [Next]_vars => RefusalInv'
  BY EveryStepKind, RefusalStep
<1>2. RefusalInv => RefusedStaysUnreferenced
  BY DEF RefusalInv, RefusedStaysUnreferenced
<1> QED  BY <1>1, <1>2, LedgerInit, AlwaysShape, AlwaysLedger, PTL DEF Spec

\* OncePerProcess: within a process a flush is published once, whatever answers
\* are lost or late (_commit_prepared).
THEOREM PublishedOncePerProcess == Spec => []OncePerProcess
<1>1. ShapeInv /\ LedgerInv /\ OnceInv /\ [Next]_vars => OnceInv'
  BY EveryStepKind, OnceStep
<1>2. OnceInv => OncePerProcess
  BY DEF OnceInv
<1> QED  BY <1>1, <1>2, LedgerInit, AlwaysShape, AlwaysLedger, PTL DEF Spec

\* The caches' ages keep every shape, request and file to the declared layout.
LEMMA AlwaysLayout == Spec => []LayoutInv
<1>1. ShapeInv /\ LayoutInv /\ [Next]_vars => LayoutInv'
  BY LayoutStep
<1> QED  BY <1>1, LedgerInit, AlwaysShape, PTL DEF Spec

\* FilesMatchTheirSpec: no file is stamped with a spec other than the one its
\* partition values were computed under (_live_info_ttl_s, _table_info).
THEOREM FilesAlwaysMatch == Spec => []FilesMatchTheirSpec
<1>1. LayoutInv => FilesMatchTheirSpec
  BY DEF LayoutInv, FilesDeclared, FilesMatchTheirSpec
<1> QED  BY <1>1, AlwaysLayout, PTL

\* OnlyDeclaredLayout: and that one is the declared one (_reconcile_specs).
THEOREM DeclaredLayoutOnly == Spec => []OnlyDeclaredLayout
<1>1. LayoutInv => OnlyDeclaredLayout
  BY DEF LayoutInv, FilesDeclared, OnlyDeclaredLayout
<1> QED  BY <1>1, AlwaysLayout, PTL

\* AckedIsPublished: without an operator's rewind, offsets advance only over rows
\* published into an incarnation that was live when the flush began, or later
\* (_flush_key, _accept_already_published).
THEOREM AcknowledgedIsPublished ==
  ASSUME MaxRewinds = 0
  PROVE  Spec => []AckedIsPublished
<1>1. ShapeInv => ~Rewind
  <2> SUFFICES ASSUME ShapeInv, Rewind PROVE FALSE
    OBVIOUS
  <2>1. spent["rewinds"] < MaxRewinds
    BY DEF Rewind, Left
  <2>2. spent["rewinds"] \in Nat
    BY DEF ShapeInv, PodOK
  <2> QED  BY <2>1, <2>2
<1>2. ShapeInv /\ LedgerInv /\ AckInv /\ [Next]_vars => AckInv'
  <2> SUFFICES ASSUME ShapeInv, LedgerInv, AckInv, [Next]_vars PROVE AckInv'
    OBVIOUS
  <2>1. StepKind /\ TableMove /\ CatalogOK' /\ expired' \in Nat /\ HandleMove /\ ~Rewind
    BY <1>1, EveryStepKind, EveryTableMove, TableMoves, EveryHandleMove DEF ShapeInv
  <2>2. NothingAhead' /\ KeptHandleIsFresh'
    BY <2>1, NothingAheadStep, KeptHandleStep DEF AckInv
  <2>3. OldReceiptsMiss' /\ AckedIsPublished'
    BY <2>1, OldReceiptsStep, AckedStep
  <2> QED  BY <2>2, <2>3 DEF AckInv
<1>3. Init => AckInv
  BY DEF Init, AckInv, NothingAhead, KeptHandleIsFresh, OldReceiptsMiss, AckedIsPublished,
         Requests, InFlush
<1>4. AckInv => AckedIsPublished
  BY DEF AckInv
<1> QED  BY <1>2, <1>3, <1>4, AlwaysShape, AlwaysLedger, PTL DEF Spec
=============================================================================
