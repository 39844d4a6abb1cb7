------------------------- MODULE DuckLakeSinkProofs -------------------------
(***************************************************************************)
(* Proofs about DuckLakeSink: whoever creates the table, it is partitioned *)
(* if nothing fails; a companion is only projected into a VARIANT column;  *)
(* and a retry recovers from stale caches.                                 *)
(***************************************************************************)
EXTENDS DuckLakeSink, TLAPS

---------------------------------------------------------------------------
(* The invariants behind the properties.                                   *)

\* A table that is there and not partitioned has a pod that is about to do it.
PartitionInv ==
  (spent.faults = 0 /\ table.exists /\ ~table.partitioned) => \E p \in Pods : At(p, "partition")

\* The companion is projected by the flush that has verified it.
ReadyInv ==
  \A p \in Pods :
    /\ pod[p].ready => pod[p].pc \in {"insert", "idle", "raise", "strip"}
    /\ At(p, "evolve") => pod[p].todo \subseteq Present(pod[p].sent)

\* What a configured pod knows of its companion.  Nobody narrows a VARIANT.
CompanionKnown(p) ==
  /\ pod[p].sent["comp"] = "none"
  /\ At(p, "insert") /\ pod[p].ready => Known(p)["comp"] = "VARIANT"
  /\ spent.drops = 0 /\ Known(p)["comp"] = "VARIANT" =>
       table.exists /\ table.cols["comp"] = "VARIANT"

CompanionInv == CompanionVerified /\ \A p \in VariantPods : CompanionKnown(p)

\* The types that Arrow and the pins give the four columns.
Fielded(cols) ==
  /\ cols["src"] \in {"none", "VARCHAR"} /\ cols["comp"] \in {"none", "VARCHAR"}
  /\ cols["id"] \in {"none", "VARCHAR", "UUID"} /\ cols["num"] \in {"none", "INTEGER", "BIGINT"}

\* Every column keeps to its field: without this a batch may hold a type that
\* no cast brings into the column (a UUID for INTEGER), which no retry mends.
FieldedBatches == \A p \in Pods : \A b \in Batches[p] : Fielded(b.cols)

TableFields ==
  /\ table.exists <=> table.cols # NoColumns
  /\ table.cols["src"] \in {"none", "VARCHAR"}
  /\ table.cols["comp"] \in {"none", "VARCHAR", "VARIANT"}
  /\ table.cols["id"] \in {"none", "VARCHAR", "UUID"}
  /\ table.cols["num"] \in {"none", "INTEGER", "BIGINT"}

PodFielded(p) ==
  /\ Fielded(pod[p].batch.cols) /\ Fielded(pod[p].sent)
  /\ pod[p].pc \in {"ensure", "create"} => pod[p].sent # NoColumns

FieldsInv == TableFields /\ \A p \in Pods : PodFielded(p)

\* The column of the batch goes into the table's whatever its values are.
Takes(p, c) == table.cols[c] # "none" /\ Casts(pod[p].sent[c], table.cols[c], TRUE)

\* What a retry that nothing and nobody has disturbed knows of the table.
Undisturbed(p) == pod[p].attempt > 1 /\ ~disturbed[p]

AttemptKnows(p) ==
  /\ ~ At(p, "raise")
  /\ At(p, "strip") => ~pod[p].caches.ensured /\ ~pod[p].caches.loaded
  /\ At(p, "ensure") => ~pod[p].caches.ensured /\ Known(p) = LiveColumns
  /\ At(p, "create") => Known(p) = NoColumns /\ ~table.exists
  /\ At(p, "partition") => Known(p) = NoColumns /\ table.exists
  /\ At(p, "align") => Known(p) \in {NoColumns, table.cols} /\ table.exists
  /\ At(p, "evolve") =>
       /\ Known(p) = table.cols /\ table.exists
       /\ ~ (pod[p].sent["id"] = "VARCHAR" /\ table.cols["id"] = "UUID")
       /\ \A c \in Present(pod[p].sent) \ pod[p].todo : Takes(p, c)
  /\ At(p, "insert") =>
       /\ table.exists
       /\ \A c \in Present(pod[p].sent) : Takes(p, c)
       /\ pod[p].ready => table.cols["comp"] = "VARIANT"

RetryInv == \A p \in Pods : Undisturbed(p) => AttemptKnows(p)

---------------------------------------------------------------------------
(* Columns, caches and pods.                                               *)

Caches == [ensured : BOOLEAN, loaded : BOOLEAN, known : Schemas]
Tables == [exists : BOOLEAN, partitioned : BOOLEAN, cols : Schemas]

\* The columns of a batch schema, in no order.
LEMMA TheColumns == Columns = {"comp", "src", "id", "num"}
<1>1. /\ FieldOrder[1] = "comp" /\ FieldOrder[2] = "src"
      /\ FieldOrder[3] = "id" /\ FieldOrder[4] = "num"
  BY DEF FieldOrder
<1>2. 1 .. 4 = {1, 2, 3, 4}
  OBVIOUS
<1> QED
  BY <1>1, <1>2, Zenon DEF Columns

\* evolve() goes on with a column it has not come to.
LEMMA NextIsTodo ==
  ASSUME NEW todo \in SUBSET Columns, todo # {}
  PROVE  NextField(todo) \in todo /\ NextField(todo) \in Columns
<1> DEFINE Next1(i) == FieldOrder[i] \in todo /\ \A j \in 1 .. i - 1 : FieldOrder[j] \notin todo
<1>1. /\ FieldOrder[1] = "comp" /\ FieldOrder[2] = "src"
      /\ FieldOrder[3] = "id" /\ FieldOrder[4] = "num"
  BY DEF FieldOrder
<1>2. /\ 1 .. 1 - 1 = {} /\ 1 .. 2 - 1 = {1} /\ 1 .. 3 - 1 = {1, 2} /\ 1 .. 4 - 1 = {1, 2, 3}
      /\ 1 .. 4 = {1, 2, 3, 4}
  OBVIOUS
<1>3. \E i \in 1 .. 4 : Next1(i)
  <2>1. CASE "comp" \in todo
    BY <1>1, <1>2, <2>1
  <2>2. CASE "comp" \notin todo /\ "src" \in todo
    BY <1>1, <1>2, <2>2
  <2>3. CASE "comp" \notin todo /\ "src" \notin todo /\ "id" \in todo
    BY <1>1, <1>2, <2>3
  <2>4. CASE "comp" \notin todo /\ "src" \notin todo /\ "id" \notin todo
    <3>1. "num" \in todo
      BY <2>4, TheColumns
    <3> QED
      BY <1>1, <1>2, <2>4, <3>1
  <2> QED
    BY <2>1, <2>2, <2>3, <2>4
<1>4. NextField(todo) = FieldOrder[CHOOSE i \in 1 .. 4 : Next1(i)]
  BY DEF NextField
<1> HIDE DEF Next1
<1>5. Next1(CHOOSE i \in 1 .. 4 : Next1(i))
  BY <1>3
<1> QED
  BY <1>4, <1>5 DEF Next1

\* Schemas that the code makes of others.
LEMMA SchemasMade ==
  /\ NoColumns \in Schemas
  /\ \A s \in Schemas, c \in Columns, t \in Types \cup {"none"} : [s EXCEPT ![c] = t] \in Schemas
  /\ \A s \in Schemas, c \in Columns : s[c] \in Types \cup {"none"}
  /\ \A p \in Pods, s \in Schemas, k \in Schemas : Stripped(p, s, k) \in Schemas
BY DEF NoColumns, Schemas, Stripped

\* What is known of the live table.
LEMMA LiveSchemas == table \in Tables => LiveColumns \in Schemas
BY SchemasMade DEF LiveColumns, Tables

\* _ensure_schema_loaded keeps what is known, or reads what there is.
LEMMA Loads ==
  ASSUME table \in Tables, NEW k \in Caches
  PROVE  /\ EnsureLoaded(k) \in Caches
         /\ EnsureLoaded(k).ensured = k.ensured /\ EnsureLoaded(k).loaded
         /\ EnsureLoaded(k).known \in {k.known, LiveColumns}
         /\ ~k.loaded \/ k.known = NoColumns => EnsureLoaded(k).known = LiveColumns
BY LiveSchemas DEF EnsureLoaded, Caches

\* What TypeOK says of one pod.
LEMMA PodFields ==
  ASSUME TypeOK, NEW p \in Pods
  PROVE  /\ pod[p] \in PodStates /\ pod[p].caches \in Caches /\ Known(p) \in Schemas
         /\ table \in Tables /\ pod[p].sent \in Schemas /\ pod[p].batch.cols \in Schemas
         /\ pod[p].todo \in SUBSET Columns /\ pod[p].batch.hard \in BOOLEAN
         /\ disturbed[p] \in BOOLEAN
BY DEF TypeOK, PodStates, Caches, Tables, Known, BatchSet

\* A pod in a flush has flushes left.
TypeInv == TypeOK /\ \A p \in Pods : ~At(p, "idle") => pod[p].flushes < MaxFlushes

OthersStay(p) == \A q \in Pods : q # p => pod'[q] = pod[q]

\* p is where a pod can be, and the others are where they were.
Moved(p) ==
  /\ pod' \in [Pods -> PodStates] /\ OthersStay(p)
  /\ pod'[p].pc # "idle" => pod'[p].flushes < MaxFlushes

\* One pod moves and the others stay.
LEMMA Moves ==
  ASSUME TypeOK, NEW p \in Pods, NEW s, Become(p, s)
  PROVE  /\ pod'[p] = s /\ OthersStay(p)
         /\ s \in PodStates /\ (s.pc # "idle" => s.flushes < MaxFlushes) => Moved(p)
BY DEF TypeOK, Become, OthersStay, Moved

---------------------------------------------------------------------------
(* What each statement does to its pod.                                    *)

\* What a call leaves as it is: the batch, what is sent of it and what is known.
Like(s, r) ==
  /\ s.attempt = r.attempt /\ s.batch = r.batch /\ s.sent = r.sent /\ s.hard = r.hard
  /\ s.todo = r.todo /\ s.ready = r.ready /\ s.caches.known = r.caches.known

Carries(p) == Like(pod'[p], pod[p])

Labels ==
  {"idle", "strip", "ensure", "create", "partition", "align", "evolve", "insert", "raise"}

\* A pod that goes on to its next statement.
LEMMA PcMoves ==
  ASSUME NEW s \in PodStates, NEW x \in Labels
  PROVE  LET r == [s EXCEPT !.pc = x]
         IN  /\ r \in PodStates /\ Like(r, s) /\ r.pc = x /\ r.flushes = s.flushes
             /\ r.caches = s.caches
BY DEF PodStates, Like, Labels

\* A new flush.
LEMMA BeginDoes ==
  ASSUME TypeInv, NEW p \in Pods, NEW b \in Batches[p], Begin(p, b)
  PROVE  /\ Moved(p) /\ At(p, "idle")
         /\ pod'[p].pc = "strip" /\ pod'[p].batch = b /\ pod'[p].attempt = 1
         /\ pod'[p].sent = pod[p].sent /\ pod'[p].ready = pod[p].ready
         /\ pod'[p].caches.known = Known(p)
         /\ \A q \in Pods : q # p => disturbed'[q] = disturbed[q]
         /\ disturbed' \in [Pods -> BOOLEAN] /\ UNCHANGED <<table, landed, spent>>
<1> DEFINE s == [pod[p] EXCEPT !.pc = "strip", !.batch = b, !.attempt = 1]
<1>1. /\ Become(p, s) /\ At(p, "idle") /\ disturbed' = [disturbed EXCEPT ![p] = FALSE]
      /\ UNCHANGED <<table, landed, spent>> /\ pod[p].flushes < MaxFlushes
  BY DEF Begin
<1>2. b \in BatchSet /\ pod[p] \in PodStates /\ 1 \in 1 .. MaxAttempts /\ TypeOK
  BY PodFields, BatchAssumption, BoundAssumption DEF TypeInv
<1>3. s \in PodStates /\ s.flushes = pod[p].flushes
  BY <1>2 DEF PodStates
<1>4. pod'[p] = s /\ Moved(p)
  BY <1>1, <1>2, <1>3, Moves
<1> QED
  BY <1>1, <1>2, <1>4 DEF TypeOK, PodStates, Known

\* The columns that are stripped of the batch.
LEMMA StripDoes ==
  ASSUME TypeInv, NEW p \in Pods, Strip(p)
  PROVE  /\ Moved(p) /\ At(p, "strip")
         /\ pod'[p].attempt = pod[p].attempt /\ pod'[p].batch = pod[p].batch
         /\ pod'[p].caches = EnsureLoaded(pod[p].caches)
         /\ pod'[p].sent = Stripped(p, pod[p].batch.cols, pod'[p].caches.known)
         /\ pod'[p].ready = FALSE
         /\ \/ pod'[p].pc = "idle"
            \/ pod'[p].pc = "ensure" /\ pod'[p].sent # NoColumns
         /\ UNCHANGED <<table, landed, disturbed, spent>>
<1> DEFINE caches == EnsureLoaded(pod[p].caches)
           sent == Stripped(p, pod[p].batch.cols, caches.known)
           kept == [pod[p] EXCEPT !.caches = caches, !.sent = sent, !.hard = pod[p].batch.hard,
                                  !.ready = FALSE]
           idle == [kept EXCEPT !.pc = "idle", !.flushes = @ + 1]
           next == [kept EXCEPT !.pc = "ensure"]
<1>1. /\ At(p, "strip") /\ UNCHANGED <<table, landed, disturbed, spent>>
      /\ Become(p, idle) \/ (Become(p, next) /\ sent # NoColumns)
  BY DEF Strip
<1>2. TypeOK /\ pod[p] \in PodStates /\ pod[p].batch.hard \in BOOLEAN
      /\ pod[p].flushes \in 0 .. MaxFlushes /\ pod[p].flushes < MaxFlushes
  BY <1>1, PodFields DEF TypeInv, At, PodStates
<1>3. caches \in Caches /\ sent \in Schemas
  BY <1>2, PodFields, Loads, SchemasMade DEF Caches
<1> HIDE DEF caches, sent
<1>4. kept \in PodStates /\ kept.flushes = pod[p].flushes
  BY <1>2, <1>3 DEF PodStates, Caches
<1>5. idle \in PodStates /\ next \in PodStates /\ next.flushes = pod[p].flushes /\ idle.pc = "idle"
  <2>1. pod[p].flushes + 1 \in 0 .. MaxFlushes
    BY <1>2, BoundAssumption
  <2> HIDE DEF kept
  <2>2. next \in PodStates /\ next.flushes = pod[p].flushes
    BY <1>4 DEF PodStates
  <2>3. idle \in PodStates /\ idle.pc = "idle"
    BY <1>4, <2>1 DEF PodStates
  <2> QED
    BY <2>2, <2>3
<1>6. Moved(p) /\ (pod'[p] = idle \/ (pod'[p] = next /\ sent # NoColumns))
  BY <1>1, <1>2, <1>5, Moves
<1>7. /\ pod'[p].attempt = pod[p].attempt /\ pod'[p].batch = pod[p].batch
      /\ pod'[p].caches = caches /\ pod'[p].sent = sent /\ pod'[p].ready = FALSE
      /\ pod'[p].pc = "idle" \/ (pod'[p].pc = "ensure" /\ sent # NoColumns)
  BY <1>2, <1>4, <1>6 DEF PodStates
<1> QED
  BY <1>1, <1>6, <1>7 DEF caches, sent

\* The memo that the table is there, and partitioned as far as this pod can tell.
LEMMA EnsuredIs ==
  ASSUME NEW s \in PodStates
  PROVE  /\ Ensured(s) \in PodStates /\ Like(Ensured(s), s) /\ Ensured(s).pc = "align"
         /\ Ensured(s).flushes = s.flushes
<1> DEFINE k == [s.caches EXCEPT !.ensured = TRUE]
<1>1. s.caches \in Caches
  BY DEF PodStates, Caches
<1>2. k \in Caches /\ k.known = s.caches.known
  BY <1>1 DEF Caches
<1>3. Ensured(s) = [[s EXCEPT !.caches = k] EXCEPT !.pc = "align"]
  BY DEF Ensured
<1> HIDE DEF k
<1> QED
  BY <1>2, <1>3 DEF PodStates, Caches, Like

\* A pod goes on, or takes the table as there, with all it carries.
LEMMA GoesOn ==
  ASSUME TypeInv, NEW p \in Pods, ~At(p, "idle"),
         \/ \E x \in Labels : Become(p, [pod[p] EXCEPT !.pc = x])
         \/ Become(p, Ensured(pod[p]))
  PROVE  /\ Moved(p) /\ Carries(p)
         /\ \A x \in Labels : Become(p, [pod[p] EXCEPT !.pc = x]) => pod'[p].pc = x
         /\ Become(p, Ensured(pod[p])) => pod'[p].pc = "align"
<1>1. TypeOK /\ pod[p] \in PodStates /\ pod[p].flushes < MaxFlushes
  BY PodFields DEF TypeInv, At
<1>2. ASSUME NEW x \in Labels, Become(p, [pod[p] EXCEPT !.pc = x])
      PROVE  Moved(p) /\ Carries(p) /\ pod'[p].pc = x
  <2> DEFINE r == [pod[p] EXCEPT !.pc = x]
  <2>1. r \in PodStates /\ Like(r, pod[p]) /\ r.pc = x /\ r.flushes = pod[p].flushes
    BY <1>1, PcMoves
  <2>2. Become(p, r)
    BY <1>2
  <2> HIDE DEF r
  <2> QED
    BY <1>1, <2>1, <2>2, Moves DEF Carries
<1>3. ASSUME Become(p, Ensured(pod[p]))
      PROVE  Moved(p) /\ Carries(p) /\ pod'[p].pc = "align"
  BY <1>1, <1>3, EnsuredIs, Moves DEF Carries
<1> QED
  BY <1>2, <1>3

\* The look whether the table is there.
LEMMA EnsureDoes ==
  ASSUME TypeInv, NEW p \in Pods, Ensure(p)
  PROVE  /\ Moved(p) /\ Carries(p) /\ At(p, "ensure")
         /\ \/ pod'[p].pc = "align" /\ (pod[p].caches.ensured \/ table.exists)
            \/ pod'[p].pc = "create" /\ ~table.exists
         /\ UNCHANGED <<table, landed, disturbed, spent>>
<1>1. /\ At(p, "ensure") /\ ~At(p, "idle") /\ UNCHANGED <<table, landed, disturbed, spent>>
      /\ "align" \in Labels /\ "create" \in Labels
  BY DEF Ensure, At, Labels
<1>2. \/ pod[p].caches.ensured /\ Become(p, [pod[p] EXCEPT !.pc = "align"])
      \/ table.exists /\ Become(p, Ensured(pod[p]))
      \/ ~table.exists /\ Become(p, [pod[p] EXCEPT !.pc = "create"])
  BY DEF Ensure
<1> QED
  BY <1>1, <1>2, GoesOn

\* CREATE TABLE IF NOT EXISTS.
LEMMA CreateDoes ==
  ASSUME TypeInv, NEW p \in Pods, Create(p)
  PROVE  /\ Moved(p) /\ Carries(p) /\ At(p, "create") /\ pod'[p].pc = "partition"
         /\ Alter(p, IF table.exists THEN table
                     ELSE [exists |-> TRUE, partitioned |-> FALSE, cols |-> pod[p].sent])
         /\ UNCHANGED <<landed, spent>>
<1>1. /\ At(p, "create") /\ ~At(p, "idle") /\ "partition" \in Labels
      /\ Become(p, [pod[p] EXCEPT !.pc = "partition"])
  BY DEF Create, At, Labels
<1> QED
  BY <1>1, GoesOn DEF Create

\* SET PARTITIONED BY.
LEMMA PartitionDoes ==
  ASSUME TypeInv, NEW p \in Pods, Partition(p)
  PROVE  /\ Moved(p) /\ Carries(p) /\ At(p, "partition")
         /\ \/ table.exists /\ pod'[p].pc = "align" /\ Alter(p, [table EXCEPT !.partitioned = TRUE])
            \/ ~table.exists /\ pod'[p].pc = "raise" /\ UNCHANGED <<table, disturbed>>
         /\ UNCHANGED <<landed, spent>>
<1>1. /\ At(p, "partition") /\ ~At(p, "idle") /\ "raise" \in Labels
      /\ UNCHANGED <<landed, spent>>
      /\ \/ table.exists /\ Become(p, Ensured(pod[p])) /\ Alter(p, [table EXCEPT !.partitioned = TRUE])
         \/ ~table.exists /\ Become(p, [pod[p] EXCEPT !.pc = "raise"]) /\ UNCHANGED <<table, disturbed>>
  BY DEF Partition, At, Labels
<1> QED
  BY <1>1, GoesOn

\* A call that fails is a fault and disturbs its pod.
LEMMA FailureDoes ==
  ASSUME TypeInv, NEW p \in Pods,
         CreateFails(p) \/ PartitionFails(p) \/ CallFails(p) \/ InsertAnswerLost(p)
  PROVE  /\ Moved(p) /\ Carries(p) /\ pod'[p].pc \in {"partition", "align", "raise"}
         /\ pod'[p].pc # "raise" => pod[p].pc \in {"create", "partition"}
         /\ Fault(p) /\ UNCHANGED table
         /\ \/ UNCHANGED landed
            \/ At(p, "insert") /\ Accepts(Projection(p), pod[p].hard) /\ Land(p, Projection(p))
<1>1. /\ ~At(p, "idle") /\ "raise" \in Labels /\ "partition" \in Labels
      /\ \/ \E x \in {"raise", "partition"} : Become(p, [pod[p] EXCEPT !.pc = x])
         \/ Become(p, Ensured(pod[p]))
  <2>1. CASE CreateFails(p)
    <3>1. CASE table.exists
      BY <2>1, <3>1 DEF CreateFails, At, Labels
    <3>2. CASE ~table.exists
      BY <2>1, <3>2 DEF CreateFails, At, Labels
    <3> QED
      BY <3>1, <3>2
  <2>2. CASE PartitionFails(p)
    BY <2>2 DEF PartitionFails, At, Labels
  <2>3. CASE CallFails(p)
    BY <2>3 DEF CallFails, At, Labels
  <2>4. CASE InsertAnswerLost(p)
    BY <2>4 DEF InsertAnswerLost, At, Labels
  <2> QED
    BY <2>1, <2>2, <2>3, <2>4
<1>2. /\ Fault(p) /\ UNCHANGED table
      /\ \/ UNCHANGED landed
         \/ At(p, "insert") /\ Accepts(Projection(p), pod[p].hard) /\ Land(p, Projection(p))
  BY DEF CreateFails, PartitionFails, CallFails, InsertAnswerLost
<1>3. CallFails(p) \/ InsertAnswerLost(p) => pod'[p].pc = "raise"
  BY <1>1, GoesOn DEF CallFails, InsertAnswerLost
<1>4. CreateFails(p) \/ PartitionFails(p) => pod[p].pc \in {"create", "partition"}
  BY DEF CreateFails, PartitionFails, At
<1> QED
  BY <1>1, <1>2, <1>3, <1>4, GoesOn

\* The insert, and the string-only repeat of one that cannot shred.
LEMMA InsertDoes ==
  ASSUME TypeInv, NEW p \in Pods, Insert(p)
  PROVE  /\ Moved(p) /\ At(p, "insert") /\ pod'[p].attempt = pod[p].attempt
         /\ pod'[p].batch = pod[p].batch /\ pod'[p].sent = pod[p].sent
         /\ pod'[p].caches.known = Known(p) /\ pod'[p].todo = pod[p].todo
         /\ \/ ~Accepts(Projection(p), pod[p].hard) /\ pod'[p].pc = "raise" /\ UNCHANGED landed
            \/ pod'[p].pc = "insert" /\ ~pod'[p].ready /\ UNCHANGED landed
            \/ /\ Accepts(Projection(p), pod[p].hard) /\ Land(p, Projection(p))
               /\ pod'[p].pc = "idle"
         /\ UNCHANGED <<table, disturbed, spent>>
<1>1. TypeOK /\ pod[p] \in PodStates /\ At(p, "insert") /\ ~At(p, "idle")
      /\ pod[p].flushes < MaxFlushes /\ "raise" \in Labels
      /\ UNCHANGED <<table, disturbed, spent>>
  BY PodFields DEF TypeInv, At, Insert, Labels
<1>2. CASE ~Accepts(Projection(p), pod[p].hard)
  <2>1. Become(p, [pod[p] EXCEPT !.pc = "raise"]) /\ UNCHANGED landed
    BY <1>2 DEF Insert
  <2> QED
    BY <1>1, <1>2, <2>1, GoesOn DEF Carries, Like, Known
<1>3. CASE Accepts(Projection(p), pod[p].hard) /\ Unshreddable(p)
  <2> DEFINE s == [pod[p] EXCEPT !.ready = FALSE]
  <2>1. Become(p, s) /\ UNCHANGED landed
    BY <1>3 DEF Insert
  <2>2. s \in PodStates /\ s.flushes = pod[p].flushes /\ pod'[p] = s
    BY <1>1, <2>1, Moves DEF PodStates
  <2>3. Moved(p)
    BY <1>1, <2>1, <2>2, Moves
  <2> QED
    BY <1>1, <2>1, <2>2, <2>3 DEF PodStates, At, Known
<1>4. CASE Accepts(Projection(p), pod[p].hard) /\ ~Unshreddable(p)
  <2> DEFINE s == [pod[p] EXCEPT !.pc = "idle", !.flushes = @ + 1]
  <2>1. Become(p, s) /\ Land(p, Projection(p))
    BY <1>4 DEF Insert
  <2>2. pod[p].flushes + 1 \in 0 .. MaxFlushes
    BY <1>1, BoundAssumption DEF PodStates
  <2>3. s \in PodStates /\ s.pc = "idle" /\ pod'[p] = s
    BY <1>1, <2>1, <2>2, Moves DEF PodStates
  <2>4. Moved(p)
    BY <1>1, <2>1, <2>3, Moves
  <2> QED
    BY <1>1, <1>4, <2>1, <2>3, <2>4 DEF PodStates, Known
<1> QED
  BY <1>2, <1>3, <1>4

\* What an attempt that ended leaves to the next one.
LEMMA RetryDoes ==
  ASSUME TypeInv, NEW p \in Pods, Retry(p)
  PROVE  /\ Moved(p) /\ At(p, "raise") /\ pod'[p].pc = "strip"
         /\ pod'[p].batch = pod[p].batch /\ pod'[p].sent = pod[p].sent
         /\ pod'[p].ready = pod[p].ready /\ pod'[p].caches.known = Known(p)
         /\ ~pod'[p].caches.ensured /\ ~pod'[p].caches.loaded
         /\ disturbed' = [disturbed EXCEPT ![p] = FALSE] /\ UNCHANGED <<table, landed, spent>>
<1> DEFINE k == ResetCaches(pod[p].caches)
           s == [pod[p] EXCEPT !.pc = "strip", !.attempt = @ + 1, !.caches = ResetCaches(@)]
<1>1. /\ TypeOK /\ pod[p] \in PodStates /\ At(p, "raise") /\ ~At(p, "idle")
      /\ pod[p].flushes < MaxFlushes /\ pod[p].attempt < MaxAttempts /\ Become(p, s)
      /\ disturbed' = [disturbed EXCEPT ![p] = FALSE] /\ UNCHANGED <<table, landed, spent>>
  BY PodFields DEF TypeInv, At, Retry
<1>2. k \in Caches /\ k.known = Known(p) /\ ~k.ensured /\ ~k.loaded
  BY <1>1, PodFields DEF ResetCaches, Caches, Known
<1>3. pod[p].attempt + 1 \in 1 .. MaxAttempts
  BY <1>1, BoundAssumption DEF PodStates
<1>4. s = [pod[p] EXCEPT !.pc = "strip", !.attempt = @ + 1, !.caches = k]
  OBVIOUS
<1> HIDE DEF k, s
<1>5. /\ s \in PodStates /\ s.pc = "strip" /\ s.flushes = pod[p].flushes /\ s.batch = pod[p].batch
      /\ s.sent = pod[p].sent /\ s.ready = pod[p].ready /\ s.caches = k
  BY <1>1, <1>2, <1>3, <1>4 DEF PodStates, Caches
<1>6. pod'[p] = s /\ Moved(p)
  BY <1>1, <1>5, Moves
<1> QED
  BY <1>1, <1>2, <1>5, <1>6

\* A process that starts again with the batch of the one that ended.
LEMMA RestartDoes ==
  ASSUME TypeInv, NEW p \in Pods, GiveUp(p) \/ Crash(p)
  PROVE  /\ Moved(p) /\ ~At(p, "idle") /\ pod'[p].pc = "strip" /\ pod'[p].attempt = 1
         /\ pod'[p].batch = pod[p].batch /\ pod'[p].sent = pod[p].sent
         /\ pod'[p].ready = pod[p].ready /\ pod'[p].caches.known = NoColumns
         /\ ~At(p, "partition") \/ spent'.faults = spent.faults + 1
         /\ disturbed' = [disturbed EXCEPT ![p] = FALSE] /\ UNCHANGED <<table, landed>>
         /\ spent' = spent
            \/ (spent.faults < MaxFaults /\ spent' = [spent EXCEPT !.faults = @ + 1])
<1> DEFINE s == Restarted(pod[p])
<1>1. /\ TypeOK /\ pod[p] \in PodStates /\ ~At(p, "idle")
      /\ pod[p].flushes < MaxFlushes /\ Become(p, s)
      /\ disturbed' = [disturbed EXCEPT ![p] = FALSE] /\ UNCHANGED <<table, landed>>
  BY PodFields DEF TypeInv, At, GiveUp, Crash
<1>2. ColdCaches \in Caches /\ ColdCaches.known = NoColumns /\ 1 \in 1 .. MaxAttempts
  BY SchemasMade, BoundAssumption DEF ColdCaches, Caches
<1>3. s = [pod[p] EXCEPT !.pc = "strip", !.attempt = 1, !.caches = ColdCaches]
  BY DEF Restarted
<1> HIDE DEF s
<1>4. /\ s \in PodStates /\ s.pc = "strip" /\ s.flushes = pod[p].flushes /\ s.attempt = 1
      /\ s.batch = pod[p].batch /\ s.sent = pod[p].sent /\ s.ready = pod[p].ready
      /\ s.caches = ColdCaches
  BY <1>1, <1>2, <1>3 DEF PodStates, Caches
<1>5. pod'[p] = s /\ Moved(p)
  BY <1>1, <1>4, Moves
<1>6. \/ spent' = spent /\ At(p, "raise")
      \/ spent.faults < MaxFaults /\ spent' = [spent EXCEPT !.faults = @ + 1]
  BY DEF GiveUp, Crash
<1>7. ~At(p, "partition") \/ spent'.faults = spent.faults + 1
  BY <1>1, <1>6 DEF At, TypeOK
<1> QED
  BY <1>1, <1>2, <1>4, <1>5, <1>6, <1>7

\* No companion to write: on to the insert.
LEMMA SkipDoes ==
  ASSUME TypeInv, NEW p \in Pods, SkipVariant(p)
  PROVE  /\ Moved(p) /\ Carries(p) /\ At(p, "evolve") /\ pod[p].todo = {} /\ pod'[p].pc = "insert"
         /\ UNCHANGED <<table, landed, disturbed, spent>>
<1>1. /\ ~At(p, "idle") /\ "insert" \in Labels /\ Become(p, [pod[p] EXCEPT !.pc = "insert"])
      /\ At(p, "evolve") /\ pod[p].todo = {} /\ UNCHANGED <<table, landed, disturbed, spent>>
  BY DEF SkipVariant, At, Labels
<1> QED
  BY <1>1, GoesOn

\* Text for a column that is known as UUID is parsed, and evolve() begins.
LEMMA AlignDoes ==
  ASSUME TypeInv, NEW p \in Pods, Align(p)
  PROVE  /\ Moved(p) /\ At(p, "align") /\ pod'[p].pc = "evolve"
         /\ pod'[p].attempt = pod[p].attempt /\ pod'[p].batch = pod[p].batch
         /\ pod'[p].ready = pod[p].ready
         /\ pod'[p].caches = EnsureLoaded(pod[p].caches)
         /\ \A c \in Columns : c # "id" => pod'[p].sent[c] = pod[p].sent[c]
         /\ IF pod[p].sent["id"] = "VARCHAR" /\ pod'[p].caches.known["id"] = "UUID"
            THEN pod'[p].sent["id"] = "UUID"
            ELSE pod'[p].sent["id"] = pod[p].sent["id"]
         /\ pod'[p].todo = IF pod'[p].caches.known = NoColumns THEN {} ELSE Present(pod'[p].sent)
         /\ UNCHANGED <<table, landed, disturbed, spent>>
<1> DEFINE caches == EnsureLoaded(pod[p].caches)
           text == pod[p].sent["id"] = "VARCHAR" /\ caches.known["id"] = "UUID"
           parsed == [pod[p].sent EXCEPT !["id"] = "UUID"]
           aligned == IF text THEN [pod[p] EXCEPT !.sent["id"] = "UUID", !.hard = FALSE] ELSE pod[p]
           todo == IF caches.known = NoColumns THEN {} ELSE Present(aligned.sent)
           s == [aligned EXCEPT !.caches = caches, !.pc = "evolve", !.todo = todo]
<1>1. /\ TypeOK /\ pod[p] \in PodStates /\ At(p, "align") /\ ~At(p, "idle")
      /\ pod[p].flushes < MaxFlushes /\ Become(p, s)
      /\ UNCHANGED <<table, landed, disturbed, spent>>
  BY PodFields DEF TypeInv, At, Align
<1>2. caches \in Caches
  BY <1>1, PodFields, Loads
<1>3. parsed \in Schemas /\ parsed["id"] = "UUID"
      /\ \A c \in Columns : c # "id" => parsed[c] = pod[p].sent[c]
  BY <1>1, PodFields, TheColumns DEF Schemas, Types
<1>4. aligned = IF text THEN [pod[p] EXCEPT !.sent = parsed, !.hard = FALSE] ELSE pod[p]
  BY <1>1 DEF PodStates
<1> HIDE DEF caches, parsed
<1>5. /\ aligned \in PodStates /\ aligned.flushes = pod[p].flushes
      /\ aligned.attempt = pod[p].attempt /\ aligned.batch = pod[p].batch
      /\ aligned.ready = pod[p].ready
      /\ aligned.sent = IF text THEN parsed ELSE pod[p].sent
  <2> HIDE DEF text
  <2> QED
    BY <1>1, <1>3, <1>4 DEF PodStates
<1> HIDE DEF aligned
<1>6. todo \in SUBSET Columns
  BY DEF Present
<1> HIDE DEF todo
<1>7. /\ s \in PodStates /\ s.pc = "evolve" /\ s.flushes = pod[p].flushes
      /\ s.attempt = pod[p].attempt /\ s.batch = pod[p].batch /\ s.ready = pod[p].ready
      /\ s.caches = caches /\ s.sent = aligned.sent /\ s.todo = todo
  BY <1>2, <1>5, <1>6 DEF PodStates, Caches
<1> HIDE DEF s
<1>8. pod'[p] = s /\ Moved(p)
  BY <1>1, <1>7, Moves
<1> QED
  BY <1>1, <1>3, <1>5, <1>7, <1>8 DEF caches, text, todo

\* What ALTER TABLE makes of the table: ADD COLUMN, and SET DATA TYPE.
LEMMA TablesMade ==
  ASSUME table \in Tables, NEW c \in Columns, NEW t \in Types \cup {"none"}
  PROVE  /\ WithColumn(c, t) \in Tables /\ WithColumn(c, t).exists = table.exists
         /\ WithColumn(c, t).partitioned = table.partitioned
         /\ WithColumn(c, t).cols = [table.cols EXCEPT ![c] = IF @ = "none" THEN t ELSE @]
         /\ [table EXCEPT !.cols[c] = t] \in Tables
         /\ [table EXCEPT !.cols[c] = t].exists = table.exists
         /\ [table EXCEPT !.cols[c] = t].partitioned = table.partitioned
         /\ [table EXCEPT !.cols[c] = t].cols = [table.cols EXCEPT ![c] = t]
         /\ [table EXCEPT !.partitioned = TRUE] \in Tables
<1>1. table.cols \in Schemas
  BY DEF Tables
<1> DEFINE added == [table.cols EXCEPT ![c] = IF @ = "none" THEN t ELSE @]
           set == [table.cols EXCEPT ![c] = t]
<1>2. added \in Schemas /\ set \in Schemas
  BY <1>1 DEF Schemas
<1>3. /\ WithColumn(c, t) = [table EXCEPT !.cols = added]
      /\ [table EXCEPT !.cols[c] = t] = [table EXCEPT !.cols = set]
  BY DEF WithColumn, Tables
<1> HIDE DEF added, set
<1>4. /\ WithColumn(c, t) \in Tables /\ WithColumn(c, t).exists = table.exists
      /\ WithColumn(c, t).partitioned = table.partitioned /\ WithColumn(c, t).cols = added
  BY <1>2, <1>3 DEF Tables
<1>5. /\ [table EXCEPT !.cols = set] \in Tables /\ [table EXCEPT !.cols = set].exists = table.exists
      /\ [table EXCEPT !.cols = set].partitioned = table.partitioned
      /\ [table EXCEPT !.cols = set].cols = set
      /\ [table EXCEPT !.partitioned = TRUE] \in Tables
  BY <1>2 DEF Tables
<1> QED
  BY <1>3, <1>4, <1>5 DEF added, set

\* evolve() has come to one column more.
LEMMA EvolvedIs ==
  ASSUME TypeInv, NEW p \in Pods, At(p, "evolve"), NEW c \in Columns, NEW k \in Schemas,
         Become(p, Evolved(p, c, k))
  PROVE  /\ Moved(p) /\ pod'[p].pc = "evolve"
         /\ pod'[p].attempt = pod[p].attempt /\ pod'[p].batch = pod[p].batch
         /\ pod'[p].sent = pod[p].sent /\ pod'[p].ready = pod[p].ready
         /\ pod'[p].todo = pod[p].todo \ {c} /\ pod'[p].caches.known = k
<1> DEFINE ks == [pod[p].caches EXCEPT !.known = k]
           s == [pod[p] EXCEPT !.todo = @ \ {c}, !.caches = ks]
<1>1. TypeOK /\ pod[p] \in PodStates /\ pod[p].flushes < MaxFlushes
  BY PodFields DEF TypeInv, At
<1>2. ks \in Caches /\ ks.known = k
  BY <1>1, PodFields DEF Caches
<1>3. Evolved(p, c, k) = s
  BY <1>1 DEF Evolved, PodStates
<1> HIDE DEF ks
<1>4. /\ s \in PodStates /\ s.pc = pod[p].pc /\ s.flushes = pod[p].flushes
      /\ s.attempt = pod[p].attempt /\ s.batch = pod[p].batch /\ s.sent = pod[p].sent
      /\ s.ready = pod[p].ready /\ s.todo = pod[p].todo \ {c} /\ s.caches = ks
  BY <1>1, <1>2 DEF PodStates, Caches
<1> HIDE DEF s
<1>5. pod'[p] = s /\ Moved(p)
  BY <1>1, <1>3, <1>4, Moves
<1> QED
  BY <1>2, <1>4, <1>5 DEF At

\* The companion is projected if it is known as VARIANT.
LEMMA ConfirmedIs ==
  ASSUME TypeInv, NEW p \in Pods, At(p, "evolve"), NEW ks \in Caches, NEW k \in Schemas,
         Become(p, Confirmed(p, ks, k))
  PROVE  /\ Moved(p) /\ pod'[p].pc = "insert"
         /\ pod'[p].attempt = pod[p].attempt /\ pod'[p].batch = pod[p].batch
         /\ pod'[p].sent = pod[p].sent /\ pod'[p].todo = pod[p].todo
         /\ pod'[p].ready = (k["comp"] = "VARIANT") /\ pod'[p].caches.known = k
<1> DEFINE kn == [ks EXCEPT !.known = k]
           ready == k["comp"] = "VARIANT"
           s == [pod[p] EXCEPT !.pc = "insert", !.ready = ready, !.caches = kn]
<1>1. TypeOK /\ pod[p] \in PodStates /\ pod[p].flushes < MaxFlushes
  BY PodFields DEF TypeInv, At
<1>2. kn \in Caches /\ kn.known = k /\ ready \in BOOLEAN
  BY DEF Caches
<1>3. Confirmed(p, ks, k) = s
  BY DEF Confirmed
<1> HIDE DEF kn, ready
<1>4. /\ s \in PodStates /\ s.pc = "insert" /\ s.flushes = pod[p].flushes
      /\ s.attempt = pod[p].attempt /\ s.batch = pod[p].batch /\ s.sent = pod[p].sent
      /\ s.todo = pod[p].todo /\ s.ready = ready /\ s.caches = kn
  BY <1>1, <1>2 DEF PodStates, Caches
<1> HIDE DEF s
<1>5. pod'[p] = s /\ Moved(p)
  BY <1>1, <1>3, <1>4, Moves
<1> QED
  BY <1>2, <1>4, <1>5 DEF ready

\* A statement whose effect others notice if there is one, and its pod notices.
Noticed(p) == disturbed' = [q \in Pods |-> disturbed[q] \/ q = p \/ table' # table]
FaultSpent ==
  spent.faults < MaxFaults /\ spent' = [spent EXCEPT !.faults = @ + 1]

\* evolve(), one column: nothing to do; an ADD that is answered, refused, or
\* committed and not read back; a SET DATA TYPE that is answered or refused.
Matches(p, c, t) ==
  Known(p)[c] = t /\ pod'[p].caches.known = Known(p) /\ UNCHANGED <<table, disturbed, spent>>

Adds(p, c, t) ==
  /\ Known(p)[c] = "none" /\ table.exists /\ Alter(p, WithColumn(c, t)) /\ UNCHANGED spent
  /\ pod'[p].caches.known = WithColumn(c, t).cols

Refused(p) ==
  pod'[p].caches.known = Known(p) /\ UNCHANGED table /\ (Fault(p) \/ UNCHANGED <<disturbed, spent>>)

AddRefused(p, c) ==
  /\ Known(p)[c] = "none" /\ Refused(p) /\ (table.exists => Fault(p))

AddsUnread(p, c, t) ==
  /\ Known(p)[c] = "none" /\ table.exists /\ table' = WithColumn(c, t)
  /\ pod'[p].caches.known = [Known(p) EXCEPT ![c] = t] /\ Noticed(p) /\ FaultSpent

Widened(p, c, t) ==
  /\ Known(p)[c] \notin {"none", t} /\ table.exists /\ Widens(table.cols[c], t)
  /\ Alter(p, [table EXCEPT !.cols[c] = t]) /\ UNCHANGED spent
  /\ pod'[p].caches.known = [Known(p) EXCEPT ![c] = t]

WidenRefused(p, c, t) ==
  /\ Known(p)[c] \notin {"none", t} /\ Refused(p)
  /\ table.exists /\ Widens(table.cols[c], t) => Fault(p)

\* evolve(), one column: its cases.
LEMMA EvolveDoes ==
  ASSUME TypeInv, NEW p \in Pods, Evolve(p), NEW c, c = NextField(pod[p].todo),
         NEW t, t = pod[p].sent[c]
  PROVE  /\ Moved(p) /\ At(p, "evolve") /\ pod'[p].pc = "evolve"
         /\ c \in pod[p].todo /\ c \in Columns /\ t \in Types \cup {"none"}
         /\ pod'[p].attempt = pod[p].attempt /\ pod'[p].batch = pod[p].batch
         /\ pod'[p].sent = pod[p].sent /\ pod'[p].ready = pod[p].ready
         /\ pod'[p].todo = pod[p].todo \ {c} /\ UNCHANGED landed
         /\ \/ Matches(p, c, t) \/ Adds(p, c, t) \/ AddRefused(p, c) \/ AddsUnread(p, c, t)
            \/ Widened(p, c, t) \/ WidenRefused(p, c, t)
<1>1. TypeOK /\ At(p, "evolve") /\ pod[p].todo # {}
  BY DEF TypeInv, Evolve
<1>2. c \in pod[p].todo /\ c \in Columns
  BY <1>1, PodFields, NextIsTodo
<1>3. t \in Types \cup {"none"} /\ Known(p) \in Schemas /\ [Known(p) EXCEPT ![c] = t] \in Schemas
      /\ WithColumn(c, t).cols \in Schemas
  BY <1>1, <1>2, PodFields, SchemasMade, TablesMade DEF Tables
<1>4. EvolveMatching(p, c) \/ EvolveAdd(p, c) \/ EvolveWiden(p, c)
  BY DEF Evolve
<1>5. CASE EvolveMatching(p, c)
  BY <1>1, <1>2, <1>3, <1>5, EvolvedIs DEF EvolveMatching, Matches
<1>6. CASE EvolveAdd(p, c)
  <2>1. CASE AddColumn(p, c, t, FALSE)
    <3>1. /\ Become(p, Evolved(p, c, WithColumn(c, t).cols)) /\ table.exists
          /\ Alter(p, WithColumn(c, t)) /\ UNCHANGED <<landed, spent>> /\ Known(p)[c] = "none"
      BY <1>6, <2>1 DEF AddColumn, Knowing, EvolveAdd
    <3> QED
      BY <1>1, <1>2, <1>3, <3>1, EvolvedIs DEF Adds
  <2>2. CASE AddColumnFails(p, c, Known(p), FALSE)
    <3>1. /\ Become(p, Evolved(p, c, Known(p))) /\ UNCHANGED <<table, landed>>
          /\ IF table.exists THEN Fault(p) ELSE UNCHANGED <<disturbed, spent>>
          /\ Known(p)[c] = "none"
      BY <1>6, <2>2 DEF AddColumnFails, Knowing, EvolveAdd
    <3> QED
      BY <1>1, <1>2, <1>3, <3>1, EvolvedIs DEF AddRefused, Refused
  <2>3. CASE AddColumnUnread(p, c, t, Known(p), FALSE)
    <3>1. /\ Become(p, Evolved(p, c, [Known(p) EXCEPT ![c] = t])) /\ table.exists
          /\ table' = WithColumn(c, t) /\ UNCHANGED landed /\ Noticed(p) /\ FaultSpent
          /\ Known(p)[c] = "none"
      BY <1>6, <2>3 DEF AddColumnUnread, Knowing, EvolveAdd, Trusted, Noticed, FaultSpent
    <3> QED
      BY <1>1, <1>2, <1>3, <3>1, EvolvedIs DEF AddsUnread
  <2> QED
    BY <1>6, <2>1, <2>2, <2>3 DEF EvolveAdd
<1>7. CASE EvolveWiden(p, c)
  <2>1. CASE /\ table.exists /\ Widens(table.cols[c], t)
             /\ Become(p, Evolved(p, c, [Known(p) EXCEPT ![c] = t]))
             /\ Alter(p, [table EXCEPT !.cols[c] = t])
             /\ UNCHANGED spent
    <3>1. UNCHANGED landed /\ Known(p)[c] \notin {"none", t}
      BY <1>7 DEF EvolveWiden
    <3> QED
      BY <1>1, <1>2, <1>3, <2>1, <3>1, EvolvedIs DEF Widened
  <2>2. CASE /\ IF table.exists /\ Widens(table.cols[c], t) THEN Fault(p)
                ELSE UNCHANGED <<disturbed, spent>>
             /\ Become(p, Evolved(p, c, Known(p)))
             /\ UNCHANGED table
    <3>1. UNCHANGED landed /\ Known(p)[c] \notin {"none", t}
      BY <1>7 DEF EvolveWiden
    <3> QED
      BY <1>1, <1>2, <1>3, <2>2, <3>1, EvolvedIs DEF WidenRefused, Refused
  <2> QED
    BY <1>7, <2>1, <2>2 DEF EvolveWiden
<1> QED
  BY <1>4, <1>5, <1>6, <1>7

\* ensure_variant_columns: its cases.
LEMMA EnsureVariantDoes ==
  ASSUME TypeInv, NEW p \in Pods, EnsureVariant(p),
         NEW k, k = EnsureLoaded(pod[p].caches).known,
         NEW wide, wide = WithColumn("comp", "VARIANT")
  PROVE  /\ Moved(p) /\ At(p, "evolve") /\ pod'[p].pc = "insert" /\ p \in VariantPods
         /\ pod[p].todo = {} /\ pod'[p].todo = {}
         /\ pod'[p].attempt = pod[p].attempt /\ pod'[p].batch = pod[p].batch
         /\ pod'[p].sent = pod[p].sent /\ UNCHANGED landed
         /\ pod'[p].ready = (pod'[p].caches.known["comp"] = "VARIANT")
         /\ \/ pod'[p].caches.known = k /\ UNCHANGED <<table, disturbed, spent>>
            \/ /\ k["comp"] = "none" /\ table.exists /\ Alter(p, wide)
               /\ pod'[p].caches.known = wide.cols /\ UNCHANGED spent
            \/ /\ k["comp"] = "none" /\ pod'[p].caches.known = k /\ UNCHANGED table
               /\ IF table.exists THEN Fault(p) ELSE UNCHANGED <<disturbed, spent>>
            \/ /\ k["comp"] = "none" /\ table.exists /\ table' = wide
               /\ pod'[p].caches.known = k /\ Noticed(p) /\ FaultSpent
<1> DEFINE ks == EnsureLoaded(pod[p].caches)
<1>1. TypeOK /\ At(p, "evolve") /\ pod[p].todo = {} /\ p \in VariantPods
  BY DEF TypeInv, EnsureVariant, DualWrites
<1>2. ks \in Caches /\ k \in Schemas
  BY <1>1, PodFields, Loads DEF Caches
<1>3. wide.cols \in Schemas
  BY <1>1, PodFields, TheColumns, TablesMade DEF Tables, Types
<1>4. CASE Become(p, Confirmed(p, ks, k)) /\ UNCHANGED <<table, landed, disturbed, spent>>
  BY <1>1, <1>2, <1>4, ConfirmedIs
<1>5. CASE k["comp"] = "none" /\ AddColumn(p, "comp", "VARIANT", TRUE)
  <2>1. /\ Become(p, Confirmed(p, ks, wide.cols)) /\ table.exists
        /\ Alter(p, wide) /\ UNCHANGED <<landed, spent>>
    BY <1>5 DEF AddColumn, Knowing
  <2> QED
    BY <1>1, <1>2, <1>3, <1>5, <2>1, ConfirmedIs
<1>6. CASE k["comp"] = "none" /\ AddColumnFails(p, "comp", k, TRUE)
  <2>1. /\ Become(p, Confirmed(p, ks, k)) /\ UNCHANGED <<table, landed>>
        /\ IF table.exists THEN Fault(p) ELSE UNCHANGED <<disturbed, spent>>
    BY <1>6 DEF AddColumnFails, Knowing
  <2> QED
    BY <1>1, <1>2, <1>6, <2>1, ConfirmedIs
<1>7. CASE k["comp"] = "none" /\ AddColumnUnread(p, "comp", "VARIANT", k, TRUE)
  <2>1. /\ Become(p, Confirmed(p, ks, k)) /\ table.exists
        /\ table' = wide /\ UNCHANGED landed /\ Noticed(p) /\ FaultSpent
    BY <1>7 DEF AddColumnUnread, Knowing, Trusted, Noticed, FaultSpent
  <2> QED
    BY <1>1, <1>2, <1>7, <2>1, ConfirmedIs
<1> QED
  BY <1>4, <1>5, <1>6, <1>7 DEF EnsureVariant

---------------------------------------------------------------------------
(* What a step of one pod does to the table and to the others.             *)

\* Whoever did not make the step notices if it changed the table.
OthersNotice(p) ==
  \A q \in Pods : q # p =>
    disturbed'[q] \/ (table' = table /\ disturbed'[q] = disturbed[q])

Spents == [faults : 0 .. MaxFaults, drops : 0 .. MaxDrops]

\* A column that is added, or set to a wider type.
Reshapes(p) ==
  /\ table.exists /\ At(p, "evolve")
  /\ table'.exists /\ table'.partitioned = table.partitioned
  /\ \E c \in Columns, t \in Types \cup {"none"} :
       /\ (c \in pod[p].todo /\ t = pod[p].sent[c]) \/ (c = "comp" /\ t = "VARIANT")
       /\ table.cols[c] = "none" \/ Widens(table.cols[c], t)
       /\ table'.cols = [table.cols EXCEPT ![c] = t]

Creates(p) ==
  /\ At(p, "create") /\ pod'[p].pc = "partition" /\ ~table.exists
  /\ table' = [exists |-> TRUE, partitioned |-> FALSE, cols |-> pod[p].sent]

Partitions(p) ==
  /\ At(p, "partition") /\ table.exists /\ table' = [table EXCEPT !.partitioned = TRUE]

\* The books of a step: whose table, whose faults.
Booked(p) ==
  /\ table' \in Tables /\ disturbed' \in [Pods -> BOOLEAN] /\ OthersNotice(p)
  /\ spent' \in Spents /\ spent'.drops = spent.drops
  /\ spent'.faults = spent.faults \/ spent'.faults = spent.faults + 1
  /\ table' = table \/ Creates(p) \/ Partitions(p) \/ Reshapes(p)
  /\ \/ landed' = landed
     \/ At(p, "insert") /\ Accepts(Projection(p), pod[p].hard) /\ Land(p, Projection(p))

\* Books that stay.
LEMMA BooksStay ==
  ASSUME TypeOK, NEW p \in Pods, UNCHANGED <<table, disturbed, spent>>
  PROVE  /\ table' \in Tables /\ disturbed' \in [Pods -> BOOLEAN] /\ OthersNotice(p)
         /\ spent' \in Spents /\ spent'.drops = spent.drops /\ spent'.faults = spent.faults
BY DEF TypeOK, Tables, Spents, OthersNotice

\* A statement that is committed and answered.
LEMMA AlterBooks ==
  ASSUME TypeOK, NEW p \in Pods, NEW new \in Tables, Alter(p, new), UNCHANGED spent
  PROVE  /\ table' = new /\ table' \in Tables /\ disturbed' \in [Pods -> BOOLEAN]
         /\ OthersNotice(p) /\ disturbed'[p] = disturbed[p]
         /\ spent' \in Spents /\ spent'.drops = spent.drops /\ spent'.faults = spent.faults
<1>1. table' = new /\ disturbed' = [q \in Pods |-> disturbed[q] \/ (q # p /\ new # table)]
  BY DEF Alter
<1>2. disturbed \in [Pods -> BOOLEAN] /\ spent \in Spents
  BY DEF TypeOK, Spents
<1>3. \A q \in Pods : disturbed'[q] = (disturbed[q] \/ (q # p /\ new # table))
  BY <1>1
<1>4. \A q \in Pods : disturbed[q] \in BOOLEAN
  BY <1>2
<1>5. disturbed'[p] = disturbed[p]
  BY <1>3, <1>4, Zenon
<1>6. OthersNotice(p)
  <2> SUFFICES ASSUME NEW q \in Pods, q # p, ~ disturbed'[q]
               PROVE  table' = table /\ disturbed'[q] = disturbed[q]
    BY DEF OthersNotice
  <2>1. ~ disturbed[q] /\ new = table
    BY <1>3
  <2>2. disturbed'[q] = FALSE /\ disturbed[q] = FALSE
    BY <1>3, <1>4, <2>1
  <2> QED
    BY <1>1, <2>1, <2>2
<1>7. disturbed' \in [Pods -> BOOLEAN]
  BY <1>1
<1> QED
  BY <1>1, <1>2, <1>5, <1>6, <1>7

\* A fault that is charged.
LEMMA SpentBooks ==
  ASSUME TypeOK, FaultSpent
  PROVE  spent' \in Spents /\ spent'.drops = spent.drops /\ spent'.faults = spent.faults + 1
BY BoundAssumption DEF TypeOK, FaultSpent, Spents

\* A call that fails.
LEMMA FaultBooks ==
  ASSUME TypeOK, NEW p \in Pods, Fault(p), UNCHANGED table
  PROVE  /\ table' \in Tables /\ disturbed' \in [Pods -> BOOLEAN] /\ OthersNotice(p)
         /\ spent' \in Spents /\ spent'.drops = spent.drops
         /\ spent'.faults = spent.faults + 1 /\ disturbed'[p]
<1>1. spent' \in Spents /\ spent'.drops = spent.drops /\ spent'.faults = spent.faults + 1
  BY SpentBooks DEF Fault, FaultSpent
<1>2. disturbed' = [disturbed EXCEPT ![p] = TRUE] /\ disturbed \in [Pods -> BOOLEAN]
      /\ table \in Tables
  BY DEF Fault, TypeOK, Tables
<1>3. disturbed' \in [Pods -> BOOLEAN] /\ disturbed'[p]
      /\ \A q \in Pods : q # p => disturbed'[q] = disturbed[q]
  BY <1>2
<1> QED
  BY <1>1, <1>2, <1>3 DEF OthersNotice

\* A statement that is committed and whose answer is lost.
LEMMA NoticedBooks ==
  ASSUME TypeOK, NEW p \in Pods, Noticed(p), FaultSpent, table' \in Tables
  PROVE  /\ disturbed' \in [Pods -> BOOLEAN] /\ OthersNotice(p) /\ disturbed'[p]
         /\ spent' \in Spents /\ spent'.drops = spent.drops /\ spent'.faults = spent.faults + 1
<1>1. disturbed' = [q \in Pods |-> disturbed[q] \/ q = p \/ table' # table]
      /\ disturbed \in [Pods -> BOOLEAN]
  BY DEF Noticed, TypeOK
<1>2. \A q \in Pods : disturbed'[q] = (disturbed[q] \/ q = p \/ table' # table)
  BY <1>1
<1>3. OthersNotice(p)
  <2> SUFFICES ASSUME NEW q \in Pods, q # p, ~ disturbed'[q]
               PROVE  table' = table /\ disturbed'[q] = disturbed[q]
    BY DEF OthersNotice
  <2>1. ~ disturbed[q] /\ table' = table /\ disturbed[q] \in BOOLEAN
    BY <1>1, <1>2
  <2>2. disturbed'[q] = FALSE /\ disturbed[q] = FALSE
    BY <1>2, <2>1
  <2> QED
    BY <2>1, <2>2
<1> QED
  BY <1>1, <1>2, <1>3, SpentBooks

\* ADD COLUMN reshapes the table or leaves it.
LEMMA AddReshapes ==
  ASSUME TypeOK, NEW p \in Pods, At(p, "evolve"), table.exists,
         NEW c \in Columns, NEW t \in Types \cup {"none"},
         (c \in pod[p].todo /\ t = pod[p].sent[c]) \/ (c = "comp" /\ t = "VARIANT"),
         table' = WithColumn(c, t)
  PROVE  table' = table \/ Reshapes(p)
<1>1. /\ table \in Tables /\ table.cols \in Schemas
      /\ table'.exists = table.exists /\ table'.partitioned = table.partitioned
      /\ table'.cols = [table.cols EXCEPT ![c] = IF @ = "none" THEN t ELSE @]
      /\ table' \in Tables
  BY PodFields, TablesMade DEF Tables
<1>2. CASE table.cols[c] = "none"
  <2>1. table'.cols = [table.cols EXCEPT ![c] = t]
    BY <1>1, <1>2
  <2> QED
    BY <1>1, <1>2, <2>1 DEF Reshapes
<1>3. CASE table.cols[c] # "none"
  <2>1. table'.cols = table.cols
    BY <1>1, <1>3 DEF Schemas
  <2> HIDE DEF WithColumn
  <2>2. \A a, b \in Tables :
          a.exists = b.exists /\ a.partitioned = b.partitioned /\ a.cols = b.cols => a = b
    BY DEF Tables
  <2> QED
    BY <1>1, <2>1, <2>2
<1> QED
  BY <1>2, <1>3

\* Nor does evolve() reshape it otherwise.
LEMMA EvolveBooks ==
  ASSUME TypeOK, NEW p \in Pods, At(p, "evolve"), UNCHANGED landed,
         NEW c \in Columns, NEW t \in Types \cup {"none"}, c \in pod[p].todo, t = pod[p].sent[c],
         \/ Matches(p, c, t) \/ Adds(p, c, t) \/ AddRefused(p, c) \/ AddsUnread(p, c, t)
         \/ Widened(p, c, t) \/ WidenRefused(p, c, t)
  PROVE  Booked(p)
<1>1. table \in Tables
  BY PodFields
<1>2. /\ WithColumn(c, t) \in Tables /\ [table EXCEPT !.cols[c] = t] \in Tables
      /\ [table EXCEPT !.cols[c] = t].exists = table.exists
      /\ [table EXCEPT !.cols[c] = t].partitioned = table.partitioned
      /\ [table EXCEPT !.cols[c] = t].cols = [table.cols EXCEPT ![c] = t]
  BY <1>1, TablesMade
<1>3. CASE UNCHANGED <<table, disturbed, spent>>
  BY <1>3, BooksStay DEF Booked
<1>4. CASE UNCHANGED table /\ Fault(p)
  BY <1>4, FaultBooks DEF Booked
<1>5. CASE Adds(p, c, t)
  <2>1. table.exists /\ Alter(p, WithColumn(c, t)) /\ UNCHANGED spent
    BY <1>5 DEF Adds
  <2>2. /\ table' = WithColumn(c, t) /\ table' \in Tables /\ disturbed' \in [Pods -> BOOLEAN]
        /\ OthersNotice(p)
        /\ spent' \in Spents /\ spent'.drops = spent.drops /\ spent'.faults = spent.faults
    BY <1>2, <2>1, AlterBooks
  <2>3. table' = table \/ Reshapes(p)
    BY <2>1, <2>2, AddReshapes
  <2> QED
    BY <2>2, <2>3 DEF Booked
<1>6. CASE AddsUnread(p, c, t)
  <2>1. table.exists /\ table' = WithColumn(c, t) /\ Noticed(p) /\ FaultSpent
    BY <1>6 DEF AddsUnread
  <2>2. /\ table' \in Tables /\ disturbed' \in [Pods -> BOOLEAN] /\ OthersNotice(p)
        /\ spent' \in Spents /\ spent'.drops = spent.drops /\ spent'.faults = spent.faults + 1
    BY <1>2, <2>1, NoticedBooks
  <2>3. table' = table \/ Reshapes(p)
    BY <2>1, AddReshapes
  <2> QED
    BY <2>2, <2>3 DEF Booked
<1>7. CASE Widened(p, c, t)
  <2>1. /\ table.exists /\ Widens(table.cols[c], t)
        /\ Alter(p, [table EXCEPT !.cols[c] = t]) /\ UNCHANGED spent
    BY <1>7 DEF Widened
  <2>2. /\ table' = [table EXCEPT !.cols[c] = t] /\ table' \in Tables
        /\ disturbed' \in [Pods -> BOOLEAN] /\ OthersNotice(p)
        /\ spent' \in Spents /\ spent'.drops = spent.drops /\ spent'.faults = spent.faults
    BY <1>2, <2>1, AlterBooks
  <2>3. Reshapes(p)
    BY <1>2, <2>1, <2>2 DEF Reshapes
  <2> QED
    BY <2>2, <2>3 DEF Booked
<1> QED
  BY <1>3, <1>4, <1>5, <1>6, <1>7 DEF Matches, AddRefused, WidenRefused, Refused

\* Every step of a pod keeps the books.
LEMMA StepOf ==
  ASSUME TypeInv, NEW p \in Pods,
         Write(p) \/ Crash(p) \/ \E b \in Batches[p] : Begin(p, b)
  PROVE  Moved(p) /\ Booked(p)
<1>1. TypeOK /\ table \in Tables /\ spent \in Spents
  BY PodFields DEF TypeInv, TypeOK, Spents, Tables
<1>2. ASSUME NEW b \in Batches[p], Begin(p, b)
      PROVE  Moved(p) /\ Booked(p)
  <2>1. /\ Moved(p) /\ disturbed' \in [Pods -> BOOLEAN] /\ UNCHANGED <<table, landed, spent>>
        /\ \A q \in Pods : q # p => disturbed'[q] = disturbed[q]
    BY <1>2, BeginDoes
  <2> QED
    BY <1>1, <2>1 DEF Booked, OthersNotice
<1>3. CASE Strip(p) \/ Ensure(p) \/ Align(p) \/ SkipVariant(p)
  <2>1. Moved(p) /\ UNCHANGED <<table, landed, disturbed, spent>>
    BY <1>3, StripDoes, EnsureDoes, AlignDoes, SkipDoes
  <2> QED
    BY <1>1, <2>1, BooksStay DEF Booked
<1>4. CASE Create(p)
  <2> DEFINE new == IF table.exists THEN table
                    ELSE [exists |-> TRUE, partitioned |-> FALSE, cols |-> pod[p].sent]
  <2>1. /\ Moved(p) /\ At(p, "create") /\ pod'[p].pc = "partition" /\ Alter(p, new)
        /\ UNCHANGED <<landed, spent>>
    BY <1>4, CreateDoes
  <2>2. new \in Tables
    BY <1>1, PodFields DEF Tables
  <2>3. new = table \/ (~table.exists
                        /\ new = [exists |-> TRUE, partitioned |-> FALSE, cols |-> pod[p].sent])
    OBVIOUS
  <2> HIDE DEF new
  <2> QED
    BY <1>1, <2>1, <2>2, <2>3, AlterBooks DEF Booked, Creates
<1>5. CASE Partition(p)
  <2>1. /\ Moved(p) /\ At(p, "partition") /\ UNCHANGED <<landed, spent>>
        /\ \/ table.exists /\ Alter(p, [table EXCEPT !.partitioned = TRUE])
           \/ UNCHANGED <<table, disturbed>>
    BY <1>5, PartitionDoes
  <2>2. [table EXCEPT !.partitioned = TRUE] \in Tables
    BY <1>1 DEF Tables
  <2>3. CASE table.exists /\ Alter(p, [table EXCEPT !.partitioned = TRUE])
    BY <1>1, <2>1, <2>2, <2>3, AlterBooks DEF Booked, Partitions
  <2>4. CASE UNCHANGED <<table, disturbed>>
    BY <1>1, <2>1, <2>4, BooksStay DEF Booked
  <2> QED
    BY <2>1, <2>3, <2>4
<1>6. CASE CreateFails(p) \/ PartitionFails(p) \/ CallFails(p) \/ InsertAnswerLost(p)
  <2>1. /\ Moved(p) /\ Fault(p) /\ UNCHANGED table
        /\ \/ UNCHANGED landed
           \/ At(p, "insert") /\ Accepts(Projection(p), pod[p].hard) /\ Land(p, Projection(p))
    BY <1>6, FailureDoes
  <2> QED
    BY <1>1, <2>1, FaultBooks DEF Booked
<1>7. CASE Insert(p)
  <2>1. /\ Moved(p) /\ At(p, "insert") /\ UNCHANGED <<table, disturbed, spent>>
        /\ \/ UNCHANGED landed
           \/ Accepts(Projection(p), pod[p].hard) /\ Land(p, Projection(p))
    BY <1>7, InsertDoes
  <2> QED
    BY <1>1, <2>1, BooksStay DEF Booked
<1>8. CASE Retry(p) \/ GiveUp(p) \/ Crash(p)
  <2>1. /\ Moved(p) /\ disturbed' = [disturbed EXCEPT ![p] = FALSE] /\ UNCHANGED <<table, landed>>
        /\ spent' = spent \/ FaultSpent
    BY <1>8, RetryDoes, RestartDoes DEF FaultSpent
  <2>2. /\ disturbed' \in [Pods -> BOOLEAN]
        /\ \A q \in Pods : q # p => disturbed'[q] = disturbed[q]
    BY <1>1, <2>1 DEF TypeOK
  <2>3. /\ spent' \in Spents /\ spent'.drops = spent.drops
        /\ spent'.faults = spent.faults \/ spent'.faults = spent.faults + 1
    BY <1>1, <2>1, SpentBooks
  <2> QED
    BY <1>1, <2>1, <2>2, <2>3 DEF Booked, OthersNotice
<1>9. CASE Evolve(p)
  <2> SUFFICES ASSUME NEW c, c = NextField(pod[p].todo), NEW t, t = pod[p].sent[c]
               PROVE  Moved(p) /\ Booked(p)
    OBVIOUS
  <2>1. /\ Moved(p) /\ At(p, "evolve") /\ c \in pod[p].todo /\ c \in Columns
        /\ t \in Types \cup {"none"} /\ UNCHANGED landed
        /\ \/ Matches(p, c, t) \/ Adds(p, c, t) \/ AddRefused(p, c) \/ AddsUnread(p, c, t)
           \/ Widened(p, c, t) \/ WidenRefused(p, c, t)
    BY <1>9, EvolveDoes
  <2> QED
    BY <1>1, <2>1, EvolveBooks
<1>10. CASE EnsureVariant(p)
  <2> DEFINE wide == WithColumn("comp", "VARIANT")
  <2>1. /\ Moved(p) /\ At(p, "evolve") /\ UNCHANGED landed
        /\ \/ UNCHANGED <<table, disturbed, spent>>
           \/ table.exists /\ Alter(p, wide) /\ UNCHANGED spent
           \/ UNCHANGED table /\ (Fault(p) \/ UNCHANGED <<disturbed, spent>>)
           \/ table.exists /\ table' = wide /\ Noticed(p) /\ FaultSpent
    BY <1>10, EnsureVariantDoes
  <2>2. wide \in Tables /\ "comp" \in Columns /\ "VARIANT" \in Types \cup {"none"}
    BY <1>1, TheColumns, TablesMade DEF Types
  <2>3. CASE UNCHANGED <<table, disturbed, spent>>
    BY <1>1, <2>1, <2>3, BooksStay DEF Booked
  <2>4. CASE table.exists /\ Alter(p, wide) /\ UNCHANGED spent
    <3>1. /\ table' = wide /\ table' \in Tables /\ disturbed' \in [Pods -> BOOLEAN]
          /\ OthersNotice(p)
          /\ spent' \in Spents /\ spent'.drops = spent.drops /\ spent'.faults = spent.faults
      BY <1>1, <2>2, <2>4, AlterBooks
    <3>2. table' = table \/ Reshapes(p)
      BY <1>1, <2>1, <2>2, <2>4, <3>1, AddReshapes
    <3> QED
      BY <2>1, <3>1, <3>2 DEF Booked
  <2>5. CASE UNCHANGED table /\ Fault(p)
    BY <1>1, <2>1, <2>5, FaultBooks DEF Booked
  <2>6. CASE table.exists /\ table' = wide /\ Noticed(p) /\ FaultSpent
    <3>1. /\ table' \in Tables /\ disturbed' \in [Pods -> BOOLEAN] /\ OthersNotice(p)
          /\ spent' \in Spents /\ spent'.drops = spent.drops /\ spent'.faults = spent.faults + 1
      BY <1>1, <2>2, <2>6, NoticedBooks
    <3>2. table' = table \/ Reshapes(p)
      BY <1>1, <2>1, <2>2, <2>6, AddReshapes
    <3> QED
      BY <2>1, <3>1, <3>2 DEF Booked
  <2> QED
    BY <2>1, <2>3, <2>4, <2>5, <2>6
<1> QED
  BY <1>2, <1>3, <1>4, <1>5, <1>6, <1>7, <1>8, <1>9, <1>10 DEF Write

---------------------------------------------------------------------------
(* Types.                                                                  *)

\* What readers find is one of five.
LEMMA Companions ==
  ASSUME NEW p \in Pods, NEW cols
  PROVE  Companion(p, cols) \in {"null", "text", "raw", "projected", "flattened"}
BY DEF Companion

\* A drop of the table.
LEMMA DropDoes ==
  ASSUME TypeOK, Drop
  PROVE  /\ table' = NoTable /\ table' \in Tables /\ UNCHANGED <<landed, pod>>
         /\ disturbed' \in [Pods -> BOOLEAN] /\ (\A q \in Pods : disturbed'[q])
         /\ spent' \in Spents /\ spent'.drops = spent.drops + 1 /\ spent'.faults = spent.faults
BY SchemasMade, BoundAssumption DEF TypeOK, Drop, NoTable, Tables, Spents

\* Every step keeps the types, and the flushes of a pod within their bound.
LEMMA TypeStep == TypeInv /\ [Next]_vars => TypeInv'
<1> SUFFICES ASSUME TypeInv, [Next]_vars PROVE TypeInv'
  OBVIOUS
<1>1. ASSUME NEW p \in Pods, Write(p) \/ Crash(p) \/ \E b \in Batches[p] : Begin(p, b)
      PROVE  TypeInv'
  <2>1. Moved(p) /\ Booked(p)
    BY <1>1, StepOf
  <2>2. landed' \subseteq [pod : Pods, companion : {"null", "text", "raw", "projected", "flattened"}]
    BY <2>1, Companions DEF Booked, Land, TypeInv, TypeOK
  <2>3. TypeOK'
    BY <2>1, <2>2 DEF Moved, Booked, TypeOK, Tables, Spents
  <2>4. ASSUME NEW q \in Pods, pod'[q].pc # "idle" PROVE pod'[q].flushes < MaxFlushes
    BY <2>1, <2>4 DEF Moved, OthersStay, TypeInv, At
  <2> QED
    BY <2>3, <2>4 DEF TypeInv, At
<1>2. CASE Drop
  BY <1>2, DropDoes DEF TypeInv, TypeOK, Tables, Spents, At
<1>3. CASE UNCHANGED vars
  BY <1>3 DEF TypeInv, TypeOK, vars, At
<1> QED
  BY <1>1, <1>2, <1>3 DEF Next

\* The empty lake.
LEMMA TypeInit == Init => TypeInv
<1> SUFFICES ASSUME Init PROVE TypeInv
  OBVIOUS
<1>1. NoColumns \in Schemas /\ 0 \in 0 .. MaxFlushes /\ 1 \in 1 .. MaxAttempts
      /\ 0 \in 0 .. MaxFaults /\ 0 \in 0 .. MaxDrops
  BY SchemasMade, BoundAssumption
<1>2. IdlePod \in PodStates /\ IdlePod.pc = "idle"
  BY <1>1 DEF IdlePod, PodStates, ColdCaches, BatchSet
<1>3. NoTable \in Tables
  BY <1>1 DEF NoTable, Tables
<1> QED
  BY <1>1, <1>2, <1>3 DEF Init, TypeInv, TypeOK, At, Tables

\* ducklake.py, schema.py: the caches, batches and columns of every pod are of
\* their types, and no pod retries, flushes or drops beyond its bounds.
THEOREM TypeCorrect == Spec => []TypeOK
<1>1. TypeInv => TypeOK
  BY DEF TypeInv
<1> QED
  BY <1>1, TypeInit, TypeStep, PTL DEF Spec

---------------------------------------------------------------------------
(* Whoever creates the table partitions it, if nothing fails.              *)

\* Nobody passes over SET PARTITIONED BY unless something fails.
LEMMA PartitionPasses ==
  ASSUME TypeInv, NEW p \in Pods, At(p, "partition"),
         Write(p) \/ Crash(p) \/ \E b \in Batches[p] : Begin(p, b)
  PROVE  Partition(p) \/ spent'.faults = spent.faults + 1
<1>1. Partition(p) \/ PartitionFails(p) \/ Crash(p)
  BY DEF Write, At, Strip, Ensure, Create, CreateFails, Align, Evolve, SkipVariant, EnsureVariant,
         Insert, InsertAnswerLost, CallFails, Retry, GiveUp, Begin
<1>2. CASE PartitionFails(p)
  <2>1. FaultSpent
    BY <1>2 DEF PartitionFails, Fault, FaultSpent
  <2> QED
    BY <2>1, SpentBooks DEF TypeInv
<1>3. CASE Crash(p)
  BY <1>3, RestartDoes
<1> QED
  BY <1>1, <1>2, <1>3

\* Every step keeps somebody at work on it.
LEMMA PartitionStep == TypeInv /\ PartitionInv /\ [Next]_vars => PartitionInv'
<1> SUFFICES ASSUME TypeInv, PartitionInv, [Next]_vars,
                    (spent.faults = 0 /\ table.exists /\ ~table.partitioned)'
             PROVE  \E q \in Pods : pod'[q].pc = "partition"
  BY DEF PartitionInv, At
<1>1. ASSUME NEW p \in Pods, Write(p) \/ Crash(p) \/ \E b \in Batches[p] : Begin(p, b)
      PROVE  \E q \in Pods : pod'[q].pc = "partition"
  <2>1. Moved(p) /\ Booked(p)
    BY <1>1, StepOf
  <2>2. spent.faults \in Nat /\ table \in Tables
    BY BoundAssumption DEF TypeInv, TypeOK, Tables
  <2>3. spent.faults = 0 /\ spent'.faults # spent.faults + 1
    BY <2>1, <2>2 DEF Booked
  <2>4. CASE Creates(p)
    BY <2>4 DEF Creates
  <2>5. CASE Partitions(p)
    BY <2>2, <2>5 DEF Partitions, Tables
  <2>6. CASE table' = table \/ Reshapes(p)
    <3>1. table.exists /\ ~table.partitioned
      BY <2>6 DEF Reshapes
    <3>2. PICK q \in Pods : At(q, "partition")
      BY <2>3, <3>1 DEF PartitionInv
    <3>3. CASE q = p
      <4>1. Partition(p)
        BY <1>1, <2>3, <3>2, <3>3, PartitionPasses
      <4>2. Alter(p, [table EXCEPT !.partitioned = TRUE])
        BY <3>1, <4>1, PartitionDoes
      <4> QED
        BY <2>2, <4>2 DEF Alter, Tables
    <3>4. CASE q # p
      BY <2>1, <3>2, <3>4 DEF Moved, OthersStay, At
    <3> QED
      BY <3>3, <3>4
  <2> QED
    BY <2>1, <2>4, <2>5, <2>6 DEF Booked
<1>2. CASE Drop
  BY <1>2, DropDoes DEF TypeInv, NoTable
<1>3. CASE UNCHANGED vars
  BY <1>3 DEF vars, PartitionInv, At
<1> QED
  BY <1>1, <1>2, <1>3 DEF Next

\* ducklake.py _ensure_table: whichever pods raced to create the table, and
\* however often it was dropped, it is partitioned when all flushes are done,
\* unless a statement failed or a pod died in between.
THEOREM PartitionedIfNothingFails == Spec => []PartitionedUnlessInterrupted
<1>1. Init => PartitionInv
  BY DEF Init, NoTable, PartitionInv
<1>2. PartitionInv => PartitionedUnlessInterrupted
  BY DEF PartitionInv, PartitionedUnlessInterrupted, Done, At
<1> QED
  BY <1>1, <1>2, TypeInit, TypeStep, PartitionStep, PTL DEF Spec

---------------------------------------------------------------------------
(* A companion is only projected into a VARIANT column.                    *)

\* One pod's share of ReadyInv.
ReadyAt(p) ==
  /\ pod[p].ready => pod[p].pc \in {"insert", "idle", "raise", "strip"}
  /\ At(p, "evolve") => pod[p].todo \subseteq Present(pod[p].sent)

\* Every step keeps the companion for the flush that has verified it.
LEMMA ReadyStep == TypeInv /\ ReadyInv /\ [Next]_vars => ReadyInv'
<1> SUFFICES ASSUME TypeInv, ReadyInv, [Next]_vars PROVE ReadyInv'
  OBVIOUS
<1>1. ASSUME NEW p \in Pods, Write(p) \/ Crash(p) \/ \E b \in Batches[p] : Begin(p, b)
      PROVE  ReadyInv'
  <2> SUFFICES ReadyAt(p)'
    BY <1>1, StepOf DEF ReadyInv, ReadyAt, Moved, OthersStay, At
  <2>1. ReadyAt(p)
    BY DEF ReadyInv, ReadyAt
  <2>2. ASSUME NEW b \in Batches[p], Begin(p, b) PROVE ReadyAt(p)'
    BY <2>1, <2>2, BeginDoes DEF ReadyAt, At
  <2>3. CASE Strip(p)
    BY <2>3, StripDoes DEF ReadyAt, At
  <2>4. CASE Ensure(p) \/ Create(p) \/ Partition(p) \/ SkipVariant(p)
    <3>1. /\ Carries(p) /\ ~pod[p].ready /\ pod'[p].pc # "evolve"
      BY <2>1, <2>4, EnsureDoes, CreateDoes, PartitionDoes, SkipDoes DEF ReadyAt, At
    <3> QED
      BY <3>1 DEF ReadyAt, At, Carries, Like
  <2>5. CASE CreateFails(p) \/ PartitionFails(p) \/ CallFails(p) \/ InsertAnswerLost(p)
    <3>1. /\ Carries(p) /\ pod'[p].pc \in {"partition", "align", "raise"}
          /\ pod'[p].pc # "raise" => pod[p].pc \in {"create", "partition"}
      BY <2>5, FailureDoes
    <3>2. pod'[p].pc # "raise" => ~pod[p].ready
      BY <2>1, <3>1 DEF ReadyAt
    <3> QED
      BY <3>1, <3>2 DEF ReadyAt, At, Carries, Like
  <2>6. CASE Insert(p)
    BY <2>6, InsertDoes DEF ReadyAt, At
  <2>7. CASE Retry(p) \/ GiveUp(p) \/ Crash(p)
    BY <2>7, RetryDoes, RestartDoes DEF ReadyAt, At
  <2>8. CASE Align(p)
    BY <2>1, <2>8, AlignDoes DEF ReadyAt, At, Present
  <2>9. CASE Evolve(p)
    <3>1. /\ At(p, "evolve") /\ pod'[p].pc = "evolve" /\ pod'[p].sent = pod[p].sent
          /\ pod'[p].ready = pod[p].ready /\ pod'[p].todo \subseteq pod[p].todo
      BY <2>9, EvolveDoes
    <3> QED
      BY <2>1, <3>1 DEF ReadyAt, At
  <2>10. CASE EnsureVariant(p)
    BY <2>10, EnsureVariantDoes DEF ReadyAt, At
  <2> QED
    BY <1>1, <2>2, <2>3, <2>4, <2>5, <2>6, <2>7, <2>8, <2>9, <2>10 DEF Write
<1>2. CASE Drop
  BY <1>2, DropDoes DEF TypeInv, ReadyInv, At
<1>3. CASE UNCHANGED vars
  BY <1>3 DEF vars, ReadyInv, At
<1> QED
  BY <1>1, <1>2, <1>3 DEF Next

\* The companion column is there and can hold any value.
HasCompanion == table.exists /\ table.cols["comp"] = "VARIANT"

\* Nobody narrows a VARIANT column, as long as the table is not dropped.
LEMMA CompanionStays ==
  ASSUME TypeOK, NEW p \in Pods, Booked(p), HasCompanion
  PROVE  HasCompanion'
<1>1. CASE table' = table
  BY <1>1 DEF HasCompanion
<1>2. CASE Creates(p)
  BY <1>2 DEF HasCompanion, Creates
<1>3. CASE Partitions(p)
  BY <1>3 DEF HasCompanion, Partitions, TypeOK
<1>4. CASE Reshapes(p)
  <2>1. PICK c \in Columns, t \in Types \cup {"none"} :
          /\ table.cols[c] = "none" \/ Widens(table.cols[c], t)
          /\ table'.cols = [table.cols EXCEPT ![c] = t]
    BY <1>4 DEF Reshapes
  <2>2. c = "comp" => t = "VARIANT"
    BY <2>1 DEF HasCompanion, Widens
  <2>3. table'.exists /\ table.cols \in Schemas /\ "comp" \in Columns
    BY <1>4, TheColumns DEF Reshapes, TypeOK
  <2>4. table'.cols["comp"] = IF c = "comp" THEN t ELSE table.cols["comp"]
    BY <2>1, <2>3 DEF Schemas
  <2> QED
    BY <2>2, <2>3, <2>4 DEF HasCompanion
<1> QED
  BY <1>1, <1>2, <1>3, <1>4 DEF Booked

\* What is read of the live table is true of it.
LEMMA ReadsCompanion ==
  ASSUME TypeOK, NEW p \in Pods, Known(p)["comp"] = "VARIANT" => HasCompanion
  PROVE  EnsureLoaded(pod[p].caches).known["comp"] = "VARIANT" => HasCompanion
<1>1. /\ EnsureLoaded(pod[p].caches).known \in {Known(p), LiveColumns}
  BY PodFields, Loads DEF Known
<1>2. LiveColumns["comp"] = "VARIANT" => HasCompanion
  BY TheColumns DEF LiveColumns, NoColumns, HasCompanion
<1> QED
  BY <1>1, <1>2

\* The step of a configured pod.
LEMMA CompanionOwn ==
  ASSUME TypeInv, ReadyInv, NEW p \in Pods, p \in VariantPods, CompanionKnown(p),
         Write(p) \/ Crash(p) \/ \E b \in Batches[p] : Begin(p, b)
  PROVE  CompanionKnown(p)'
<1>1. TypeOK /\ Booked(p) /\ "comp" \in Columns /\ "comp" # "id"
  BY StepOf, TheColumns DEF TypeInv
<1> DEFINE knows == Known(p)["comp"] = "VARIANT"
           knows1 == pod'[p].caches.known["comp"] = "VARIANT"
<1>2. /\ pod[p].sent["comp"] = "none"
      /\ At(p, "insert") /\ pod[p].ready => knows
      /\ spent.drops = 0 /\ knows => HasCompanion
  BY DEF CompanionKnown, HasCompanion
<1>3. /\ pod[p].ready => pod[p].pc \in {"insert", "idle", "raise", "strip"}
      /\ At(p, "evolve") => pod[p].todo \subseteq Present(pod[p].sent)
  BY DEF ReadyInv
<1>4. spent'.drops = spent.drops
  BY <1>1 DEF Booked
<1> SUFFICES /\ pod'[p].sent["comp"] = "none"
             /\ pod'[p].pc = "insert" /\ pod'[p].ready => knows1
             /\ spent.drops = 0 /\ knows1 => HasCompanion'
  BY <1>4 DEF CompanionKnown, HasCompanion, At, Known
<1>5. HasCompanion => HasCompanion'
  BY <1>1, CompanionStays
<1>6. ASSUME knows1 => knows, pod'[p].sent["comp"] = "none",
             pod'[p].pc = "insert" => ~pod'[p].ready
      PROVE  /\ pod'[p].sent["comp"] = "none"
             /\ pod'[p].pc = "insert" /\ pod'[p].ready => knows1
             /\ spent.drops = 0 /\ knows1 => HasCompanion'
  BY <1>2, <1>5, <1>6
<1> HIDE DEF knows, knows1
<1>7. ASSUME NEW b \in Batches[p], Begin(p, b)
      PROVE  /\ knows1 => knows
             /\ pod'[p].sent["comp"] = "none"
             /\ pod'[p].pc = "insert" => ~pod'[p].ready
  BY <1>2, <1>7, BeginDoes DEF knows, knows1
<1>8. CASE Ensure(p) \/ Create(p) \/ Partition(p) \/ SkipVariant(p)
  <2>1. Carries(p) /\ ~pod[p].ready
    BY <1>3, <1>8, EnsureDoes, CreateDoes, PartitionDoes, SkipDoes DEF At
  <2> QED
    BY <1>2, <1>6, <2>1 DEF Carries, Like, knows, knows1, Known
<1>9. CASE CreateFails(p) \/ PartitionFails(p) \/ CallFails(p) \/ InsertAnswerLost(p)
  <2>1. Carries(p) /\ pod'[p].pc \in {"partition", "align", "raise"}
    BY <1>9, FailureDoes
  <2> QED
    BY <1>2, <1>6, <2>1 DEF Carries, Like, knows, knows1, Known
<1>10. CASE Insert(p)
  <2>1. /\ pod'[p].sent = pod[p].sent /\ pod'[p].caches.known = Known(p)
        /\ pod'[p].pc = "insert" => ~pod'[p].ready
    BY <1>10, InsertDoes
  <2> QED
    BY <1>2, <1>6, <2>1 DEF knows, knows1
<1>11. CASE Retry(p) \/ GiveUp(p) \/ Crash(p)
  <2>1. /\ pod'[p].sent = pod[p].sent /\ pod'[p].pc = "strip"
        /\ pod'[p].caches.known = Known(p) \/ pod'[p].caches.known = NoColumns
    BY <1>11, RetryDoes, RestartDoes
  <2>2. knows1 => knows
    BY <1>1, <2>1 DEF knows, knows1, NoColumns
  <2> QED
    BY <1>2, <1>6, <2>1, <2>2
<1>12. CASE Strip(p)
  <2>1. /\ UNCHANGED table /\ pod'[p].pc # "insert"
        /\ pod'[p].caches = EnsureLoaded(pod[p].caches)
        /\ pod'[p].sent = Stripped(p, pod[p].batch.cols, pod'[p].caches.known)
    BY <1>12, StripDoes
  <2>2. pod'[p].sent["comp"] = "none"
    BY <1>1, <2>1 DEF Stripped
  <2>3. spent.drops = 0 /\ knows1 => HasCompanion
    BY <1>1, <1>2, <2>1, ReadsCompanion DEF knows, knows1
  <2> QED
    BY <1>5, <2>1, <2>2, <2>3
<1>13. CASE Align(p)
  <2>1. /\ UNCHANGED table /\ pod'[p].pc # "insert"
        /\ pod'[p].caches = EnsureLoaded(pod[p].caches)
        /\ pod'[p].sent["comp"] = pod[p].sent["comp"]
    BY <1>1, <1>13, AlignDoes
  <2>2. spent.drops = 0 /\ knows1 => HasCompanion
    BY <1>1, <1>2, <2>1, ReadsCompanion DEF knows, knows1
  <2> QED
    BY <1>2, <1>5, <2>1, <2>2
<1>14. CASE Evolve(p)
  <2> SUFFICES ASSUME NEW c, c = NextField(pod[p].todo), NEW t, t = pod[p].sent[c]
               PROVE  spent.drops = 0 /\ knows1 => HasCompanion'
    <3>1. pod'[p].sent = pod[p].sent /\ pod'[p].pc = "evolve"
      BY <1>14, EvolveDoes
    <3> QED
      BY <1>2, <3>1
  <2>1. /\ At(p, "evolve") /\ c \in pod[p].todo /\ c \in Columns /\ t \in Types \cup {"none"}
        /\ \/ Matches(p, c, t) \/ Adds(p, c, t) \/ AddRefused(p, c) \/ AddsUnread(p, c, t)
           \/ Widened(p, c, t) \/ WidenRefused(p, c, t)
    BY <1>14, EvolveDoes
  <2>2. c # "comp"
    BY <1>2, <1>3, <2>1 DEF Present
  <2>3. CASE Adds(p, c, t)
    <3>1. /\ table.exists /\ table' = WithColumn(c, t)
          /\ pod'[p].caches.known = WithColumn(c, t).cols
      BY <2>3 DEF Adds, Alter
    <3>2. WithColumn(c, t).exists = table.exists
      BY <1>1, <2>1, PodFields, TablesMade
    <3> QED
      BY <3>1, <3>2 DEF HasCompanion, knows1
  <2>4. CASE ~Adds(p, c, t)
    <3>1. pod'[p].caches.known = Known(p) \/ pod'[p].caches.known = [Known(p) EXCEPT ![c] = t]
      BY <2>1, <2>4 DEF Matches, AddRefused, Refused, AddsUnread, Widened, WidenRefused
    <3>2. knows1 => knows
      BY <1>1, <2>1, <2>2, <3>1, PodFields DEF knows, knows1, Schemas
    <3> QED
      BY <1>2, <1>5, <3>2
  <2> QED
    BY <2>3, <2>4
<1>15. CASE EnsureVariant(p)
  <2> SUFFICES ASSUME NEW k, k = EnsureLoaded(pod[p].caches).known,
                      NEW wide, wide = WithColumn("comp", "VARIANT")
               PROVE  spent.drops = 0 /\ knows1 => HasCompanion'
    <3>1. /\ pod'[p].sent = pod[p].sent
          /\ pod'[p].ready = (pod'[p].caches.known["comp"] = "VARIANT")
      BY <1>15, EnsureVariantDoes
    <3> QED
      BY <1>2, <3>1 DEF knows1
  <2>1. \/ pod'[p].caches.known = k
        \/ table.exists /\ table' = wide /\ pod'[p].caches.known = wide.cols
    BY <1>15, EnsureVariantDoes DEF Alter
  <2>2. CASE pod'[p].caches.known = k
    <3>1. spent.drops = 0 /\ knows1 => HasCompanion
      BY <1>1, <1>2, <2>2, ReadsCompanion DEF knows, knows1
    <3> QED
      BY <1>5, <3>1
  <2>3. CASE table.exists /\ table' = wide /\ pod'[p].caches.known = wide.cols
    <3>1. wide.exists = table.exists
      BY <1>1, PodFields, TablesMade DEF Types
    <3> QED
      BY <2>3, <3>1 DEF HasCompanion, knows1
  <2> QED
    BY <2>1, <2>2, <2>3
<1> QED
  BY <1>6, <1>7, <1>8, <1>9, <1>10, <1>11, <1>12, <1>13, <1>14, <1>15 DEF Write

\* The insert of a configured pod writes its companion, or none.
LEMMA CompanionLands ==
  ASSUME TypeInv, NEW p \in Pods, p \in VariantPods, CompanionKnown(p), spent.drops = 0,
         At(p, "insert")
  PROVE  Companion(p, Projection(p)) \in {"null", "projected"}
<1>1. pod[p].sent["comp"] = "none" /\ (pod[p].ready => table.cols["comp"] = "VARIANT")
  BY DEF CompanionKnown
<1>2. pod[p].sent \in Schemas /\ "comp" \in Columns
  BY PodFields, TheColumns DEF TypeInv
<1>3. CASE pod[p].ready
  <2>1. Projection(p)["comp"] = "VARIANT"
    BY <1>2, <1>3 DEF Projection, Schemas
  <2> QED
    BY <1>1, <1>3, <2>1 DEF Companion
<1>4. CASE ~pod[p].ready
  <2>1. Projection(p)["comp"] = "none"
    BY <1>1, <1>4 DEF Projection
  <2> QED
    BY <2>1 DEF Companion
<1> QED
  BY <1>3, <1>4

\* The step of another pod keeps what a pod knows true.
LEMMA CompanionOthers ==
  ASSUME TypeInv, NEW p \in Pods, Moved(p), Booked(p), NEW q \in Pods, q # p, CompanionKnown(q)
  PROVE  CompanionKnown(q)'
<1>1. pod'[q] = pod[q] /\ spent'.drops = spent.drops
  BY DEF Moved, OthersStay, Booked
<1>2. HasCompanion => HasCompanion'
  BY CompanionStays DEF TypeInv
<1> QED
  BY <1>1, <1>2 DEF CompanionKnown, HasCompanion, At, Known

\* Every step keeps what the configured pods know, and what landed.
LEMMA CompanionStep == TypeInv /\ ReadyInv /\ CompanionInv /\ [Next]_vars => CompanionInv'
<1> SUFFICES ASSUME TypeInv, ReadyInv, CompanionInv, [Next]_vars PROVE CompanionInv'
  OBVIOUS
<1>1. \A p \in VariantPods : p \in Pods /\ CompanionKnown(p)
  BY PodAssumption DEF CompanionInv
<1>2. spent.drops \in Nat
  BY BoundAssumption DEF TypeInv, TypeOK
<1>3. ASSUME NEW p \in Pods, Write(p) \/ Crash(p) \/ \E b \in Batches[p] : Begin(p, b)
      PROVE  CompanionInv'
  <2>1. Moved(p) /\ Booked(p)
    BY <1>3, StepOf
  <2>2. \A q \in VariantPods : CompanionKnown(q)'
    BY <1>1, <1>3, <2>1, CompanionOthers, CompanionOwn
  <2>3. ASSUME spent'.drops = 0, NEW row \in landed', row.pod \in VariantPods
        PROVE  row.companion \in {"null", "projected"}
    <3>1. spent.drops = 0
      BY <2>1, <2>3 DEF Booked
    <3>2. CASE row \in landed
      BY <2>3, <3>1, <3>2 DEF CompanionInv, CompanionVerified
    <3>3. CASE row \notin landed
      <4>1. At(p, "insert") /\ Land(p, Projection(p))
        BY <2>1, <2>3, <3>3 DEF Booked
      <4>2. row = [pod |-> p, companion |-> Companion(p, Projection(p))]
        BY <2>3, <3>3, <4>1 DEF Land
      <4>3. row.pod = p /\ row.companion = Companion(p, Projection(p))
        BY <4>2
      <4> QED
        BY <1>1, <2>3, <3>1, <4>1, <4>3, CompanionLands
    <3> QED
      BY <3>2, <3>3
  <2>4. CompanionVerified'
    BY <2>3 DEF CompanionVerified
  <2> QED
    BY <2>2, <2>4 DEF CompanionInv
<1>4. CASE Drop
  <2>1. UNCHANGED <<landed, pod>> /\ spent'.drops # 0
    BY <1>2, <1>4, DropDoes DEF TypeInv
  <2> QED
    BY <1>1, <2>1 DEF CompanionInv, CompanionVerified, CompanionKnown, At, Known
<1>5. CASE UNCHANGED vars
  BY <1>1, <1>5 DEF CompanionInv, CompanionVerified, CompanionKnown, vars, At, Known
<1> QED
  BY <1>3, <1>4, <1>5 DEF Next

\* schema.py _add_column, ensure_variant_columns: whoever added the companion
\* first and in which type, and whatever failed in between, a configured pod
\* projects it into a VARIANT column or not at all, until the table is dropped.
THEOREM CompanionsAreVerified == Spec => []CompanionVerified
<1>1. Init => ReadyInv /\ CompanionInv
  BY PodAssumption, TheColumns
     DEF Init, IdlePod, ColdCaches, NoColumns, ReadyInv, CompanionInv, CompanionVerified,
              CompanionKnown, At, Known
<1>2. CompanionInv => CompanionVerified
  BY DEF CompanionInv
<1> QED
  BY <1>1, <1>2, TypeInit, TypeStep, ReadyStep, CompanionStep, PTL DEF Spec

---------------------------------------------------------------------------
(* A retry recovers.                                                       *)

\* A table keeps its columns to the types of the fields.
LEMMA TableFieldsStep ==
  ASSUME TypeInv, ReadyInv, FieldsInv, NEW p \in Pods, Booked(p)
  PROVE  TableFields'
<1>1. TypeOK /\ table.cols \in Schemas /\ pod[p].sent \in Schemas
  BY PodFields DEF TypeInv, Tables
<1>2. TableFields /\ PodFielded(p)
  BY DEF FieldsInv
<1>3. CASE table' = table
  BY <1>2, <1>3 DEF TableFields
<1>4. CASE Creates(p)
  <2>1. table'.exists /\ table'.cols = pod[p].sent /\ At(p, "create")
    BY <1>4 DEF Creates
  <2> QED
    BY <1>2, <2>1 DEF TableFields, PodFielded, Fielded, At
<1>5. CASE Partitions(p)
  <2>1. table'.exists = table.exists /\ table'.cols = table.cols
    BY <1>1, <1>5, PodFields DEF Partitions, Tables
  <2> QED
    BY <1>2, <2>1 DEF TableFields
<1>6. CASE Reshapes(p)
  <2>1. PICK c \in Columns, t \in Types \cup {"none"} :
          /\ (c \in pod[p].todo /\ t = pod[p].sent[c]) \/ (c = "comp" /\ t = "VARIANT")
          /\ table'.cols = [table.cols EXCEPT ![c] = t]
    BY <1>6 DEF Reshapes
  <2>2. table'.exists /\ At(p, "evolve")
    BY <1>6 DEF Reshapes
  <2>3. t # "none"
    BY <2>1, <2>2 DEF ReadyInv, Present
  <2>4. table'.cols[c] = t /\ \A d \in Columns : d # c => table'.cols[d] = table.cols[d]
    BY <1>1, <2>1 DEF Schemas
  <2>5. table'.cols # NoColumns
    BY <2>3, <2>4 DEF NoColumns
  <2>6. \/ c = "src" /\ t = "VARCHAR"
        \/ c = "comp" /\ t \in {"VARCHAR", "VARIANT"}
        \/ c = "id" /\ t \in {"VARCHAR", "UUID"}
        \/ c = "num" /\ t \in {"INTEGER", "BIGINT"}
    BY <1>2, <2>1, <2>3, TheColumns DEF PodFielded, Fielded
  <2>7. /\ table'.cols["src"] \in {"none", "VARCHAR"}
        /\ table'.cols["comp"] \in {"none", "VARCHAR", "VARIANT"}
        /\ table'.cols["id"] \in {"none", "VARCHAR", "UUID"}
        /\ table'.cols["num"] \in {"none", "INTEGER", "BIGINT"}
    BY <1>2, <2>4, <2>6, TheColumns DEF TableFields
  <2> QED
    BY <2>2, <2>5, <2>7 DEF TableFields
<1> QED
  BY <1>3, <1>4, <1>5, <1>6 DEF Booked

\* A pod keeps what it sends to the types of the fields.
LEMMA PodFieldedStep ==
  ASSUME FieldedBatches, TypeInv, NEW p \in Pods, PodFielded(p),
         Write(p) \/ Crash(p) \/ \E b \in Batches[p] : Begin(p, b)
  PROVE  PodFielded(p)'
<1>1. ASSUME NEW b \in Batches[p], Begin(p, b) PROVE PodFielded(p)'
  <2>1. pod'[p].batch = b /\ pod'[p].sent = pod[p].sent /\ pod'[p].pc = "strip"
    BY <1>1, BeginDoes
  <2>2. Fielded(b.cols)
    BY DEF FieldedBatches
  <2> QED
    BY <2>1, <2>2 DEF PodFielded, Fielded
<1>2. CASE Strip(p)
  <2>1. /\ pod'[p].batch = pod[p].batch
        /\ pod'[p].sent = Stripped(p, pod[p].batch.cols, pod'[p].caches.known)
        /\ pod'[p].pc = "ensure" => pod'[p].sent # NoColumns
        /\ pod'[p].pc # "create"
    BY <1>2, StripDoes
  <2>2. \A c \in Columns : pod'[p].sent[c] \in {"none", pod[p].batch.cols[c]}
    BY <2>1 DEF Stripped
  <2>3. Fielded(pod'[p].sent)
    BY <2>2, TheColumns DEF PodFielded, Fielded
  <2> QED
    BY <2>1, <2>3 DEF PodFielded
<1>3. CASE Align(p)
  <2>1. /\ pod'[p].batch = pod[p].batch /\ pod'[p].pc = "evolve"
        /\ \A c \in Columns : c # "id" => pod'[p].sent[c] = pod[p].sent[c]
        /\ pod'[p].sent["id"] \in {"UUID", pod[p].sent["id"]}
    BY <1>3, AlignDoes
  <2>2. Fielded(pod'[p].sent)
    BY <2>1, TheColumns DEF PodFielded, Fielded
  <2> QED
    BY <2>1, <2>2 DEF PodFielded
<1>4. CASE \/ Ensure(p) \/ Create(p) \/ Partition(p) \/ SkipVariant(p)
           \/ CreateFails(p) \/ PartitionFails(p) \/ CallFails(p) \/ InsertAnswerLost(p)
  <2>1. /\ Carries(p)
        /\ pod'[p].pc \in {"ensure", "create"} => At(p, "ensure")
    BY <1>4, EnsureDoes, CreateDoes, PartitionDoes, SkipDoes, FailureDoes
  <2> QED
    BY <2>1 DEF PodFielded, Carries, Like, At
<1>5. CASE Insert(p) \/ Retry(p) \/ GiveUp(p) \/ Crash(p)
  <2>1. pod'[p].batch = pod[p].batch /\ pod'[p].sent = pod[p].sent
        /\ pod'[p].pc \notin {"ensure", "create"}
    BY <1>5, InsertDoes, RetryDoes, RestartDoes
  <2> QED
    BY <2>1 DEF PodFielded
<1>6. CASE Evolve(p) \/ EnsureVariant(p)
  <2>1. pod'[p].batch = pod[p].batch /\ pod'[p].sent = pod[p].sent
        /\ pod'[p].pc \notin {"ensure", "create"}
    BY <1>6, EvolveDoes, EnsureVariantDoes
  <2> QED
    BY <2>1 DEF PodFielded
<1> QED
  BY <1>1, <1>2, <1>3, <1>4, <1>5, <1>6 DEF Write

\* Every step keeps to the types of the fields.
LEMMA FieldsStep ==
  ASSUME FieldedBatches
  PROVE  TypeInv /\ ReadyInv /\ FieldsInv /\ [Next]_vars => FieldsInv'
<1> SUFFICES ASSUME TypeInv, ReadyInv, FieldsInv, [Next]_vars PROVE FieldsInv'
  OBVIOUS
<1>1. ASSUME NEW p \in Pods, Write(p) \/ Crash(p) \/ \E b \in Batches[p] : Begin(p, b)
      PROVE  FieldsInv'
  <2>1. Moved(p) /\ Booked(p)
    BY <1>1, StepOf
  <2>2. TableFields'
    BY <2>1, TableFieldsStep
  <2>3. ASSUME NEW q \in Pods PROVE PodFielded(q)'
    <3>1. CASE q = p
      BY <1>1, <3>1, PodFieldedStep DEF FieldsInv
    <3>2. CASE q # p
      BY <2>1, <3>2 DEF FieldsInv, PodFielded, Moved, OthersStay
    <3> QED
      BY <3>1, <3>2
  <2> QED
    BY <2>2, <2>3 DEF FieldsInv
<1>2. CASE Drop
  <2>1. UNCHANGED pod /\ table' = NoTable
    BY <1>2, DropDoes DEF TypeInv
  <2>2. TableFields'
    BY <2>1, TheColumns DEF TableFields, NoTable, NoColumns
  <2> QED
    BY <2>1, <2>2 DEF FieldsInv, PodFielded
<1>3. CASE UNCHANGED vars
  BY <1>3 DEF vars, FieldsInv, TableFields, PodFielded
<1> QED
  BY <1>1, <1>2, <1>3 DEF Next

\* A retry up to evolve(): the table is read before it is relied upon.
LEMMA RetryReads ==
  ASSUME TypeInv, TableFields, NEW p \in Pods, AttemptKnows(p),
         Strip(p) \/ Ensure(p) \/ Create(p) \/ Partition(p) \/ Align(p),
         pod'[p].attempt > 1, ~disturbed'[p]
  PROVE  AttemptKnows(p)'
<1>1. /\ pod[p].caches \in Caches /\ table \in Tables /\ pod[p].sent \in Schemas /\ TypeOK
      /\ "id" \in Columns
  BY PodFields, TheColumns DEF TypeInv
<1>2. table.exists => LiveColumns = table.cols /\ table.cols # NoColumns
  BY DEF TableFields, LiveColumns
<1>3. CASE Strip(p)
  <2>1. /\ At(p, "strip") /\ pod'[p].pc \in {"idle", "ensure"} /\ UNCHANGED table
        /\ pod'[p].caches = EnsureLoaded(pod[p].caches)
    BY <1>3, StripDoes
  <2>2. ~pod[p].caches.ensured /\ ~pod[p].caches.loaded
    BY <2>1 DEF AttemptKnows
  <2>3. ~pod'[p].caches.ensured /\ pod'[p].caches.known = LiveColumns
    BY <1>1, <2>1, <2>2, Loads
  <2>4. LiveColumns' = LiveColumns
    BY <2>1 DEF LiveColumns
  <2> QED
    BY <2>1, <2>3, <2>4 DEF AttemptKnows, At, Known
<1>4. CASE Ensure(p)
  <2>1. /\ Carries(p) /\ At(p, "ensure") /\ UNCHANGED table
        /\ \/ pod'[p].pc = "align" /\ (pod[p].caches.ensured \/ table.exists)
           \/ pod'[p].pc = "create" /\ ~table.exists
    BY <1>4, EnsureDoes
  <2>2. ~pod[p].caches.ensured /\ Known(p) = LiveColumns
    BY <2>1 DEF AttemptKnows
  <2>3. pod'[p].caches.known = LiveColumns
    BY <2>1, <2>2 DEF Carries, Like, Known
  <2>4. ~table.exists => LiveColumns = NoColumns
    BY DEF LiveColumns
  <2> QED
    BY <1>2, <2>1, <2>2, <2>3, <2>4 DEF AttemptKnows, At, Known
<1>5. CASE Create(p)
  <2> DEFINE new == [exists |-> TRUE, partitioned |-> FALSE, cols |-> pod[p].sent]
  <2>1. /\ Carries(p) /\ At(p, "create") /\ pod'[p].pc = "partition"
        /\ Alter(p, IF table.exists THEN table ELSE new)
    BY <1>5, CreateDoes
  <2>2. table'.exists
    BY <2>1 DEF Alter
  <2>3. pod'[p].caches.known = NoColumns
    BY <2>1 DEF AttemptKnows, Carries, Like, Known
  <2> QED
    BY <2>1, <2>2, <2>3 DEF AttemptKnows, At, Known
<1>6. CASE Partition(p)
  <2>1. /\ Carries(p) /\ At(p, "partition") /\ table.exists
        /\ pod'[p].pc = "align" /\ Alter(p, [table EXCEPT !.partitioned = TRUE])
    BY <1>6, PartitionDoes DEF AttemptKnows
  <2>2. table'.exists
    BY <1>1, <2>1 DEF Alter, Tables
  <2>3. pod'[p].caches.known = NoColumns
    BY <2>1 DEF AttemptKnows, Carries, Like, Known
  <2> QED
    BY <2>1, <2>2, <2>3 DEF AttemptKnows, At, Known
<1>7. CASE Align(p)
  <2>1. /\ At(p, "align") /\ pod'[p].pc = "evolve" /\ UNCHANGED table
        /\ pod'[p].caches = EnsureLoaded(pod[p].caches)
        /\ IF pod[p].sent["id"] = "VARCHAR" /\ pod'[p].caches.known["id"] = "UUID"
           THEN pod'[p].sent["id"] = "UUID"
           ELSE pod'[p].sent["id"] = pod[p].sent["id"]
        /\ pod'[p].todo = IF pod'[p].caches.known = NoColumns THEN {} ELSE Present(pod'[p].sent)
    BY <1>7, AlignDoes
  <2>2. table.exists /\ Known(p) \in {NoColumns, table.cols}
    BY <2>1 DEF AttemptKnows
  <2>3. pod'[p].caches.known = table.cols
    BY <1>1, <1>2, <2>1, <2>2, Loads DEF Known
  <2>4. pod'[p].todo = Present(pod'[p].sent)
    BY <1>2, <2>1, <2>2, <2>3
  <2>5. ~ (pod'[p].sent["id"] = "VARCHAR" /\ table.cols["id"] = "UUID")
    BY <2>1, <2>3
  <2> QED
    BY <2>1, <2>2, <2>3, <2>4, <2>5 DEF AttemptKnows, At, Known
<1> QED
  BY <1>3, <1>4, <1>5, <1>6, <1>7

\* What no SET DATA TYPE widens takes the values of the batch as they are.
LEMMA TakesUnwidened ==
  ASSUME TableFields, NEW p \in Pods, Fielded(pod[p].sent), NEW c \in Columns,
         pod[p].sent[c] # "none", table.cols[c] # "none",
         ~ Widens(table.cols[c], pod[p].sent[c]),
         ~ (pod[p].sent["id"] = "VARCHAR" /\ table.cols["id"] = "UUID")
  PROVE  Takes(p, c)
<1>1. CASE c = "src"
  BY <1>1 DEF TableFields, Fielded, Takes, Casts
<1>2. CASE c = "comp"
  BY <1>2 DEF TableFields, Fielded, Takes, Casts
<1>3. CASE c = "id"
  BY <1>3 DEF TableFields, Fielded, Takes, Casts
<1>4. CASE c = "num"
  BY <1>4 DEF TableFields, Fielded, Takes, Casts, Widens
<1> QED
  BY <1>1, <1>2, <1>3, <1>4, TheColumns

\* A retry in evolve(): the cache follows the table, column by column.
LEMMA RetryEvolves ==
  ASSUME TypeInv, ReadyInv, FieldsInv, NEW p \in Pods, AttemptKnows(p), Evolve(p),
         ~disturbed'[p]
  PROVE  AttemptKnows(p)'
<1> SUFFICES ASSUME NEW c, c = NextField(pod[p].todo), NEW t, t = pod[p].sent[c]
             PROVE  AttemptKnows(p)'
  OBVIOUS
<1>1. /\ At(p, "evolve") /\ pod'[p].pc = "evolve" /\ c \in pod[p].todo /\ c \in Columns
      /\ t \in Types \cup {"none"}
      /\ pod'[p].sent = pod[p].sent /\ pod'[p].todo = pod[p].todo \ {c}
      /\ \/ Matches(p, c, t) \/ Adds(p, c, t) \/ AddRefused(p, c) \/ AddsUnread(p, c, t)
         \/ Widened(p, c, t) \/ WidenRefused(p, c, t)
  BY EvolveDoes
<1>2. /\ Known(p) = table.cols /\ table.exists
      /\ ~ (pod[p].sent["id"] = "VARCHAR" /\ table.cols["id"] = "UUID")
      /\ \A d \in Present(pod[p].sent) \ pod[p].todo : Takes(p, d)
  BY <1>1 DEF AttemptKnows
<1>3. t # "none" /\ TypeOK /\ table \in Tables /\ table.cols \in Schemas
  BY <1>1, PodFields DEF TypeInv, ReadyInv, Present, Tables
<1>4. ~ Fault(p) /\ ~ Noticed(p)
  BY DEF Fault, Noticed, TypeInv, TypeOK
<1>5. ASSUME pod'[p].caches.known = table'.cols, table'.exists,
             \A d \in Columns : d # c => table'.cols[d] = table.cols[d],
             table'.cols[c] # "none", Casts(t, table'.cols[c], TRUE),
             c = "id" => ~ (t = "VARCHAR" /\ table'.cols[c] = "UUID")
      PROVE  AttemptKnows(p)'
  <2>1. ASSUME NEW d \in Present(pod'[p].sent) \ pod'[p].todo PROVE Takes(p, d)'
    <3>1. d \in Columns
      BY DEF Present
    <3>2. CASE d = c
      BY <1>1, <1>5, <3>2 DEF Takes
    <3>3. CASE d # c
      <4>1. Takes(p, d)
        BY <1>1, <1>2, <3>3
      <4> QED
        BY <1>1, <1>5, <3>1, <3>3, <4>1 DEF Takes
    <3> QED
      BY <3>2, <3>3
  <2>2. ~ (pod'[p].sent["id"] = "VARCHAR" /\ table'.cols["id"] = "UUID")
    BY <1>1, <1>2, <1>5, TheColumns
  <2> QED
    BY <1>1, <1>5, <2>1, <2>2 DEF AttemptKnows, At, Known
<1>6. CASE Matches(p, c, t)
  <2>1. table' = table /\ table.cols[c] = t /\ pod'[p].caches.known = table.cols
    BY <1>2, <1>6 DEF Matches
  <2> QED
    BY <1>2, <1>3, <1>5, <2>1 DEF Casts
<1>7. CASE Adds(p, c, t) \/ Widened(p, c, t)
  <2>1. /\ table'.exists /\ table'.cols = [table.cols EXCEPT ![c] = t]
        /\ pod'[p].caches.known = table'.cols
    <3>1. CASE Adds(p, c, t)
      <4>1. /\ table' = WithColumn(c, t) /\ table.cols[c] = "none"
            /\ pod'[p].caches.known = WithColumn(c, t).cols
        BY <1>2, <3>1 DEF Adds, Alter
      <4>2. /\ WithColumn(c, t).exists = table.exists
            /\ WithColumn(c, t).cols = [table.cols EXCEPT ![c] = IF @ = "none" THEN t ELSE @]
        BY <1>1, <1>3, TablesMade
      <4> HIDE DEF WithColumn
      <4> QED
        BY <1>2, <4>1, <4>2
    <3>2. CASE Widened(p, c, t)
      <4>1. /\ table' = [table EXCEPT !.cols[c] = t]
            /\ pod'[p].caches.known = [table.cols EXCEPT ![c] = t]
        BY <1>2, <3>2 DEF Widened, Alter
      <4> QED
        BY <1>1, <1>2, <1>3, <4>1, TablesMade
    <3> QED
      BY <1>7, <3>1, <3>2
  <2>2. table'.cols[c] = t /\ \A d \in Columns : d # c => table'.cols[d] = table.cols[d]
    BY <1>1, <1>3, <2>1 DEF Schemas
  <2> QED
    BY <1>3, <1>5, <2>1, <2>2 DEF Casts
<1>8. CASE AddRefused(p, c) \/ AddsUnread(p, c, t)
  BY <1>2, <1>4, <1>8 DEF AddRefused, AddsUnread
<1>9. CASE WidenRefused(p, c, t)
  <2>1. /\ table' = table /\ pod'[p].caches.known = table.cols /\ table.cols[c] # "none"
        /\ ~ Widens(table.cols[c], t)
    BY <1>2, <1>4, <1>9 DEF WidenRefused, Refused
  <2>2. Takes(p, c)
    BY <1>1, <1>2, <1>3, <2>1, TakesUnwidened DEF FieldsInv, PodFielded
  <2> QED
    BY <1>1, <1>2, <1>5, <2>1, <2>2 DEF Takes
<1> QED
  BY <1>1, <1>6, <1>7, <1>8, <1>9

\* A retry in ensure_variant_columns: ready means VARIANT.
LEMMA RetryVerifies ==
  ASSUME TypeInv, TableFields, NEW p \in Pods, AttemptKnows(p), EnsureVariant(p),
         ~disturbed'[p]
  PROVE  AttemptKnows(p)'
<1> SUFFICES ASSUME NEW k, k = EnsureLoaded(pod[p].caches).known,
                    NEW wide, wide = WithColumn("comp", "VARIANT")
             PROVE  AttemptKnows(p)'
  OBVIOUS
<1>1. /\ At(p, "evolve") /\ pod'[p].pc = "insert" /\ pod[p].todo = {}
      /\ pod'[p].sent = pod[p].sent
      /\ pod'[p].ready = (pod'[p].caches.known["comp"] = "VARIANT")
      /\ \/ pod'[p].caches.known = k /\ UNCHANGED <<table, disturbed, spent>>
         \/ /\ k["comp"] = "none" /\ table.exists /\ Alter(p, wide)
            /\ pod'[p].caches.known = wide.cols /\ UNCHANGED spent
         \/ /\ k["comp"] = "none" /\ pod'[p].caches.known = k /\ UNCHANGED table
            /\ IF table.exists THEN Fault(p) ELSE UNCHANGED <<disturbed, spent>>
         \/ /\ k["comp"] = "none" /\ table.exists /\ table' = wide
            /\ pod'[p].caches.known = k /\ Noticed(p) /\ FaultSpent
  BY EnsureVariantDoes
<1>2. /\ Known(p) = table.cols /\ table.exists
      /\ \A d \in Present(pod[p].sent) : Takes(p, d)
  BY <1>1 DEF AttemptKnows
<1>3. /\ TypeOK /\ table \in Tables /\ table.cols \in Schemas /\ pod[p].caches \in Caches
      /\ "comp" \in Columns /\ "VARIANT" \in Types \cup {"none"}
  BY PodFields, TheColumns DEF TypeInv, Tables, Types
<1>4. k = table.cols
  BY <1>2, <1>3, Loads DEF LiveColumns, Known
<1>5. ~ Fault(p) /\ ~ Noticed(p)
  BY <1>3 DEF Fault, Noticed, TypeOK
<1>6. CASE pod'[p].caches.known = k /\ UNCHANGED table
  BY <1>1, <1>2, <1>4, <1>6 DEF AttemptKnows, At, Takes
<1>7. CASE k["comp"] = "none" /\ table' = wide /\ pod'[p].caches.known = wide.cols
  <2>1. /\ wide.exists = table.exists
        /\ wide.cols = [table.cols EXCEPT !["comp"] = IF @ = "none" THEN "VARIANT" ELSE @]
    BY <1>3, TablesMade
  <2>2. /\ table'.exists /\ table'.cols["comp"] = "VARIANT"
        /\ \A d \in Columns : d # "comp" => table'.cols[d] = table.cols[d]
    BY <1>2, <1>3, <1>4, <1>7, <2>1 DEF Schemas
  <2>3. ASSUME NEW d \in Present(pod'[p].sent) PROVE Takes(p, d)'
    <3>1. d \in Columns /\ Takes(p, d) /\ d # "comp"
      BY <1>1, <1>2, <1>4, <1>7 DEF Present, Takes
    <3> QED
      BY <1>1, <2>2, <3>1 DEF Takes
  <2> QED
    BY <1>1, <2>2, <2>3 DEF AttemptKnows, At
<1> QED
  BY <1>1, <1>2, <1>5, <1>6, <1>7 DEF Alter

\* Every column of an insert that a retry has come to is taken.
LEMMA RetryInserts ==
  ASSUME TypeInv, NEW p \in Pods, AttemptKnows(p), Insert(p)
  PROVE  AttemptKnows(p)'
<1>1. /\ At(p, "insert") /\ pod'[p].sent = pod[p].sent /\ UNCHANGED table
      /\ \/ ~Accepts(Projection(p), pod[p].hard)
         \/ pod'[p].pc = "insert" /\ ~pod'[p].ready
         \/ pod'[p].pc = "idle"
  BY InsertDoes
<1>2. /\ table.exists /\ \A c \in Present(pod[p].sent) : Takes(p, c)
      /\ pod[p].ready => table.cols["comp"] = "VARIANT"
  BY <1>1 DEF AttemptKnows
<1>3. pod[p].sent \in Schemas /\ "comp" \in Columns
  BY PodFields, TheColumns DEF TypeInv
<1>4. \A from, to, hard : Casts(from, to, TRUE) => Casts(from, to, hard)
  BY DEF Casts
<1>5. ASSUME NEW c \in Present(Projection(p))
      PROVE  table.cols[c] # "none" /\ Casts(Projection(p)[c], table.cols[c], pod[p].hard)
  <2>1. c \in Columns /\ Projection(p)[c] # "none"
    BY DEF Present
  <2>2. CASE pod[p].ready /\ c = "comp"
    <3>1. Projection(p)[c] = "VARIANT"
      BY <1>3, <2>2 DEF Projection, Schemas
    <3> QED
      BY <1>2, <2>2, <3>1 DEF Casts
  <2>3. CASE ~ (pod[p].ready /\ c = "comp")
    <3>1. Projection(p)[c] = pod[p].sent[c]
      BY <1>3, <2>1, <2>3 DEF Projection, Schemas
    <3>2. Takes(p, c)
      BY <1>2, <2>1, <3>1 DEF Present
    <3> QED
      BY <1>4, <3>1, <3>2 DEF Takes
  <2> QED
    BY <2>2, <2>3
<1>6. Accepts(Projection(p), pod[p].hard)
  BY <1>2, <1>5 DEF Accepts
<1> QED
  BY <1>1, <1>2, <1>6 DEF AttemptKnows, At, Takes

\* Whatever a retry does undisturbed, it knows what it relies upon.
LEMMA RetryOwn ==
  ASSUME TypeInv, ReadyInv, FieldsInv, NEW p \in Pods, Undisturbed(p) => AttemptKnows(p),
         Write(p) \/ Crash(p) \/ \E b \in Batches[p] : Begin(p, b), Undisturbed(p)'
  PROVE  AttemptKnows(p)'
<1>1. /\ pod'[p].attempt > 1 /\ ~disturbed'[p] /\ TypeOK /\ TableFields
      /\ disturbed[p] \in BOOLEAN
  BY PodFields DEF Undisturbed, TypeInv, FieldsInv
<1>2. ASSUME NEW b \in Batches[p], Begin(p, b) PROVE FALSE
  BY <1>1, <1>2, BeginDoes
<1>3. CASE GiveUp(p) \/ Crash(p)
  BY <1>1, <1>3, RestartDoes
<1>4. CASE Retry(p)
  BY <1>4, RetryDoes DEF AttemptKnows, At
<1>5. CASE CreateFails(p) \/ PartitionFails(p) \/ CallFails(p) \/ InsertAnswerLost(p)
  BY <1>1, <1>5, FailureDoes, FaultBooks
<1>6. CASE Strip(p) \/ Ensure(p) \/ Create(p) \/ Partition(p) \/ Align(p)
  <2>1. pod'[p].attempt = pod[p].attempt
    BY <1>6, StripDoes, EnsureDoes, CreateDoes, PartitionDoes, AlignDoes DEF Carries, Like
  <2>2. CASE Strip(p) \/ Ensure(p) \/ Align(p)
    BY <1>1, <2>1, <2>2, StripDoes, EnsureDoes, AlignDoes, RetryReads DEF Undisturbed
  <2>3. CASE Create(p)
    <3> DEFINE new == IF table.exists THEN table
                      ELSE [exists |-> TRUE, partitioned |-> FALSE, cols |-> pod[p].sent]
    <3>1. new \in Tables
      BY <1>1, PodFields DEF Tables
    <3>2. Alter(p, new) /\ UNCHANGED spent
      BY <2>3, CreateDoes
    <3>3. disturbed'[p] = disturbed[p]
      BY <1>1, <3>1, <3>2, AlterBooks
    <3> QED
      BY <1>1, <2>1, <2>3, <3>3, RetryReads DEF Undisturbed
  <2>4. CASE Partition(p)
    <3>1. /\ [table EXCEPT !.partitioned = TRUE] \in Tables /\ UNCHANGED spent
          /\ Alter(p, [table EXCEPT !.partitioned = TRUE]) \/ UNCHANGED disturbed
      BY <1>1, <2>4, PartitionDoes, PodFields DEF Tables
    <3>2. disturbed'[p] = disturbed[p]
      BY <1>1, <3>1, AlterBooks
    <3> QED
      BY <1>1, <2>1, <2>4, <3>2, RetryReads DEF Undisturbed
  <2> QED
    BY <1>6, <2>2, <2>3, <2>4
<1>7. CASE Evolve(p)
  <2> SUFFICES disturbed'[p] \/ disturbed'[p] = disturbed[p]
    BY <1>1, <1>7, EvolveDoes, RetryEvolves DEF Undisturbed
  <2> SUFFICES ASSUME NEW c, c = NextField(pod[p].todo), NEW t, t = pod[p].sent[c]
               PROVE  disturbed'[p] \/ disturbed'[p] = disturbed[p]
    OBVIOUS
  <2>1. /\ c \in Columns /\ t \in Types \cup {"none"}
        /\ \/ Matches(p, c, t) \/ Adds(p, c, t) \/ AddRefused(p, c) \/ AddsUnread(p, c, t)
           \/ Widened(p, c, t) \/ WidenRefused(p, c, t)
    BY <1>7, EvolveDoes
  <2>2. WithColumn(c, t) \in Tables /\ [table EXCEPT !.cols[c] = t] \in Tables
    BY <1>1, <2>1, PodFields, TablesMade
  <2>3. CASE Adds(p, c, t)
    BY <1>1, <2>2, <2>3, AlterBooks DEF Adds
  <2>4. CASE Widened(p, c, t)
    BY <1>1, <2>2, <2>4, AlterBooks DEF Widened
  <2>5. CASE AddsUnread(p, c, t)
    <3>1. Noticed(p) /\ FaultSpent /\ table' = WithColumn(c, t)
      BY <2>5 DEF AddsUnread
    <3> QED
      BY <1>1, <2>2, <3>1, NoticedBooks
  <2>6. CASE Matches(p, c, t) \/ AddRefused(p, c) \/ WidenRefused(p, c, t)
    <3>1. UNCHANGED disturbed \/ (Fault(p) /\ UNCHANGED table)
      BY <2>6 DEF Matches, AddRefused, WidenRefused, Refused
    <3> QED
      BY <1>1, <3>1, FaultBooks
  <2> QED
    BY <2>1, <2>3, <2>4, <2>5, <2>6
<1>8. CASE EnsureVariant(p)
  <2> SUFFICES disturbed'[p] \/ disturbed'[p] = disturbed[p]
    BY <1>1, <1>8, EnsureVariantDoes, RetryVerifies DEF Undisturbed
  <2> DEFINE wide == WithColumn("comp", "VARIANT")
  <2>1. \/ UNCHANGED disturbed
        \/ Alter(p, wide) /\ UNCHANGED spent
        \/ Fault(p) /\ UNCHANGED table
        \/ table' = wide /\ Noticed(p) /\ FaultSpent
    BY <1>8, EnsureVariantDoes
  <2>2. wide \in Tables
    BY <1>1, PodFields, TheColumns, TablesMade DEF Types
  <2> HIDE DEF wide
  <2> QED
    BY <1>1, <2>1, <2>2, AlterBooks, FaultBooks, NoticedBooks
<1>9. CASE SkipVariant(p)
  <2>1. /\ Carries(p) /\ At(p, "evolve") /\ pod[p].todo = {} /\ pod'[p].pc = "insert"
        /\ UNCHANGED <<table, disturbed>>
    BY <1>9, SkipDoes
  <2>2. pod'[p].sent = pod[p].sent /\ ~pod'[p].ready /\ Undisturbed(p)
    BY <1>1, <2>1 DEF Carries, Like, ReadyInv, Undisturbed, At
  <2>3. table.exists /\ \A d \in Present(pod[p].sent) : Takes(p, d)
    BY <2>1, <2>2 DEF AttemptKnows
  <2> QED
    BY <2>1, <2>2, <2>3 DEF AttemptKnows, At, Takes
<1>10. CASE Insert(p)
  BY <1>1, <1>10, InsertDoes, RetryInserts DEF Undisturbed
<1> QED
  BY <1>2, <1>3, <1>4, <1>5, <1>6, <1>7, <1>8, <1>9, <1>10 DEF Write

\* The others disturb a retry, or leave the table to it.
LEMMA RetryOthers ==
  ASSUME NEW p \in Pods, Moved(p), Booked(p), NEW q \in Pods, q # p,
         Undisturbed(q) => AttemptKnows(q), Undisturbed(q)'
  PROVE  AttemptKnows(q)'
<1>1. pod'[q] = pod[q] /\ table' = table /\ disturbed'[q] = disturbed[q]
  BY DEF Moved, OthersStay, Booked, OthersNotice, Undisturbed
<1>2. AttemptKnows(q)
  BY <1>1 DEF Undisturbed
<1> QED
  BY <1>1, <1>2 DEF AttemptKnows, At, Known, LiveColumns, Takes

\* Every step keeps what the retries know.
LEMMA RetryStep == TypeInv /\ ReadyInv /\ FieldsInv /\ RetryInv /\ [Next]_vars => RetryInv'
<1> SUFFICES ASSUME TypeInv, ReadyInv, FieldsInv, RetryInv, [Next]_vars,
                    NEW q \in Pods, Undisturbed(q)'
             PROVE  AttemptKnows(q)'
  BY DEF RetryInv
<1>1. Undisturbed(q) => AttemptKnows(q)
  BY DEF RetryInv
<1>2. ASSUME NEW p \in Pods, Write(p) \/ Crash(p) \/ \E b \in Batches[p] : Begin(p, b)
      PROVE  AttemptKnows(q)'
  <2>1. CASE q = p
    BY <1>1, <1>2, <2>1, RetryOwn
  <2>2. CASE q # p
    BY <1>1, <1>2, <2>2, StepOf, RetryOthers
  <2> QED
    BY <2>1, <2>2
<1>3. CASE Drop
  BY <1>3, DropDoes DEF TypeInv, Undisturbed
<1>4. CASE UNCHANGED vars
  BY <1>1, <1>4 DEF vars, Undisturbed, AttemptKnows, At, Known, LiveColumns, Takes
<1> QED
  BY <1>2, <1>3, <1>4 DEF Next

\* main.py _write_with_retry, ducklake.py reset_caches: with the columns' types
\* that the pipeline produces, an attempt that begins with dropped caches does
\* not raise again unless a call failed or somebody changed the table meanwhile.
THEOREM RetriesRecover ==
  ASSUME FieldedBatches
  PROVE  Spec => []RetryRecovers
<1>1. Init => ReadyInv /\ FieldsInv /\ RetryInv
  <2> SUFFICES ASSUME Init PROVE ReadyInv /\ FieldsInv /\ RetryInv
    OBVIOUS
  <2>1. \A p \in Pods : pod[p] = IdlePod
    BY DEF Init
  <2>2. /\ IdlePod.pc = "idle" /\ IdlePod.attempt = 1 /\ IdlePod.ready = FALSE
        /\ IdlePod.sent = NoColumns /\ IdlePod.batch.cols = NoColumns
    BY DEF IdlePod
  <2>3. Fielded(NoColumns) /\ TableFields
    BY TheColumns DEF Init, NoTable, NoColumns, Fielded, TableFields
  <2>4. ReadyInv
    BY <2>1, <2>2 DEF ReadyInv, At
  <2>5. FieldsInv
    BY <2>1, <2>2, <2>3 DEF FieldsInv, PodFielded
  <2>6. RetryInv
    BY <2>1, <2>2 DEF RetryInv, Undisturbed
  <2> QED
    BY <2>4, <2>5, <2>6
<1>2. RetryInv /\ TypeInv => RetryRecovers
  <2> SUFFICES ASSUME RetryInv, NEW p \in Pods, At(p, "raise"), pod[p].attempt > 1
               PROVE  disturbed[p]
    BY DEF RetryRecovers
  <2> QED
    BY DEF RetryInv, Undisturbed, AttemptKnows
<1>3. TypeInv /\ ReadyInv /\ FieldsInv /\ [Next]_vars => FieldsInv'
  BY FieldsStep
<1> QED
  BY <1>1, <1>2, <1>3, TypeInit, TypeStep, ReadyStep, RetryStep, PTL DEF Spec
=============================================================================
