---------------------------- MODULE DuckLakeSink ----------------------------
(***************************************************************************)
(* The DuckLake destination of a fleet of pods (millpond/ducklake.py and   *)
(* millpond/schema.py): every pod creates, partitions, evolves and fills   *)
(* one shared table, each DDL statement a transaction of its own, and      *)
(* decides what to issue from a cached copy of the table's columns.  The   *)
(* fleet may be mixed: VariantPods are the pods whose                      *)
(* MILLPOND_VARIANT_COLUMNS lists the source.                              *)
(*                                                                         *)
(* Four columns tell the cases apart: "src", the source of a dual-write;   *)
(* "comp", its companion src_variant, which a payload may also carry as a  *)
(* key of its own; "id", text that some pods pin to uuid; and "num", an    *)
(* integer whose width differs from batch to batch.  A flush is one batch, *)
(* kept through its retries and through a restart, since its offsets are   *)
(* not committed.                                                          *)
(***************************************************************************)
EXTENDS Integers, FiniteSets

CONSTANTS
  Pods,
  VariantPods,   \* the pods with the source in cfg.variant_columns
  Batches,       \* the batches each pod may consolidate
  MaxAttempts,   \* main._write_with_retry
  MaxFlushes,    \* bound: flushes of a pod
  MaxFaults,     \* bound: failed statements, lost answers, crashes
  MaxDrops       \* bound: drops of the table by an operator

FieldOrder == <<"comp", "src", "id", "num">>   \* of a batch schema
Columns == {FieldOrder[i] : i \in 1 .. 4}
Types == {"VARCHAR", "UUID", "INTEGER", "BIGINT", "VARIANT"}
Schemas == [Columns -> Types \cup {"none"}]

(* hard: some value does not survive a cast to a narrower type;            *)
(* huge: the source holds an integer that the VARIANT writer cannot shred  *)
(* and that sanitize_variant_sources does not reach.                       *)
BatchSet == [cols : Schemas, hard : BOOLEAN, huge : BOOLEAN]

ASSUME PodAssumption == VariantPods \subseteq Pods
ASSUME BatchAssumption ==
  \A p \in Pods : Batches[p] \subseteq {b \in BatchSet : \E c \in Columns : b.cols[c] # "none"}
ASSUME BoundAssumption ==
  MaxAttempts \in Nat \ {0} /\ MaxFlushes \in Nat /\ MaxFaults \in Nat /\ MaxDrops \in Nat

VARIABLES
  table,      \* the live table: [exists, partitioned, cols]
  landed,     \* history: [pod, companion] of the flushes that inserted rows
  pod,        \* each pod: its thread, its batch and its caches
  disturbed,  \* history: whether, since the pod's attempt began, one of its
              \* calls failed or somebody else changed the table
  spent       \* how much of each bound is used

vars == <<table, landed, pod, disturbed, spent>>

NoColumns == [c \in Columns |-> "none"]
NoTable == [exists |-> FALSE, partitioned |-> FALSE, cols |-> NoColumns]
ColdCaches == [ensured |-> FALSE, loaded |-> FALSE, known |-> NoColumns]

(* sent and hard: what is left of the batch after the strips; todo: the    *)
(* columns evolve() has not come to; ready: whether the companion may be   *)
(* projected.                                                              *)
IdlePod ==
  [pc |-> "idle", flushes |-> 0, attempt |-> 1, caches |-> ColdCaches,
   batch |-> [cols |-> NoColumns, hard |-> FALSE, huge |-> FALSE],
   sent |-> NoColumns, hard |-> FALSE, todo |-> {}, ready |-> FALSE]

Init ==
  /\ table = NoTable
  /\ landed = {}
  /\ pod = [p \in Pods |-> IdlePod]
  /\ disturbed = [p \in Pods |-> FALSE]
  /\ spent = [faults |-> 0, drops |-> 0]

At(p, label) == pod[p].pc = label
Known(p) == pod[p].caches.known
Present(cols) == {c \in Columns : cols[c] # "none"}
Become(p, state) == pod' = [pod EXCEPT ![p] = state]

Alter(p, new) ==
  /\ table' = new
  /\ disturbed' = [q \in Pods |-> disturbed[q] \/ (q # p /\ new # table)]

Fault(p) ==
  /\ spent.faults < MaxFaults
  /\ spent' = [spent EXCEPT !.faults = @ + 1]
  /\ disturbed' = [disturbed EXCEPT ![p] = TRUE]

-----------------------------------------------------------------------------
(* What the catalog answers. *)

(* DuckDB's implicit casts on INSERT, all of the statement or none. *)
Casts(from, to, hard) ==
  \/ from = to
  \/ to = "VARCHAR"
  \/ from = "INTEGER" /\ to = "BIGINT"
  \/ from = "VARCHAR" /\ to = "VARIANT"
  \/ ~hard /\ <<from, to>> \in {<<"BIGINT", "INTEGER">>, <<"VARCHAR", "UUID">>}

(* DuckLake's ALTER COLUMN ... SET DATA TYPE only widens. *)
Widens(from, to) == from = to \/ (from = "INTEGER" /\ to = "BIGINT")

(* INSERT ... BY NAME needs every projected column and every cast. *)
Accepts(cols, hard) ==
  /\ table.exists
  /\ \A c \in Present(cols) : table.cols[c] # "none" /\ Casts(cols[c], table.cols[c], hard)

LiveColumns == IF table.exists THEN table.cols ELSE NoColumns

-----------------------------------------------------------------------------
(* main() consolidates the pending batches and calls the sink. *)
Begin(p, b) ==
  /\ At(p, "idle") /\ pod[p].flushes < MaxFlushes
  /\ Become(p, [pod[p] EXCEPT !.pc = "strip", !.batch = b, !.attempt = 1])
  /\ disturbed' = [disturbed EXCEPT ![p] = FALSE]
  /\ UNCHANGED <<table, landed, spent>>

(* _ensure_schema_loaded: read once, and again while nothing is known. *)
EnsureLoaded(caches) ==
  IF ~caches.loaded \/ caches.known = NoColumns
  THEN [caches EXCEPT !.loaded = TRUE, !.known = LiveColumns]
  ELSE caches

(* drop_variant_companion_columns, then the columns the cached schema has  *)
(* as VARIANT. *)
Stripped(p, cols, known) ==
  [c \in Columns |->
     IF (c = "comp" /\ p \in VariantPods) \/ known[c] = "VARIANT" THEN "none" ELSE cols[c]]

Strip(p) ==
  LET caches == EnsureLoaded(pod[p].caches)
      sent == Stripped(p, pod[p].batch.cols, caches.known)
      kept == [pod[p] EXCEPT !.caches = caches, !.sent = sent, !.hard = pod[p].batch.hard, !.ready = FALSE]
  IN /\ At(p, "strip")
     /\ IF sent = NoColumns
        THEN Become(p, [kept EXCEPT !.pc = "idle", !.flushes = @ + 1])
        ELSE Become(p, [kept EXCEPT !.pc = "ensure"])
     /\ UNCHANGED <<table, landed, disturbed, spent>>

Ensured(state) == [state EXCEPT !.caches.ensured = TRUE, !.pc = "align"]

(* _ensure_table up to CREATE: cached, or found to exist. *)
Ensure(p) ==
  /\ At(p, "ensure")
  /\ \/ pod[p].caches.ensured /\ Become(p, [pod[p] EXCEPT !.pc = "align"])
     \/ ~pod[p].caches.ensured /\ table.exists /\ Become(p, Ensured(pod[p]))
     \/ ~pod[p].caches.ensured /\ ~table.exists /\ Become(p, [pod[p] EXCEPT !.pc = "create"])
  /\ UNCHANGED <<table, landed, disturbed, spent>>

\* Mutant: a table just created needs no ALTER.
CreateOnly(p) ==
  /\ At(p, "create")
  /\ Become(p, Ensured(pod[p]))
  /\ Alter(p, IF table.exists THEN table
              ELSE [exists |-> TRUE, partitioned |-> FALSE, cols |-> pod[p].sent])
  /\ UNCHANGED <<landed, spent>>

(* CREATE TABLE IF NOT EXISTS ... AS SELECT with the batch's columns. *)
Create(p) ==
  /\ At(p, "create")
  /\ Become(p, [pod[p] EXCEPT !.pc = "partition"])
  /\ Alter(p, IF table.exists THEN table
              ELSE [exists |-> TRUE, partitioned |-> FALSE, cols |-> pod[p].sent])
  /\ UNCHANGED <<landed, spent>>

(* A CREATE that fails is no failure when the table is there by then. *)
CreateFails(p) ==
  /\ At(p, "create") /\ Fault(p)
  /\ Become(p, [pod[p] EXCEPT !.pc = IF table.exists THEN "partition" ELSE "raise"])
  /\ UNCHANGED <<table, landed>>

(* ALTER TABLE ... SET PARTITIONED BY, with partition_by configured. *)
Partition(p) ==
  /\ At(p, "partition")
  /\ IF table.exists
     THEN Become(p, Ensured(pod[p])) /\ Alter(p, [table EXCEPT !.partitioned = TRUE])
     ELSE Become(p, [pod[p] EXCEPT !.pc = "raise"]) /\ UNCHANGED <<table, disturbed>>
  /\ UNCHANGED <<landed, spent>>

PartitionFails(p) ==
  /\ At(p, "partition") /\ Fault(p)
  /\ Become(p, IF table.exists THEN Ensured(pod[p]) ELSE [pod[p] EXCEPT !.pc = "raise"])
  /\ UNCHANGED <<table, landed>>

(* _align_uuid_columns parses text for a column cached as UUID and nulls   *)
(* what does not parse; evolve() then goes over the columns of the batch.  *)
Align(p) ==
  LET caches == EnsureLoaded(pod[p].caches)
      text == pod[p].sent["id"] = "VARCHAR" /\ caches.known["id"] = "UUID"
      aligned == IF text THEN [pod[p] EXCEPT !.sent["id"] = "UUID", !.hard = FALSE] ELSE pod[p]
  IN /\ At(p, "align")
     /\ Become(p, [aligned EXCEPT !.caches = caches, !.pc = "evolve",
                     !.todo = IF caches.known = NoColumns THEN {} ELSE Present(aligned.sent)])
     /\ UNCHANGED <<table, landed, disturbed, spent>>

(* ADD COLUMN IF NOT EXISTS: a no-op on a column that exists in any type. *)
WithColumn(c, type) == [table EXCEPT !.cols[c] = IF @ = "none" THEN type ELSE @]

Evolved(p, c, known) == [pod[p] EXCEPT !.todo = @ \ {c}, !.caches.known = known]

(* Only a companion confirmed as VARIANT is projected. *)
Confirmed(p, caches, known) ==
  [pod[p] EXCEPT !.pc = "insert", !.ready = known["comp"] = "VARIANT",
                 !.caches = [caches EXCEPT !.known = known]]

(* How the caller of _add_column goes on with the columns it then knows;   *)
(* `verify` (require_verified) is ensure_variant_columns, else evolve.     *)
Knowing(p, c, known, verify) ==
  IF verify THEN Confirmed(p, EnsureLoaded(pod[p].caches), known) ELSE Evolved(p, c, known)

(* _add_column, and the re-read that follows the ADD.                      *)
AddColumn(p, c, type, verify) ==
  /\ table.exists
  /\ LET new == WithColumn(c, type)
     IN /\ Alter(p, new)
        /\ Become(p, Knowing(p, c, new.cols, verify))
  /\ UNCHANGED <<landed, spent>>

(* The ALTER itself fails: swallowed, the cache is what it was. *)
AddColumnFails(p, c, known, verify) ==
  /\ IF table.exists THEN Fault(p) ELSE UNCHANGED <<disturbed, spent>>
  /\ Become(p, Knowing(p, c, known, verify))
  /\ UNCHANGED <<table, landed>>

\* Mutant: require_verified is forgotten.
TrustAnyway(known, c, type, verify) == [known EXCEPT ![c] = type]

(* The ADD is committed and the re-read fails: an ordinary column is       *)
(* trusted to have the type, a companion is not.                           *)
Trusted(known, c, type, verify) == IF verify THEN known ELSE [known EXCEPT ![c] = type]

AddColumnUnread(p, c, type, known, verify) ==
  /\ table.exists
  /\ Become(p, Knowing(p, c, Trusted(known, c, type, verify), verify))
  /\ spent.faults < MaxFaults
  /\ spent' = [spent EXCEPT !.faults = @ + 1]
  /\ table' = WithColumn(c, type)
  /\ disturbed' = [q \in Pods |-> disturbed[q] \/ q = p \/ table' # table]
  /\ UNCHANGED landed

(* evolve(), one column: nothing to do, an ADD, or a SET DATA TYPE whose   *)
(* refusal is logged and swallowed. *)
EvolveMatching(p, c) ==
  /\ Known(p)[c] = pod[p].sent[c]
  /\ Become(p, Evolved(p, c, Known(p)))
  /\ UNCHANGED <<table, landed, disturbed, spent>>

EvolveAdd(p, c) ==
  LET type == pod[p].sent[c]
  IN /\ Known(p)[c] = "none"
     /\ \/ AddColumn(p, c, type, FALSE)
        \/ AddColumnFails(p, c, Known(p), FALSE)
        \/ AddColumnUnread(p, c, type, Known(p), FALSE)

EvolveWiden(p, c) ==
  LET type == pod[p].sent[c]
      can == table.exists /\ Widens(table.cols[c], type)
  IN /\ Known(p)[c] \notin {"none", type}
     /\ \/ /\ can
           /\ Become(p, Evolved(p, c, [Known(p) EXCEPT ![c] = type]))
           /\ Alter(p, [table EXCEPT !.cols[c] = type])
           /\ UNCHANGED spent
        \/ /\ IF can THEN Fault(p) ELSE UNCHANGED <<disturbed, spent>>
           /\ Become(p, Evolved(p, c, Known(p)))
           /\ UNCHANGED table
     /\ UNCHANGED landed

NextField(todo) ==
  FieldOrder[CHOOSE i \in 1 .. 4 :
               FieldOrder[i] \in todo /\ \A j \in 1 .. i - 1 : FieldOrder[j] \notin todo]

Evolve(p) ==
  /\ At(p, "evolve") /\ pod[p].todo # {}
  /\ LET c == NextField(pod[p].todo)
     IN EvolveMatching(p, c) \/ EvolveAdd(p, c) \/ EvolveWiden(p, c)

(* ensure_variant_columns: only a companion confirmed as VARIANT is        *)
(* projected.                                                              *)
DualWrites(p) == p \in VariantPods /\ pod[p].sent["src"] # "none"

SkipVariant(p) ==
  /\ At(p, "evolve") /\ pod[p].todo = {} /\ ~DualWrites(p)
  /\ Become(p, [pod[p] EXCEPT !.pc = "insert"])
  /\ UNCHANGED <<table, landed, disturbed, spent>>

EnsureVariant(p) ==
  LET caches == EnsureLoaded(pod[p].caches)
  IN /\ At(p, "evolve") /\ pod[p].todo = {} /\ DualWrites(p)
     /\ \/ /\ caches.known = NoColumns \/ caches.known["comp"] # "none"
           /\ Become(p, Confirmed(p, caches, caches.known))
           /\ UNCHANGED <<table, landed, disturbed, spent>>
        \/ /\ caches.known # NoColumns /\ caches.known["comp"] = "none"
           /\ \/ AddColumn(p, "comp", "VARIANT", TRUE)
              \/ AddColumnFails(p, "comp", caches.known, TRUE)
              \/ AddColumnUnread(p, "comp", "VARIANT", caches.known, TRUE)

(* build_insert_select_sql: the batch's columns and the ready companion. *)
Projection(p) == IF pod[p].ready THEN [pod[p].sent EXCEPT !["comp"] = "VARIANT"] ELSE pod[p].sent

(* What readers of the companion find for the rows of this insert. *)
Companion(p, cols) ==
  IF cols["comp"] = "none" THEN "null"
  ELSE IF cols["comp"] = table.cols["comp"] THEN IF cols["comp"] = "VARIANT" THEN "projected" ELSE "text"
       ELSE IF cols["comp"] = "VARIANT" THEN "flattened" ELSE "raw"

Land(p, cols) == landed' = landed \cup {[pod |-> p, companion |-> Companion(p, cols)]}

(* The VARIANT writer cannot shred the value: nothing is inserted. *)
Unshreddable(p) ==
  pod[p].ready /\ pod[p].batch.huge /\ table.exists /\ table.cols["comp"] = "VARIANT"

Insert(p) ==
  /\ At(p, "insert")
  /\ IF ~Accepts(Projection(p), pod[p].hard)
     THEN Become(p, [pod[p] EXCEPT !.pc = "raise"]) /\ UNCHANGED landed
     ELSE IF Unshreddable(p)
          THEN Become(p, [pod[p] EXCEPT !.ready = FALSE]) /\ UNCHANGED landed   \* string-only
          ELSE Become(p, [pod[p] EXCEPT !.pc = "idle", !.flushes = @ + 1]) /\ Land(p, Projection(p))
  /\ UNCHANGED <<table, disturbed, spent>>

(* The insert is committed and its answer lost: the retry inserts again. *)
InsertAnswerLost(p) ==
  /\ At(p, "insert") /\ Accepts(Projection(p), pod[p].hard) /\ ~Unshreddable(p)
  /\ Land(p, Projection(p))
  /\ Become(p, [pod[p] EXCEPT !.pc = "raise"])
  /\ Fault(p)
  /\ UNCHANGED table

(* Any other statement of write() fails: the exception leaves it. *)
CallFails(p) ==
  /\ pod[p].pc \in {"strip", "ensure", "align", "insert"}
  /\ Fault(p)
  /\ Become(p, [pod[p] EXCEPT !.pc = "raise"])
  /\ UNCHANGED <<table, landed>>

\* Mutant: the schema manager is not invalidated.
ResetTables(caches) == [caches EXCEPT !.ensured = FALSE]

(* DuckLakeSink.reset_caches: the columns stay, to be read again. *)
ResetCaches(caches) == [caches EXCEPT !.ensured = FALSE, !.loaded = FALSE]

\* Mutant: one attempt more than configured.
RetryOnceMore(p) ==
  /\ At(p, "raise") /\ pod[p].attempt <= MaxAttempts
  /\ Become(p, [pod[p] EXCEPT !.pc = "strip", !.attempt = @ + 1, !.caches = ResetCaches(@)])
  /\ disturbed' = [disturbed EXCEPT ![p] = FALSE]
  /\ UNCHANGED <<table, landed, spent>>

(* main._write_with_retry. *)
Retry(p) ==
  /\ At(p, "raise") /\ pod[p].attempt < MaxAttempts
  /\ Become(p, [pod[p] EXCEPT !.pc = "strip", !.attempt = @ + 1, !.caches = ResetCaches(@)])
  /\ disturbed' = [disturbed EXCEPT ![p] = FALSE]
  /\ UNCHANGED <<table, landed, spent>>

Restarted(state) == [state EXCEPT !.pc = "strip", !.attempt = 1, !.caches = ColdCaches]

(* The last attempt failed: the process ends, its successor consumes the   *)
(* same offsets.                                                           *)
GiveUp(p) ==
  /\ At(p, "raise") /\ pod[p].attempt = MaxAttempts
  /\ Become(p, Restarted(pod[p]))
  /\ disturbed' = [disturbed EXCEPT ![p] = FALSE]
  /\ UNCHANGED <<table, landed, spent>>

Crash(p) ==
  /\ pod[p].pc \notin {"idle", "raise"}
  /\ spent.faults < MaxFaults
  /\ spent' = [spent EXCEPT !.faults = @ + 1]
  /\ Become(p, Restarted(pod[p]))
  /\ disturbed' = [disturbed EXCEPT ![p] = FALSE]
  /\ UNCHANGED <<table, landed>>

(* An operator drops the table. *)
Drop ==
  /\ table.exists /\ spent.drops < MaxDrops
  /\ table' = NoTable
  /\ spent' = [spent EXCEPT !.drops = @ + 1]
  /\ disturbed' = [p \in Pods |-> TRUE]
  /\ UNCHANGED <<landed, pod>>

Write(p) ==
  \/ Strip(p) \/ Ensure(p)
  \/ Create(p) \/ CreateFails(p)
  \/ Partition(p) \/ PartitionFails(p)
  \/ Align(p) \/ Evolve(p) \/ SkipVariant(p) \/ EnsureVariant(p)
  \/ Insert(p) \/ InsertAnswerLost(p) \/ CallFails(p)
  \/ Retry(p) \/ GiveUp(p)

Done == \A p \in Pods : At(p, "idle") /\ pod[p].flushes = MaxFlushes

Next ==
  \/ \E p \in Pods : Write(p) \/ Crash(p) \/ \E b \in Batches[p] : Begin(p, b)
  \/ Drop
  \/ Done /\ UNCHANGED vars

Spec == Init /\ [][Next]_vars

-----------------------------------------------------------------------------
PodStates ==
  [pc : {"idle", "strip", "ensure", "create", "partition", "align", "evolve", "insert", "raise"},
   flushes : 0 .. MaxFlushes, attempt : 1 .. MaxAttempts,
   caches : [ensured : BOOLEAN, loaded : BOOLEAN, known : Schemas],
   batch : BatchSet, sent : Schemas, hard : BOOLEAN, todo : SUBSET Columns, ready : BOOLEAN]

(* Every variable stays in its type. *)
TypeOK ==
  /\ table \in [exists : BOOLEAN, partitioned : BOOLEAN, cols : Schemas]
  /\ landed \subseteq [pod : Pods, companion : {"null", "text", "raw", "projected", "flattened"}]
  /\ pod \in [Pods -> PodStates]
  /\ disturbed \in [Pods -> BOOLEAN]
  /\ spent \in [faults : 0 .. MaxFaults, drops : 0 .. MaxDrops]

(* A retry recovers from whatever the caches were wrong about: an attempt  *)
(* that begins with dropped caches raises only if a call failed or the     *)
(* table was changed by somebody else meanwhile (main._write_with_retry    *)
(* calls reset_caches between attempts).                                   *)
RetryRecovers ==
  \A p \in Pods : At(p, "raise") /\ pod[p].attempt > 1 => disturbed[p]

(* A companion is only projected into a column that is VARIANT, whoever    *)
(* added that column first and with which type (_add_column re-reads the   *)
(* schema because ADD IF NOT EXISTS may be a no-op), and a pod configured  *)
(* for it never lets the payload's own key through; unless the table is    *)
(* dropped and recreated under a cache.                                    *)
CompanionVerified ==
  spent.drops = 0 =>
    \A row \in landed : row.pod \in VariantPods => row.companion \in {"null", "projected"}

(* With partition_by configured, once every pod has finished its flushes   *)
(* the table is partitioned, whichever pods raced to create it, unless a   *)
(* statement failed or a pod died between CREATE and SET PARTITIONED BY.   *)
PartitionedUnlessInterrupted ==
  (Done /\ table.exists /\ spent.faults = 0) => table.partitioned

(* What README.md says of SET PARTITIONED BY on first write, "idempotent,  *)
(* safe for multiple pods and restarts": once all is done, it was applied. *)
PartitionedInTheEnd == (Done /\ table.exists) => table.partitioned

(* What write() says of stripping live VARIANT columns: no pod, whatever   *)
(* its variant_columns, lets payload text be cast into a companion.        *)
NoRawCompanion == \A row \in landed : row.companion # "raw"
=============================================================================
