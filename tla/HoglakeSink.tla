---------------------------- MODULE HoglakeSink ----------------------------
(***************************************************************************)
(* The hoglake destination of one pod (millpond/hoglake.py, HoglakeSink):  *)
(* how one flush becomes one idempotent commit while the destination table *)
(* is altered, re-specced, dropped and recreated under it and answers get  *)
(* lost.  The retry loop is that of main._write_with_retry; the catalog    *)
(* server and the pyhoglake client are modelled from what hoglake.py       *)
(* relies on.                                                              *)
(*                                                                         *)
(* A flush is the offset range [first, last] of one partition.  A layout   *)
(* is a partition spec; "none" is an unspecced table.  An incarnation is a *)
(* table_uuid, 0 when the name does not resolve.  A change number orders   *)
(* DDL: a read_snapshot is the change it was taken at.  Time is in ticks,  *)
(* and only ages are kept.                                                 *)
(***************************************************************************)
EXTENDS Integers, FiniteSets

CONSTANTS
  LogLength,     \* bound: offsets of the partition
  Layouts,       \* the partition specs a table can have
  Want,          \* HOGLAKE_PARTITION_BY
  Retention,     \* the catalog's snapshot retention, in ticks
  MaxAttempts,   \* HOGLAKE_MAX_RETRY_COUNT
  MaxFaults,     \* bound: crashes, failed calls, lost answers, expiries
  MaxDrops,      \* bound: drops, and creations by others
  MaxAlters,     \* bound: columns added by others, and re-specs
  MaxColumns,    \* bound: columns this pod's batches bring
  MaxRewinds     \* bound: offset resets by an operator

ASSUME LayoutAssumption == Want \in Layouts /\ "none" \in Layouts /\ "unread" \notin Layouts
ASSUME TimeAssumption == Retention \in Nat /\ Retention % 4 = 0 /\ Retention > 0
ASSUME BoundAssumption ==
  /\ LogLength \in Nat /\ MaxAttempts \in Nat \ {0}
  /\ MaxFaults \in Nat /\ MaxDrops \in Nat /\ MaxAlters \in Nat
  /\ MaxColumns \in Nat /\ MaxRewinds \in Nat

VARIABLES
  live,        \* the incarnation the name resolves to, 0 for none
  layout,      \* its partition spec
  altered,     \* the change that altered it last
  changes,     \* how many changes the catalog has seen
  made,        \* how many incarnations there have been
  registered,  \* the committed uploads
  receipts,    \* [key, id]: the upload each idempotency key was applied for
  expired,     \* the uploads whose basis fell below the expiry floor: up to this one
  delayed,     \* requests the client gave up on that may still arrive
  committed,   \* Kafka: the next offset to fetch
  phase,       \* where the pod's thread is
  flush,       \* the offsets being flushed
  since,       \* history: the incarnation this flush could first meet
  attempt, final,  \* main._write_with_retry, and whether in the final flush
  sink,        \* the caches of the sink and of its pyhoglake handle
  prepared,    \* self._prepared
  uploads,     \* history: uploads so far; their number identifies them
  born,        \* history: uploads when this process started
  orphaned,    \* [id, reason]: what _count_orphans has booked
  abandoned,   \* history: uploads a killed process held
  spent        \* how much of each bound is used

table == <<live, layout, altered, changes, made>>
catalog == <<table, registered, receipts, expired>>
pod == <<phase, flush, since, attempt, final, sink, prepared>>
history == <<uploads, born, orphaned, abandoned>>
vars == <<catalog, delayed, committed, pod, history, spent>>

Ranges == {r \in [first : 0 .. LogLength - 1, last : 0 .. LogLength - 1] : r.first <= r.last}

NoPayload == [id |-> 0]
NoShape == [spec |-> "unread", age |-> 0]
NoClient == [incarnation |-> 0, basis |-> 0, age |-> 0]
Unreconciled == "unread"

\* __init__ and reset_caches: nothing is resolved.
ColdSink == [handle |-> FALSE, uuid |-> 0, shape |-> NoShape, verdict |-> Unreconciled,
             client |-> NoClient]

Running == phase # "down"
Spend(bound) == spent' = [spent EXCEPT ![bound] = @ + 1]
Left(bound) ==
  spent[bound] < CASE bound = "faults" -> MaxFaults [] bound = "drops" -> MaxDrops
                   [] bound = "alters" -> MaxAlters [] bound = "columns" -> MaxColumns
                   [] bound = "rewinds" -> MaxRewinds

Init ==
  /\ \/ live = 0 /\ layout = "none" /\ made = 0
     \/ live = 1 /\ layout \in {"none", Want} /\ made = 1
  /\ altered = 0 /\ changes = 0
  /\ registered = {} /\ receipts = {} /\ expired = 0 /\ delayed = {}
  /\ committed = 0
  /\ phase = "down"
  /\ flush = [first |-> 0, last |-> 0]
  /\ since = 0 /\ attempt = 0 /\ final = FALSE
  /\ sink = ColdSink
  /\ prepared = NoPayload
  /\ uploads = 0 /\ born = 0 /\ orphaned = {} /\ abandoned = {}
  /\ spent = [b \in {"faults", "drops", "alters", "columns", "rewinds"} |-> 0]

---------------------------------------------------------------------------
(* The catalog server (external).                                          *)

\* What a read of the table gives the sink and the pyhoglake handle.
ShapeRead == [spec |-> layout, age |-> 0]
ClientRead == [incarnation |-> live, basis |-> changes, age |-> 0]

\* An alter of the live table to layout l.
Altering(l) ==
  /\ layout' = l
  /\ changes' = changes + 1
  /\ altered' = changes + 1
  /\ UNCHANGED <<live, made>>

Creating(l) ==
  /\ live' = made + 1
  /\ made' = made + 1
  /\ layout' = l
  /\ changes' = changes + 1
  /\ altered' = changes + 1

\* How the server judges a commit request, in its order: the receipt first,
\* then the request, the table and its incarnation, the expiry floor and the
\* conflict scan.
Verdict(p) ==
  LET known == {r \in receipts : r.key = p.key}
  IN  IF \E r \in known : r.id = p.id THEN "replayed"
      ELSE IF known # {} THEN "reused"
      ELSE IF ~p.valid THEN "invalid"
      ELSE IF live = 0 THEN "dropped"
      ELSE IF live # p.incarnation THEN "recreated"
      ELSE IF p.id <= expired THEN "expired"
      ELSE IF altered > p.basis THEN "ddl"
      ELSE "applied"

\* The transaction of a commit request: files are stamped with the live spec.
Process(p) ==
  IF Verdict(p) = "applied"
  THEN /\ registered' = registered \cup
            {[id |-> p.id, incarnation |-> live, range |-> p.range,
              values |-> p.values, stamped |-> layout]}
       /\ receipts' = receipts \cup {[key |-> p.key, id |-> p.id]}
  ELSE UNCHANGED <<registered, receipts>>

---------------------------------------------------------------------------
(* Everybody else.                                                         *)

\* A tick passes: the caches age.  Encoding a flush takes less than a tick, so
\* a shape that was fresh when _prepare took it does not age past its limit
\* before pyhoglake looks at its own cache.
Older(age, limit) == IF age < limit THEN age + 1 ELSE age

\* Mutant: the sink trusts its shape as long as pyhoglake trusts its own.
LiveInfoTTLOfClient == Retention \div 2

\* _live_info_ttl_s, and pyhoglake's threshold (external).
LiveInfoTTL == Retention \div 4
ClientTTL == Retention \div 2

Tick ==
  /\ Running
  /\ phase = "upload" => sink.shape.age < LiveInfoTTL
  /\ sink' = [sink EXCEPT
       !.shape.age = IF sink.shape = NoShape THEN 0 ELSE Older(@, LiveInfoTTL),
       !.client.age = IF sink.client = NoClient THEN 0 ELSE Older(@, ClientTTL)]
  /\ prepared' = IF prepared = NoPayload THEN NoPayload
                 ELSE [prepared EXCEPT !.age = Older(@, Retention)]
  /\ UNCHANGED <<catalog, delayed, committed, phase, flush, since, attempt, final,
                 history, spent>>

Drop ==
  /\ live # 0 /\ Left("drops") /\ Spend("drops")
  /\ live' = 0 /\ layout' = "none" /\ changes' = changes + 1
  /\ UNCHANGED <<altered, made, registered, receipts, expired, delayed, committed, pod, history>>

CreateElsewhere(l) ==
  /\ live = 0 /\ Left("drops") /\ Spend("drops")
  /\ Creating(l)
  /\ UNCHANGED <<registered, receipts, expired, delayed, committed, pod, history>>

\* Another pod adds a column (l = layout), or an operator re-specs the table.
AlterElsewhere(l) ==
  /\ live # 0 /\ Left("alters") /\ Spend("alters")
  /\ Altering(l)
  /\ UNCHANGED <<registered, receipts, expired, delayed, committed, pod, history>>

\* The catalog expires the snapshot the held payload's basis is.
Expire ==
  /\ prepared # NoPayload /\ prepared.age >= Retention /\ prepared.id > expired
  /\ Left("faults") /\ Spend("faults")
  /\ expired' = prepared.id
  /\ UNCHANGED <<table, registered, receipts, delayed, committed, pod, history>>

\* A request the client gave up on reaches the server after all.
LateArrival(p) ==
  /\ p \in delayed
  /\ delayed' = delayed \ {p}
  /\ Process(p)
  /\ UNCHANGED <<table, expired, committed, pod, history, spent>>

\* An operator resets the group's offset while no pod is up.
Rewind ==
  /\ ~Running /\ Left("rewinds") /\ Spend("rewinds")
  /\ \E o \in 0 .. committed - 1 : committed' = o
  /\ UNCHANGED <<catalog, delayed, pod, history>>

Crash ==
  /\ Running /\ Left("faults") /\ Spend("faults")
  /\ abandoned' = abandoned \cup ({prepared.id} \ {0})
  /\ phase' = "down"
  /\ sink' = ColdSink /\ prepared' = NoPayload
  /\ attempt' = 0 /\ final' = FALSE
  /\ UNCHANGED <<catalog, delayed, committed, flush, since, uploads, born, orphaned>>

---------------------------------------------------------------------------
(* The pod: main's side of a flush.                                        *)

Start ==
  /\ phase = "down"
  /\ phase' = "idle"
  /\ born' = uploads
  /\ UNCHANGED <<catalog, delayed, committed, flush, since, attempt, final, sink, prepared,
                 uploads, orphaned, abandoned, spent>>

\* The loop has buffered the offsets up to some last one and flushes them: on
\* a trigger, or finally because of a SIGTERM.
Begin ==
  /\ phase = "idle"
  /\ \E last \in committed .. LogLength - 1 :
       flush' = [first |-> committed, last |-> last]
  /\ since' = IF live = 0 THEN made + 1 ELSE live
  /\ final' \in BOOLEAN
  /\ phase' = "write"
  /\ UNCHANGED <<catalog, delayed, committed, attempt, sink, prepared, history, spent>>

\* Mutant: reset_caches drops the prepared payload as well.
HeldThroughResetNot(payload) == NoPayload

\* What reset_caches keeps of the prepared payload: all of it.
HeldThroughReset(payload) == payload

\* Mutant: one attempt more than configured.
AttemptsLeftOffByOne == attempt < MaxAttempts

\* range(max_retries) of the retry loop.
AttemptsLeft == attempt < MaxAttempts - 1

\* A retryable exception leaves write(), which has left the sink's caches at
\* `after` and holds `payload`.  The loop resets the caches and tries again,
\* or gives up (the last attempt, or the flush deadline): then the final flush
\* of the shutdown path has one more go, and after that the pod closes.
RetryOrRaise(after, payload) ==
  \/ /\ AttemptsLeft
     /\ attempt' = attempt + 1
     /\ phase' = "write"
     /\ sink' = ColdSink
     /\ prepared' = HeldThroughReset(payload)
     /\ UNCHANGED final
  \/ /\ attempt' = 0
     /\ phase' = IF final THEN "closing" ELSE "write"
     /\ final' = TRUE
     /\ sink' = after
     /\ prepared' = payload

\* A permanent one: no retry, and the final flush is skipped.
Permanent ==
  /\ phase' = "closing"
  /\ attempt' = 0
  /\ UNCHANGED <<final, prepared>>

\* The offsets are committed only after write() returned (main._flush).
Commit ==
  /\ phase = "commit"
  /\ committed' = flush.last + 1
  /\ attempt' = 0
  /\ phase' = IF final THEN "closing" ELSE "idle"
  /\ UNCHANGED <<catalog, delayed, flush, since, final, sink, prepared, history, spent>>

\* _discard_prepared
Booked(payload, reason) ==
  IF payload = NoPayload THEN orphaned
  ELSE orphaned \cup {[id |-> payload.id, reason |-> reason]}

\* close(), and the process ends.
Close ==
  /\ phase = "closing"
  /\ orphaned' = Booked(prepared, "shutdown")
  /\ phase' = "down"
  /\ sink' = ColdSink /\ prepared' = NoPayload /\ final' = FALSE
  /\ UNCHANGED <<catalog, delayed, committed, flush, since, attempt, uploads, born,
                 abandoned, spent>>

---------------------------------------------------------------------------
(* write(): from the batch to a prepared payload.                          *)

\* A payload prepared for these offsets is replayed; any other is superseded.
Write ==
  /\ phase = "write"
  /\ IF prepared # NoPayload /\ prepared.range = flush
     THEN /\ phase' = "send"
          /\ UNCHANGED <<prepared, orphaned>>
     ELSE /\ phase' = IF sink.handle THEN "evolve" ELSE "resolve"
          /\ orphaned' = Booked(prepared, "superseded")
          /\ prepared' = NoPayload
  /\ UNCHANGED <<catalog, delayed, committed, flush, since, attempt, final, sink, uploads,
                 born, abandoned, spent>>

BeforeUpload ==
  {"resolve", "create", "declare_new", "declare_found", "declare_lost", "evolve", "shape",
   "declare_live"}

\* Any catalog or object-store call before the commit fails transiently.
CallFails ==
  /\ phase \in BeforeUpload /\ Left("faults") /\ Spend("faults")
  /\ RetryOrRaise(sink, prepared)
  /\ UNCHANGED <<catalog, delayed, committed, flush, since, history>>

\* It is refused for good: a 422, files without field ids, a cast.
CallRefused ==
  /\ phase \in BeforeUpload /\ Left("faults") /\ Spend("faults")
  /\ Permanent
  /\ UNCHANGED <<catalog, delayed, committed, flush, since, sink, history>>

\* The shape and the client's cache as a read or an alter receipt seeds them;
\* _adopt_info and pyhoglake's Table.info / Table.alter move together.
Adopted(s, l, change) ==
  [s EXCEPT !.shape = [spec |-> l, age |-> 0],
            !.client = [incarnation |-> live, basis |-> change, age |-> 0]]
Reread(s) == Adopted(s, layout, changes)

\* _ensure_table caches the handle last, with the incarnation it stands for.
Resolved(s) == [s EXCEPT !.handle = TRUE, !.uuid = s.client.incarnation]
Approved(s) == [s EXCEPT !.verdict = s.shape.spec]

\* Mutant: a table without a layout stops the pod.
ContradictsWhenMissing(s) == s.shape.spec # Want

\* _reconcile_specs: the layout of s is what config wants, or is missing and
\* gets declared, or stops the pod.
MatchesConfig(s) == s.shape.spec = Want
LacksLayout(s) == s.shape.spec = "none" /\ Want # "none"
Contradicts(s) == s.shape.spec \notin {"none", Want}

\* _ensure_table on a table that exists, and _create_table that lost the race.
ResolveFound ==
  /\ phase \in {"resolve", "create"} /\ live # 0
  /\ LET s == Reread(sink)
     IN  \/ MatchesConfig(s) /\ sink' = Resolved(Approved(s)) /\ phase' = "evolve"
            /\ UNCHANGED <<attempt, final, prepared>>
         \/ LacksLayout(s) /\ sink' = s
            /\ phase' = (IF phase = "resolve" THEN "declare_found" ELSE "declare_lost")
            /\ UNCHANGED <<attempt, final, prepared>>
         \/ Contradicts(s) /\ sink' = s /\ Permanent
  /\ UNCHANGED <<catalog, delayed, committed, flush, since, history, spent>>

\* _ensure_table catches the 404 of its read, and of a reconciliation.
ResolveMissing ==
  /\ phase \in {"resolve", "declare_found"} /\ live = 0
  /\ phase' = "create"
  /\ UNCHANGED <<catalog, delayed, committed, flush, since, attempt, final, sink, prepared,
                 history, spent>>

\* _create_table: the table exists before its layout does.
ResolveCreates ==
  /\ phase = "create" /\ live = 0
  /\ Creating("none")
  /\ LET s == [sink EXCEPT !.client = [incarnation |-> made + 1, basis |-> changes + 1, age |-> 0]]
     IN  IF Want = "none"
         THEN sink' = Resolved(s) /\ phase' = "evolve"
         ELSE sink' = s /\ phase' = "declare_new"
  /\ UNCHANGED <<registered, receipts, expired, delayed, committed, flush, since, attempt, final,
                 prepared, history, spent>>

Declaring == {"declare_new", "declare_found", "declare_lost", "declare_live"}

\* What follows a declaration, by where it was needed.
Declared(s) ==
  /\ sink' = CASE phase = "declare_new" -> Resolved(s)
               [] phase \in {"declare_found", "declare_lost"} -> Resolved(Approved(s))
               [] phase = "declare_live" -> Approved(s)
  /\ phase' = IF phase = "declare_live" THEN "upload" ELSE "evolve"
  /\ UNCHANGED <<attempt, final, prepared>>

\* _declare_specs: one alter, and its result is verified.
Declare ==
  /\ phase \in Declaring /\ live # 0
  /\ Altering(Want)
  /\ Declared(Adopted(sink, Want, changes + 1))
  /\ UNCHANGED <<registered, receipts, expired, delayed, committed, flush, since, history, spent>>

\* It lost to other DDL (409): the table is read again and verified.
DeclareConflicts ==
  /\ phase \in Declaring /\ live # 0
  /\ altered > sink.client.basis
  /\ UNCHANGED table
  /\ IF layout = Want THEN Declared(Reread(sink))
     ELSE sink' = Reread(sink) /\ Permanent
  /\ UNCHANGED <<registered, receipts, expired, delayed, committed, flush, since, history, spent>>

\* _evolve_and_align: no new column, or one the catalog refuses (logged, and
\* the column is dropped from the batch).
EvolveNothing ==
  /\ phase = "evolve"
  /\ phase' = "shape"
  /\ UNCHANGED <<catalog, delayed, committed, flush, since, attempt, final, sink, prepared,
                 history, spent>>

\* The batch brings a column: an alter, whose receipt is adopted, or a 409
\* and the read that follows it.
EvolveColumn ==
  /\ phase = "evolve" /\ live # 0
  /\ Left("columns") /\ Spend("columns")
  /\ phase' = "shape"
  /\ \/ Altering(layout) /\ sink' = Adopted(sink, layout, changes + 1)
     \/ altered > sink.client.basis /\ UNCHANGED table /\ sink' = Reread(sink)
  /\ UNCHANGED <<registered, receipts, expired, delayed, committed, flush, since, attempt, final,
                 prepared, history>>

\* Mutant: a fresh shape counts as a reconciled one.
NeedsVerdictNever(s) == FALSE

\* A shape adopted by evolution carries no verdict of _reconcile_specs.
NeedsVerdict(s) == s.shape.spec # s.verdict

ShapeIsFresh == sink.shape # NoShape /\ sink.shape.age < LiveInfoTTL
ClientIsUsable == sink.client # NoClient /\ sink.client.age < ClientTTL

\* _table_info, first thing in _prepare.
TakeShape ==
  /\ phase = "shape"
  /\ ShapeIsFresh \/ live # 0
  /\ LET s == IF ShapeIsFresh THEN sink ELSE Reread(sink)
         judged == ~ShapeIsFresh \/ NeedsVerdict(s)
     IN  \/ judged /\ Contradicts(s) /\ sink' = s /\ Permanent
         \/ /\ ~(judged /\ Contradicts(s))
            /\ IF judged /\ LacksLayout(s)
               THEN /\ sink' = s
                    /\ phase' = "declare_live"
               ELSE /\ sink' = (IF judged THEN Approved(s) ELSE s)
                    /\ phase' = "upload"
            /\ UNCHANGED <<attempt, final, prepared>>
  /\ UNCHANGED <<catalog, delayed, committed, flush, since, history, spent>>

\* Mutant: the key names only the table.
FlushKeyOfName(uuid, range) == [incarnation |-> 0, range |-> range]

\* _flush_key
FlushKey(uuid, range) == [incarnation |-> uuid, range |-> range]

\* prepare_append_tables: pyhoglake refreshes a cache that is too old, refuses
\* an incarnation that is not the pinned one, and uploads.  The payload's
\* partition values come from the sink's shape, its read_snapshot from the
\* client's cache.  A request that is not `valid` is one the server answers 422.
Client == IF ClientIsUsable THEN sink.client ELSE ClientRead

Upload(valid) ==
  /\ phase = "upload"
  /\ IF valid THEN UNCHANGED spent ELSE Left("faults") /\ Spend("faults")
  /\ ClientIsUsable \/ live # 0
  /\ Client.incarnation = sink.uuid
  /\ uploads' = uploads + 1
  /\ prepared' = [id |-> uploads + 1, key |-> FlushKey(sink.uuid, flush), range |-> flush,
                  valid |-> valid,
                  incarnation |-> sink.uuid, basis |-> Client.basis, age |-> Client.age,
                  values |-> sink.shape.spec]
  /\ sink' = [sink EXCEPT !.client = Client]
  /\ phase' = "send"
  /\ UNCHANGED <<catalog, delayed, committed, flush, since, attempt, final, born, orphaned,
                 abandoned>>

\* IncarnationChangedError before the first byte.
UploadPinned ==
  /\ phase = "upload"
  /\ ClientIsUsable \/ live # 0
  /\ Client.incarnation # sink.uuid
  /\ RetryOrRaise([sink EXCEPT !.client = Client], prepared)
  /\ UNCHANGED <<catalog, delayed, committed, flush, since, history, spent>>

\* The object store or the network fails, before or after some object landed.
UploadFails(landed) ==
  /\ phase = "upload" /\ Left("faults") /\ Spend("faults")
  /\ uploads' = IF landed THEN uploads + 1 ELSE uploads
  /\ orphaned' = IF landed THEN orphaned \cup {[id |-> uploads + 1, reason |-> "prepare_failed"]}
                 ELSE orphaned
  /\ RetryOrRaise(sink, prepared)
  /\ UNCHANGED <<catalog, delayed, committed, flush, since, born, abandoned>>

\* A read or an alter finds no table under the name: a retryable 404, but for
\* the one that ResolveMissing is about.
NameIsGone ==
  /\ live = 0
  /\ \/ phase \in Declaring \ {"declare_found"}
     \/ phase = "shape" /\ ~ShapeIsFresh
     \/ phase = "upload" /\ ~ClientIsUsable
  /\ RetryOrRaise(sink, prepared)
  /\ UNCHANGED <<catalog, delayed, committed, flush, since, history, spent>>

---------------------------------------------------------------------------
(* _commit_prepared.                                                       *)

\* Mutant: the shape survives a refused commit.
ShapeKept(s) == s

\* Any HoglakeError of a commit drops the shape; pyhoglake drops its cache on
\* most of them (external).
ShapeDropped(s) == [s EXCEPT !.shape = NoShape, !.verdict = Unreconciled]
ClientDropped(s) == [s EXCEPT !.client = NoClient]

\* The request arrives and so does the answer: these rows are published.
SendOk ==
  /\ phase = "send" /\ Verdict(prepared) \in {"applied", "replayed"}
  /\ Process(prepared)
  /\ prepared' = NoPayload
  /\ phase' = "commit"
  /\ UNCHANGED <<table, expired, delayed, committed, flush, since, attempt, final, sink, history, spent>>

\* _accept_already_published: the reused-key 422 is success.
SendReused ==
  /\ phase = "send" /\ Verdict(prepared) = "reused"
  /\ \E s \in {sink, ClientDropped(sink)} : sink' = ShapeDropped(s)
  /\ orphaned' = Booked(prepared, "already_published")
  /\ prepared' = NoPayload
  /\ phase' = "commit"
  /\ UNCHANGED <<catalog, delayed, committed, flush, since, attempt, final, uploads, born,
                 abandoned, spent>>

\* The server judged the request: the payload is discarded and the flush
\* rebuilds (_destination_moved, _is_answered_refusal).
Discarded(reason, after) ==
  /\ orphaned' = Booked(prepared, reason)
  /\ RetryOrRaise(after, NoPayload)
  /\ UNCHANGED <<committed, flush, since, uploads, born, abandoned>>

Moved(reason, after) == Discarded(reason, after) /\ UNCHANGED <<catalog, delayed>>

SendRecreated ==
  /\ phase = "send" /\ Verdict(prepared) = "recreated"
  /\ Moved("table_recreated", ColdSink)
  /\ UNCHANGED spent

SendAfterDDL ==
  /\ phase = "send" /\ Verdict(prepared) = "ddl"
  /\ Moved("ddl_since_read_snapshot", ShapeDropped(ClientDropped(sink)))
  /\ UNCHANGED spent

\* 410: the server cannot judge a basis it no longer retains.
SendExpired ==
  /\ phase = "send" /\ Verdict(prepared) = "expired"
  /\ Moved("read_snapshot_expired", ShapeDropped(ClientDropped(sink)))
  /\ UNCHANGED spent

\* Any other answered refusal: here a 409 table_dropped.
SendRefused ==
  /\ phase = "send" /\ Verdict(prepared) = "dropped"
  /\ \E s \in {sink, ClientDropped(sink)} : Moved("commit_refused", ShapeDropped(s))
  /\ UNCHANGED spent

\* A 422: the payload is discarded as well, and nothing is tried again.
SendInvalid ==
  /\ phase = "send" /\ Verdict(prepared) = "invalid"
  /\ orphaned' = Booked(prepared, "commit_refused")
  /\ prepared' = NoPayload
  /\ \E s \in {sink, ClientDropped(sink)} : sink' = ShapeDropped(s)
  /\ phase' = "closing" /\ attempt' = 0
  /\ UNCHANGED <<catalog, delayed, committed, flush, since, final, uploads, born, abandoned,
                 spent>>

\* Mutant: an uncertain outcome counts as a refusal.
HeldAsRefused(after) == Discarded("commit_refused", after)

\* A 5xx or a transport error judged nothing: the payload is held for replay.
Held(after) ==
  /\ RetryOrRaise(after, prepared)
  /\ UNCHANGED <<committed, flush, since, history>>

SendUnavailable ==
  /\ phase = "send" /\ Left("faults") /\ Spend("faults")
  /\ \E s \in {sink, ClientDropped(sink)} : Held(ShapeDropped(s))
  /\ UNCHANGED <<catalog, delayed>>

\* The answer is lost, or the request itself is delayed.
SendTimesOut(arrives) ==
  /\ phase = "send" /\ Left("faults") /\ Spend("faults")
  /\ IF arrives THEN Process(prepared) /\ UNCHANGED delayed
     ELSE delayed' = delayed \cup {prepared} /\ UNCHANGED <<registered, receipts>>
  /\ Held(sink)
  /\ UNCHANGED <<table, expired>>

---------------------------------------------------------------------------
Environment ==
  \/ Tick
  \/ Drop
  \/ \E l \in {"none", Want} : CreateElsewhere(l)
  \/ \E l \in Layouts : AlterElsewhere(l)
  \/ Expire
  \/ \E p \in delayed : LateArrival(p)
  \/ Rewind
  \/ Crash

\* Calls that fail because of the environment.
Failing ==
  \/ CallFails
  \/ CallRefused
  \/ Upload(FALSE)
  \/ \E landed \in BOOLEAN : UploadFails(landed)
  \/ SendUnavailable
  \/ \E arrives \in BOOLEAN : SendTimesOut(arrives)

Progress ==
  \/ Start \/ Begin \/ Commit \/ Close
  \/ Write \/ ResolveFound \/ ResolveMissing \/ ResolveCreates \/ Declare \/ DeclareConflicts
  \/ EvolveNothing \/ EvolveColumn \/ TakeShape \/ Upload(TRUE) \/ UploadPinned \/ NameIsGone
  \/ SendOk \/ SendReused \/ SendRecreated \/ SendAfterDDL \/ SendExpired
  \/ SendRefused \/ SendInvalid

Next == Environment \/ Failing \/ Progress

Spec == Init /\ [][Next]_vars

\* The pod's thread runs and Kubernetes restarts it.
FairSpec == Spec /\ WF_vars(Progress)

---------------------------------------------------------------------------
(* Properties                                                              *)

Phases == {"down", "idle", "write", "resolve", "create", "declare_new", "declare_found",
           "declare_lost", "evolve", "shape", "declare_live", "upload", "send", "commit", "closing"}
Ids == 0 .. uploads

\* Types of the pod, its sink and the catalog; a payload about to be sent is the
\* one prepared for this flush (_commit_prepared replays what _prepare held).
TypeOK ==
  /\ live \in 0 .. made /\ layout \in Layouts
  /\ altered \in 0 .. changes /\ changes \in Nat /\ made \in Nat
  /\ \A f \in registered : f.id \in Ids /\ f.incarnation \in 1 .. made /\ f.range \in Ranges
  /\ \A r \in receipts : r.id \in Ids
  /\ committed \in 0 .. LogLength
  /\ phase \in Phases
  /\ flush \in [first : 0 .. LogLength, last : 0 .. LogLength]
  /\ since \in 0 .. made + 1
  /\ attempt \in 0 .. MaxAttempts - 1 /\ final \in BOOLEAN
  /\ sink.uuid \in 0 .. made
  /\ prepared.id \in Ids
  /\ phase = "send" => prepared # NoPayload /\ prepared.range = flush

\* No silent mis-pruning (hoglake.py _live_info_ttl_s, _table_info): whatever is
\* re-specced and whenever the caches are refreshed, no file is stamped with a
\* spec other than the one its partition values were computed under.
FilesMatchTheirSpec == \A f \in registered : f.values = f.stamped

\* The pod writes under the declared layout only (_reconcile_specs): through
\* create-then-alter windows, re-specs and shapes adopted by schema evolution.
OnlyDeclaredLayout == \A f \in registered : f.stamped = Want

\* Within a process a flush is published once, whatever answers are lost or
\* late and even across a recreation of the table (_commit_prepared).
OncePerProcess ==
  \A f, g \in registered :
    f.id > born /\ g.id > born /\ f.range = g.range => f = g

\* Kafka offsets advance only over rows published into an incarnation that was
\* live when the flush began or later (_flush_key, _accept_already_published).
AckedIsPublished ==
  phase = "commit" =>
    \E f \in registered : f.range = flush /\ f.incarnation >= since

\* Every upload is registered, held for replay, booked as an orphan, or was held
\* by a process that got killed: none is lost track of (_count_orphans).
UploadsAccountedFor ==
  \A id \in 1 .. uploads :
    \/ \E f \in registered : f.id = id
    \/ \E o \in orphaned : o.id = id
    \/ id \in abandoned \/ id = prepared.id

\* An upload booked because the server refused its commit is in no table, then
\* and later, also when an earlier send of it arrives late (_is_answered_refusal).
RefusedStaysUnreferenced ==
  \A o \in orphaned, f \in registered : o.id = f.id => o.reason = "shutdown"

\* README.md and metrics.py of the orphan counter: objects "uploaded to the lake
\* but never registered in a commit", "exact, on every path".
OrphansAreUnreferenced ==
  \A o \in orphaned, f \in registered : o.id # f.id

\* Every offset is eventually published and committed once the environment
\* leaves the pod alone (module docstring, _accept_already_published).
EventuallyCommitted == <>(committed = LogLength)
=============================================================================
