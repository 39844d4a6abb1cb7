---------------------------- MODULE RetainedTable ----------------------------
(***************************************************************************)
(* What partition retention promises the readers of a table: rows arrive,  *)
(* whole aged leaves leave for good, and the recorded row count is the     *)
(* number of rows that can be read.  PartitionDrop implements it with      *)
(* files, snapshots and a hand-made commit.                                *)
(***************************************************************************)
EXTENDS Naturals, FiniteSets

CONSTANTS
  Rows,
  Leaves,
  AgedLeaves   \* the leaves below the retention cutoff

VARIABLES
  live,      \* the rows a reader of the newest snapshot sees, with their leaf
  dropped,   \* the rows retention removed
  count      \* the row count the catalog reports

vars == <<live, dropped, count>>

TypeOK ==
  /\ live \subseteq [row : Rows, leaf : Leaves]
  /\ dropped \subseteq [row : Rows, leaf : Leaves]
  /\ count \in Nat

Init ==
  /\ live \subseteq [row : Rows, leaf : Leaves]
  /\ dropped = {}
  /\ count = Cardinality(live)

(* A row that was never seen before.                                       *)
Arrive ==
  /\ live' \subseteq [row : Rows, leaf : Leaves]
  /\ \E r \in live' \ (live \cup dropped) : live' = live \cup {r}
  /\ count' = count + 1
  /\ UNCHANGED dropped

(* One leaf at a time, in one step, and never the last row of the table.   *)
DropLeaf ==
  \E leaf \in AgedLeaves : \E out \in SUBSET {r \in live : r.leaf = leaf} :
    /\ out # {} /\ out # live
    /\ live' = live \ out
    /\ dropped' = dropped \cup out
    /\ count' = count - Cardinality(out)

Next == Arrive \/ DropLeaf

Spec == Init /\ [][Next]_vars
=============================================================================
