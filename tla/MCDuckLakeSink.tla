--------------------------- MODULE MCDuckLakeSink ---------------------------
(* A fleet halfway through a rollout: "new" dual-writes and pins "id" to   *)
(* uuid, "old" does neither.                                               *)
EXTENDS DuckLakeSink, TLC

Batch(src, comp, id, num, hard, huge) ==
  [cols |-> ("src" :> src @@ "comp" :> comp @@ "id" :> id @@ "num" :> num),
   hard |-> hard, huge |-> huge]

RolloutBatches ==
  [p \in {"new", "old"} |->
     IF p = "new"
     THEN {Batch("VARCHAR", "none", "UUID", "BIGINT", TRUE, TRUE),
           Batch("none", "VARCHAR", "none", "none", FALSE, FALSE)}
     ELSE {Batch("VARCHAR", "VARCHAR", "VARCHAR", "INTEGER", TRUE, FALSE)}]

NewPods == {"new"}
BothPods == {"new", "old"}
=============================================================================
