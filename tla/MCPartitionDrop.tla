-------------------------- MODULE MCPartitionDrop --------------------------
(* Two aged leaves and a young one; the second partition spec reads the    *)
(* same tuples the other way round.                                        *)
EXTENDS PartitionDrop, TLC

TwoSpecs == <<("a" :> 1 @@ "b" :> 2 @@ "z" :> 5), ("a" :> 5 @@ "b" :> 2 @@ "z" :> 1)>>
File(label, begin, id) ==
  [spec |-> 1, label |-> label, begin |-> begin, end |-> 0, rows |-> {id}, vector |-> FALSE]
History == (1 :> File("a", 1, 1) @@ 2 :> File("a", 2, 2) @@ 3 :> File("b", 3, 3))
=============================================================================
