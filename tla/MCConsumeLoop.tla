--------------------------- MODULE MCConsumeLoop ---------------------------
(* TLC instances of ConsumeLoop. *)
EXTENDS ConsumeLoop, TLC

Symmetry == Permutations(Partitions)
=============================================================================
