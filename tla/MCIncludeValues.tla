-------------------------- MODULE MCIncludeValues --------------------------
(* TLC instances of IncludeValues. *)
EXTENDS IncludeValues, TLC

\* The values that are not pinned are interchangeable.
Symmetry == Permutations(Ids \ PinnedIds)
=============================================================================
