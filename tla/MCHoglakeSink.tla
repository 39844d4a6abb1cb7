--------------------------- MODULE MCHoglakeSink ---------------------------
(* TLC instances of HoglakeSink. *)
EXTENDS HoglakeSink
=============================================================================
