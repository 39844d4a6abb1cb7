--------------------------- MODULE MCCatalogUpkeep ---------------------------
(* Snapshot 3 carries an earlier time than 2.  Object 5 is the delete      *)
(* vector of object 3; registry row 4 is of a live table.                  *)
EXTENDS CatalogUpkeep, TLC

Span(begin, end) == [begin |-> begin, end |-> end]
File(begin, end, of) == [begin |-> begin, end |-> end, of |-> of]
Times == <<1, 3, 2, 4>>
Objects == (1 :> File(1, 2, 0) @@ 2 :> File(2, 3, 0) @@ 3 :> File(1, 0, 0) @@ 4 :> File(2, 0, 3))
Inlined == [t \in 1 .. 9 |-> IF t = 4 THEN Span(1, 0) ELSE IF t = 5 THEN Span(2, 3) ELSE Span(1, 2)]
=============================================================================
