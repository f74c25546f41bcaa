-------------------------------- MODULE MCTrail --------------------------------
(* A trail<T> cell and a TVec slot over two values; a block of three bytes, so *)
(* that it is doubled, and a Tracer id equal to an id push() hands out.       *)
EXTENDS Trail

CONSTANTS a, b

MCCells == {a, b}
MCVecs == {b}
MCEntrySize == [c \in MCCells |-> IF c = a THEN 2 ELSE 1]
================================================================================
