------------------------------ MODULE MCSparseSet ------------------------------
(* Four values from an offset below zero, arguments one past both ends, two   *)
(* open levels.                                                               *)
EXTENDS SparseSet

MCOfs == -1
MCArguments == (Ofs - 1)..(Ofs + N)
================================================================================
