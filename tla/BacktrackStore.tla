---------------------------- MODULE BacktrackStore ----------------------------
(* What a backtrackable memory promises: opening a level remembers the whole  *)
(* store, and returning to a level brings back the store it remembered, no    *)
(* matter what was written in between.  It says nothing of stamps, entries or *)
(* blocks; Trail.tla (the Trailer and trail<T> of the source) implements it.  *)
EXTENDS Naturals, Sequences

CONSTANTS
    Cells,          \* the memory cells
    Values,         \* what a cell may hold
    NoPromise       \* marks a level opened while nothing was being recorded

Stores == [Cells -> Values]

VARIABLES
    store,          \* the current contents
    saved           \* one remembered store per open level, outermost first

vars == <<store, saved>>

TypeOK == /\ store \in Stores
          /\ saved \in Seq(Stores \cup {NoPromise})

Init == /\ store \in Stores
        /\ saved = <<>>

(* A write changes one cell and no remembered store. *)
Write(c, v) == /\ store' = [store EXCEPT ![c] = v]
               /\ UNCHANGED saved

(* Opening a level remembers the present store, or promises nothing. *)
Open == /\ saved' \in {Append(saved, store), Append(saved, NoPromise)}
        /\ UNCHANGED store

(* Return to level j: it and every later level are closed. *)
Return(j) == /\ store' \in Stores
             /\ saved[j] # NoPromise => store' = saved[j]
             /\ saved' = SubSeq(saved, 1, j - 1)

Next == \/ \E c \in Cells, v \in Values : Write(c, v)
        \/ Open
        \/ \E j \in 1..Len(saved) : Return(j)

Spec == Init /\ [][Next]_vars
===============================================================================
