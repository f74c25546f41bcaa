--------------------------------- MODULE Trail ---------------------------------
(* The Trailer (trail.hpp, trail.cpp) with the cells it restores: trail<T>    *)
(* (trailable.hpp) logs the old value on the first write after a new magic    *)
(* number, a TVec slot (trailVec.hpp) logs it on every write.                 *)
EXTENDS Integers, Sequences, FiniteSetsExt

CONSTANTS
    Cells,          \* every trailed location
    Vecs,           \* those of them that are TVec slots
    Values,
    EntrySize,      \* bytes an entry for a cell takes in the block
    BlockSize,      \* TSIZE, the first size of the block
    Nodes,          \* ids the Tracer hands to push(long)
    MaxMagic, MaxDepth, MaxTrail,    \* bounds of the model
    NoPromise

ASSUME TrailAssumption ==
    /\ Vecs \subseteq Cells
    /\ EntrySize \in [Cells -> Nat \ {0}]
    /\ BlockSize \in Nat \ {0}
    /\ \A c \in Cells : EntrySize[c] < BlockSize
    /\ Nodes \subseteq Int
    /\ MaxMagic \in Nat /\ MaxDepth \in Nat /\ MaxTrail \in Nat
    /\ NoPromise \notin [Cells -> Values]

VARIABLES
    val,            \* _value of each cell
    stamp,          \* _magic of each cell: the magic number of its last save
    trail,          \* _trail: entries [cell, old, at], bottom first
    tops,           \* _tops: frames [size, mem, id]; armed: _enabled when pushed
    magic,          \* _magic
    lastNode,       \* _lastNode
    enabled,        \* _enabled
    btop, bsz,      \* _btop, _bsz
    popped          \* client state: a pop happened and no new magic number since

vars == <<val, stamp, trail, tops, magic, lastNode, enabled, btop, bsz, popped>>

Stores == [Cells -> Values]
Entries == [cell : Cells, old : Values, at : Nat]
Frames == [size : Nat, mem : Nat, id : Int, armed : BOOLEAN]

TypeOK == /\ val \in Stores
          /\ stamp \in [Cells -> Int]
          /\ trail \in Seq(Entries)
          /\ tops \in Seq(Frames)
          /\ magic \in Int
          /\ lastNode \in Int
          /\ enabled \in BOOLEAN
          /\ btop \in Nat /\ bsz \in Nat
          /\ popped \in BOOLEAN

Init == /\ val \in Stores
        /\ stamp = [c \in Cells |-> -1]
        /\ trail = <<>> /\ tops = <<>>
        /\ magic = -1 /\ lastNode = 0
        /\ enabled = FALSE
        /\ btop = 0 /\ bsz = BlockSize
        /\ popped = FALSE

--------------------------------------------------------------------------------
(* Entries above position s that belong to c, and what undoing them all       *)
(* leaves in c: entries are undone last first, so the lowest one decides.     *)
Above(s, c) == {k \in (s + 1)..Len(trail) : trail[k].cell = c}

(* Mutant: the newest entry decides instead of the oldest. *)
ValueAt_newest == [s \in 0..Len(trail) |->
                      [c \in Cells |-> IF Above(s, c) = {} THEN val[c]
                                      ELSE trail[Max(Above(s, c))].old]]

ValueAt == [s \in 0..Len(trail) |->
               [c \in Cells |-> IF Above(s, c) = {} THEN val[c]
                               ELSE trail[Min(Above(s, c))].old]]

--------------------------------------------------------------------------------
Enable == /\ ~enabled
          /\ enabled' = TRUE
          /\ UNCHANGED <<val, stamp, trail, tops, magic, lastNode, btop, bsz, popped>>

(* Mutant: a level is opened without a new magic number. *)
NewMagic_kept == popped' = FALSE /\ UNCHANGED magic

NewMagic == /\ magic < MaxMagic
            /\ magic' = magic + 1
            /\ popped' = FALSE

(* Mutant: the frame remembers the index of the last entry, not the height. *)
Frame_index(id) == [size |-> Len(trail) - 1, mem |-> btop, id |-> id, armed |-> enabled]

Frame(id) == [size |-> Len(trail), mem |-> btop, id |-> id, armed |-> enabled]

PushFrame(id) == /\ Len(tops) < MaxDepth
                 /\ NewMagic
                 /\ tops' = Append(tops, Frame(id))
                 /\ UNCHANGED <<val, stamp, trail, enabled, btop, bsz>>

Push == /\ PushFrame(lastNode + 1)
        /\ lastNode' = lastNode + 1

PushNode(id) == /\ PushFrame(id)
                /\ UNCHANGED lastNode

(* Mutant: the memory of the entries is not given back. *)
PopTo_leak(j) == /\ val' = ValueAt[tops[j].size]
                 /\ trail' = SubSeq(trail, 1, tops[j].size)
                 /\ tops' = SubSeq(tops, 1, j - 1)
                 /\ popped' = TRUE
                 /\ UNCHANGED <<stamp, magic, lastNode, enabled, btop, bsz>>

(* Undo everything above frame j and drop it with the frames over it; the     *)
(* magic number and the cells' stamps stay.                                   *)
PopTo(j) == /\ val' = ValueAt[tops[j].size]
            /\ trail' = SubSeq(trail, 1, tops[j].size)
            /\ tops' = SubSeq(tops, 1, j - 1)
            /\ btop' = tops[j].mem
            /\ popped' = TRUE
            /\ UNCHANGED <<stamp, magic, lastNode, enabled, bsz>>

Pop == /\ tops # <<>>
       /\ PopTo(Len(tops))

PopToNode(id) == \E j \in DOMAIN tops :
                    /\ tops[j].id = id
                    /\ \A k \in (j + 1)..Len(tops) : tops[k].id # id
                    /\ PopTo(j)

Clear == /\ tops # <<>>
         /\ PopTo(1)

IncMagic == /\ NewMagic
            /\ UNCHANGED <<val, stamp, trail, tops, lastNode, enabled, btop, bsz>>

(* operator new(sz, Trailer): room in the block, doubled when it is short;    *)
(* while the trailer is disabled it answers null and nothing is logged.       *)
LogOld(c) ==
    IF enabled
    THEN /\ trail' = Append(trail, [cell |-> c, old |-> val[c], at |-> btop])
         /\ btop' = btop + EntrySize[c]
         /\ bsz' = IF btop + EntrySize[c] >= bsz THEN 2 * bsz ELSE bsz
    ELSE UNCHANGED <<trail, btop, bsz>>

(* Mutant: TVec slots are logged on the first write only, like a trail<T>.    *)
Assign_once(c, v) ==
    /\ Len(trail) < MaxTrail
    /\ IF stamp[c] # magic THEN LogOld(c) ELSE UNCHANGED <<trail, btop, bsz>>
    /\ stamp' = [stamp EXCEPT ![c] = magic]
    /\ val' = [val EXCEPT ![c] = v]
    /\ UNCHANGED <<tops, magic, lastNode, enabled, popped>>

(* Every writing operator of trail<T>, and TVec::at. *)
Assign(c, v) ==
    /\ Len(trail) < MaxTrail
    /\ IF c \in Vecs \/ stamp[c] # magic THEN LogOld(c) ELSE UNCHANGED <<trail, btop, bsz>>
    /\ stamp' = IF c \in Vecs THEN stamp ELSE [stamp EXCEPT ![c] = magic]
    /\ val' = [val EXCEPT ![c] = v]
    /\ UNCHANGED <<tops, magic, lastNode, enabled, popped>>

Control == \/ Enable \/ Push \/ Pop \/ Clear \/ IncMagic
           \/ \E id \in Nodes : PushNode(id)
           \/ \E id \in {tops[j].id : j \in DOMAIN tops} : PopToNode(id)

(* Any client at all. *)
Next == \/ Control
        \/ \E c \in Cells, v \in Values : Assign(c, v)

Spec == Init /\ [][Next]_vars

(* The searches never write a trail<T> between a pop and the next push while  *)
(* a level is open: restoreState is followed by saveState or by another       *)
(* restoreState, and the Tracer calls incMagic after its pops.                *)
MayWrite(c) == c \in Vecs \/ ~popped \/ tops = <<>>

ClientNext == \/ Control
              \/ \E c \in Cells, v \in Values : MayWrite(c) /\ Assign(c, v)

ClientSpec == Init /\ [][ClientNext]_vars
--------------------------------------------------------------------------------
(* The memory block: the entries lie end to end from 0 to _btop, inside the   *)
(* block, and every frame remembers the offset and the height its entries     *)
(* start at (trail.hpp:68-81, trail.cpp:38-59, 86-101).                       *)
OffsetAt == [s \in 0..Len(trail) |-> IF s = Len(trail) THEN btop ELSE trail[s + 1].at]

InBlock == /\ btop < bsz /\ BlockSize <= bsz
           /\ OffsetAt[0] = 0
           /\ \A s, t \in 0..Len(trail) : s <= t => OffsetAt[s] <= OffsetAt[t]
           /\ \A k \in DOMAIN trail : trail[k].at + EntrySize[trail[k].cell] = OffsetAt[k]
           /\ \A i \in DOMAIN tops : /\ tops[i].size <= Len(trail)
                                     /\ tops[i].mem = OffsetAt[tops[i].size]

(* The fields have their types and the block is laid out.                     *)
Layout == TypeOK /\ InBlock

(* A cell that will not be logged by its next write has already been logged   *)
(* since the innermost level was opened: this is what the magic numbers are   *)
(* for (trailable.hpp:111-119).  It can only be relied on by a client that    *)
(* does not write between a pop and the next magic number.                    *)
Recording == tops # <<>> /\ tops[Len(tops)].armed

LoggedSince(s, c) == \E k \in 1..Len(trail) : k > s /\ trail[k].cell = c

Covered == Recording /\ ~popped =>
              \A c \in Cells \ Vecs :
                 stamp[c] = magic => LoggedSince(tops[Len(tops)].size, c)

(* What makes the two inductive: no cell is stamped with a magic number still *)
(* to come, frames stand in the order of their heights, and a frame pushed    *)
(* with recording on has only such frames over it.                            *)
Ordered == /\ \A c \in Cells : stamp[c] <= magic
           /\ \A i, j \in DOMAIN tops : i <= j => /\ tops[i].size <= tops[j].size
                                                  /\ tops[i].armed => tops[j].armed
           /\ \A i \in DOMAIN tops : tops[i].armed => enabled

(* pop() is a loop that undoes one entry at a time; the closed form ValueAt   *)
(* used by PopTo is what that loop computes, for every open frame             *)
(* (trail.cpp:93-99).                                                         *)
UndoLoop(s) ==
    LET undo[k \in s..Len(trail)] ==    \* the store once entries k+1.. are undone
            IF k = Len(trail) THEN val
            ELSE [undo[k + 1] EXCEPT ![trail[k + 1].cell] = trail[k + 1].old]
    IN undo[s]

PopIsTheLoop == \A i \in DOMAIN tops : UndoLoop(tops[i].size) = ValueAt[tops[i].size]

(* The promise of trailable.hpp:22-23: values are preserved on write and      *)
(* restored on backtrack.  A write leaves untouched what returning to any     *)
(* open level would bring back.                                               *)
Remembered == [i \in DOMAIN tops |->
                  IF tops[i].armed THEN ValueAt[tops[i].size] ELSE NoPromise]

Abstract == INSTANCE BacktrackStore WITH store <- val, saved <- Remembered

(* Under the discipline the searches keep, the trail is a backtrackable store *)
(* (a refinement: the remembered stores are those ValueAt would bring back).  *)
IsBacktrackStore == Abstract!Spec
================================================================================
