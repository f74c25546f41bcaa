------------------------------- MODULE SparseSet -------------------------------
(* SparseSet and SparseSetDomain (domain.hpp:63-120, domain.cpp:238-400): the *)
(* set is the first _size slots of a permutation.  Only _size, _min and _max  *)
(* are trailed; the permutation is not, so backtracking restores a size over  *)
(* a permutation that has been shuffled since.                                *)
EXTENDS Integers, Sequences, FiniteSets, FiniteSetsExt

CONSTANTS
    N, Ofs,         \* the set is created as Ofs..Ofs+N-1
    Arguments,      \* the values operations are called with
    MaxLevels       \* bound: open levels

ASSUME SparseSetAssumption == /\ N \in Nat \ {0} /\ Ofs \in Int
                              /\ Arguments \subseteq Int /\ MaxLevels \in Nat

VARIABLES
    values, indexes,    \* _values and its inverse _indexes, never trailed
    size, min, max,     \* _size, _min, _max
    failed,             \* empty() jumped out of the operation
    told,               \* the notifications of the last operation
    saved               \* [size, min, max] remembered by the open levels, and
                        \* the set at that moment (for the properties only)

vars == <<values, indexes, size, min, max, failed, told, saved>>

Slots == 0..(N - 1)

TypeOK == /\ values \in [Slots -> Slots] /\ indexes \in [Slots -> Slots]
          /\ size \in 0..N /\ min \in Slots /\ max \in Slots
          /\ failed \in BOOLEAN
          /\ told \subseteq {"bind", "change", "changeMin", "changeMax", "empty"}
          /\ Len(saved) <= MaxLevels

Init == /\ values = [i \in Slots |-> i] /\ indexes = [i \in Slots |-> i]
        /\ size = N /\ min = 0 /\ max = N - 1
        /\ failed = FALSE /\ told = {} /\ saved = <<>>

--------------------------------------------------------------------------------
(* The operations of SparseSet are loops over remove(), so they are functions *)
(* on the record of its fields.                                               *)
Fields == [v |-> values, i |-> indexes, n |-> size, lo |-> min, hi |-> max]

SetFields(f) == values' = f.v /\ indexes' = f.i /\ size' = f.n /\ min' = f.lo /\ max' = f.hi

Holds(f, x) == x \in Slots /\ f.i[x] < f.n

(* Mutant: the index of the value moved into the hole is not updated. *)
Exchange_half(f, x, y) == [f EXCEPT !.v[f.i[x]] = y, !.v[f.i[y]] = x, !.i[x] = f.i[y]]

Exchange(f, x, y) == [f EXCEPT !.v[f.i[x]] = y, !.v[f.i[y]] = x,
                               !.i[x] = f.i[y], !.i[y] = f.i[x]]

(* Mutant: the maximum only moves when it is also the minimum. *)
UpdateMax_never(f, x) == IF f.n # 0 /\ f.hi = x /\ f.lo = x THEN [f EXCEPT !.hi = f.lo] ELSE f

(* A bound that was removed moves to the nearest value left; when the set is  *)
(* empty, or none is found up to the other bound, it stays.                   *)
UpdateMax(f, x) == LET left == {y \in f.lo..(x - 1) : Holds(f, y)}
                   IN IF f.n # 0 /\ f.hi = x /\ left # {} THEN [f EXCEPT !.hi = Max(left)] ELSE f
UpdateMin(f, x) == LET left == {y \in (x + 1)..f.hi : Holds(f, y)}
                   IN IF f.n # 0 /\ f.lo = x /\ left # {} THEN [f EXCEPT !.lo = Min(left)] ELSE f

RemoveOne(f, x) ==
    IF ~Holds(f, x) THEN f
    ELSE LET g == [Exchange(f, x, f.v[f.n - 1]) EXCEPT !.n = f.n - 1]
         IN UpdateMin(UpdateMax(g, x), x)

RemoveAll(f) == [f EXCEPT !.n = 0]

(* Mutant: the value is written over slot 0 instead of being exchanged. *)
RemoveAllBut_write(f, x) == [f EXCEPT !.v[0] = x, !.i[x] = 0, !.lo = x, !.hi = x, !.n = 1]

(* removeAllBut swaps v into slot 0. *)
RemoveAllBut(f, x) == [Exchange(f, x, f.v[0]) EXCEPT !.lo = x, !.hi = x, !.n = 1]

(* Both loops go upwards; removeAbove re-reads max() at every turn.           *)
RemoveUpTo(f, x) ==
    LET go[y \in f.lo..x] == IF y = f.lo THEN f ELSE RemoveOne(go[y - 1], y - 1)
    IN IF f.hi < x THEN RemoveAll(f) ELSE IF x <= f.lo THEN f ELSE go[x]

(* Mutant: the loop starts at the new maximum itself. *)
RemoveFrom_early(f, x) ==
    LET go[y \in x..f.hi] == IF y = x THEN RemoveOne(f, x)
                             ELSE IF y > go[y - 1].hi THEN go[y - 1] ELSE RemoveOne(go[y - 1], y)
    IN IF f.lo > x THEN RemoveAll(f) ELSE IF x >= f.hi THEN f ELSE go[f.hi]

RemoveFrom(f, x) ==
    LET go[y \in x..f.hi] == IF y = x THEN f
                             ELSE IF y > go[y - 1].hi THEN go[y - 1] ELSE RemoveOne(go[y - 1], y)
    IN IF f.lo > x THEN RemoveAll(f) ELSE IF x >= f.hi THEN f ELSE go[f.hi]

--------------------------------------------------------------------------------
(* SparseSetDomain: nothing after empty() is reached.                         *)
Nothing == told' = {} /\ UNCHANGED <<values, indexes, size, min, max, failed, saved>>

Became(f, events) == /\ SetFields(f)
                     /\ failed' = (f.n = 0)
                     /\ told' = IF f.n = 0 THEN {"empty"} ELSE events
                     /\ UNCHANGED saved

When(cond, n) == IF cond THEN {n} ELSE {}

Assign(w) ==
    LET x == w - Ofs
    IN /\ ~failed
       /\ \/ Holds(Fields, x) /\ size = 1 /\ Nothing
          \/ /\ Holds(Fields, x) /\ size # 1
             /\ Became(RemoveAllBut(Fields, x),
                       {"bind", "change"} \cup When(max # x, "changeMax") \cup When(min # x, "changeMin"))
          \/ ~Holds(Fields, x) /\ Became(RemoveAll(Fields), {})

Remove(w) ==
    LET x == w - Ofs
        f == RemoveOne(Fields, x)
    IN /\ ~failed
       /\ \/ ~Holds(Fields, x) /\ Nothing
          \/ /\ Holds(Fields, x)
             /\ Became(f, {"change"} \cup When(max = x, "changeMax") \cup When(min = x, "changeMin")
                          \cup When(f.n = 1, "bind"))

RemoveBelow(w) ==
    LET x == w - Ofs
        f == RemoveUpTo(Fields, x)
    IN /\ ~failed
       /\ \/ min >= x /\ Nothing
          \/ min < x /\ Became(f, {"changeMin", "change"} \cup When(f.n = 1, "bind"))

RemoveAbove(w) ==
    LET x == w - Ofs
        f == RemoveFrom(Fields, x)
    IN /\ ~failed
       /\ \/ max <= x /\ Nothing
          \/ max > x /\ Became(f, {"changeMax", "change"} \cup When(f.n = 1, "bind"))

Contents == {x + Ofs : x \in {y \in Slots : indexes[y] < size}}

Save == /\ ~failed
        /\ Len(saved) < MaxLevels
        /\ saved' = Append(saved, [n |-> size, lo |-> min, hi |-> max, was |-> Contents])
        /\ told' = {}
        /\ UNCHANGED <<values, indexes, size, min, max, failed>>

(* Mutant: the size is not trailed. *)
Restore_size == /\ saved # <<>>
                /\ LET f == saved[Len(saved)] IN min' = f.lo /\ max' = f.hi
                /\ saved' = SubSeq(saved, 1, Len(saved) - 1)
                /\ failed' = FALSE
                /\ told' = {}
                /\ UNCHANGED <<values, indexes, size>>

Restore == /\ saved # <<>>
           /\ LET f == saved[Len(saved)] IN size' = f.n /\ min' = f.lo /\ max' = f.hi
           /\ saved' = SubSeq(saved, 1, Len(saved) - 1)
           /\ failed' = FALSE
           /\ told' = {}
           /\ UNCHANGED <<values, indexes>>

Next == \/ Save \/ Restore
        \/ \E w \in Arguments : Assign(w) \/ Remove(w) \/ RemoveBelow(w) \/ RemoveAbove(w)

Spec == Init /\ [][Next]_vars
--------------------------------------------------------------------------------
(* The two arrays are inverse permutations, so a value sits in one slot only  *)
(* (exchangePositions, removeAllBut: domain.cpp:251-258, 303-317); bounds of  *)
(* a set that is not empty are members and nothing lies outside               *)
(* (updateMaxValRemoved, updateMinValRemoved: domain.cpp:265-288).            *)
Permutation == \A i \in Slots : indexes[values[i]] = i /\ values[indexes[i]] = i

Bounds == ~failed => {min + Ofs, max + Ofs} \subseteq Contents
                     /\ Contents \subseteq (min + Ofs)..(max + Ofs)

WellFormed == TypeOK /\ Permutation /\ Bounds

(* Whatever was removed since, however the permutation was shuffled, the      *)
(* first n slots still hold the set an open level saw with size n: this is    *)
(* why the permutation needs no trail (domain.hpp:64-66).                     *)
LevelsIntact == \A k \in DOMAIN saved :
                   {values[i] + Ofs : i \in 0..(saved[k].n - 1)} = saved[k].was

Domain == INSTANCE IntDomain WITH
             Initial <- Ofs..(Ofs + N - 1),
             dom <- IF failed THEN {} ELSE Contents,
             saved <- [k \in DOMAIN saved |-> saved[k].was]

(* Each operation narrows the set as its name says and tells the listener     *)
(* neither more nor less than what changed (domain.cpp:337-400).              *)
OperationsExact == [][\A w \in Arguments : /\ Assign(w) => Domain!Assign(w)
                                           /\ Remove(w) => Domain!Remove(w)
                                           /\ RemoveBelow(w) => Domain!RemoveBelow(w)
                                           /\ RemoveAbove(w) => Domain!RemoveAbove(w)]_vars

(* Over any run, failures and backtracks included, it is a set that is        *)
(* narrowed and restored.                                                     *)
IsIntDomain == Domain!Spec
================================================================================
