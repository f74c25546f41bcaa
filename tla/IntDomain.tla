------------------------------- MODULE IntDomain -------------------------------
(* What the domain of an integer variable promises: it is a finite set that   *)
(* four operations narrow, that tells its listener exactly what changed, that *)
(* fails when it would become empty, and that backtracking widens again.      *)
(* BitDomain.tla and SparseSet.tla implement it.                              *)
EXTENDS Integers, Sequences, FiniteSets, FiniteSetsExt

CONSTANT Initial        \* the values the domain is created with

VARIABLES
    dom,                \* the values left; {} once failed
    failed,             \* empty() was called: only backtracking can follow
    told,               \* what the last operation told the listener
    saved               \* domains remembered by the open levels

vars == <<dom, failed, told, saved>>

Init == /\ dom = Initial
        /\ failed = FALSE
        /\ told = {}
        /\ saved = <<>>

(* What a listener has to hear when the domain goes from D to E.              *)
Events(D, E) == {e \in {"change", "bind", "changeMin", "changeMax"} :
                    CASE e = "change"    -> D # E
                      [] e = "bind"      -> D # E /\ Cardinality(E) = 1
                      [] e = "changeMin" -> Min(D) # Min(E)
                      [] e = "changeMax" -> Max(D) # Max(E)}

(* Keep only the values of S. *)
Narrow(S) == /\ ~failed
             /\ dom' = dom \cap S
             /\ failed' = (dom \cap S = {})
             /\ ~failed' => told' = Events(dom, dom')
             /\ UNCHANGED saved

Assign(v) == Narrow({v})
Remove(v) == Narrow(dom \ {v})
RemoveBelow(v) == Narrow({w \in dom : w >= v})
RemoveAbove(v) == Narrow({w \in dom : w <= v})

Save == /\ ~failed
        /\ saved' = Append(saved, dom)
        /\ UNCHANGED <<dom, failed>>

Restore == /\ saved # <<>>
           /\ dom' = saved[Len(saved)]
           /\ saved' = SubSeq(saved, 1, Len(saved) - 1)
           /\ failed' = FALSE

Next == Save \/ Restore \/ \E S \in SUBSET dom : Narrow(S)

Spec == Init /\ [][Next]_vars
================================================================================
