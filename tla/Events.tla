--------------------------------- MODULE Events ---------------------------------
(* What a narrowing operation does to the solver: the domain it leaves, the   *)
(* notifications it sends and the constraints these schedule (intvar.cpp,     *)
(* domain.cpp, solver.hpp).  Everything is a function from a solver state r   *)
(* to the next one; once r.failed is set (failNow jumped out) the rest of a   *)
(* body is not reached.                                                       *)
(*                                                                            *)
(* r = [dom, listen, queue, scheduled, active, mem, aux, failed, asked]; dom, *)
(* listen, active and mem (the trail<int> members of a constraint) are        *)
(* trailed, aux (its ordinary members) is not; asked: the last thing done was *)
(* to post a constraint of its own, with the fixpoint that follows a post.    *)
EXTENDS Integers, Sequences, FiniteSets, FiniteSetsExt

Seqs == INSTANCE SequencesExt

CONSTANT Body           \* the constraints that can be allocated: a function to
                        \* [kind, x, k, prio, parts, inner], see MkBody

(* x: the variables, as views; k: the constants; parts: how many closures or  *)
(* constraints of its own it runs; inner: what its post() posts with a        *)
(* fixpoint of its own.                                                       *)
MkBody(kind, x, k, parts) ==
    [kind |-> kind, x |-> x, k |-> k, prio |-> 1, parts |-> parts, inner |-> <<>>]

Lists == {"onBind", "onBounds", "onDom"}
CLOW == 0
CHIGH == 1

ASSUME BodyAssumption == \A c \in DOMAIN Body :
                            /\ Body[c].prio \in {CLOW, CHIGH} /\ Body[c].parts \in Nat
                            /\ Body[c].inner \in Seq(DOMAIN Body)
                            /\ Body[c].kind = "IsClause" => 1 \in DOMAIN Body[c].x /\ Body[c].parts > 0

(* <<c, 0>> is the constraint, <<c, n>> its n-th closure or part.             *)
Parts(c) == {<<c, n>> : n \in 0..Body[c].parts}

Priority(i) == IF i[2] = 0 THEN Body[i[1]].prio ELSE CHIGH

Schedule(r, i) ==
    IF r.active[i] /\ ~r.scheduled[i]
    THEN [r EXCEPT !.scheduled[i] = TRUE, !.queue[Priority(i)] = Append(@, i)]
    ELSE r

(* Mutant: a maximum that moves wakes up the wrong list. *)
List_max(n) == CASE n = "bind" -> "onBind" [] n \in {"change", "changeMax"} -> "onDom"
                 [] OTHER -> "onBounds"

(* DomainListener: every notification schedules one of the variable's lists.  *)
List(n) == CASE n = "bind" -> "onBind" [] n = "change" -> "onDom" [] OTHER -> "onBounds"

Wake(r, x, n) == Seqs!FoldLeft(Schedule, r, r.listen[x][List(n)])

Tell(r, x, notices) == Seqs!FoldLeft(LAMBDA s, n : Wake(s, x, n), r, notices)

Fail(r) == [r EXCEPT !.failed = TRUE]

Narrow(r, x, D, notices) == [Tell(r, x, notices) EXCEPT !.dom[x] = D]

When(cond, n) == IF cond THEN <<n>> ELSE <<>>

Singleton(D) == Cardinality(D) = 1

--------------------------------------------------------------------------------
(* Mutant: assigning does not look whether the value is there. *)
DomAssign_anyway(r, x, v) ==
    LET D == r.dom[x]
    IN IF r.failed \/ D = {v} THEN r
       ELSE Narrow(r, x, {v}, <<"bind", "change">> \o When(Min(D) # v, "changeMin")
                                                   \o When(Max(D) # v, "changeMax"))

(* The four operations on a variable, in the order BitDomain notifies;        *)
(* removing the value of a bound variable tells changeMin before it fails.    *)
DomAssign(r, x, v) ==
    LET D == r.dom[x]
    IN IF r.failed \/ D = {v} THEN r
       ELSE IF v \notin D THEN Fail(r)
       ELSE Narrow(r, x, {v}, <<"bind", "change">> \o When(Min(D) # v, "changeMin")
                                                   \o When(Max(D) # v, "changeMax"))

DomRemove(r, x, v) ==
    LET D == r.dom[x]
    IN IF r.failed \/ v \notin D THEN r
       ELSE IF D = {v} THEN Fail(Tell(r, x, <<"changeMin">>))
       ELSE Narrow(r, x, D \ {v}, (IF v = Min(D) THEN <<"changeMin">>
                                   ELSE When(v = Max(D), "changeMax"))
                                  \o When(Singleton(D \ {v}), "bind") \o <<"change">>)

(* Mutant: no early return, the listeners are told of what did not change. *)
DomRemoveBelow_noisy(r, x, v) ==
    LET D == r.dom[x]
        E == {w \in D : w >= v}
    IN IF r.failed THEN r
       ELSE IF E = {} THEN Fail(r)
       ELSE Narrow(r, x, E, <<"changeMin", "change">> \o When(Singleton(E), "bind"))

DomRemoveBelow(r, x, v) ==
    LET D == r.dom[x]
        E == {w \in D : w >= v}
    IN IF r.failed \/ v <= Min(D) THEN r
       ELSE IF E = {} THEN Fail(r)
       ELSE Narrow(r, x, E, <<"changeMin", "change">> \o When(Singleton(E), "bind"))

DomRemoveAbove(r, x, v) ==
    LET D == r.dom[x]
        E == {w \in D : w <= v}
    IN IF r.failed \/ v >= Max(D) THEN r
       ELSE IF E = {} THEN Fail(r)
       ELSE Narrow(r, x, E, <<"changeMax", "change">> \o When(Singleton(E), "bind"))

--------------------------------------------------------------------------------
(* A variable as a constraint holds it: the view <<x, a, o>> of a * x + o,    *)
(* made of the opposite, multiplied (a > 0) and translated views of the       *)
(* library, one seen through another.                                         *)
floorDiv(a, b) == a \div b
ceilDiv(a, b) == -((-a) \div b)

Opposite(v) == v[2] < 0

Dom(r, v) == IF v[2] = 1 /\ v[3] = 0 THEN r.dom[v[1]]
             ELSE {v[2] * w + v[3] : w \in r.dom[v[1]]}
Lo(r, v) == Min(Dom(r, v))
Hi(r, v) == Max(Dom(r, v))
Bound(r, v) == Singleton(r.dom[v[1]])
Is(r, v, w) == Dom(r, v) = {w}

(* The value of the variable at which the view is w, if there is one.         *)
Hits(v, w) == (w - v[3]) % (IF Opposite(v) THEN -v[2] ELSE v[2]) = 0
Source(v, w) == IF Opposite(v) THEN (v[3] - w) \div (-v[2]) ELSE (w - v[3]) \div v[2]

Assign(r, v, w) == IF Hits(v, w) THEN DomAssign(r, v[1], Source(v, w))
                   ELSE IF r.failed THEN r ELSE Fail(r)

Remove(r, v, w) == IF Hits(v, w) THEN DomRemove(r, v[1], Source(v, w)) ELSE r

RemoveBelow(r, v, w) ==
    IF Opposite(v) THEN DomRemoveAbove(r, v[1], floorDiv(v[3] - w, -v[2]))
    ELSE DomRemoveBelow(r, v[1], ceilDiv(w - v[3], v[2]))

RemoveAbove(r, v, w) ==
    IF Opposite(v) THEN DomRemoveBelow(r, v[1], ceilDiv(v[3] - w, -v[2]))
    ELSE DomRemoveAbove(r, v[1], floorDiv(w - v[3], v[2]))

UpdateBounds(r, v, lo, hi) ==
    IF Opposite(v) THEN RemoveBelow(RemoveAbove(r, v, hi), v, lo)
    ELSE RemoveAbove(RemoveBelow(r, v, lo), v, hi)

Upto(lo, hi) == [k \in 1..(hi - lo + 1) |-> lo + k - 1]

Ascending(S) == IF S = {} THEN <<>> ELSE SelectSeq(Upto(Min(S), Max(S)), LAMBDA w : w \in S)

(* A loop over the values between the bounds, smallest first, that removes    *)
(* those of S.                                                                *)
RemoveEach(r, v, S) ==
    Seqs!FoldLeft(LAMBDA s, w : IF w \in S THEN Remove(s, v, w) ELSE s,
                  r, Upto(Lo(r, v), Hi(r, v)))

--------------------------------------------------------------------------------
SetActive(r, i, on) == IF r.failed THEN r ELSE [r EXCEPT !.active[i] = on]

(* trailList::emplace_back puts the newcomer at the head.                     *)
Listen(r, v, list, i) == IF r.failed THEN r ELSE [r EXCEPT !.listen[v[1]][list] = <<i>> \o @]

ListenAll(r, views, list, i) ==
    Seqs!FoldLeft(LAMBDA s, v : Listen(s, v, list, i), r, views)

(* revNode::detach, of nodes that are in the list at most once.               *)
Without(q, i) == LET at == {k \in DOMAIN q : q[k] = i}
                 IN IF at = {} THEN q ELSE Seqs!RemoveAt(q, Min(at))

Detach(r, v, list, i) ==
    IF r.failed THEN r ELSE [r EXCEPT !.listen[v[1]][list] = Without(@, i)]

Remember(r, c, m) == IF r.failed THEN r ELSE [r EXCEPT !.mem[c] = m]
Note(r, c, m) == IF r.failed THEN r ELSE [r EXCEPT !.aux[c] = m]

AssignAll(r, views, w) == Seqs!FoldLeft(LAMBDA s, v : Assign(s, v, w), r, views)

(* The unbound ones only. *)
AssignOpen(r, views, w) ==
    Seqs!FoldLeft(LAMBDA s, v : IF Bound(s, v) THEN s ELSE Assign(s, v, w), r, views)
================================================================================
