-------------------------------- MODULE Logical --------------------------------
(* The Boolean and the reified constraints of constraint.cpp, laid out as in  *)
(* Arithmetic.tla.                                                            *)
EXTENDS Arithmetic

LogicalKinds == {"Conjunction", "XOR", "IsEqual", "IsMember", "IsLessOrEqual",
                 "Clause", "IsClause", "SumBool"}

IsTrue(r, v) == Lo(r, v) = 1
IsFalse(r, v) == Hi(r, v) = 0

Ones(a, views) == Cardinality({n \in DOMAIN views : At(a, views[n]) = 1})

LogicalHolds(a, b) ==
    LET x(n) == At(a, b.x[n])
    IN CASE b.kind = "Conjunction" -> (x(1) = 1) <=> (x(2) = 1 /\ x(3) = 1)
         [] b.kind = "XOR" -> (x(1) = 1) <=> (x(2) # x(3))
         [] b.kind = "IsEqual" -> (x(1) = 1) <=> (x(2) = b.k)
         [] b.kind = "IsMember" -> (x(1) = 1) <=> (x(2) \in b.k)
         [] b.kind = "IsLessOrEqual" -> (x(1) = 1) <=> (x(2) <= b.k)
         [] b.kind = "Clause" -> Ones(a, b.x) > 0
         [] b.kind = "IsClause" -> (x(1) = 1) <=> (Ones(a, Tail(b.x)) > 0)
         [] b.kind = "SumBool" -> Ones(a, b.x) = b.k

--------------------------------------------------------------------------------
(* b <=> x = k *)
IsEqualPropagate(r, i, b) ==
    LET z == b.x[1]  x == b.x[2]
    IN IF Is(r, z, 1) THEN SetActive(Assign(r, x, b.k), i, FALSE)
       ELSE IF Is(r, z, 0) THEN SetActive(Remove(r, x, b.k), i, FALSE)
       ELSE IF b.k \notin Dom(r, x) THEN SetActive(Assign(r, z, 0), i, FALSE)
       ELSE IF Bound(r, x) THEN SetActive(Assign(r, z, 1), i, FALSE)
       ELSE r

(* IsEqual::post and IsMember::post *)
ReifiedPost(s, i, b) ==
    IF s.active[i] THEN Listen(Listen(s, b.x[2], "onDom", i), b.x[1], "onBind", i) ELSE s

(* b <=> x \in k *)
IsMemberPropagate(r, i, b) ==
    LET z == b.x[1]  x == b.x[2]
        D == Dom(r, x)
    IN IF Is(r, z, 1) THEN SetActive(RemoveEach(r, x, D \ b.k), i, FALSE)
       ELSE IF Is(r, z, 0) THEN SetActive(RemoveEach(r, x, b.k), i, FALSE)
       ELSE IF D \cap b.k = {} THEN SetActive(Assign(r, z, 0), i, FALSE)
       ELSE IF D \subseteq b.k THEN SetActive(Assign(r, z, 1), i, FALSE)
       ELSE r

(* b <=> x <= k; closure 1 is woken by b, closure 2 by the bounds of x.       *)
IsLessOrEqualWake(r, b, n) ==
    LET z == b.x[1]  x == b.x[2]
    IN IF n = 1 THEN IF IsTrue(r, z) THEN RemoveAbove(r, x, b.k) ELSE RemoveBelow(r, x, b.k + 1)
       ELSE IF Hi(r, x) <= b.k THEN Assign(r, z, 1)
       ELSE IF Lo(r, x) > b.k THEN Assign(r, z, 0) ELSE r

IsLessOrEqualPost(r, i, b) ==
    LET z == b.x[1]  x == b.x[2]
    IN IF Bound(r, z) THEN IsLessOrEqualWake(r, b, 1)
       ELSE IF Hi(r, x) <= b.k \/ Lo(r, x) > b.k THEN IsLessOrEqualWake(r, b, 2)
       ELSE Listen(Listen(r, z, "onBind", <<i[1], 1>>), x, "onBounds", <<i[1], 2>>)

--------------------------------------------------------------------------------
(* Mutant: switched off as soon as z is false. *)
ConjunctionPropagate_early(r, i, b) ==
    LET z == b.x[1]  x == b.x[2]  y == b.x[3]
        off == SetActive(r, i, FALSE)
    IN IF Is(r, z, 1) THEN Assign(Assign(off, x, 1), y, 1)
       ELSE IF Is(r, z, 0)
       THEN IF Is(r, x, 1) THEN Assign(off, y, 0)
            ELSE IF Is(r, y, 1) THEN Assign(off, x, 0) ELSE off
       ELSE IF Bound(r, x) /\ Bound(r, y) THEN Assign(off, z, Smaller(Lo(r, x), Lo(r, y)))
       ELSE IF Is(r, x, 0) \/ Is(r, y, 0) THEN Assign(off, z, 0) ELSE r

(* z <=> x /\ y: the flag goes down before the assignments. *)
ConjunctionPropagate(r, i, b) ==
    LET z == b.x[1]  x == b.x[2]  y == b.x[3]
        off == SetActive(r, i, FALSE)
    IN IF Is(r, z, 1) THEN Assign(Assign(off, x, 1), y, 1)
       ELSE IF Is(r, z, 0)
       THEN IF Is(r, x, 1) THEN Assign(off, y, 0)
            ELSE IF Is(r, y, 1) THEN Assign(off, x, 0) ELSE r
       ELSE IF Bound(r, x) /\ Bound(r, y) THEN Assign(off, z, Smaller(Lo(r, x), Lo(r, y)))
       ELSE IF Is(r, x, 0) \/ Is(r, y, 0) THEN Assign(off, z, 0) ELSE r

(* Mutant: the second conjunct is not listened to. *)
ConjunctionPost_deaf(r, i, b) ==
    Seqs!FoldLeft(LAMBDA s, v : IF Bound(s, v) THEN s ELSE Listen(s, v, "onBind", i),
                  ConjunctionPropagate(r, i, b), <<b.x[2], b.x[1]>>)

ConjunctionPost(r, i, b) ==
    Seqs!FoldLeft(LAMBDA s, v : IF Bound(s, v) THEN s ELSE Listen(s, v, "onBind", i),
                  ConjunctionPropagate(r, i, b), <<b.x[2], b.x[3], b.x[1]>>)

(* z <=> x xor y: whichever of the three comes second decides the last.       *)
XORPropagate(r, i, b) ==
    LET z == b.x[1]  x == b.x[2]  y == b.x[3]
        last == IF ~Bound(r, z) THEN z ELSE IF Bound(r, x) THEN y ELSE x
        known == {x, y, z} \ {last}
    IN IF \A v \in known : Bound(r, v)
       THEN SetActive(Assign(r, last, MapThenSumSet(LAMBDA v : Lo(r, v), known) % 2), i, FALSE)
       ELSE r

(* Mutant: only the result is listened to. *)
XORPost_result(r, i, b) ==
    LET s == XORPropagate(r, i, b)
    IN IF s.active[i] THEN Listen(s, b.x[1], "onBind", i) ELSE s

XORPost(r, i, b) ==
    LET s == XORPropagate(r, i, b)
    IN IF s.active[i] THEN ListenAll(s, b.x, "onBind", i) ELSE s

--------------------------------------------------------------------------------
(* SumBool: exactly k of the variables are true; the n-th closure runs once   *)
(* the n-th variable is bound.  mem = <<nbOne, nbZero>>.                      *)
SumBoolFill(r, b, value) ==
    LET s == AssignOpen(r, b.x, value)
        ones == Cardinality({n \in DOMAIN b.x : Is(s, b.x[n], 1)})
    IN IF ones # b.k /\ ~s.failed THEN Fail(s) ELSE s

SumBoolWake(r, i, b) ==
    LET c == i[1]
        one == r.mem[c][1]
        zero == r.mem[c][2]
    IN IF IsTrue(r, b.x[i[2]])
       THEN IF one + 1 = b.k THEN SumBoolFill(r, b, 0) ELSE Remember(r, c, <<one + 1, zero>>)
       ELSE IF Len(b.x) - zero - 1 = b.k THEN SumBoolFill(r, b, 1)
       ELSE Remember(r, c, <<one, zero + 1>>)

SumBoolPost(r, i, b) ==
    LET n == Len(b.x)
        one == Cardinality({m \in 1..n : Is(r, b.x[m], 1)})
        open == Cardinality({m \in 1..n : ~Bound(r, b.x[m])})
        counted == Remember(r, i[1], <<one, n - one - open>>)
    IN IF one > b.k THEN Fail(r)
       ELSE IF one = b.k THEN AssignOpen(r, b.x, 0)
       ELSE IF one + open < b.k THEN Fail(r)
       ELSE IF one + open = b.k THEN AssignOpen(r, b.x, 1)
       ELSE Seqs!FoldLeft(LAMBDA s, m : IF Bound(s, b.x[m]) THEN s
                                        ELSE Listen(s, b.x[m], "onBind", <<i[1], m>>),
                          counted, Upto(1, n))

--------------------------------------------------------------------------------
(* Clause: two watched literals.  mem[c] = <<wL, wR>>, counted from 1; both   *)
(* watches are listened to again at every call.                               *)
ClauseMem(n) == <<1, n>>

ClausePropagate(r, i, xs) ==
    LET n == Len(xs)
        c == i[1]
        m == r.mem[c]
        stopsL == {k \in m[1]..n : ~Is(r, xs[k], 0)} \cup {n + 1}
        stopsR == {k \in 1..m[2] : ~Is(r, xs[k], 0)} \cup {0}
        wL == Min(stopsL)
        wR == Max(stopsR)
        moved == Remember(r, c, [m EXCEPT ![1] = wL, ![2] = wR])
        wake(k) == IF k \in 1..n THEN IsTrue(r, xs[k]) ELSE FALSE
    IN IF wake(wL) THEN SetActive(r, i, FALSE)
       ELSE IF wake(wR) THEN SetActive(Remember(r, c, [m EXCEPT ![1] = wL]), i, FALSE)
       ELSE IF wL > wR THEN Fail(moved)
       ELSE IF wL = wR THEN SetActive(Assign(moved, xs[wL], 1), i, FALSE)
       ELSE Listen(Listen(moved, xs[wL], "onBind", i), xs[wR], "onBind", i)

(* IsClause: b <=> a clause.  Its Clause, part 1, was allocated with it; mem  *)
(* = <<wL, wR, nUnBounds>>, aux the permutation of the literals.              *)
IsClauseMem(b) == <<1, Len(b.x) - 1, Len(b.x) - 1>>
IsClauseAux(b) == [k \in 1..(Len(b.x) - 1) |-> k]

IsClausePost(r, i, b) == ListenAll(r, b.x, "onBind", i)

(* The scan stops at the first literal that is true.                          *)
IsClauseScan(r, xs, un, n) ==
    Seqs!FoldLeft(
        LAMBDA t, k :
            LET v == xs[t.un[k]]
            IN IF t.hit \/ ~Bound(r, v) THEN t
               ELSE IF IsTrue(r, v) THEN [t EXCEPT !.hit = TRUE]
               ELSE [t EXCEPT !.un = Swapped(@, k, t.n), !.n = @ - 1],
        [hit |-> FALSE, n |-> n, un |-> un], Downfrom(n))

IsClausePropagate(r, i, b) ==
    LET c == i[1]
        z == b.x[1]
        xs == Tail(b.x)
        m == r.mem[c]
        t == IsClauseScan(r, xs, r.aux[c], m[3])
        seen == Note(r, c, t.un)
        kept == Remember(seen, c, <<m[1], m[2], t.n>>)
    IN IF IsTrue(r, z) THEN ClausePropagate(SetActive(r, i, FALSE), <<c, 1>>, xs)
       ELSE IF IsFalse(r, z) THEN SetActive(AssignAll(r, xs, 0), i, FALSE)
       ELSE IF t.hit THEN SetActive(Assign(seen, z, 1), i, FALSE)
       ELSE IF t.n = 0 THEN SetActive(Assign(kept, z, 0), i, FALSE)
       ELSE kept

--------------------------------------------------------------------------------
LogicalPost(r, i, b) ==
    CASE b.kind = "Conjunction" -> ConjunctionPost(r, i, b)
      [] b.kind = "XOR" -> XORPost(r, i, b)
      [] b.kind = "IsEqual" -> ReifiedPost(IsEqualPropagate(r, i, b), i, b)
      [] b.kind = "IsMember" -> ReifiedPost(IsMemberPropagate(r, i, b), i, b)
      [] b.kind = "IsLessOrEqual" -> IsLessOrEqualPost(r, i, b)
      [] b.kind = "Clause" -> ClausePropagate(r, i, b.x)
      [] b.kind = "IsClause" -> IsClausePost(r, i, b)
      [] b.kind = "SumBool" -> SumBoolPost(r, i, b)

LogicalPropagate(r, i, b) ==
    CASE b.kind = "Conjunction" -> ConjunctionPropagate(r, i, b)
      [] b.kind = "XOR" -> XORPropagate(r, i, b)
      [] b.kind = "IsEqual" -> IsEqualPropagate(r, i, b)
      [] b.kind = "IsMember" -> IsMemberPropagate(r, i, b)
      [] b.kind = "IsLessOrEqual" -> IsLessOrEqualWake(r, b, i[2])
      [] b.kind = "Clause" -> ClausePropagate(r, i, b.x)
      [] b.kind = "IsClause" -> IF i[2] = 0 THEN IsClausePropagate(r, i, b)
                                ELSE ClausePropagate(r, i, Tail(b.x))
      [] b.kind = "SumBool" -> SumBoolWake(r, i, b)
================================================================================
