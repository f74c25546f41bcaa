-------------------------------- MODULE FzLinear --------------------------------
(* The linear FlatZinc constraints (fz_constraints/int_lin, bool_lin), laid   *)
(* out as in Arithmetic.tla.  The terms a * x are views, those with a         *)
(* positive coefficient first; b.k is <<relation, c>>; the Boolean of the imp *)
(* and reif forms comes last in b.x.                                          *)
EXTENDS FzBasics

FzLinearKinds == {"int_lin", "int_lin_imp", "int_lin_reif", "bool_lin"}

Terms(b) == IF b.kind \in {"int_lin", "bool_lin"} THEN b.x ELSE SubSeq(b.x, 1, Len(b.x) - 1)
LOCAL Last(b) == b.x[Len(b.x)]

FzLinearHolds(a, b) ==
    LET sum == Seqs!FoldLeft(LAMBDA t, v : t + At(a, v), 0, Terms(b))
        c == b.k[2]
        related == CASE b.k[1] = "eq" -> sum = c [] b.k[1] = "ne" -> sum # c [] b.k[1] = "le" -> sum <= c
    IN CASE b.kind \in {"int_lin", "bool_lin"} -> related
         [] b.kind = "int_lin_imp" -> At(a, Last(b)) = 1 => related
         [] b.kind = "int_lin_reif" -> At(a, Last(b)) = 1 <=> related

--------------------------------------------------------------------------------
(* The bounds of the sum, _sumMin and _sumMax, which go with the solver state *)
(* through one propagation: t = [r, lo, hi].                                  *)
calSumMinMax(r, xs) ==
    [r |-> r, lo |-> Seqs!FoldLeft(LAMBDA n, v : n + Lo(r, v), 0, xs),
              hi |-> Seqs!FoldLeft(LAMBDA n, v : n + Hi(r, v), 0, xs)]

LOCAL Size(v) == IF Opposite(v) THEN -v[2] ELSE v[2]

(* A term that reaches more than the slack below its maximum is cut.  The new *)
(* lower bound of the sum is computed, not read: it may fall in a hole.       *)
linGe(t, xs, c) ==
    Seqs!FoldLeft(
        LAMBDA q, v :
            LET w == c - q.hi + Hi(q.r, v)
            IN IF q.r.failed \/ Hi(q.r, v) - Lo(q.r, v) <= q.hi - c THEN q
               ELSE [q EXCEPT !.r = RemoveBelow(@, v, w),
                              !.lo = @ - Lo(q.r, v) + Size(v) * ceilDiv(w, Size(v))],
        t, xs)

linLe(t, xs, c) ==
    Seqs!FoldLeft(
        LAMBDA q, v :
            LET w == c - q.lo + Lo(q.r, v)
            IN IF q.r.failed \/ Hi(q.r, v) - Lo(q.r, v) <= c - q.lo THEN q
               ELSE [q EXCEPT !.r = RemoveAbove(@, v, w),
                              !.hi = @ - Hi(q.r, v) + Size(v) * floorDiv(w, Size(v))],
        t, xs)

linEq(t, xs, c) == linLe(linGe(t, xs, c), xs, c)

(* One unbound term is left: the value that makes the sum c goes.  When that  *)
(* term is a negative one, the code takes the first negative one for it       *)
(* (_negNotBoundIdx is initialised from _posNotBoundIdx, which is 0).         *)
linNe(t, xs, c) ==
    LET open == {n \in DOMAIN xs : ~Bound(t.r, xs[n])}
        last == xs[Max(open)]
        v == IF Opposite(last) THEN xs[Min({n \in DOMAIN xs : Opposite(xs[n])})] ELSE last
    IN IF Cardinality(open) # 1 THEN t
       ELSE [t EXCEPT !.r = Remove(@, v, c - (t.lo - Lo(t.r, v)))]

--------------------------------------------------------------------------------
(* The three relations, of sums that were computed once, in t.                *)
LOCAL Outside(t, c) == c < t.lo \/ t.hi < c
LOCAL Fixed(t, c) == t.lo = t.hi /\ t.lo = c

linEqRel(t, xs, c) == Rel(Fixed(t, c), Outside(t, c), linEq(t, xs, c), linNe(t, xs, c))
linNeRel(t, xs, c) == Rel(Outside(t, c), Fixed(t, c), linNe(t, xs, c), linEq(t, xs, c))
linLeRel(t, xs, c) == Rel(t.hi <= c, c < t.lo, linLe(t, xs, c), linGe(t, xs, c + 1))

LinRelation(t, xs, k) == CASE k[1] = "eq" -> linEqRel(t, xs, k[2])
                           [] k[1] = "ne" -> linNeRel(t, xs, k[2])
                           [] k[1] = "le" -> linLeRel(t, xs, k[2])

(* What the plain forms conclude from the sums they are left with.            *)
LinConclude(t, i, xs, k) ==
    LET e == LinRelation(t, xs, k)
        settled == IF k[1] = "eq" THEN t.lo = t.hi ELSE e.proved
    IN IF t.r.failed THEN t.r
       ELSE IF settled THEN SetActive(t.r, i, FALSE)
       ELSE IF e.refuted THEN Fail(t.r) ELSE t.r

FzLinearPropagate(r, i, b) ==
    LET xs == Terms(b)
        k == b.k
        t == calSumMinMax(r, xs)
        Here(s) == LET e == LinRelation([t EXCEPT !.r = s], xs, k)
                   IN Rel(e.proved, e.refuted, e.then.r, e.else.r)
    IN CASE b.kind = "int_lin" \/ (b.kind = "bool_lin" /\ k[1] = "le") ->
               LinConclude(LinRelation(t, xs, k).then, i, xs, k)
         [] b.kind = "bool_lin" /\ k[1] = "eq" -> linGe(t, xs, k[2]).r
         [] b.kind = "int_lin_imp" -> Implied(r, i, Last(b), Here)
         [] b.kind = "int_lin_reif" -> Reified(r, i, Last(b), TRUE, Here)

FzLinearPost(r, i, b) ==
    LET list == IF b.kind = "bool_lin" \/ (b.kind = "int_lin" /\ b.k[1] = "ne")
                THEN "onBind" ELSE "onBounds"
        s == ListenAll(r, Terms(b), list, i)
        t == IF b.kind \in {"int_lin_imp", "int_lin_reif"} THEN Listen(s, Last(b), "onBind", i) ELSE s
    IN FzLinearPropagate(t, i, b)
================================================================================
