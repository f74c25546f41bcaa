------------------------------- MODULE Arithmetic -------------------------------
(* The arithmetic constraints of constraint.cpp.  Of a constraint with body b *)
(* and id i, XPost is its post(), XPropagate its propagate() or the closures  *)
(* it leaves with the variables, and XHolds what constraint.hpp says it means *)
(* of an assignment a.                                                        *)
EXTENDS Events

At(a, v) == v[2] * a[v[1]] + v[3]

LOCAL AbsOf(n) == IF n < 0 THEN -n ELSE n

Larger(a, b) == IF a < b THEN b ELSE a
Smaller(a, b) == IF a < b THEN a ELSE b

ArithmeticKinds == {"LessOrEqual", "NEQBinBCLight", "NEQBinBC", "EQBinBC", "EQBinDC",
                    "EQTernBC", "EQTernBCbool", "EQAbsDiffBC", "Sum"}

ArithmeticHolds(a, b) ==
    LET x(n) == At(a, b.x[n])
    IN CASE b.kind = "LessOrEqual" -> x(1) <= x(2)
         [] b.kind \in {"NEQBinBCLight", "NEQBinBC"} -> x(1) # x(2) + b.k
         [] b.kind \in {"EQBinBC", "EQBinDC"} -> x(1) = x(2) + b.k
         [] b.kind \in {"EQTernBC", "EQTernBCbool"} -> x(1) = x(2) + x(3)
         [] b.kind = "EQAbsDiffBC" -> x(1) = AbsOf(x(2) - x(3))
         [] b.kind = "Sum" -> Seqs!FoldLeft(LAMBDA t, v : t + At(a, v), 0, b.x) = 0

--------------------------------------------------------------------------------
(* Mutant: x <= y is taken for settled once the minima are apart. *)
LessOrEqualPropagate_minima(r, i, b) ==
    LET x == b.x[1]  y == b.x[2]
        s == RemoveAbove(r, x, Hi(r, y))
        t == RemoveBelow(s, y, Lo(s, x))
    IN SetActive(t, i, Lo(t, x) >= Lo(t, y))

LessOrEqualPropagate(r, i, b) ==
    LET x == b.x[1]  y == b.x[2]
        s == RemoveAbove(r, x, Hi(r, y))
        t == RemoveBelow(s, y, Lo(s, x))
    IN SetActive(t, i, Hi(t, x) >= Lo(t, y))

ListenBoth(r, b, list, i) == Listen(Listen(r, b.x[1], list, i), b.x[2], list, i)

LessOrEqualPost(r, i, b) == LessOrEqualPropagate(ListenBoth(r, b, "onBounds", i), i, b)

NEQLightPropagate(r, i, b) ==
    LET x == b.x[1]  y == b.x[2]
    IN SetActive(IF Bound(r, y) THEN Remove(r, x, Lo(r, y) + b.k)
                 ELSE Remove(r, y, Lo(r, x) - b.k), i, FALSE)

NEQLightPost(r, i, b) ==
    LET x == b.x[1]  y == b.x[2]
    IN IF Bound(r, y) THEN Remove(r, x, Lo(r, y) + b.k)
       ELSE IF Bound(r, x) THEN Remove(r, y, Lo(r, x) - b.k)
       ELSE ListenBoth(r, b, "onBind", i)

(* The closures of NEQBinBC take themselves off the lists of both variables.  *)
NEQNarrow(r, i, b) ==
    LET x == b.x[1]  y == b.x[2]  c == i[1]
        s == IF i[2] = 1 THEN Remove(r, y, Lo(r, x) - b.k) ELSE Remove(r, x, Lo(r, y) + b.k)
    IN Detach(Detach(s, x, "onBind", <<c, 1>>), y, "onBind", <<c, 2>>)

NEQPost(r, i, b) ==
    LET x == b.x[1]  y == b.x[2]  c == i[1]
    IN IF Bound(r, x) THEN Remove(r, y, Lo(r, x) - b.k)
       ELSE IF Bound(r, y) THEN Remove(r, x, Lo(r, y) + b.k)
       ELSE Listen(Listen(r, x, "onBind", <<c, 1>>), y, "onBind", <<c, 2>>)

--------------------------------------------------------------------------------
(* Mutant: the offset of one direction is swapped. *)
EQNarrow_swapped(r, b, n) ==
    LET x == b.x[1]  y == b.x[2]
    IN IF n = 1 THEN UpdateBounds(r, y, Lo(r, x) + b.k, Hi(r, x) + b.k)
                ELSE UpdateBounds(r, x, Lo(r, y) + b.k, Hi(r, y) + b.k)

(* x = y + k: the closure of x narrows y, the closure of y narrows x.         *)
EQNarrow(r, b, n) ==
    LET x == b.x[1]  y == b.x[2]
    IN IF n = 1 THEN UpdateBounds(r, y, Lo(r, x) - b.k, Hi(r, x) - b.k)
                ELSE UpdateBounds(r, x, Lo(r, y) + b.k, Hi(r, y) + b.k)

EQPost(r, i, b) ==
    LET x == b.x[1]  y == b.x[2]
        s == EQNarrow(EQNarrow(r, b, 2), b, 1)
    IN IF Bound(r, x) THEN Assign(r, y, Lo(r, x) - b.k)
       ELSE IF Bound(r, y) THEN Assign(r, x, Lo(r, y) + b.k)
       ELSE Listen(Listen(s, x, "onBounds", <<i[1], 1>>), y, "onBounds", <<i[1], 2>>)

EQBinDCPost(r, i, b) == ListenBoth(r, b, "onDom", i)

(* Bounds first, then the holes of x in y, then those of y in x.              *)
EQBinDCPropagate(r, i, b) ==
    LET x == b.x[1]  y == b.x[2]
        s == EQNarrow(EQNarrow(r, b, 2), b, 1)
        t == RemoveEach(s, y, {w \in Dom(s, y) : /\ w + b.k \in Lo(s, x)..Hi(s, x)
                                                 /\ w + b.k \notin Dom(s, x)})
    IN IF Bound(r, x) THEN Assign(r, y, Lo(r, x) - b.k)
       ELSE IF Bound(r, y) THEN Assign(r, x, Lo(r, y) + b.k)
       ELSE RemoveEach(t, x, {w \in Dom(t, x) : /\ w - b.k \in Lo(t, y)..Hi(t, y)
                                                /\ w - b.k \notin Dom(t, y)})

(* x = y + z: narrow the n-th variable from the bounds of the other two.      *)
TernNarrow(r, b, n) ==
    LET x == b.x[1]  y == b.x[2]  z == b.x[3]
    IN CASE n = 1 -> UpdateBounds(r, x, Lo(r, y) + Lo(r, z), Hi(r, y) + Hi(r, z))
         [] n = 2 -> UpdateBounds(r, y, Lo(r, x) - Hi(r, z), Hi(r, x) - Lo(r, z))
         [] n = 3 -> UpdateBounds(r, z, Lo(r, x) - Hi(r, y), Hi(r, x) - Lo(r, y))

(* The closure of the n-th variable narrows the two others, in order.         *)
TernWake(r, b, n) ==
    CASE n = 1 -> TernNarrow(TernNarrow(r, b, 2), b, 3)
      [] n = 2 -> TernNarrow(TernNarrow(r, b, 1), b, 3)
      [] n = 3 -> TernNarrow(TernNarrow(r, b, 1), b, 2)

TernListen(r, b, c, n) == Listen(r, b.x[n], "onBounds", <<c, n>>)

(* The general case of EQTernBC::post and EQTernBCbool::post. *)
TernRelate(r, i, b) ==
    LET s == TernNarrow(TernNarrow(TernNarrow(r, b, 1), b, 2), b, 3)
    IN TernListen(TernListen(TernListen(s, b, i[1], 1), b, i[1], 2), b, i[1], 3)

EQTernPost(r, i, b) ==
    LET x == b.x[1]  y == b.x[2]  z == b.x[3]
    IN IF Bound(r, x) /\ Bound(r, y) THEN Assign(r, z, Lo(r, x) - Lo(r, y))
       ELSE IF Bound(r, x) /\ Bound(r, z) THEN Assign(r, y, Lo(r, x) - Lo(r, z))
       ELSE IF Bound(r, y) /\ Bound(r, z) THEN Assign(r, x, Lo(r, y) + Lo(r, z))
       ELSE TernRelate(r, i, b)

EQTernBoolPost(r, i, b) ==
    LET x == b.x[1]  y == b.x[2]  z == b.x[3]
    IN IF Bound(r, x) /\ Bound(r, y)
       THEN IF Lo(r, x) - Lo(r, y) \in {0, 1} THEN Assign(r, z, Lo(r, x) - Lo(r, y)) ELSE Fail(r)
       ELSE IF Bound(r, x) /\ Bound(r, z) THEN Assign(r, y, Lo(r, x) - Lo(r, z))
       ELSE IF Bound(r, y) /\ Bound(r, z) THEN Assign(r, x, Lo(r, y) + Lo(r, z))
       ELSE TernRelate(r, i, b)

--------------------------------------------------------------------------------
(* z = |x - y|: the bounds v1 of x - y and v3 of z, from the bounds of all    *)
(* three; none when an interval is empty.                                     *)
propagateExpression(r, b) ==
    LET z == b.x[1]  x == b.x[2]  y == b.x[3]
        lo == Lo(r, x) - Hi(r, y)
        hi == Hi(r, x) - Lo(r, y)
        far == Larger(AbsOf(lo), AbsOf(hi))
        near == Smaller(AbsOf(lo), AbsOf(hi))
        v3lo == IF lo > 0 \/ hi < 0 THEN Larger(Lo(r, z), near) ELSE Lo(r, z)
        v3hi == Smaller(Hi(r, z), far)
        v1lo == Larger(lo, -v3hi)
        v1hi == Smaller(hi, v3hi)
    IN [v1 |-> <<v1lo, v1hi>>, v3 |-> <<v3lo, v3hi>>,
        sound |-> v1lo <= v1hi /\ v3lo <= v3hi]

AbsDiffZ(r, b, e) == UpdateBounds(r, b.x[1], Larger(Lo(r, b.x[1]), e.v3[1]),
                                             Smaller(Hi(r, b.x[1]), e.v3[2]))
AbsDiffX(r, b, e) ==
    LET x == b.x[2]  y == b.x[3]
    IN UpdateBounds(r, x, Larger(Lo(r, x), Lo(r, y) + e.v1[1]), Smaller(Hi(r, x), Hi(r, y) + e.v1[2]))
AbsDiffY(r, b, e) ==
    LET x == b.x[2]  y == b.x[3]
    IN UpdateBounds(r, y, Larger(Lo(r, y), Lo(r, x) - e.v1[2]), Smaller(Hi(r, y), Hi(r, x) - e.v1[1]))

(* Closures 1 and 2 are those of the bounds of x and y, 3 that of the domain  *)
(* of z, which removes the values without a support, of x and then of y.      *)
AbsDiffWake(r, b, n) ==
    LET z == b.x[1]  x == b.x[2]  y == b.x[3]
        e == propagateExpression(r, b)
        s == RemoveEach(r, x, {v \in Dom(r, x) : \A w \in Dom(r, y) : AbsOf(v - w) \notin Dom(r, z)})
    IN IF n = 3
       THEN RemoveEach(s, y, {w \in Dom(s, y) : \A v \in Dom(s, x) : AbsOf(v - w) \notin Dom(s, z)})
       ELSE IF ~e.sound THEN Fail(r)
       ELSE IF n = 1 THEN AbsDiffY(AbsDiffZ(r, b, e), b, e)
       ELSE AbsDiffX(AbsDiffZ(r, b, e), b, e)

AbsDiffPost(r, i, b) ==
    LET z == b.x[1]  x == b.x[2]  y == b.x[3]
        e == propagateExpression(r, b)
        s == AbsDiffY(AbsDiffX(AbsDiffZ(r, b, e), b, e), b, e)
    IN IF Bound(r, x) /\ Bound(r, y) THEN Assign(r, z, AbsOf(Lo(r, x) - Lo(r, y)))
       ELSE IF ~e.sound THEN Fail(r)
       ELSE Listen(Listen(Listen(s, x, "onBounds", <<i[1], 1>>),
                          y, "onBounds", <<i[1], 2>>), z, "onDom", <<i[1], 3>>)

--------------------------------------------------------------------------------
(* Sum: the variables, the last of which is the opposite of the sum, add up   *)
(* to 0.  mem = <<nUnBounds, sumBounds>> is trailed; aux, the permutation     *)
(* that keeps the unbound ones first, is not.                                 *)
SumMem(b) == <<Len(b.x), 0>>
SumAux(b) == [k \in 1..Len(b.x) |-> k]

Swapped(f, i, j) == [f EXCEPT ![i] = f[j], ![j] = f[i]]

Downfrom(n) == [k \in 1..n |-> n + 1 - k]

(* Mutant: the sum of the bound variables is not kept. *)
SumScan_forget(r, b, un, m) ==
    Seqs!FoldLeft(
        LAMBDA t, i :
            LET v == b.x[t.un[i]]
            IN IF Bound(r, v)
               THEN [t EXCEPT !.lo = @ + Lo(r, v), !.hi = @ + Hi(r, v),
                              !.un = Swapped(@, i, t.n), !.n = @ - 1]
               ELSE [t EXCEPT !.lo = @ + Lo(r, v), !.hi = @ + Hi(r, v)],
        [n |-> m[1], sum |-> m[2], un |-> un, lo |-> m[2], hi |-> m[2]], Downfrom(m[1]))

(* First loop: the bounds of the sum; what is bound leaves the unbound ones.  *)
SumScan(r, b, un, m) ==
    Seqs!FoldLeft(
        LAMBDA t, i :
            LET v == b.x[t.un[i]]
            IN IF Bound(r, v)
               THEN [t EXCEPT !.lo = @ + Lo(r, v), !.hi = @ + Hi(r, v), !.sum = @ + Lo(r, v),
                              !.un = Swapped(@, i, t.n), !.n = @ - 1]
               ELSE [t EXCEPT !.lo = @ + Lo(r, v), !.hi = @ + Hi(r, v)],
        [n |-> m[1], sum |-> m[2], un |-> un, lo |-> m[2], hi |-> m[2]], Downfrom(m[1]))

(* Second loop: each unbound variable within what the others leave it.        *)
SumNarrow(r, b, t) ==
    Seqs!FoldLeft(
        LAMBDA s, i :
            LET v == b.x[s.un[i]]
                xU == -(t.lo - Lo(s.r, v))
                xL == -(t.hi - Hi(s.r, v))
                q == RemoveBelow(RemoveAbove(s.r, v, xU), v, xL)
            IN IF s.r.failed THEN s
               ELSE IF ~q.failed /\ xL = xU
               THEN [r |-> q, n |-> s.n - 1, sum |-> s.sum + xL, un |-> Swapped(s.un, i, s.n)]
               ELSE [s EXCEPT !.r = q],
        [r |-> r, n |-> t.n, sum |-> t.sum, un |-> t.un], Downfrom(t.n))

SumPropagate(r, i, b) ==
    LET c == i[1]
        t == SumScan(r, b, r.aux[c], r.mem[c])
        s == SumNarrow(r, b, t)
        kept == Note(Remember(s.r, c, <<s.n, s.sum>>), c, s.un)
    IN IF t.lo > 0 \/ t.hi < 0 THEN Fail(Note(r, c, t.un))
       ELSE IF s.r.failed THEN [s.r EXCEPT !.aux[c] = s.un]
       ELSE IF s.n = 0 THEN SetActive(kept, i, FALSE) ELSE kept

SumPost(r, i, b) == SumPropagate(ListenAll(r, b.x, "onBounds", i), i, b)

--------------------------------------------------------------------------------
ArithmeticPost(r, i, b) ==
    CASE b.kind = "LessOrEqual" -> LessOrEqualPost(r, i, b)
      [] b.kind = "NEQBinBCLight" -> NEQLightPost(r, i, b)
      [] b.kind = "NEQBinBC" -> NEQPost(r, i, b)
      [] b.kind = "EQBinBC" -> EQPost(r, i, b)
      [] b.kind = "EQBinDC" -> EQBinDCPost(r, i, b)
      [] b.kind = "EQTernBC" -> EQTernPost(r, i, b)
      [] b.kind = "EQTernBCbool" -> EQTernBoolPost(r, i, b)
      [] b.kind = "EQAbsDiffBC" -> AbsDiffPost(r, i, b)
      [] b.kind = "Sum" -> SumPost(r, i, b)

ArithmeticPropagate(r, i, b) ==
    CASE b.kind = "LessOrEqual" -> LessOrEqualPropagate(r, i, b)
      [] b.kind = "NEQBinBCLight" -> NEQLightPropagate(r, i, b)
      [] b.kind = "NEQBinBC" -> NEQNarrow(r, i, b)
      [] b.kind = "EQBinBC" -> EQNarrow(r, b, i[2])
      [] b.kind = "EQBinDC" -> EQBinDCPropagate(r, i, b)
      [] b.kind \in {"EQTernBC", "EQTernBCbool"} -> TernWake(r, b, i[2])
      [] b.kind = "EQAbsDiffBC" -> AbsDiffWake(r, b, i[2])
      [] b.kind = "Sum" -> SumPropagate(r, i, b)
================================================================================
