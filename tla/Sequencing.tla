------------------------------- MODULE Sequencing -------------------------------
(* The lexicographic order of two arrays (lex.cpp) and the time-table form of *)
(* the cumulative constraint (ttable.cpp, profile.cpp), laid out as in        *)
(* Arithmetic.tla.  Positions count from 0 as in the code.                    *)
EXTENDS Arithmetic

SequencingKinds == {"LexLeq", "CumulativeTT"}

LOCAL Size(b) == Len(b.x) \div 2
LOCAL X(b, k) == b.x[k + 1]
LOCAL Y(b, k) == b.x[Size(b) + k + 1]

LOCAL Running(a, b, t) == {n \in DOMAIN b.x : At(a, b.x[n]) <= t /\ t < At(a, b.x[n]) + b.k.dur[n]}

LOCAL Demand(b, tasks) == MapThenSumSet(LAMBDA n : b.k.req[n], tasks)

SequencingHolds(a, b) ==
    LET x(k) == At(a, X(b, k))  y(k) == At(a, Y(b, k))
    IN CASE b.kind = "LexLeq" -> \A k \in 0..(Size(b) - 1) :
                (\A j \in 0..(k - 1) : x(j) = y(j)) => x(k) <= y(k)
         [] b.kind = "CumulativeTT" -> \A n \in DOMAIN b.x :
                LET t == At(a, b.x[n]) IN Running(a, b, t) # {} => Demand(b, Running(a, b, t)) <= b.k.cap

--------------------------------------------------------------------------------
(* LexLeq.  mem = [q, r, s, u]: q is the first position not yet equal, r the  *)
(* first one after it that is undecided, s the end of the run after r that    *)
(* state u, 3 or 4, looks at.                                                 *)
LexMem == [q |-> 0, r |-> 0, s |-> 0, u |-> 0]

(* LEX_XEQ_GEQY, LEX_XEQ_LEQY, LEX_XLY, LEX_XEQY, LEX_XGY, LEX_XLEQY, LEX_XGEQY *)
LOCAL MinIsMax(r, b, k) == Lo(r, X(b, k)) = Hi(r, Y(b, k))
LOCAL MaxIsMin(r, b, k) == Hi(r, X(b, k)) = Lo(r, Y(b, k))
LOCAL Below(r, b, k) == Hi(r, X(b, k)) < Lo(r, Y(b, k))
LOCAL Same(r, b, k) == Bound(r, X(b, k)) /\ Bound(r, Y(b, k)) /\ MinIsMax(r, b, k)
LOCAL Above(r, b, k) == Lo(r, X(b, k)) > Hi(r, Y(b, k))
LOCAL AtMost(r, b, k) == MaxIsMin(r, b, k) /\ Lo(r, X(b, k)) < Hi(r, Y(b, k))
LOCAL AtLeast(r, b, k) == MinIsMax(r, b, k) /\ Lo(r, Y(b, k)) < Hi(r, X(b, k))

LOCAL After(b, k, Skipped(_)) == Min({j \in k..Size(b) : j = Size(b) \/ ~Skipped(j)})

LOCAL Set(r, c, field, value) == Remember(r, c, [r.mem[c] EXCEPT ![field] = value])

(* The constraints x[q] <= y[q] and x[q] < y[q] it may post are parts of it;  *)
(* the closures of x[k] and y[k] are the parts 2k + 1 and 2k + 2.             *)
LexParts(n) == 4 * n
LOCAL OrderPart(b, q, strict) == 2 * Size(b) + q + 1 + IF strict THEN Size(b) ELSE 0
LOCAL OrderBody(b, part) ==
    LET n == Size(b)
        q == (part - 1) % n
        y == Y(b, q)
    IN MkBody("LessOrEqual", <<X(b, q), IF part > 3 * n THEN <<y[1], y[2], y[3] - 1>> ELSE y>>, 0, 0)

(* Mutant: the bound of y is taken for its value. *)
LexOrder_bound(r, c, b, strict, first) ==
    LET q == r.mem[c].q
        part == OrderPart(b, q, strict)
        off == IF first THEN r ELSE SetActive(r, <<c, 0>>, FALSE)
    IN IF first THEN LessOrEqualPost([off EXCEPT !.asked = TRUE], <<c, part>>, OrderBody(b, part))
       ELSE RemoveAbove(off, X(b, q), Hi(off, Y(b, q)) - IF strict THEN 1 ELSE 0)

(* All is decided by position q.                                              *)
LexOrder(r, c, b, strict, first) ==
    LET q == r.mem[c].q
        part == OrderPart(b, q, strict)
        off == IF first THEN r ELSE SetActive(r, <<c, 0>>, FALSE)
    IN IF ~first /\ Bound(off, Y(b, q))
       THEN RemoveAbove(off, X(b, q), Lo(off, Y(b, q)) - IF strict THEN 1 ELSE 0)
       ELSE LessOrEqualPost([off EXCEPT !.asked = TRUE], <<c, part>>, OrderBody(b, part))

listenFrom(r, c, b, ofs) ==
    LET On(t, v, part) == IF Bound(t, v) THEN t ELSE Listen(t, v, "onBounds", <<c, part>>)
    IN Seqs!FoldLeft(LAMBDA t, k : On(On(t, X(b, k), 2 * k + 1), Y(b, k), 2 * k + 2),
                     r, Upto(ofs, Size(b) - 1))

LOCAL LexWait(r, c, b, u, first) ==
    Set(IF first THEN listenFrom(r, c, b, r.mem[c].q) ELSE r, c, "u", u)

LexState3(r, c, b, k, first) ==
    LET s == After(b, k, LAMBDA j : MaxIsMin(r, b, j))
        t == Set(r, c, "s", s)
    IN IF s = Size(b) \/ Below(t, b, s) THEN LexOrder(t, c, b, FALSE, first)
       ELSE LexWait(t, c, b, 3, first)

LexState4(r, c, b, k, first) ==
    LET s == After(b, k, LAMBDA j : MinIsMax(r, b, j))
        t == Set(r, c, "s", s)
    IN IF s < Size(b) /\ Above(t, b, s) THEN LexOrder(t, c, b, TRUE, first)
       ELSE LexWait(t, c, b, 4, first)

LexState2(r, c, b, k, first) ==
    LET at == After(b, k, LAMBDA j : Same(r, b, j))
        t == Set(r, c, "r", at)
        next == Larger(at + 1, t.mem[c].s)
    IN IF at = Size(b) \/ Below(t, b, at) THEN LexOrder(t, c, b, FALSE, first)
       ELSE CASE Above(t, b, at) -> LexOrder(t, c, b, TRUE, first)
              [] AtMost(t, b, at) -> LexState3(t, c, b, next, first)
              [] AtLeast(t, b, at) -> LexState4(t, c, b, next, first)
              [] OTHER -> LexWait(t, c, b, 2, first)

(* The positions where x is at least y must be equal.                         *)
LOCAL Equated(r, b, from) ==
    Seqs!FoldLeft(
        LAMBDA t, k :
            LET v == Lo(t.r, X(b, k))
            IN IF k # t.q \/ ~MinIsMax(t.r, b, k) THEN t
               ELSE [r |-> Assign(Assign(t.r, X(b, k), v), Y(b, k), v), q |-> k + 1],
        [r |-> r, q |-> from], Upto(from, Size(b) - 1))

LexState1(r, c, b, k, first) ==
    LET e == Equated(r, b, k)
        q == e.q
        t == Set(e.r, c, "q", q)
        s == RemoveAbove(t, X(b, q), Hi(t, Y(b, q)))
        z == RemoveBelow(s, Y(b, q), Lo(s, X(b, q)))
    IN IF q = Size(b) \/ Below(t, b, q) THEN IF first THEN t ELSE SetActive(t, <<c, 0>>, FALSE)
       ELSE IF z.failed THEN z
       ELSE LexState2(z, c, b, Larger(q + 1, z.mem[c].r), first)

(* Part k is woken by a bound of x[k] or y[k]. *)
propagateFrom(r, c, b, k) ==
    LET m == r.mem[c]
    IN IF ~r.active[<<c, 0>>] THEN r
       ELSE CASE k = m.q -> LexState1(r, c, b, k, FALSE)
              [] k = m.r -> LexState2(r, c, b, k, FALSE)
              [] m.u = 3 /\ (k = m.s \/ (k < m.s /\ ~MaxIsMin(r, b, k))) -> LexState3(r, c, b, k, FALSE)
              [] m.u = 4 /\ (k = m.s \/ (k < m.s /\ ~MinIsMax(r, b, k))) -> LexState4(r, c, b, k, FALSE)
              [] OTHER -> r

LexPropagate(r, i, b) ==
    IF i[2] > 2 * Size(b) THEN LessOrEqualPropagate(r, i, OrderBody(b, i[2]))
    ELSE propagateFrom(r, i[1], b, (i[2] - 1) \div 2)

--------------------------------------------------------------------------------
(* CumulativeTT.  b.k = [dur, req, cap].  Part 1 is the constraint it posts   *)
(* over the same tasks in a time that runs backwards.                         *)
LOCAL Start(b, i, n) ==
    LET v == b.x[n] IN IF i[2] = 0 THEN v ELSE <<v[1], -v[2], -v[3] - b.k.dur[n]>>

(* Mutant: a mandatory part as long as the task. *)
Mandatory_long(r, b, i, n) == Hi(r, Start(b, i, n))..(Hi(r, Start(b, i, n)) + b.k.dur[n] - 1)

(* When a task must run, whenever it starts. *)
Mandatory(r, b, i, n) == Hi(r, Start(b, i, n))..(Lo(r, Start(b, i, n)) + b.k.dur[n] - 1)

(* The rectangles [from, to, height] of the profile, in the order of time.    *)
LOCAL Ever == 1000      \* numeric_limits<int>::max()

buildProfile(r, b, i) ==
    LET N == DOMAIN b.x
        part(n) == Mandatory(r, b, i, n)
        keys == UNION {{Min(part(n)), Max(part(n)) + 1} : n \in {m \in N : part(m) # {}}}
        ends == <<-Ever>> \o Ascending(keys) \o <<Ever>>
    IN [j \in 1..(Len(ends) - 1) |-> [from |-> ends[j], to |-> ends[j + 1],
            height |-> Demand(b, {n \in N : ends[j] \in part(n)})]]

CumulativePropagate(r, i, b) ==
    LET profile == buildProfile(r, b, i)
        Push(s, n) ==
            LET v == Start(b, i, n)
                last == Hi(s, v)
                ahead == SelectSeq(profile, LAMBDA p : p.to > Lo(s, v))
            IN Seqs!FoldLeft(
                 LAMBDA t, p : IF /\ p.from < Smaller(t + b.k.dur[n], last)
                                  /\ b.k.cap - b.k.req[n] < p.height
                               THEN Smaller(p.to, last) ELSE t, Lo(s, v), ahead)
    IN IF \E j \in DOMAIN profile : profile[j].height > b.k.cap THEN Fail(r)
       ELSE Seqs!FoldLeft(LAMBDA s, n : IF s.failed \/ Bound(s, b.x[n]) THEN s
                                        ELSE RemoveBelow(s, Start(b, i, n), Push(s, n)),
                          r, Upto(1, Len(b.x)))

CumulativePost(r, i, b) ==
    LET mirror == <<i[1], 1>>
        s == CumulativePropagate(ListenAll(ListenAll(r, b.x, "onBounds", i), b.x, "onBounds", mirror),
                                 mirror, b)
    IN IF s.failed THEN s ELSE CumulativePropagate(s, i, b)

--------------------------------------------------------------------------------
SequencingPost(r, i, b) ==
    CASE b.kind = "LexLeq" -> LexState1(r, i[1], b, 0, TRUE)
      [] b.kind = "CumulativeTT" -> CumulativePost(r, i, b)

SequencingPropagate(r, i, b) ==
    CASE b.kind = "LexLeq" -> LexPropagate(r, i, b)
      [] b.kind = "CumulativeTT" -> CumulativePropagate(r, i, b)
================================================================================
