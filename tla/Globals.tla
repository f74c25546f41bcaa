-------------------------------- MODULE Globals --------------------------------
(* The global constraints of constraint.cpp: the all-different constraints,   *)
(* the circuit and the element constraints, laid out as in Arithmetic.tla.    *)
(* Arrays are indexed from 0 as in the code, b.x from 1.                      *)
EXTENDS Logical

GlobalKinds == {"AllDifferentBinary", "AllDifferentAC", "Circuit", "Element2D",
                "Element1D", "Element1DBasic", "Element1DDC", "Element1DVar"}

LOCAL Distinct(a, b) == \A m, n \in DOMAIN b.x : m # n => At(a, b.x[m]) # At(a, b.x[n])

(* The nodes visited from node 0 in as many steps as there are nodes.         *)
LOCAL Tour(a, b) ==
    LET n == Len(b.x)
        walk[k \in 0..n] == IF k = 0 THEN 0 ELSE At(a, b.x[walk[k - 1] + 1])
    IN {walk[k] : k \in 1..n}

GlobalHolds(a, b) ==
    LET x(n) == At(a, b.x[n])
    IN CASE b.kind \in {"AllDifferentBinary", "AllDifferentAC"} -> Distinct(a, b)
         [] b.kind = "Circuit" -> /\ \A n \in DOMAIN b.x : x(n) \in 0..(Len(b.x) - 1)
                                  /\ Tour(a, b) = 0..(Len(b.x) - 1)
         [] b.kind \in {"Element2D", "Element1D"} ->
                /\ x(1) + 1 \in DOMAIN b.k.t /\ x(2) + 1 \in DOMAIN b.k.t[1]
                /\ b.k.t[x(1) + 1][x(2) + 1] = x(3)
         [] b.kind \in {"Element1DBasic", "Element1DDC"} ->
                x(1) + 1 \in DOMAIN b.k.t /\ b.k.t[x(1) + 1] = x(2)
         [] b.kind = "Element1DVar" -> x(1) + 3 \in DOMAIN b.x /\ x(x(1) + 3) = x(2)

--------------------------------------------------------------------------------
(* Circuit: mem holds the ends of the paths built so far.                     *)
CircuitMem(b) == LET N == 0..(Len(b.x) - 1)
                 IN [dest |-> [j \in N |-> j], orig |-> [j \in N |-> j], len |-> [j \in N |-> 0]]

(* Mutant: the length of the path of the successor is not added. *)
CircuitBind_short(r, c, b, n) ==
    LET m == r.mem[c]
        i == n - 1
        j == Lo(r, b.x[n])
        orig == m.orig[i]
        dest == m.dest[j]
        length == m.len[orig] + 1
        s == Remember(r, c, [dest |-> [m.dest EXCEPT ![orig] = dest],
                             orig |-> [m.orig EXCEPT ![dest] = orig],
                             len |-> [m.len EXCEPT ![orig] = length]])
    IN IF length < Len(b.x) - 1 THEN Remove(s, b.x[dest + 1], orig) ELSE s

CircuitBind(r, c, b, n) ==
    LET m == r.mem[c]
        i == n - 1
        j == Lo(r, b.x[n])
        orig == m.orig[i]
        dest == m.dest[j]
        length == m.len[orig] + m.len[j] + 1
        s == Remember(r, c, [dest |-> [m.dest EXCEPT ![orig] = dest],
                             orig |-> [m.orig EXCEPT ![dest] = orig],
                             len |-> [m.len EXCEPT ![orig] = length]])
    IN IF length < Len(b.x) - 1 THEN Remove(s, b.x[dest + 1], orig) ELSE s

(* What is left of post() once its allDifferent has been posted.              *)
CircuitRest(r, i, b) ==
    LET c == i[1]
        ns == Upto(1, Len(b.x))
        s == Seqs!FoldLeft(LAMBDA t, n : Remove(t, b.x[n], n - 1), r, ns)
    IN IF Len(b.x) = 1 THEN Assign(r, b.x[1], 0)
       ELSE Seqs!FoldLeft(LAMBDA t, n : IF t.failed THEN t
                                        ELSE IF Bound(t, b.x[n]) THEN CircuitBind(t, c, b, n)
                                        ELSE Listen(t, b.x[n], "onBind", <<c, n>>), s, ns)

--------------------------------------------------------------------------------
(* AllDifferentAC.  aux, the maximum matching kept from one call to the next, *)
(* maps the position of a variable to its value; it is not trailed.           *)
NoValue == -99          \* INT32_MIN

DropStale(r, b, match) ==
    [n \in DOMAIN b.x |-> IF match[n] \in Dom(r, b.x[n]) THEN match[n] ELSE NoValue]

Matched(match) == {match[n] : n \in DOMAIN match} \ {NoValue}

(* findInitialMatching: the smallest value that is still free.                *)
InitialMatching(r, b) ==
    Seqs!FoldLeft(LAMBDA m, n : LET free == Dom(r, b.x[n]) \ Matched(m)
                                IN IF free = {} THEN m ELSE [m EXCEPT ![n] = Min(free)],
                  [n \in DOMAIN b.x |-> NoValue], Upto(1, Len(b.x)))

(* findAlternatingPathFromVar: the variables on an alternating path from the  *)
(* n-th one; each takes the value of the next, the last a value nobody has.   *)
LOCAL Free(r, b, m, n) == Dom(r, b.x[n]) \ Matched(m)

AlternatingPaths(r, b, m, n) ==
    {p \in UNION {[1..k -> DOMAIN b.x] : k \in DOMAIN b.x} :
        /\ p[1] = n /\ IsInjective(p)
        /\ \A j \in 1..(Len(p) - 1) : m[p[j + 1]] \in Dom(r, b.x[p[j]])
        /\ Free(r, b, m, p[Len(p)]) # {}}

(* Mutant: the variables along the path keep the values they had. *)
Augmented_end(r, b, m, n) ==
    LET paths == AlternatingPaths(r, b, m, n)
        p == CHOOSE q \in paths : TRUE
    IN IF m[n] # NoValue \/ paths = {} THEN m
       ELSE [m EXCEPT ![n] = IF Len(p) > 1 THEN m[p[2]] ELSE Min(Free(r, b, m, n))]

(* Which path is found makes no difference to what propagate() removes.       *)
Augmented(r, b, m, n) ==
    LET paths == AlternatingPaths(r, b, m, n)
        p == CHOOSE q \in paths : TRUE
    IN IF m[n] # NoValue \/ paths = {} THEN m
       ELSE [k \in DOMAIN m |->
               IF \A j \in DOMAIN p : p[j] # k THEN m[k]
               ELSE LET j == CHOOSE j \in DOMAIN p : p[j] = k
                    IN IF j < Len(p) THEN m[p[j + 1]] ELSE Min(Free(r, b, m, k))]

(* compute(): forget what backtracking or pruning made stale, then augment.   *)
MaximumMatching(r, b, match) ==
    Seqs!FoldLeft(LAMBDA m, n : Augmented(r, b, m, n), DropStale(r, b, match), Upto(1, Len(b.x)))

(* The residual graph: a variable leads to the values it does not have, a     *)
(* value to its variable or to the sink, the sink to the values taken.        *)
ResidualEdges(r, b, m) ==
    LET taken(w) == {n \in DOMAIN m : m[n] = w}
        values == UNION {Dom(r, b.x[n]) : n \in DOMAIN m}
    IN UNION {{<<<<"var", n>>, <<"val", w>>>> : w \in Dom(r, b.x[n]) \ {m[n]}} : n \in DOMAIN m}
       \cup {<<<<"val", w>>, IF taken(w) = {} THEN <<"sink", 0>>
                              ELSE <<"var", CHOOSE n \in taken(w) : TRUE>>>> : w \in values}
       \cup {<<<<"sink", 0>>, <<"val", w>>>> : w \in Matched(m)}

LOCAL Reached(E, a) ==
    Seqs!FoldLeft(LAMBDA S, k : S \cup {e[2] : e \in {f \in E : f[1] \in S}},
                  {a}, Upto(1, Cardinality({e[1] : e \in E})))

(* The value is in the same strongly connected component as the variable.     *)
SameComponent(E, n, w) == <<"val", w>> \in Reached(E, <<"var", n>>)
                          /\ <<"var", n>> \in Reached(E, <<"val", w>>)

AllDifferentPropagate(r, i, b) ==
    LET m == MaximumMatching(r, b, r.aux[i[1]])
        E == ResidualEdges(r, b, m)
        s == Note(r, i[1], m)
        lost(n) == {w \in Dom(r, b.x[n]) \ {m[n]} : ~SameComponent(E, n, w)}
    IN IF \E n \in DOMAIN m : m[n] = NoValue THEN Fail(s)
       ELSE Seqs!FoldLeft(LAMBDA t, n : RemoveEach(t, b.x[n], lost(n)), s, Upto(1, Len(b.x)))

AllDifferentPost(r, i, b) ==
    AllDifferentPropagate(ListenAll(Note(r, i[1], InitialMatching(r, b)), b.x, "onDom", i), i, b)

--------------------------------------------------------------------------------
(* Element2D: z = t[x][y].  b.k.xyz lists the cells <<x, y, z>> by increasing *)
(* z; mem = [low, up, cols, rows], the first and the last cell that support z *)
(* and how many cells support each x and each y.                              *)
Element2DMem(b) ==
    LET N == Len(b.k.t)  M == Len(b.k.t[1])
    IN [low |-> 1, up |-> Len(b.k.xyz),
        cols |-> [x \in 0..(N - 1) |-> M], rows |-> [y \in 0..(M - 1) |-> N]]

updateSupport(r, c, b, pos) ==
    LET e == b.k.xyz[pos]
        m == [r.mem[c] EXCEPT !.cols[e[1]] = @ - 1, !.rows[e[2]] = @ - 1]
        s == IF m.cols[e[1]] = 0 THEN Remove(Remember(r, c, m), b.x[1], e[1])
             ELSE Remember(r, c, m)
    IN IF m.rows[e[2]] = 0 THEN Remove(s, b.x[2], e[2]) ELSE s

(* Drop the cells at one end as long as they support nothing; the last of     *)
(* them must not be dropped.                                                  *)
LOCAL Dropped(r, c, b, places, TooFar(_)) ==
    Seqs!FoldLeft(
        LAMBDA t, pos :
            LET e == b.k.xyz[pos]
                s == updateSupport(t.r, c, b, pos)
            IN IF t.stop THEN t
               ELSE IF TooFar(e[3]) \/ e[1] \notin Dom(t.r, b.x[1]) \/ e[2] \notin Dom(t.r, b.x[2])
               THEN IF pos = places[Len(places)] \/ s.failed
                    THEN [t EXCEPT !.r = Fail(s), !.stop = TRUE] ELSE [t EXCEPT !.r = s]
               ELSE [t EXCEPT !.at = pos, !.stop = TRUE],
        [r |-> r, at |-> 0, stop |-> FALSE], places)

Element2DPropagate(r, i, b) ==
    LET c == i[1]
        z == b.x[3]
        zMin == Lo(r, z)
        zMax == Hi(r, z)
        down == Dropped(r, c, b, Upto(r.mem[c].low, r.mem[c].up), LAMBDA w : w < zMin)
        up == Dropped(down.r, c, b, Seqs!Reverse(Upto(down.at, r.mem[c].up)), LAMBDA w : w > zMax)
        s == UpdateBounds(up.r, z, b.k.xyz[down.at][3], b.k.xyz[up.at][3])
    IN IF down.r.failed THEN down.r
       ELSE IF up.r.failed THEN up.r
       ELSE Remember(s, c, [s.mem[c] EXCEPT !.low = down.at, !.up = up.at])

Element2DPost(r, i, b) ==
    LET x == b.x[1]  y == b.x[2]  z == b.x[3]
        s == UpdateBounds(UpdateBounds(r, x, 0, Len(b.k.t) - 1), y, 0, Len(b.k.t[1]) - 1)
        t == Listen(ListenAll(s, <<x, y>>, "onDom", i), z, "onBounds", i)
    IN IF t.failed THEN t ELSE Element2DPropagate(t, i, b)

(* Element1D posts an Element2D, part 1, over one row; its x is a new         *)
(* variable over 0..0.                                                        *)
Element1DPost(r, i, b) == Element2DPost(r, <<i[1], 1>>, b)

--------------------------------------------------------------------------------
(* Element1DBasic: z = t[y].  b.k.kv lists the <<index, value>> by increasing *)
(* value; mem = <<from, to>>, places in it, 0 before the first is known.      *)
Element1DBasicPost(r, i, b) ==
    LET y == b.x[1]  z == b.x[2]
        n == Len(b.k.t)
        kv == b.k.kv
        held == {k \in 1..n : kv[k][2] \in Dom(r, z)}
        s == Seqs!FoldLeft(LAMBDA q, k : IF k \in held THEN q ELSE Remove(q, y, kv[k][1]),
                           r, Upto(1, n))
        t == IF held = {} THEN s ELSE Remember(s, i[1], <<Min(held), Max(held)>>)
    IN IF Bound(r, y) THEN Assign(r, z, b.k.t[Lo(r, y) + 1])
       ELSE IF Bound(r, z)
       THEN RemoveEach(r, y, {v \in Dom(r, y) : v \notin 0..(n - 1) \/ b.k.t[v + 1] # Lo(r, z)})
       ELSE IF t.failed THEN t
       ELSE IF Bound(t, y) THEN Assign(t, z, b.k.t[Lo(t, y) + 1])
       ELSE Listen(Listen(t, y, "onDom", i), z, "onBounds", i)

Element1DBasicPropagate(r, i, b) ==
    LET y == b.x[1]  z == b.x[2]  c == i[1]
        n == Len(b.k.t)
        kv == b.k.kv
        ups == {k \in r.mem[c][1]..n : kv[k][1] \in Dom(r, y)}
        downs == {k \in 1..r.mem[c][2] : kv[k][1] \in Dom(r, y)}
        s == RemoveAbove(RemoveBelow(r, z, kv[Min(ups)][2]), z, kv[Max(downs)][2])
        low == SelectSeq(Upto(Min(ups), n), LAMBDA k : kv[k][2] < Lo(s, z))
        high == SelectSeq(Seqs!Reverse(Upto(1, Max(downs))), LAMBDA k : kv[k][2] > Hi(s, z))
        t == Seqs!FoldLeft(LAMBDA q, k : Remove(q, y, kv[k][1]), s, low \o high)
    IN IF Bound(r, y) THEN Assign(r, z, b.k.t[Lo(r, y) + 1])
       ELSE IF ups = {} \/ downs = {} THEN Fail(r)
       ELSE IF s.failed THEN s
       ELSE Remember(t, c, <<Min(ups) + Len(low), Max(downs) - Len(high)>>)

--------------------------------------------------------------------------------
(* Element1DDC: z = t[y].  mem = [y, z: the domains it knows of, ix: the      *)
(* indices when it was posted, s: how many of them reach each value].         *)
Supporters(b, m, v) == SelectSeq(Seqs!Reverse(Upto(0, Len(b.k.t) - 1)),
                                 LAMBDA k : k \in m.ix /\ b.k.t[k + 1] = v)

zLostValue(r, b, m, v) ==
    Seqs!FoldLeft(LAMBDA s, k : Remove(s, b.x[1], k), r, Supporters(b, m, v))

(* Mutant: the last support of a value is not noticed. *)
yLostValue_last(r, c, b, v) ==
    LET w == b.k.t[v + 1]
        s == Remember(r, c, [r.mem[c] EXCEPT !.s[w] = @ - 1])
    IN IF r.mem[c].s[w] = 0 THEN Remove(s, b.x[2], w) ELSE s

yLostValue(r, c, b, v) ==
    LET w == b.k.t[v + 1]
        s == Remember(r, c, [r.mem[c] EXCEPT !.s[w] = @ - 1])
    IN IF s.mem[c].s[w] = 0 THEN Remove(s, b.x[2], w) ELSE s

Element1DDCPost(r, i, b) ==
    LET y == b.x[1]  z == b.x[2]
        s == UpdateBounds(r, y, 0, Len(b.k.t) - 1)
        ix == Dom(s, y)
        values == {b.k.t[k + 1] : k \in ix}
        tMin == Larger(Min(values), Lo(s, z))
        tMax == Smaller(Max(values), Hi(s, z))
        t == UpdateBounds(s, z, tMin, tMax)
        u == RemoveEach(t, z, Dom(t, z) \ values)
        m == [y |-> {}, z |-> {}, ix |-> ix,
              s |-> [v \in values |-> Cardinality({k \in ix : b.k.t[k + 1] = v})]]
        lost == Ascending(values \ Dom(u, z))
        q == Seqs!FoldLeft(LAMBDA p, v : zLostValue(p, b, m, v), u, lost)
    IN IF s.failed THEN s
       ELSE IF u.failed THEN u
       ELSE IF q.failed THEN q
       ELSE ListenAll(Remember(q, i[1], [m EXCEPT !.y = Dom(q, y), !.z = Dom(q, z)]),
                      <<y, z>>, "onDom", i)

(* Whether post() trips over its assertion, asked after each removal from y:  *)
(* it holds an index against the length of the list, which starts at the      *)
(* least index.  No removal fails: a value left to z keeps the indices that   *)
(* reach it.                                                                  *)
Element1DDCAborts(r, b) ==
    LET y == Dom(r, b.x[1]) \cap 0..(Len(b.k.t) - 1)
        z == Dom(r, b.x[2]) \cap {b.k.t[k + 1] : k \in y}
    IN z # {} /\ \E k \in y : b.k.t[k + 1] \notin z /\ k > Max(y) - Min(y)

Element1DDCPropagate(r, i, b) ==
    LET y == b.x[1]  z == b.x[2]  c == i[1]
        m == r.mem[c]
        s == Seqs!FoldLeft(LAMBDA p, v : zLostValue(p, b, m, v), r, Ascending(m.z \ Dom(r, z)))
        t == Remember(s, c, [m EXCEPT !.z = Dom(r, z)])
        u == Seqs!FoldLeft(LAMBDA p, v : yLostValue(p, c, b, v), t, Ascending(m.y \ Dom(t, y)))
    IN IF t.failed THEN t
       ELSE Remember(u, c, [u.mem[c] EXCEPT !.y = Dom(t, y)])

--------------------------------------------------------------------------------
(* Element1DVar: z = array[y]; b.x = <<y, z>> \o array.                       *)
LOCAL Array(b, k) == b.x[k + 3]

equalityPropagate(r, b, zMin, zMax) ==
    LET v == Array(b, Lo(r, b.x[1]))
        s == UpdateBounds(r, v, zMin, zMax)
    IN IF s.failed THEN s ELSE UpdateBounds(s, b.x[2], Lo(s, v), Hi(s, v))

Element1DVarPropagate(r, i, b) ==
    LET y == b.x[1]  z == b.x[2]
        zMin == Lo(r, z)
        zMax == Hi(r, z)
        dead == {k \in Dom(r, y) : Hi(r, Array(b, k)) < zMin \/ Lo(r, Array(b, k)) > zMax}
        live == Dom(r, y) \ dead
        s == Seqs!FoldLeft(LAMBDA t, k : IF k \in dead THEN Remove(t, y, k) ELSE t,
                           r, Seqs!Reverse(Upto(Lo(r, y), Hi(r, y))))
    IN IF Bound(r, y) THEN equalityPropagate(r, b, zMin, zMax)
       ELSE IF s.failed THEN s
       ELSE IF Bound(s, y) THEN equalityPropagate(s, b, zMin, zMax)
       ELSE UpdateBounds(s, z, Min({Lo(s, Array(b, k)) : k \in live}),
                               Max({Hi(s, Array(b, k)) : k \in live}))

Element1DVarPost(r, i, b) ==
    LET y == b.x[1]  z == b.x[2]
        s == UpdateBounds(r, y, 0, Len(b.x) - 3)
        t == ListenAll(s, SubSeq(b.x, 3, Len(b.x)), "onBounds", i)
        u == Listen(Listen(t, y, "onDom", i), z, "onBounds", i)
    IN IF u.failed THEN u ELSE Element1DVarPropagate(u, i, b)

--------------------------------------------------------------------------------
(* What a constraint of these kinds remembers when it is constructed. *)
GlobalMem(b) ==
    CASE b.kind = "Circuit" -> CircuitMem(b)
      [] b.kind \in {"Element2D", "Element1D"} -> Element2DMem(b)
      [] b.kind = "Element1DBasic" -> <<0, 0>>
      [] OTHER -> <<>>

(* The post() of AllDifferentBinary and the first line of Circuit's post      *)
(* other constraints, b.inner.                                                *)
GlobalPost(r, i, b) ==
    CASE b.kind = "AllDifferentBinary" -> r
      [] b.kind = "Circuit" -> CircuitRest(r, i, b)
      [] b.kind = "AllDifferentAC" -> AllDifferentPost(r, i, b)
      [] b.kind = "Element2D" -> Element2DPost(r, i, b)
      [] b.kind = "Element1D" -> Element1DPost(r, i, b)
      [] b.kind = "Element1DBasic" -> Element1DBasicPost(r, i, b)
      [] b.kind = "Element1DDC" -> Element1DDCPost(r, i, b)
      [] b.kind = "Element1DVar" -> Element1DVarPost(r, i, b)

GlobalPropagate(r, i, b) ==
    CASE b.kind = "Circuit" -> CircuitBind(r, i[1], b, i[2])
      [] b.kind = "AllDifferentAC" -> AllDifferentPropagate(r, i, b)
      [] b.kind \in {"Element2D", "Element1D"} -> Element2DPropagate(r, i, b)
      [] b.kind = "Element1DBasic" -> Element1DBasicPropagate(r, i, b)
      [] b.kind = "Element1DDC" -> Element1DDCPropagate(r, i, b)
      [] b.kind = "Element1DVar" -> Element1DVarPropagate(r, i, b)
      [] OTHER -> r
================================================================================
