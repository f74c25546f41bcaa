----------------------------- MODULE MDDConstraints -----------------------------
(* The constraints of the MDD library (mddAmong.cpp, mddAlldiff.cpp,          *)
(* mddGcc.cpp, mddSum.cpp, mddSeq.cpp, mddPrecedence.cpp, mddGoc.cpp,         *)
(* mddAbs.cpp, mddMaximumCutObjective.cpp).  Each function of the library     *)
(* makes a descriptor: the layers of its scope (over), the properties it      *)
(* declares downwards and upwards, the parameters its lambdas capture, and    *)
(* whether the last bound is a variable z.  Properties that only count the    *)
(* layers of the scope downwards (len, rem, N, pnb, lengthDown) are functions *)
(* of the layer here; the opts that rank nodes and candidates for a split     *)
(* (nodeP, candP) leave every order open in MDDRelax.                         *)
EXTENDS Integers, FiniteSets, FiniteSetsExt, Functions, Sequences

CONSTANTS
    N,              \* numVariables: the variables are the layers 0 .. N - 1
    Values          \* the union of the domains the library is built with

ASSUME MDDConstraintsAssumption == N \in Nat \ {0} /\ IsFiniteSet(Values) /\ Values \subseteq Int

len(c, l) == Cardinality({k \in c.over : k < l})
nbVars(c) == Cardinality(c.over)

(* The layer's index in the scope: counted from the root on the way down, by  *)
(* the property lenUp of the child on the way up.                             *)
place(c, dir, below, l) == IF dir = "down" THEN len(c, l) ELSE nbVars(c) - 1 - below

One(b) == IF b THEN 1 ELSE 0
Absolute(x) == IF x < 0 THEN -x ELSE x

(* The sum of the values of a function (without the operator arguments of the *)
(* folds, each use of which makes a coverage report of the models longer).    *)
SumOf(f) ==
    LET over[S \in SUBSET DOMAIN f] ==
            IF S = {} THEN 0 ELSE LET x == CHOOSE y \in S : TRUE IN f[x] + over[S \ {x}]
    IN over[DOMAIN f]

Plain(names) == names \X {0}

--------------------------------------------------------------------------------
(* Counting the layers that take one of some values.                          *)
amongMDD(over, lb, ub, values) ==
    [kind |-> "among", over |-> over, down |-> Plain({"L", "U"}), up |-> {}, hasZ |-> FALSE,
     lb |-> lb, ub |-> ub, values |-> values]

amongMDD2(over, lb, ub, values) ==
    [amongMDD(over, lb, ub, values) EXCEPT !.kind = "among2", !.up = Plain({"L", "U"})]

(* The overloads for Boolean variables take a single value.                   *)
amongMDDb(over, lb, ub, tv) == amongMDD(over, lb, ub, {tv})
amongMDD2b(over, lb, ub, tv) == amongMDD2(over, lb, ub, {tv})

upToOneMDD(over, values) ==
    [kind |-> "upToOne", over |-> over, down |-> Plain({"L"}), up |-> Plain({"L"}), hasZ |-> FALSE,
     values |-> values]

countStep(c, name, old, S) ==
    old + One(IF name = "L" THEN S \subseteq c.values ELSE S \cap c.values # {})

amongArc(c, i, l, v, down, up) ==
    LET in == One(v \in c.values)
    IN CASE c.kind = "among" -> /\ down[i, "L", 0] + in <= c.ub
                                /\ down[i, "U", 0] + in + (nbVars(c) - len(c, l)) - 1 >= c.lb
         [] c.kind = "among2" -> /\ down[i, "U", 0] + in + up[i, "U", 0] >= c.lb
                                 /\ down[i, "L", 0] + in + up[i, "L", 0] <= c.ub
         [] c.kind = "upToOne" -> down[i, "L", 0] + in + up[i, "L", 0] <= 1

--------------------------------------------------------------------------------
(* All different: the values every path takes and those some path takes, and  *)
(* in the second version how many of these there are.                         *)
allDiffMDD(over) ==
    LET sets == Plain({"all", "some"})
    IN [kind |-> "allDiff", over |-> over, down |-> sets, up |-> sets, hasZ |-> FALSE]

allDiffMDD2(over) ==
    LET sets == Plain({"all", "some", "numInSome"})
    IN [kind |-> "allDiff2", over |-> over, down |-> sets, up |-> sets, hasZ |-> FALSE]

usedStep(name, old, some, S) ==
    CASE name = "all" -> IF Cardinality(S) = 1 THEN old \cup S ELSE old
      [] name = "some" -> old \cup S
      [] name = "numInSome" -> old + Cardinality(S \ some)

(* The second version compares the number kept with the state, the first one  *)
(* the cardinality of the set.                                                *)
allDiffArc(c, i, l, v, down, up) ==
    LET n == nbVars(c)
        downSize == IF c.kind = "allDiff2" THEN down[i, "numInSome", 0] ELSE Cardinality(down[i, "some", 0])
        upSize == IF c.kind = "allDiff2" THEN up[i, "numInSome", 0] ELSE Cardinality(up[i, "some", 0])
    IN /\ v \notin down[i, "all", 0] /\ ~(v \in down[i, "some", 0] /\ downSize = len(c, l))
       /\ v \notin up[i, "all", 0] /\ ~(v \in up[i, "some", 0] /\ upSize = n - len(c, l) - 1)
       /\ Cardinality(down[i, "some", 0] \cup up[i, "some", 0] \cup {v}) >= n

--------------------------------------------------------------------------------
(* Occurrences of each value.  gccMDD also counts, with a second set of       *)
(* counters merged by maximum, what nothing looks at.                         *)
atMostMDD(over, most) ==
    [kind |-> "atMost", over |-> over, down |-> {"lo"} \X Values, up |-> {}, hasZ |-> FALSE, most |-> most]

atMostMDD2(over, most) ==
    [atMostMDD(over, most) EXCEPT !.kind = "atMost2", !.up = {"lo"} \X Values]

gccMDD(over, most) ==
    [atMostMDD(over, most) EXCEPT !.down = {"lo", "single"} \X Values]

gccMDD2(over, least, most) ==
    LET counters == {"lo", "hi"} \X Values
    IN [kind |-> "gcc2", over |-> over, down |-> counters, up |-> counters, hasZ |-> FALSE,
        least |-> least, most |-> most]

occurStep(name, k, old, S) == old + One(IF name = "hi" THEN k \in S ELSE S = {k})

gccArc(c, i, v, down, up) ==
    CASE c.kind = "atMost" -> down[i, "lo", v] < c.most[v]
      [] c.kind = "atMost2" -> down[i, "lo", v] + up[i, "lo", v] < c.most[v]
      [] c.kind = "gcc2" -> \A k \in Values :
            /\ down[i, "lo", k] + One(k = v) + up[i, "lo", k] <= c.most[k]
            /\ down[i, "hi", k] + One(k = v) + up[i, "hi", k] >= c.least[k]

gccNode(c, i, down, up) ==
    SumOf([k \in Values |-> Max({c.least[k], down[i, "lo", k] + up[i, "lo", k]})]) <= nbVars(c)

--------------------------------------------------------------------------------
(* Sums: c.array holds a coefficient for each layer of the scope, or what the *)
(* layer adds for each of its values.  The last bound is given or a variable. *)
Summed(kind, over, array) ==
    [kind |-> kind, over |-> over, down |-> Plain({"minW", "maxW"}),
     up |-> Plain({"minW", "maxW", "lenUp"}), hasZ |-> TRUE, array |-> array]

sum(over, array, lb, ub) ==
    [kind |-> "sum", over |-> over, down |-> Plain({"minW", "maxW"}),
     up |-> Plain({"minW", "maxW", "lenUp"}), hasZ |-> FALSE, array |-> array, lb |-> lb, ub |-> ub]

Ones(over) == [k \in 1 .. Cardinality(over) |-> 1]

(* The overloads that take the coefficients to be one.                        *)
sumOnes(over, lb, ub) == sum(over, Ones(over), lb, ub)
sumVeci(over) == Summed("sumZ", over, Ones(over))
sumVecb(over) == Summed("sumZ", over, Ones(over))

sumArray(over, array) == Summed("sumZ", over, array)
sumSigned(over, array) == Summed("signed", over, array)
sumMatrix(over, matrix) == Summed("matrix", over, matrix)

(* What the layer at a place adds when it takes v.                            *)
weight(c, at, v) == IF c.kind = "matrix" THEN c.array[at + 1][v] ELSE c.array[at + 1] * v

(* RUB: the most that the layers after a place can add, when Boolean.         *)
RUB(c, at) == SumOf([k \in at + 2 .. nbVars(c) |-> Max({0, c.array[k]})])

(* With coefficients of any sign, or a matrix, the extremes are taken over    *)
(* what the values add; otherwise the coefficient multiplies the extremes.    *)
weightStep(c, name, old, at, S) ==
    LET added == {weight(c, at, v) : v \in S}
        exact == c.kind \in {"signed", "matrix"}
    IN old + IF name = "minW" THEN (IF exact THEN Min(added) ELSE weight(c, at, Min(S)))
             ELSE (IF exact THEN Max(added) ELSE weight(c, at, Max(S)))

Lower(c, z) == IF c.hasZ THEN z.min ELSE c.lb
Upper(c, z) == IF c.hasZ THEN z.max ELSE c.ub

sumArc(c, i, l, v, down, up, z) ==
    LET at == len(c, l)
        below == IF c.kind = "signed" THEN Max({up[i, "maxW", 0], RUB(c, at)}) ELSE up[i, "maxW", 0]
    IN /\ down[i, "minW", 0] + weight(c, at, v) + up[i, "minW", 0] <= Upper(c, z)
       /\ down[i, "maxW", 0] + weight(c, at, v) + below >= Lower(c, z)

sumNode(c, i, down, up, z) == /\ down[i, "minW", 0] + up[i, "minW", 0] <= Upper(c, z)
                              /\ down[i, "maxW", 0] + up[i, "maxW", 0] >= Lower(c, z)

--------------------------------------------------------------------------------
(* Every width consecutive layers take between lb and ub of the values.  The  *)
(* windows hold the last counts, the newest first; -1 where there is none.    *)
Sliding(kind, over, width, lb, ub, values) ==
    [kind |-> kind, over |-> over, down |-> Plain({"minWin", "maxWin"}), up |-> {}, hasZ |-> FALSE,
     width |-> width, lb |-> lb, ub |-> ub, values |-> values]

seqMDD(over, width, lb, ub, values) == Sliding("seq", over, width, lb, ub, values)
seqMDD2(over, width, lb, ub, values) == Sliding("seq2", over, width, lb, ub, values)

NewWindow(c) == [k \in 1 .. c.width |-> IF k = 1 THEN 0 ELSE -1]

windowStep(c, name, old, S) ==
    <<old[1] + One(IF name = "minWin" THEN S \subseteq c.values ELSE S \cap c.values # {})>>
        \o SubSeq(old, 1, c.width - 1)

seqArc(c, i, l, v, down) ==
    LET in == One(v \in c.values)
        min == down[i, "minWin", 0]
        max == down[i, "maxWin", 0]
        most == max[1] + in - min[c.width]
        least == min[1] + in - max[c.width]
    IN IF c.kind = "seq"
       THEN most >= c.lb /\ (IF min[c.width] < 0 THEN min[1] + in ELSE least) <= c.ub
       ELSE IF len(c, l) >= c.width - 1 THEN most >= c.lb /\ least <= c.ub
            ELSE /\ c.width - (len(c, l) + 1) + max[1] + in >= c.lb
                 /\ min[1] + in <= c.ub

--------------------------------------------------------------------------------
(* A value that needs another before it, and in the required version is       *)
(* needed after it.                                                           *)
precedenceMDD(over, before, after) ==
    [kind |-> "precedence", over |-> over, down |-> Plain({"seen"}), up |-> {}, hasZ |-> FALSE,
     before |-> before, after |-> after]

requiredPrecedenceMDD(over, before, after) ==
    [precedenceMDD(over, before, after) EXCEPT !.kind = "required", !.up = Plain({"seen"})]

seenStep(c, dir, old, S) == One(old = 1 \/ (IF dir = "down" THEN c.before ELSE c.after) \in S)

precedenceArc(c, i, v, down, up) ==
    /\ v = c.after => down[i, "seen", 0] > 0
    /\ c.kind = "required" /\ v = c.before => up[i, "seen", 0] > 0

(* Orderings <<prior, follower>> between values; the second version also asks *)
(* for as many layers as a value has priors, or followers.                    *)
gocMDD(over, orderings) ==
    [kind |-> "goc", over |-> over, down |-> Plain({"visited"}), up |-> Plain({"visited"}), hasZ |-> FALSE,
     orderings |-> orderings]

gocMDD2(over, orderings) ==
    [gocMDD(over, orderings) EXCEPT !.kind = "goc2", !.up = Plain({"visited", "lenUp"})]

Priors(c, v) == {o[1] : o \in {p \in c.orderings : p[2] = v}}
Followers(c, v) == {o[2] : o \in {p \in c.orderings : p[1] = v}}

visitedStep(c, dir, old, S) ==
    old \cup {v \in S : (IF dir = "down" THEN Followers(c, v) ELSE Priors(c, v)) # {}}

gocArc(c, i, l, v, down, up) ==
    /\ Priors(c, v) \subseteq down[i, "visited", 0]
    /\ Followers(c, v) \subseteq up[i, "visited", 0]
    /\ c.kind = "goc2" => /\ len(c, l) >= Cardinality(Priors(c, v))
                          /\ up[i, "lenUp", 0] >= Cardinality(Followers(c, v))

--------------------------------------------------------------------------------
(* |x - y| = z over three layers: the values met at the layers above and      *)
(* below.  Equal x and y are passed over, and z is looked up as an offset.    *)
absDiffMDD(over) ==
    [kind |-> "absDiff", over |-> over, down |-> Plain({"xSome", "ySome"}),
     up |-> Plain({"ySome", "zSome", "lenUp"}), hasZ |-> FALSE]

metStep(name, old, at, S) ==
    IF at = (CASE name = "xSome" -> 0 [] name = "ySome" -> 1 [] name = "zSome" -> 2) THEN old \cup S ELSE old

absDiffArc(c, i, l, v, down, up) ==
    LET hasBit(set, k) == k + Min(Values) \in set
    IN CASE len(c, l) = 0 -> \E y \in up[i, "ySome", 0] \ {v} : hasBit(up[i, "zSome", 0], Absolute(v - y))
         [] len(c, l) = 1 -> \E x \in down[i, "xSome", 0] \ {v} : hasBit(up[i, "zSome", 0], Absolute(x - v))
         [] len(c, l) = 2 -> v # 0 /\ \E x \in down[i, "xSome", 0], d \in {-v, v} : hasBit(down[i, "ySome", 0], x + d)

--------------------------------------------------------------------------------
(* The weight of a cut bounds z: for each vertex to come, how much better it  *)
(* is to put it on one side than on the other, and the value reached.         *)
maxCutObjectiveMDD(over, weights) ==
    [kind |-> "maxCut", over |-> over, down |-> Plain({"downWeights", "maxDownValue"}), up |-> {}, hasZ |-> TRUE,
     weights |-> weights]

Vertices(c) == 0 .. nbVars(c) - 1
rootValue(c) == SumOf([e \in {e \in Vertices(c) \X Vertices(c) : e[1] < e[2]} |-> Min({0, c.weights[e[1]][e[2]]})])

(* The bounds that hold whatever side was taken: the nearest to zero.         *)
nearest(ws) ==
    IF \A w \in ws : w >= 0 THEN Min(ws) ELSE IF \A w \in ws : w <= 0 THEN Max(ws) ELSE 0

side(c, from, k, i, v) == from[i] + (IF v = 0 THEN 1 ELSE -1) * c.weights[i][k]

weightsStep(c, from, k, S) ==
    [i \in Vertices(c) |-> IF i <= k THEN 0 ELSE nearest({side(c, from, k, i, v) : v \in S})]

cutStep(c, old, from, k, S) ==
    LET after == weightsStep(c, from, k, S)
        later == k + 1 .. nbVars(c) - 1
        won(i, v) == IF (v = 0 /\ from[i] * c.weights[i][k] <= 0) \/ (v # 0 /\ from[i] * c.weights[i][k] >= 0)
                     THEN Min({Absolute(from[i]), Absolute(c.weights[i][k])}) ELSE 0
        lost(i, v) == Absolute(side(c, from, k, i, v)) - Absolute(after[i])
        value(v) == Max({0, IF v = 0 THEN -from[k] ELSE from[k]})
                        + SumOf([i \in later |-> won(i, v) + lost(i, v)])
    IN old + Max({value(v) : v \in S})

--------------------------------------------------------------------------------
(* One lambda for each property and each constraint.  What the states of a    *)
(* diagram hold of constraint i, named c, is [i, name, key]: the value        *)
(* that transition gives to the property <<name, k>> when layer l takes a     *)
(* value among S, from the state of the neighbour; whether an arc may exist   *)
(* between a downward and an upward state, and a node with both.              *)
transition(c, i, dir, name, k, from, l, S) ==
    LET old == from[i, name, k]
        at == place(c, dir, IF dir = "up" THEN from[i, "lenUp", 0] ELSE 0, l)
    IN CASE name \in {"L", "U"} -> countStep(c, name, old, S)
         [] name \in {"all", "some", "numInSome"} -> usedStep(name, old, from[i, "some", 0], S)
         [] name \in {"lo", "hi", "single"} -> occurStep(name, k, old, S)
         [] name \in {"minW", "maxW"} -> weightStep(c, name, old, at, S)
         [] name = "lenUp" -> old + 1
         [] name \in {"minWin", "maxWin"} -> windowStep(c, name, old, S)
         [] name = "seen" -> seenStep(c, dir, old, S)
         [] name = "visited" -> visitedStep(c, dir, old, S)
         [] name \in {"xSome", "ySome", "zSome"} -> metStep(name, old, at, S)
         [] name = "downWeights" -> weightsStep(c, old, at, S)
         [] name = "maxDownValue" -> cutStep(c, old, from[i, "downWeights", 0], at, S)

arcExist(c, i, l, v, down, up, z) ==
    CASE c.kind \in {"among", "among2", "upToOne"} -> amongArc(c, i, l, v, down, up)
      [] c.kind \in {"allDiff", "allDiff2"} -> allDiffArc(c, i, l, v, down, up)
      [] c.kind \in {"atMost", "atMost2", "gcc2"} -> gccArc(c, i, v, down, up)
      [] c.kind \in {"sum", "sumZ", "signed", "matrix"} -> sumArc(c, i, l, v, down, up, z)
      [] c.kind \in {"seq", "seq2"} -> seqArc(c, i, l, v, down)
      [] c.kind \in {"precedence", "required"} -> precedenceArc(c, i, v, down, up)
      [] c.kind \in {"goc", "goc2"} -> gocArc(c, i, l, v, down, up)
      [] c.kind = "absDiff" -> absDiffArc(c, i, l, v, down, up)
      [] c.kind = "maxCut" -> TRUE

nodeExist(c, i, down, up, z) ==
    CASE c.kind = "gcc2" -> gccNode(c, i, down, up)
      [] c.kind \in {"sum", "sumZ", "signed", "matrix"} -> sumNode(c, i, down, up, z)
      [] OTHER -> TRUE

(* reachedFixpoint: what the downward state of the sink says of z.            *)
fixpointBounds(c, i, down, z) ==
    IF c.kind = "maxCut" THEN [min |-> z.min, max |-> down[i, "maxDownValue", 0]]
    ELSE [min |-> down[i, "minW", 0], max |-> down[i, "maxW", 0]]

--------------------------------------------------------------------------------
(* What the constraints mean (for the properties only).                       *)
Total(c, a) ==
    IF c.kind = "maxCut"
    THEN SumOf([e \in {e \in Vertices(c) \X Vertices(c) : e[1] < e[2] /\ a[e[1]] # a[e[2]]} |-> c.weights[e[1]][e[2]]])
    ELSE SumOf([l \in c.over |-> weight(c, len(c, l), a[l])])

(* A cut bounds z from above only: at a leaf z can take its weight at most.   *)
holds(c, a, z) ==
    LET taking(S) == Cardinality({l \in c.over : a[l] \in S})
        at(k) == a[CHOOSE l \in c.over : len(c, l) = k]
        preceded(p, f) == \A l \in c.over : a[l] = f => \E k \in c.over : k < l /\ a[k] = p
        followed(p, f) == \A l \in c.over : a[l] = p => \E k \in c.over : k > l /\ a[k] = f
    IN CASE c.kind \in {"among", "among2"} -> taking(c.values) \in c.lb .. c.ub
         [] c.kind = "upToOne" -> taking(c.values) <= 1
         [] c.kind \in {"allDiff", "allDiff2"} -> Cardinality({a[l] : l \in c.over}) = nbVars(c)
         [] c.kind \in {"atMost", "atMost2"} -> \A v \in Values : taking({v}) <= c.most[v]
         [] c.kind = "gcc2" -> \A v \in Values : taking({v}) \in c.least[v] .. c.most[v]
         [] c.kind \in {"sum", "sumZ", "signed", "matrix"} -> Total(c, a) \in Lower(c, z) .. Upper(c, z)
         [] c.kind \in {"seq", "seq2"} ->
               \A k \in 0 .. nbVars(c) - c.width :
                  Cardinality({j \in k .. k + c.width - 1 : at(j) \in c.values}) \in c.lb .. c.ub
         [] c.kind = "precedence" -> preceded(c.before, c.after)
         [] c.kind = "required" -> preceded(c.before, c.after) /\ followed(c.before, c.after)
         [] c.kind \in {"goc", "goc2"} -> \A o \in c.orderings : preceded(o[1], o[2]) /\ followed(o[1], o[2])
         [] c.kind = "absDiff" -> at(2) # 0 /\ at(2) = Absolute(at(0) - at(1))
         [] c.kind = "maxCut" -> z.max <= Total(c, a)

================================================================================
