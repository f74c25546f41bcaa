-------------------------------- MODULE MDDSpecs --------------------------------
(* What an MDDSpec (mddstate.hpp, mddstate.cpp) puts together from the        *)
(* constraints of the library: the properties of a state, how a layer         *)
(* transforms them downwards and upwards, how states are merged, and when an  *)
(* arc or a node may exist.  A spec is a sequence of constraint descriptors   *)
(* of MDDConstraints; a property is <<constraint, name, key>>.                *)
EXTENDS MDDConstraints

Directions == {"down", "up"}

Props(cs, dir) == UNION {{<<i, d[1], d[2]>> : d \in cs[i][dir]} : i \in DOMAIN cs}

usesUp(cs) == Props(cs, "up") # {}

Sets == {"all", "some", "visited", "xSome", "ySome", "zSome"}

(* A state whose memory is zeroes, as that of a new MDDState.                 *)
Zero(cs, dir) ==
    LET zero(p) == CASE p[2] \in Sets -> {}
                     [] p[2] \in {"minWin", "maxWin"} -> [k \in 1 .. cs[p[1]].width |-> 0]
                     [] p[2] = "downWeights" -> [i \in Vertices(cs[p[1]]) |-> 0]
                     [] OTHER -> 0
    IN [v |-> [p \in Props(cs, dir) |-> zero(p)], relax |-> FALSE]

(* rootState and sinkState: the initial value of every property.              *)
initState(cs, dir) ==
    LET init(p) == CASE p[2] \in {"minWin", "maxWin"} -> NewWindow(cs[p[1]])
                     [] p[2] = "maxDownValue" -> rootValue(cs[p[1]])
                     [] OTHER -> Zero(cs, dir).v[p]
    IN [v |-> [p \in Props(cs, dir) |-> init(p)], relax |-> FALSE]

(* A property is framed at the layers out of its constraint's scope.          *)
step(cs, dir, p, from, l, S) ==
    IF l \in cs[p[1]].over THEN transition(cs[p[1]], p[1], dir, p[2], p[3], from.v, l, S) ELSE from.v[p]

(* The properties to compute again when some of a neighbour's have changed:   *)
(* those it is an antecedent of, besides itself.                              *)
Antecedents(name) ==
    CASE name \in {"minW", "maxW", "ySome", "zSome"} -> {"lenUp"}
      [] name \in {"downWeights", "maxDownValue"} -> {"downWeights", "maxDownValue"}
      [] OTHER -> {}

outputSet(cs, dir, changed) ==
    changed \cup {p \in Props(cs, dir) : \E name \in Antecedents(p[2]) : <<p[1], name, 0>> \in changed}

(* Mutant: a value in a set of several counts as taken. *)
incrState_first(cs, dir, out, own, from, l, S) ==
    [v |-> [p \in DOMAIN own.v |-> IF p \in out THEN step(cs, dir, p, from, l, {Min(S)}) ELSE own.v[p]],
     relax |-> from.relax \/ Cardinality(S) > 1]

(* incrState: only the properties of out are computed, the others are those   *)
(* the node has.  fullState computes all of them.                             *)
incrState(cs, dir, out, own, from, l, S) ==
    [v |-> [p \in DOMAIN own.v |-> IF p \in out THEN step(cs, dir, p, from, l, S) ELSE own.v[p]],
     relax |-> from.relax \/ Cardinality(S) > 1]

fullState(cs, dir, from, l, S) == incrState(cs, dir, Props(cs, dir), Zero(cs, dir), from, l, S)

(* The names whose values are merged by minimum and by maximum.               *)
MinFun == {"L", "lo", "minW"}
MaxFun == {"U", "hi", "single", "maxW", "seen"}

(* Mutant: what one of them has, the merged state has. *)
Merged_any(cs, p, states) ==
    LET vals == {s.v[p] : s \in states}
    IN CASE p[2] \in Sets -> UNION vals
         [] p[2] \in MinFun \cup MaxFun -> Max(vals)
         [] OTHER -> CHOOSE x \in vals : TRUE

(* How the values of a property are merged: by MinFun, MaxFun or a function   *)
(* of the constraint.  The weights of a cut are merged with its value, which  *)
(* takes what they lose.                                                      *)
Merged(cs, p, states) ==
    LET vals == {s.v[p] : s \in states}
        of(s, name) == s.v[<<p[1], name, 0>>]
        lost(s, i) == Absolute(of(s, "downWeights")[i]) - Absolute(nearest({of(t, "downWeights")[i] : t \in states}))
    IN CASE p[2] \in MinFun -> Min(vals)
         [] p[2] \in MaxFun -> Max(vals)
         [] p[2] = "lenUp" -> IF cs[p[1]].hasZ THEN Max(vals) ELSE Min(vals)
         [] p[2] = "all" -> {x \in Values : \A s \in vals : x \in s}
         [] p[2] \in Sets \ {"all"} -> UNION vals
         [] p[2] = "numInSome" -> Cardinality(UNION {of(s, "some") : s \in states})
         [] p[2] = "minWin" -> [k \in 1 .. cs[p[1]].width |-> Min({w[k] : w \in vals})]
         [] p[2] = "maxWin" -> [k \in 1 .. cs[p[1]].width |-> Max({w[k] : w \in vals})]
         [] p[2] = "downWeights" -> [i \in Vertices(cs[p[1]]) |-> nearest({w[i] : w \in vals})]
         [] p[2] = "maxDownValue" ->
               Max({s.v[p] + SumOf([i \in Vertices(cs[p[1]]) |-> lost(s, i)]) : s \in states})

(* The properties that a relaxation of out writes: that of "some" counts its  *)
(* values, and that of the count does nothing.                                *)
relaxed(out) ==
    {p \in out : p[2] # "numInSome"} \cup {<<p[1], "numInSome", 0>> : p \in {q \in out : q[2] = "some"}}

(* relaxation and relaxationIncr over what several neighbours contribute; a   *)
(* merge of different states is marked.  No neighbour at all leaves zeroes.   *)
relaxation(cs, dir, out, states) ==
    IF states = {} THEN Zero(cs, dir)
    ELSE LET one == CHOOSE s \in states : TRUE
         IN IF states = {one} THEN one
            ELSE [v |-> [p \in DOMAIN one.v |-> IF p \in relaxed(out) THEN Merged(cs, p, states) ELSE one.v[p]],
                  relax |-> TRUE]

diff(a, b) == {p \in DOMAIN a.v : a.v[p] # b.v[p]}

--------------------------------------------------------------------------------
(* exist: the arcExist of the constraints whose scope has the layer, for an   *)
(* arc with value v from a parent whose downward state is pd to a child whose *)
(* upward state is cu.                                                        *)
exist(cs, pd, cu, l, v, z) ==
    \A i \in DOMAIN cs :
        l \in cs[i].over => arcExist(cs[i], i, l, v, pd.v, cu.v, z)

(* consistent: the nodeExist of every constraint that has one.                *)
consistent(cs, d, u, z) == \A i \in DOMAIN cs : nodeExist(cs[i], i, d.v, u.v, z)

(* What reachedFixpoint makes of the bounds of z, constraint by constraint.   *)
Bounds(cs, i, d, z) == fixpointBounds(cs[i], i, d.v, z)

--------------------------------------------------------------------------------
(* A merged state covers an exact one when it is at least as permissive (for  *)
(* the properties only).  The value of a cut, whichever side the vertices to  *)
(* come take, is its value so far, half the sum of the absolute weights, and  *)
(* half of each weight with the sign of the side: the merged one is at least  *)
(* the exact one.  Nothing reads the counters "single".                       *)
covers(cs, merged, exact) ==
    \A p \in DOMAIN exact.v :
        LET m == merged.v[p]
            e == exact.v[p]
            weights(s, i) == s.v[<<p[1], "downWeights", 0>>][i]
            short(i) == Absolute(weights(exact, i)) - Absolute(weights(merged, i))
                            + Absolute(weights(exact, i) - weights(merged, i))
        IN CASE p[2] \in MinFun -> m <= e
             [] p[2] \in (MaxFun \ {"single"}) \cup {"numInSome"} -> m >= e
             [] p[2] \in {"lenUp", "single", "downWeights"} -> TRUE
             [] p[2] = "all" -> m \subseteq e
             [] p[2] \in Sets \ {"all"} -> e \subseteq m
             [] p[2] = "minWin" -> \A k \in DOMAIN e : m[k] <= e[k]
             [] p[2] = "maxWin" -> \A k \in DOMAIN e : m[k] >= e[k]
             [] p[2] = "maxDownValue" -> 2 * (m - e) >= SumOf([i \in Vertices(cs[p[1]]) |-> short(i)])

================================================================================
