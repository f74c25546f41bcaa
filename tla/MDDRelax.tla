-------------------------------- MODULE MDDRelax --------------------------------
(* MDDRelax (mdd.cpp, mddrelax.cpp, mddnode.cpp): a layered diagram of        *)
(* bounded width whose paths are the assignments still possible.  Its         *)
(* propagate() passes upwards and downwards over queues of nodes whose        *)
(* neighbours have changed, splits merged nodes, and removes the values that  *)
(* have no arc left.  MDDTrim cuts the arcs a domain has lost; a closure      *)
(* filters everything when the variable of a sum changes.                     *)
(*                                                                            *)
(* m = [nd, kid, inq, dom, z: trailed; q, cl, old, del, dD, dU, fresh, high,  *)
(* low, sched, hooked: not trailed; failed].  Handlers map an m to an m.      *)
(* A handler that fails is taken to have queued all that it would have.       *)
EXTENDS MDDSpecs, Sequences

CONSTANTS
    Width,          \* _width
    MaxIter,        \* _maxSplitIter
    Decisions,      \* bound: decisions of the search
    Programs        \* [cs, dom, z, others], see MCMDDRelax

ASSUME MDDRelaxAssumption == {Width, MaxIter, Decisions} \subseteq Nat /\ Width > 0

VARIABLES
    program,        \* the member of Programs that runs
    m,              \* the MDD, the domains and the solver's queue
    pc,             \* "rest", "failed", "loop" of fixpoint(), "refresh" inside
                    \* refreshAll, "up", "split", "node", "down" inside propagate
    at,             \* where the loops are: [iter, layer, todo, changed, others]
    saved,          \* what the open levels restore
    taken,          \* decisions so far
    wanted          \* the solutions that meet the decisions of this path (for
                    \* the properties only)

vars == <<program, m, pc, at, saved, taken, wanted>>

root == 1
sink == 2
Ids == 1 .. 3 + (N - 1) * Width     \* one more than the width lets live
Vars == 0 .. N - 1
RefreshJob == N     \* the closure on z, among the jobs 0 .. N - 1 of MDDTrim

cs == program.cs
Up == usesUp(cs)
Idle == [iter |-> 0, layer |-> 0, todo |-> {}, changed |-> FALSE, others |-> 0]

NoArcs == [v \in {} |-> 0]
Absent == [layer |-> -1, live |-> FALSE, down |-> Zero(cs, "down"), up |-> Zero(cs, "up"),
           pch |-> FALSE, cch |-> TRUE]

--------------------------------------------------------------------------------
(* The diagram: nodes by layer, arcs <<parent, value>>.                       *)
Live(r) == {n \in Ids : r.nd[n].live}
Layer(r, l) == {n \in Ids : r.nd[n].live /\ r.nd[n].layer = l}
Kids(r, n) == Range(r.kid[n])
Arcs(r) == UNION {{n} \X DOMAIN r.kid[n] : n \in Ids}
ChildOf(r, a) == r.kid[a[1]][a[2]]
In(r, n) == UNION {{<<p, v>> : v \in {u \in DOMAIN r.kid[p] : r.kid[p][u] = n}}
                   : p \in Layer(r, r.nd[n].layer - 1)}
Tails(arcs) == {a[1] : a \in arcs}
ChildrenOf(r, arcs) == {ChildOf(r, a) : a \in arcs}
Parents(r, n) == Tails(In(r, n))

Exists(r, a) ==
    exist(cs, r.nd[a[1]].down, r.nd[ChildOf(r, a)].up, r.nd[a[1]].layer, a[2], r.z)
Consistent(r, n) == consistent(cs, r.nd[n].down, r.nd[n].up, r.z)

Fail(r) == [r EXCEPT !.failed = TRUE]

(* MDDQueue::enQueue: the flag on the node says whether it is in already.     *)
enQueue(r, dir, S) ==
    LET new == S \ r.inq[dir]
    IN [r EXCEPT !.inq[dir] = @ \cup new, !.q[dir] = @ \cup new]

(* Mutant: the flag stays on every node. *)
Leave_flag(r, dir, S) == [r EXCEPT !.q[dir] = @ \ S]

(* leaveQueue leaves the flag on a node without arcs.                         *)
Leave(r, dir, S) ==
    [r EXCEPT !.q[dir] = @ \ S,
              !.inq[dir] = {n \in @ : n \in S => r.nd[n].live /\ r.kid[n] = NoArcs /\ In(r, n) = {}}]

clear(r, dir) == Leave(r, dir, r.q[dir])

(* unhook, unhookOutgoing, unhookIncoming, removeChild, removeParent: both    *)
(* ends remember that they changed.                                           *)
unhook(r, arcs) ==
    LET tails == Tails(arcs)
        heads == ChildrenOf(r, arcs)
    IN [r EXCEPT !.kid = [n \in Ids |-> Restrict(@[n], {v \in DOMAIN @[n] : <<n, v>> \notin arcs})],
                 !.nd = [n \in Ids |-> [@[n] EXCEPT !.cch = @ \/ n \in tails, !.pch = @ \/ n \in heads]]]

(* delState is recursive: it takes along the parents it leaves childless and  *)
(* the children it orphans.                                                   *)
RECURSIVE Doomed(_, _)
Doomed(r, S) ==
    LET more == {n \in Live(r) \ S : \/ Kids(r, n) # {} /\ Kids(r, n) \subseteq S
                                     \/ In(r, n) # {} /\ Parents(r, n) \subseteq S}
    IN IF more = {} THEN S ELSE Doomed(r, S \cup more)

delState(r, S) ==
    LET D == Doomed(r, S)
        arcs == {a \in Arcs(r) : a[1] \in D \/ ChildOf(r, a) \in D}
        told == enQueue(enQueue(unhook(r, arcs), "bwd", Tails(arcs) \ D), "fwd", ChildrenOf(r, arcs) \ D)
    IN IF S = {} THEN r
       ELSE [told EXCEPT !.nd = [n \in Ids |-> [@[n] EXCEPT !.live = @ /\ n \notin D]],
                         !.q = [d \in DOMAIN @ |-> @[d] \ D],
                         !.inq = [d \in DOMAIN @ |-> @[d] \ D],
                         !.failed = @ \/ \E l \in 0 .. N : Layer(r, l) \subseteq D]

--------------------------------------------------------------------------------
(* Domains and the solver's queue.  Once the propagators are hooked, a domain *)
(* that changes schedules its MDDTrim and the MDD, the MDD last; z schedules  *)
(* the closure.                                                               *)
Job(r, j) == IF \E k \in DOMAIN r.high : r.high[k] = j THEN r ELSE [r EXCEPT !.high = Append(@, j)]

Wake(r, i) ==
    IF ~r.hooked THEN r
    ELSE [Job(r, i) EXCEPT !.low = IF r.sched THEN @ ELSE @ + 1, !.sched = TRUE]

Remove(r, i, S) ==
    IF S \cap r.dom[i] = {} THEN r
    ELSE IF r.dom[i] \subseteq S THEN Fail(r)
    ELSE [Wake(r, i) EXCEPT !.dom[i] = @ \ S]

updateBounds(r, lo, hi) ==
    LET new == [min |-> Max({r.z.min, lo}), max |-> Min({r.z.max, hi})]
    IN IF new = r.z THEN r
       ELSE IF new.min > new.max THEN Fail(r)
       ELSE IF r.hooked THEN [Job(r, RefreshJob) EXCEPT !.z = new] ELSE [r EXCEPT !.z = new]

(* trimVariable: the values no arc of the layer carries.                      *)
trimVariable(r, i) ==
    Remove(r, i, {v \in r.dom[i] : \A n \in Layer(r, i) : v \notin DOMAIN r.kid[n]})

(* Mutant: the last layer is left out. *)
trimVariables_short(r) ==
    FoldSet(LAMBDA i, s : IF s.failed THEN s ELSE trimVariable(s, i), r, 0 .. N - 2)

trimVariables(r) ==
    FoldSet(LAMBDA i, s : IF s.failed THEN s ELSE trimVariable(s, i), r, Vars)

--------------------------------------------------------------------------------
(* Filtering the arcs on one side of a node whose state has changed.          *)
filterKids(r, n) ==
    LET arcs == {n} \X DOMAIN r.kid[n]
        bad == {a \in arcs : ~Exists(r, a)}
        cut == unhook(r, bad)
        told == enQueue(IF bad # {} /\ Up THEN enQueue(cut, "bwd", {n}) ELSE cut, "fwd", Kids(r, n))
        s == delState(told, {c \in ChildrenOf(r, bad) : In(told, c) = {}})
    IN IF ~r.nd[n].live \/ r.failed THEN r
       ELSE IF bad = arcs /\ r.nd[n].layer # N THEN delState(s, {n}) ELSE s

filterParents(r, n) ==
    LET arcs == In(r, n)
        bad == {a \in arcs : ~Exists(r, a)}
        cut == unhook(r, bad)
        told == enQueue(IF Up THEN enQueue(cut, "bwd", Tails(arcs)) ELSE cut,
                        "fwd", IF bad # {} THEN {n} ELSE {})
        s == delState(told, {p \in Tails(bad) : told.kid[p] = NoArcs})
    IN IF ~r.nd[n].live \/ r.failed THEN r
       ELSE IF bad = arcs /\ r.nd[n].layer # 0 THEN delState(s, {n}) ELSE s

(* Whether a node's state differs from a new one.  The hash word of a state   *)
(* is not restored with it, so that after a backtrack an equal state may be   *)
(* taken for a different one: the <<direction, node>> of old.                 *)
Differs(r, dir, n, new) ==
    IF r.nd[n][dir] # new THEN {TRUE} ELSE IF <<dir, n>> \in r.old THEN BOOLEAN ELSE {FALSE}

(* What a refresh computes: the new state, and which of the properties of out *)
(* differ from the old one.                                                   *)
Outcome(old, new, out) == [state |-> new, delta |-> out \cap diff(old, new)]

(* refreshNodeIncr and processNodeUp, without the comparison: the state that  *)
(* follows from the neighbours, all of it when arcs came or went, otherwise   *)
(* the properties that depend on what changed in them.                        *)
Refreshed(r, dir, n) ==
    LET own == r.nd[n]
        l == own.layer
        full == IF dir = "down" THEN own.pch ELSE own.cch
        near == IF dir = "down" THEN Parents(r, n) ELSE Kids(r, n)
        vals(k) == IF dir = "down" THEN {v \in DOMAIN r.kid[k] : r.kid[k][v] = n}
                   ELSE {v \in DOMAIN r.kid[n] : r.kid[n][v] = k}
        delta == IF dir = "down" THEN r.dD ELSE r.dU
        out == IF full THEN Props(cs, dir) ELSE outputSet(cs, dir, UNION {delta[k] : k \in near})
        from == IF full THEN Zero(cs, dir) ELSE own[dir]
        states == {incrState(cs, dir, out, from, r.nd[k][dir], IF dir = "down" THEN l - 1 ELSE l, vals(k))
                   : k \in near}
    IN Outcome(own[dir], relaxation(cs, dir, out, states),
               IF full THEN Props(cs, dir) ELSE IF near = {} THEN {} ELSE out)

(* One turn of computeUp, after the node has left the queue.                  *)
processUp(r, n, changed) ==
    LET new == Refreshed(r, "up", n)
        set == [r EXCEPT !.nd[n].up = new.state, !.dU[n] = @ \cup new.delta, !.old = @ \ {<<"up", n>>}]
    IN IF ~changed THEN r
       ELSE filterParents(IF Consistent(set, n) THEN set ELSE delState(set, {n}), n)

(* One turn of computeDown.                                                   *)
processDown(r, n, changed) ==
    LET new == Refreshed(r, "down", n)
        seen == [r EXCEPT !.nd[n].pch = FALSE]
        set == [seen EXCEPT !.nd[n].down = new.state, !.dD[n] = @ \cup new.delta,
                            !.old = @ \ {<<"down", n>>}]
    IN IF ~changed THEN seen
       ELSE filterKids(IF Consistent(set, n) THEN set ELSE delState(set, {n}), n)

--------------------------------------------------------------------------------
(* buildDiagram: one node for each layer, every arc between them; postUp.     *)
Chain(l) == CASE l = 0 -> root [] l = N -> sink [] OTHER -> l + 2

Built(p) ==
    LET state[l \in 0 .. N] == IF l = 0 THEN initState(p.cs, "down")
                               ELSE fullState(p.cs, "down", state[l - 1], l - 1, p.dom[l - 1])
        none == [d \in {"fwd", "bwd"} |-> {}]
    IN [nd |-> [n \in Ids |->
                  IF \E l \in 0 .. N : Chain(l) = n
                  THEN LET l == CHOOSE l \in 0 .. N : Chain(l) = n
                       IN [Absent EXCEPT !.layer = l, !.live = TRUE, !.down = state[l], !.pch = l > 0]
                  ELSE Absent],
        kid |-> [n \in Ids |-> IF \E l \in Vars : Chain(l) = n
                               THEN LET l == CHOOSE l \in Vars : Chain(l) = n
                                    IN [v \in p.dom[l] |-> Chain(l + 1)]
                               ELSE NoArcs],
        inq |-> none, q |-> none, old |-> {}, del |-> {}, dom |-> p.dom, z |-> p.z,
        dD |-> [n \in Ids |-> {}], dU |-> [n \in Ids |-> {}],
        cl |-> [fwd |-> 0, bwd |-> N], fresh |-> FALSE, high |-> <<>>, low |-> 0, sched |-> TRUE, hooked |-> FALSE,
        failed |-> FALSE]

postUp(r) ==
    LET done[l \in 0 .. N] ==
            IF l = N THEN r
            ELSE LET n == Chain(l)
                     s == done[l + 1]
                 IN IF s.failed THEN s
                    ELSE processUp(s, n, s.nd[n].up # Refreshed(s, "up", n).state)
    IN IF Up THEN done[0] ELSE r

(* Mutant: the queues go on where they were. *)
Round_on(r) == [r EXCEPT !.dD = [n \in Ids |-> {}], !.dU = [n \in Ids |-> {}]]

(* The start of a round of propagate(): init() of both queues, clear() of     *)
(* both MDDDelta.                                                             *)
Round(r) == [r EXCEPT !.cl = [fwd |-> 0, bwd |-> N],
                      !.dD = [n \in Ids |-> {}], !.dU = [n \in Ids |-> {}]]

(* MDD::propagate: the nodes scheduled for removal.                           *)
Begin(r) == Round(delState([r EXCEPT !.del = {}, !.sched = TRUE], r.del \cap Live(r)))

Solutions(p) == {a \in [Vars -> Values] : /\ \A l \in Vars : a[l] \in p.dom[l]
                                          /\ \A c \in Range(p.cs) :
                                                IF c.hasZ THEN Total(c, a) \in p.z.min .. p.z.max
                                                ELSE holds(c, a, p.z)}

(* What a backtrack brings back.  The states that differ from the saved ones  *)
(* keep the hash of what they were.                                           *)
Restored(r) ==
    LET top == saved[Len(saved)]
        stale == {<<d, n>> \in Directions \X Ids : r.nd[n][d] # top.nd[n][d]}
    IN [r EXCEPT !.nd = top.nd, !.kid = top.kid, !.inq = top.inq, !.dom = top.dom, !.z = top.z,
                 !.old = @ \cup stale]

(* failNow: fixpoint() drains its queue.  Nothing looks at the trailed part   *)
(* before the backtrack.                                                      *)
Failed(r) ==
    LET s == Round([r EXCEPT !.failed = FALSE, !.high = <<>>, !.low = 0, !.sched = FALSE])
    IN IF saved = <<>> THEN s ELSE Restored(s)

(* Mutant: a failure does not stop the propagation. *)
Go_on(r, where, next) == m' = r /\ pc' = where /\ at' = next

Go(r, where, next) ==
    /\ m' = IF r.failed THEN Failed(r) ELSE r
    /\ pc' = IF r.failed THEN "failed" ELSE where
    /\ at' = IF r.failed THEN Idle ELSE next

Init == /\ program \in Programs
        /\ saved = <<>>
        /\ LET r == postUp(Built(program))
           IN /\ m = Round(IF r.failed THEN Failed(r) ELSE r)
              /\ pc = IF r.failed THEN "failed" ELSE "up"
        /\ at = [Idle EXCEPT !.iter = 1]
        /\ taken = 0
        /\ wanted = Solutions(program)

--------------------------------------------------------------------------------
(* fixpoint(): the two kinds of jobs with high priority, then the MDD.        *)
FirstTrim(r) == IF r.fresh THEN [clear(clear(r, "fwd"), "bwd") EXCEPT !.del = {}, !.fresh = FALSE] ELSE r

(* Mutant: the children are not told. *)
trimLayer_silent(r0, i) ==
    LET r == FirstTrim(r0)
        cut == {a \in Arcs(r) : a[1] \in Layer(r, i) /\ a[2] \notin r.dom[i]}
        s == unhook(r, cut)
        gone == {n \in Tails(cut) : s.kid[n] = NoArcs} \cup {n \in ChildrenOf(r, cut) : In(s, n) = {}}
    IN [s EXCEPT !.del = @ \cup gone, !.failed = {root, sink} \cap gone # {}]

trimLayer(r0, i) ==
    LET r == FirstTrim(r0)
        cut == {a \in Arcs(r) : a[1] \in Layer(r, i) /\ a[2] \notin r.dom[i]}
        s == unhook(r, cut)
        told == enQueue(IF Up THEN enQueue(s, "bwd", Tails(cut)) ELSE s, "fwd", ChildrenOf(r, cut))
        gone == {n \in Tails(cut) : s.kid[n] = NoArcs} \cup {n \in ChildrenOf(r, cut) : In(s, n) = {}}
    IN [told EXCEPT !.del = @ \cup gone, !.failed = {root, sink} \cap gone # {}]

Trim ==
    /\ pc = "loop" /\ m.high # <<>> /\ Head(m.high) # RefreshJob
    /\ Go(trimLayer([m EXCEPT !.high = Tail(@)], Head(m.high)), "loop", at)
    /\ UNCHANGED <<program, saved, taken, wanted>>

Refresh ==
    /\ pc = "loop" /\ m.high # <<>> /\ Head(m.high) = RefreshJob
    /\ Go(clear(clear([m EXCEPT !.high = Tail(@)], "fwd"), "bwd"), "refresh",
          [at EXCEPT !.layer = 0, !.changed = FALSE])
    /\ UNCHANGED <<program, saved, taken, wanted>>

(* The loop over the vector of a layer: when the node at position k goes, the *)
(* last one takes its place and k moves on all the same.                      *)
RECURSIVE Visit(_, _, _)
Visit(r, layer, k) ==
    IF k > Len(layer) \/ r.failed THEN r
    ELSE LET n == layer[k]
             s == IF Consistent(r, n) THEN filterKids(r, n) ELSE delState(r, {n})
             rest == [layer EXCEPT ![k] = layer[Len(layer)]]
         IN Visit(s, IF s.nd[n].live THEN layer ELSE SubSeq(rest, 1, Len(rest) - 1), k + 1)

Orders(S) == {o \in [1 .. Cardinality(S) -> S] : Range(o) = S}

RefreshLayer ==
    /\ pc = "refresh" /\ at.layer < N
    /\ \E o \in Orders(Layer(m, at.layer)) :
          LET r == Visit(m, o, 1)
          IN Go(r, "refresh", [at EXCEPT !.layer = @ + 1, !.changed = @ \/ r.kid # m.kid])
    /\ UNCHANGED <<program, saved, taken, wanted>>

RefreshEnds ==
    /\ pc = "refresh" /\ at.layer = N
    /\ IF at.changed THEN Go(Begin(m), "up", [at EXCEPT !.iter = 1]) ELSE Go(m, "loop", at)
    /\ UNCHANGED <<program, saved, taken, wanted>>

Start ==
    /\ pc = "loop" /\ m.high = <<>> /\ m.low > 0
    /\ Go(Begin([m EXCEPT !.low = @ - 1]), "up", [at EXCEPT !.iter = 1])
    /\ UNCHANGED <<program, saved, taken, wanted>>

Ends ==
    /\ pc = "loop" /\ m.high = <<>> /\ m.low = 0
    /\ Go(m, "rest", [Idle EXCEPT !.others = at.others])
    /\ UNCHANGED <<program, saved, taken, wanted>>

--------------------------------------------------------------------------------
(* propagate(): computeUp, from the deepest layer of the queue.               *)
UpNode(n) ==
    /\ pc = "up" /\ Up /\ n \in m.q.bwd
    /\ \A k \in m.q.bwd : m.nd[k].layer <= m.nd[n].layer
    /\ LET r == [Leave(m, "bwd", {n}) EXCEPT !.cl.bwd = m.nd[n].layer]
       IN \E changed \in Differs(r, "up", n, Refreshed(r, "up", n).state) :
             Go(processUp(r, n, changed), "up", at)
    /\ UNCHANGED <<program, saved, taken, wanted>>

UpEnds ==
    /\ pc = "up" /\ (Up => m.q.bwd = {})
    /\ Go(clear(m, "bwd"), IF at.iter <= MaxIter THEN "split" ELSE "down", [at EXCEPT !.layer = 1])
    /\ UNCHANGED <<program, saved, taken, wanted>>

(* Mutant: one node too many. *)
Room_over(r, l) == 1 + Width - Cardinality(Layer(r, l))

(* The nodes a layer can still take.                                          *)
Room(r, l) == Width - Cardinality(Layer(r, l))

(* splitLayers, layer by layer: MDDNodeSim lists the nodes worth splitting.   *)
SplitLayer ==
    /\ pc = "split" /\ at.layer < N
    /\ LET l == at.layer
           r == trimVariable(m, l - 1)
           room == Cardinality(r.dom[l - 1]) > 1 /\ Room(r, l) > 0
       IN IF room
          THEN Go(r, "node", [at EXCEPT !.todo = {n \in Layer(r, l) : /\ r.nd[n].down.relax
                                                                      /\ Cardinality(In(r, n)) > 1}])
          ELSE Go(r, "split", [at EXCEPT !.layer = @ + 1])
    /\ UNCHANGED <<program, saved, taken, wanted>>

(* A new node: the copy of n for the arcs whose step is s, with the arcs of n *)
(* that can still exist.  Nodes of the pool come first.                       *)
Pool(r) == {k \in Ids : ~r.nd[k].live /\ r.nd[k].layer # -1}
makeNode(r, n, s, arcs) ==
    LET new == Min(IF Pool(r) # {} THEN Pool(r) ELSE {k \in Ids : ~r.nd[k].live})
        l == r.nd[n].layer
        keep == {v \in DOMAIN r.kid[n] : exist(cs, s, r.nd[r.kid[n][v]].up, l, v, r.z)}
        kids == {r.kid[n][v] : v \in keep}
        made == [r EXCEPT !.nd = [k \in Ids |->
                            IF k = new THEN [@[k] EXCEPT !.layer = l, !.live = TRUE, !.down = s,
                                                         !.up = r.nd[n].up, !.pch = TRUE,
                                                         !.cch = @ \/ keep # {}]
                            ELSE [@[k] EXCEPT !.pch = @ \/ k \in kids \cup {n}]],
                          !.kid = [k \in Ids |-> IF k = new THEN Restrict(r.kid[n], keep)
                                                 ELSE [v \in DOMAIN @[k] |-> IF <<k, v>> \in arcs THEN new
                                                                             ELSE @[k][v]]],
                          !.old = @ \ {<<d, new>> : d \in Directions}]
    IN enQueue(IF Up THEN enQueue(made, "bwd", {new}) ELSE made, "fwd", kids)

(* splitNode and MDDSplitter::process: an arc whose step is the state of      *)
(* another node moves there; the others make up candidates, one for each      *)
(* state, as many of which become nodes as the width leaves room for.         *)
SplitNode(n) ==
    /\ pc = "node" /\ n \in at.todo /\ Room(m, at.layer) > 0
    /\ LET l == at.layer
           arcs == In(m, n)
           to(a) == fullState(cs, "down", m.nd[a[1]].down, l - 1, {a[2]})
           same(a) == {k \in Layer(m, l) : m.nd[k].down = to(a)}
           sure(a) == {k \in same(a) : <<"down", k>> \notin m.old}
           next == [at EXCEPT !.todo = @ \ {n}]
       IN \E match \in [arcs -> Layer(m, l)] :
             /\ \A a \in arcs : /\ match[a] \in same(a) \cup {n}
                                /\ match[a] = n => n \in same(a) \/ sure(a) = {}
             /\ LET moving == {a \in arcs : match[a] # n}
                    r == enQueue([m EXCEPT
                            !.nd = [k \in Ids |-> [@[k] EXCEPT !.pch = @ \/ \E a \in moving : k \in {n, match[a]}]],
                            !.kid = [k \in Ids |-> [v \in DOMAIN @[k] |->
                                        IF <<k, v>> \in moving THEN match[<<k, v>>] ELSE @[k][v]]]],
                          "fwd", {n})
                    states == {to(a) : a \in arcs \ moving}
                IN IF Cardinality(states) <= 1 THEN Go(r, "node", next)
                   ELSE \E chosen \in kSubset(Min({Room(m, l), Cardinality(states)}), states) :
                          LET s == FoldSet(LAMBDA st, acc :
                                        makeNode(acc, n, st, {a \in arcs \ moving : to(a) = st}), r, chosen)
                          IN Go(IF In(s, n) = {} THEN delState(s, {n}) ELSE s, "node", next)
    /\ UNCHANGED <<program, saved, taken, wanted>>

SplitLayerEnds ==
    /\ pc = "node" /\ (at.todo = {} \/ Room(m, at.layer) <= 0)
    /\ Go(m, "split", [at EXCEPT !.layer = @ + 1, !.todo = {}])
    /\ UNCHANGED <<program, saved, taken, wanted>>

SplitEnds ==
    /\ pc = "split" /\ at.layer = N
    /\ Go(m, "down", at)
    /\ UNCHANGED <<program, saved, taken, wanted>>

(* computeDown, from the first layer of the queue.                            *)
DownNode(n) ==
    /\ pc = "down" /\ n \in m.q.fwd
    /\ \A k \in m.q.fwd : m.nd[k].layer >= m.nd[n].layer
    /\ LET r == [Leave(m, "fwd", {n}) EXCEPT !.cl.fwd = m.nd[n].layer]
       IN IF In(r, n) = {} \/ (n # sink /\ r.kid[n] = NoArcs)
          THEN Go(delState(r, {n}), "down", at)
          ELSE \E changed \in Differs(r, "down", n, Refreshed(r, "down", n).state) :
                  Go(processDown(r, n, changed), "down", at)
    /\ UNCHANGED <<program, saved, taken, wanted>>

(* Mutant: never reset. *)
Again_sticky(r) == r.q.bwd # {} \/ at.iter > 1

(* change, the condition of the loop.                                         *)
Again(r) == r.q.bwd # {}

(* The end of a round: another one, or reachedFixpoint and the return.        *)
DownEnds ==
    /\ pc = "down" /\ m.q.fwd = {}
    /\ LET r == IF Up THEN m ELSE clear(m, "bwd")
           t == trimVariables(r)
           bounded == FoldSet(LAMBDA i, acc :
                                LET b == Bounds(cs, i, m.nd[sink].down, acc.z) IN updateBounds(acc, b.min, b.max),
                              t, {i \in DOMAIN cs : cs[i].hasZ})
       IN IF Again(r)
          THEN Go(Round(t), "up", [at EXCEPT !.iter = Min({@ + 1, MaxIter + 1})])
          ELSE Go([Round(IF t.failed THEN t ELSE bounded) EXCEPT !.sched = FALSE, !.hooked = TRUE], "loop", at)
    /\ UNCHANGED <<program, saved, taken, wanted>>

--------------------------------------------------------------------------------
(* The search: a decision opens a level and runs the fixpoint.  A new level   *)
(* makes _firstTime fresh, and no list of children changed yet.               *)
Opened == [m EXCEPT !.fresh = TRUE,
                    !.nd = [n \in Ids |-> [@[n] EXCEPT !.cch = @ /\ m.nd[n].layer = -1]]]

Decide(r, meets) ==
    /\ taken < Decisions /\ taken' = taken + 1
    /\ saved' = Append(saved, [nd |-> m.nd, kid |-> m.kid, inq |-> m.inq, dom |-> m.dom, z |-> m.z,
                               wanted |-> wanted])
    /\ wanted' = meets
    /\ m' = r /\ pc' = "loop" /\ at' = Idle
    /\ UNCHANGED program

Equal(i, v) ==
    /\ pc = "rest" /\ v \in m.dom[i] /\ m.dom[i] # {v}
    /\ Decide(Remove(Opened, i, m.dom[i] \ {v}), {a \in wanted : a[i] = v})

NotEqual(i, v) ==
    /\ pc = "rest" /\ v \in m.dom[i] /\ m.dom[i] # {v}
    /\ Decide(Remove(Opened, i, {v}), {a \in wanted : a[i] # v})

Bounded(lo, hi) ==
    /\ pc = "rest" /\ lo \in m.z.min .. hi /\ hi <= m.z.max /\ <<lo, hi>> # <<m.z.min, m.z.max>>
    /\ Decide(updateBounds(Opened, lo, hi),
              {a \in wanted : \A c \in Range(cs) : c.hasZ => Total(c, a) \in lo .. hi})

(* Another propagator of the same fixpoint removes a value, or fails.         *)
Infer(i, v) ==
    /\ pc = "loop" /\ program.others /\ saved # <<>> /\ at.others = 0
    /\ v \in m.dom[i] /\ m.dom[i] # {v}
    /\ m' = Remove(m, i, {v})
    /\ wanted' = {a \in wanted : a[i] # v}
    /\ at' = [at EXCEPT !.others = 1]
    /\ UNCHANGED <<program, pc, saved, taken>>

OtherFails ==
    /\ pc = "loop" /\ program.others /\ saved # <<>>
    /\ Go(Fail(m), "failed", at)
    /\ wanted' = {}
    /\ UNCHANGED <<program, saved, taken>>

Backtrack ==
    /\ pc \in {"rest", "failed"} /\ saved # <<>> /\ taken < Decisions
    /\ m' = Restored(m)
    /\ wanted' = saved[Len(saved)].wanted
    /\ saved' = SubSeq(saved, 1, Len(saved) - 1)
    /\ pc' = "rest" /\ at' = Idle
    /\ UNCHANGED <<program, taken>>

Propagate == \/ Trim \/ Refresh \/ RefreshLayer \/ RefreshEnds \/ Start \/ Ends
             \/ (\E n \in Ids : UpNode(n)) \/ UpEnds
             \/ SplitLayer \/ (\E n \in Ids : SplitNode(n)) \/ SplitLayerEnds \/ SplitEnds
             \/ (\E n \in Ids : DownNode(n)) \/ DownEnds

Next == \/ Propagate
        \/ (\E i \in Vars, v \in Values : Equal(i, v) \/ NotEqual(i, v) \/ Infer(i, v))
        \/ (\E lo, hi \in program.z.min .. program.z.max : Bounded(lo, hi))
        \/ OtherFails
        \/ Backtrack

(* The propagation runs in one thread, to its end: WF_vars(Propagate), with   *)
(* Busy for its ENABLED, which TLC cannot evaluate in time.                   *)
Busy == pc \notin {"rest", "failed"}
Spec == Init /\ [][Next]_vars /\ ([]<>~Busy \/ []<><<Propagate>>_vars)

--------------------------------------------------------------------------------
NodeOk(n) == LET r == m.nd[n]
             IN /\ r.layer \in -1 .. N /\ {r.live, r.pch, r.cch} \subseteq BOOLEAN
                /\ DOMAIN m.kid[n] \subseteq Values /\ Kids(m, n) \subseteq Ids

(* The type invariant of the diagram, the domains and the queues.             *)
TypeOK ==
    /\ \A n \in Ids : NodeOk(n)
    /\ \A i \in Vars : m.dom[i] # {} /\ m.dom[i] \subseteq program.dom[i]
    /\ m.z.min \in program.z.min .. m.z.max /\ m.z.max <= program.z.max
    /\ Range(m.high) \subseteq 0 .. RefreshJob /\ m.low \in Nat /\ ~m.failed
    /\ Len(saved) <= taken /\ taken <= Decisions

(* The node an assignment leads to at a layer, 0 when an arc is missing.      *)
PathNode(a) ==
    LET node[l \in 0 .. N] ==
            IF l = 0 THEN root
            ELSE LET p == node[l - 1]
                 IN IF p # 0 /\ a[l - 1] \in DOMAIN m.kid[p] THEN m.kid[p][a[l - 1]] ELSE 0
    IN node

(* No propagation removes a solution: each one that meets the decisions has   *)
(* its values in the domains, its total between the bounds of z and its path  *)
(* in the diagram, whatever was merged, split, deleted or undone.             *)
NoSolutionLost ==
    IF pc = "failed" THEN wanted = {}
    ELSE \A a \in wanted :
            /\ \A i \in Vars : a[i] \in m.dom[i]
            /\ \A c \in Range(cs) : c.hasZ => Total(c, a) \in m.z.min .. m.z.max
            /\ PathNode(a)[N] = sink

(* The state of every node on the path of a solution is at least as           *)
(* permissive as the exact state of its prefix, or of its suffix: what        *)
(* relaxation promises, kept by the incremental refreshes.                    *)
StatesCover ==
    pc # "failed" => \A a \in wanted :
        LET path == PathNode(a)
            prefix[l \in 0 .. N] == IF l = 0 THEN initState(cs, "down")
                                    ELSE fullState(cs, "down", prefix[l - 1], l - 1, {a[l - 1]})
            suffix[l \in 0 .. N] == IF l = N THEN initState(cs, "up")
                                    ELSE fullState(cs, "up", suffix[l + 1], l, {a[l]})
        IN \A l \in {k \in 0 .. N : path[k] # 0} :
                              /\ covers(cs, m.nd[path[l]].down, prefix[l])
                              /\ Up => covers(cs, m.nd[path[l]].up, suffix[l])

(* When the fixpoint is reached with every variable bound, the assignment is  *)
(* a solution: the search has nothing else that checks it.                    *)
LeavesExact ==
    pc = "rest" /\ (\A i \in Vars : Cardinality(m.dom[i]) = 1)
        => LET a == [i \in Vars |-> CHOOSE v \in m.dom[i] : TRUE]
           IN \A c \in Range(cs) : holds(c, a, m.z)

(* Every value left in a domain has an arc, and every arc a value.            *)
Supported == \A i \in Vars : m.dom[i] = UNION {DOMAIN m.kid[n] : n \in Layer(m, i)}

(* The width is never exceeded; at rest no node is without parents and every  *)
(* domain is what the arcs of its layer carry (mddrelax.cpp:911-985,          *)
(* 1012-1055).                                                                *)
Shape ==
    /\ TypeOK
    /\ pc # "failed" => \A l \in 0 .. N : Cardinality(Layer(m, l)) \in 1 .. Width
    /\ pc = "rest" => Supported /\ \A n \in Live(m) \ {root} : In(m, n) # {}

(* The bucket that deQueue looks at has never passed a node still queued: it  *)
(* would answer nullptr and computeUp and computeDown use what it answers.    *)
CursorBehind ==
    /\ pc = "up" /\ Up => \A n \in m.q.bwd : m.nd[n].layer <= m.cl.bwd
    /\ pc = "down" => \A n \in m.q.fwd : m.nd[n].layer >= m.cl.fwd

(* A node of the diagram that says it is queued is: otherwise it is never     *)
(* visited again.  (Not so with a variable z: refreshAll leaves nodes queued  *)
(* and flagged at rest, and the queue does not come back with the flags.)     *)
FlaggedIsQueued ==
    pc \notin {"rest", "failed"} /\ (\A c \in Range(cs) : ~c.hasZ) =>
        \A d \in {"fwd", "bwd"} : m.inq[d] \cap Live(m) \subseteq m.q[d]

(* Every node that has work to do will be taken from its queue.               *)
QueuesMatch == CursorBehind /\ FlaggedIsQueued

(* Every call of propagate() ends.                                            *)
Terminates == Busy ~> ~Busy

================================================================================
