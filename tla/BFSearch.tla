-------------------------------- MODULE BFSearch --------------------------------
(* BFSearch (search.hpp:143-190, search.cpp:146-291): best-first search over  *)
(* whatever tree the branching unfolds.  The frontier holds checkpoints; the  *)
(* state moves from one to another through the Tracer, closing the levels     *)
(* they do not share and posting again the constraints of the others.         *)
EXTENDS Tracer

CONSTANTS
    MaxBranches, MaxDepth,  \* bounds: alternatives of a node, depth of the tree
    MaxPosts,               \* bound: constraints an alternative posts
    Inferring,              \* depths at which _branching() may post
    Costs,                  \* values of the objective, 0 among them
    NoPrimal,               \* _primal before the first solution, above them
    FirstNodes,             \* what _lastNodeID may happen to hold, see below
    Runs,                   \* bound: calls of solve()
    Objectives,             \* whether there is an objective, TRUE or FALSE
    Limits                  \* whether the limit may be reached

(* No constructor sets _lastNodeID (tracer.cpp:19-25), so it may hold any     *)
(* unsigned number.  It counts modulo 2^32 and is only compared: a negative   *)
(* number stands for one from which it wraps.                                 *)
ASSUME BFSearchAssumption == /\ MaxBranches \in Nat \ {0} /\ MaxDepth \in Nat
                             /\ MaxPosts \in Nat \ {0} /\ Inferring \subseteq Nat
                             /\ PoolSize \in Nat /\ Runs \in Nat \ {0}
                             /\ Costs \subseteq Nat /\ 0 \in Costs /\ NoPrimal \in Nat
                             /\ (\A c \in Costs : c < NoPrimal) /\ FirstNodes \subseteq Int
                             /\ Objectives \subseteq BOOLEAN /\ Limits \subseteq BOOLEAN

VARIABLES
    pc,             \* where bfs() is
    t,              \* the CPSemSolver with its Tracer
    root, before,   \* _rootCheckpoint and _before, as paths of lists
    frontier,       \* _frontier: [path, value, depth, at]
    node,           \* the BFSNode taken from it last; <<>> or one element
    target,         \* the restore under way: [path, depth, then]
    turn,           \* the loop over the alternatives: [cur, total, posted]
    lvl,            \* the level withNewState will close
    objective, limited, over, primal, dual,
    stats,          \* SearchStatistics
    runs,
    here, effect, expanded, refuted     \* for the properties only: the node of
                    \* the tree being explored; the constraints in force at each
                    \* node that was generated; the nodes branched on, in order;
                    \* those a restore failed to reach

search == <<root, before, frontier, node, turn, lvl>>
options == <<objective, limited>>
bounds == <<primal, dual>>
ghosts == <<here, effect, expanded, refuted>>
vars == <<pc, t, search, target, options, over, bounds, stats, runs, ghosts>>

NoTarget == [path |-> <<>>, depth |-> 0, then |-> "none"]
NoTurn == [cur |-> 1, total |-> 0, posted |-> 0]
NoStats == [nodes |-> 0, solutions |-> 0, failures |-> 0, completed |-> TRUE]

Init == /\ pc = "idle" /\ \E id \in FirstNodes : t = NewTracer(id)
        /\ root = <<>> /\ before = <<>> /\ frontier = {} /\ node = <<>>
        /\ target = NoTarget /\ turn = NoTurn /\ lvl = 0
        /\ objective \in Objectives /\ limited \in Limits /\ over = FALSE
        /\ primal = NoPrimal /\ dual = 0
        /\ stats = NoStats /\ runs = 0
        /\ here = <<>> /\ effect = << >> /\ expanded = <<>> /\ refuted = {}

--------------------------------------------------------------------------------
(* A constraint says where it was posted and how high it drives the lower     *)
(* bound of the objective; the hook of the objective rejects a bound that is  *)
(* not below _primal (Propagation.tla).                                       *)
value(store) == Max({0} \cup {c.low : c \in store})

(* Mutant: as good will do. *)
betterThanPrimal_equal(v) == ~objective \/ v <= primal

(* Mutant: better by two. *)
betterThanPrimal_slack(v) == ~objective \/ v + 1 < primal

betterThanPrimal(v) == ~objective \/ v < primal

(* What the post of a constraint may come to: without an objective replaying  *)
(* what succeeded before succeeds again; with one it fails if the bound is    *)
(* not good enough, and may if there is one to fall short of.                 *)
MayPass(store) == betterThanPrimal(value(store))
MayFail == objective /\ primal # NoPrimal

Parent(p) == Front(p)
Recall(at) == effect[at]
Record(at, store) == [p \in DOMAIN effect \cup {at} |-> IF p = at THEN store ELSE effect[p]]

(* The paths that keep a list alive.                                          *)
Checkpoints == {root, before, target.path} \cup {n.path : n \in frontier}

--------------------------------------------------------------------------------
(* solve(): startSearch captures the root checkpoint, restores it at once,    *)
(* and withNewState opens a level around bfs().                               *)
Solve == /\ pc \in {"idle", "done"} /\ runs < Runs
         /\ LET captured == captureCheckpoint(t)
                s == Unwind(captured, sharedPrefixSize(captured, t.stack))
                opened == PushOwn([Release(s, root) EXCEPT !.level = t.level])
            IN /\ t' = opened
               /\ lvl' = opened.pushes
         /\ root' = t.stack
         /\ runs' = runs + 1
         /\ stats' = NoStats /\ over' = FALSE
         /\ here' = <<>> /\ effect' = [p \in {<<>>} |-> t.store]
         /\ expanded' = <<>> /\ refuted' = {}
         /\ pc' = "branching"
         /\ UNCHANGED <<before, frontier, node, target, turn, options, bounds>>

(* _branching() may itself post what it has inferred.                         *)
Infer == /\ pc = "branching"
         /\ Len(here) \in Inferring /\ \A c \in t.store : c.at # here \/ c.k # 0
         /\ t' = post(t, [at |-> here, k |-> 0, low |-> value(t.store)])
         /\ effect' = [effect EXCEPT ![here] = t'.store]
         /\ UNCHANGED <<pc, search, target, options, over, bounds, stats, runs, here, expanded,
                        refuted>>

(* No branches: a solution; tighten() fails inside the TRYFAIL around it.     *)
(* The objective need not be bound: _primal becomes the largest value it has  *)
(* left (constraint.cpp:292-297), which the hook keeps under the last one.    *)
Leaf == /\ pc = "branching"
        /\ stats' = [stats EXCEPT !.solutions = @ + 1]
        /\ LET least == value(t.store)
           IN primal' \in IF objective THEN {c \in Costs : c = least \/ (least < c /\ c < primal)}
                          ELSE {primal}
        /\ expanded' = Append(expanded, here)
        /\ pc' = "check"
        /\ UNCHANGED <<t, search, target, options, over, dual, runs, here, effect, refuted>>

Branch(n) == /\ pc = "branching" /\ Len(here) < MaxDepth
             /\ turn' = [NoTurn EXCEPT !.total = n]
             /\ expanded' = Append(expanded, here)
             /\ pc' = "loop"
             /\ UNCHANGED <<t, root, before, frontier, node, lvl, target, options, over, bounds,
                            stats, runs, here, effect, refuted>>

(* A turn of the loop: the checkpoint to come back to, then the alternative.  *)
Enter == /\ pc = "loop" /\ ~over /\ turn.cur <= turn.total
         /\ t' = Release(captureCheckpoint(t), before)
         /\ before' = t.stack
         /\ target' = [path |-> t.stack, depth |-> t.level, then |-> "loop"]
         /\ turn' = [turn EXCEPT !.posted = 0]
         /\ stats' = IF turn.cur < turn.total THEN [stats EXCEPT !.nodes = @ + 1] ELSE stats
         /\ pc' = "alt"
         /\ UNCHANGED <<root, frontier, node, lvl, options, over, bounds, runs, ghosts>>

Child == Append(here, turn.cur)

Post(low) == LET c == [at |-> Child, k |-> turn.posted + 1, low |-> low]
             IN /\ pc = "alt" /\ turn.posted < MaxPosts /\ value(t.store) <= low
                /\ t' = post(t, c)
                /\ turn' = [turn EXCEPT !.posted = @ + 1]
                /\ pc' \in {"fail"} \cup (IF MayPass(t'.store) THEN {"alt"} ELSE {})
                /\ UNCHANGED <<root, before, frontier, node, lvl, target, options, over, bounds,
                               stats, runs, ghosts>>

(* Mutant: only the level of the alternative is closed. *)
Return_one(s) == /\ t' = Unwind(s, Len(s.stack) - 1)
                 /\ pc' = "restoring"

(* Mutant: one level too many is closed. *)
Return_all(s) == /\ t' = Unwind(s, sharedPrefixSize(s, before) - 1)
                 /\ pc' = "restoring"

(* The restore of _before after the alternative, whichever way it ended.      *)
Return(s) == /\ t' = Unwind(s, sharedPrefixSize(s, before))
             /\ pc' = "restoring"

(* The alternative succeeded: what it reached is captured for later.          *)
Keep == /\ pc = "alt" /\ turn.posted > 0
        /\ frontier' = frontier \cup
              {[path |-> t.stack, depth |-> t.level + 1, at |-> Child,
                value |-> IF objective THEN value(t.store) ELSE 0]}
        /\ effect' = Record(Child, t.store)
        /\ Return(captureCheckpoint(t))
        /\ UNCHANGED <<root, before, node, lvl, target, turn, options, over, bounds, stats, runs,
                       here, expanded, refuted>>

(* It failed or threw: ONFAIL and catch(...) do the same.                     *)
Fail == /\ pc = "fail"
        /\ stats' = [stats EXCEPT !.failures = @ + 1]
        /\ Return(t)
        /\ UNCHANGED <<search, target, options, over, bounds, runs, ghosts>>

ReachLimit == /\ limited /\ ~over /\ pc \in {"loop", "alt", "check"}
              /\ over' = TRUE
              /\ UNCHANGED <<pc, t, search, target, options, bounds, stats, runs, ghosts>>

Leave == /\ pc = "loop" /\ (over \/ turn.cur > turn.total)
         /\ turn' = NoTurn
         /\ pc' = "check"
         /\ UNCHANGED <<t, root, before, frontier, node, lvl, target, options, over, bounds, stats,
                        runs, ghosts>>

--------------------------------------------------------------------------------
(* restoreCheckpoint, one list of the path at a time.                         *)
Restoring == pc = "restoring" /\ Len(t.stack) < Len(target.path)

ReplayList == /\ Restoring
              /\ LET s == Replay(t, target.path)
                 IN /\ MayPass(s.store) \/ Commands(t, target.path) = <<>>
                    /\ t' = s
              /\ UNCHANGED <<pc, search, target, options, over, bounds, stats, runs, ghosts>>

(* A failure gives up the restore where it is; bfs() takes another node, and  *)
(* after an alternative it does not look at the answer.                       *)
FailRestore == /\ Restoring /\ MayFail /\ Commands(t, target.path) # <<>>
               /\ t' = Abandon(Replay(t, target.path))
               /\ IF target.then = "loop"
                  THEN /\ pc' = "loop" /\ turn' = [turn EXCEPT !.cur = @ + 1]
                       /\ UNCHANGED refuted
                  ELSE /\ pc' = "pick" /\ refuted' = refuted \cup {here}
                       /\ UNCHANGED turn
               /\ target' = NoTarget
               /\ UNCHANGED <<root, before, frontier, node, lvl, options, over, bounds, stats,
                              runs, here, effect, expanded>>

(* The loop goes on, or the node goes out of scope and is branched on.        *)
EndRestore == /\ pc = "restoring" /\ Len(t.stack) >= Len(target.path)
              /\ IF target.then = "loop"
                 THEN /\ turn' = [turn EXCEPT !.cur = @ + 1]
                      /\ t' = [t EXCEPT !.level = target.depth]
                      /\ UNCHANGED node
                 ELSE /\ t' = [Release(t, node) EXCEPT !.level = target.depth]
                      /\ node' = <<>>
                      /\ UNCHANGED turn
              /\ pc' = target.then
              /\ target' = NoTarget
              /\ UNCHANGED <<root, before, frontier, lvl, options, over, bounds, stats, runs,
                             ghosts>>

--------------------------------------------------------------------------------
(* BFSNodeCompare: the best bound, then the deepest node.                     *)
Below(m, n) == m.value > n.value \/ (m.value = n.value /\ m.depth < n.depth)
Tops == {n \in frontier : \A m \in frontier : ~Below(n, m)}

Continue == /\ pc = "check" /\ ~over
            /\ pc' = "pick"
            /\ UNCHANGED <<t, search, target, options, over, bounds, stats, runs, ghosts>>

(* The limit: the dual bound is the bound of the best node left, read from    *)
(* top() whether or not there is one; the frontier goes with the exception.   *)
Stop == /\ pc = "check" /\ over
        /\ dual' \in IF ~objective THEN {dual}
                     ELSE IF frontier = {} THEN Costs ELSE {n.value : n \in Tops}
        /\ t' = FoldLeft(Release, t, SetToSeq({n.path : n \in frontier}))
        /\ frontier' = {}
        /\ stats' = [stats EXCEPT !.completed = FALSE]
        /\ pc' = "leave"
        /\ UNCHANGED <<root, before, node, lvl, target, turn, options, over, primal, runs, ghosts>>

(* The best node of the frontier takes the place of the last one; it is       *)
(* passed over if its bound has become too weak.                              *)
Pick == /\ pc = "pick"
        /\ \E n \in Tops :
              /\ frontier' = frontier \ {n}
              /\ node' = n.path
              /\ LET s == Release(t, node)
                 IN IF betterThanPrimal(n.value)
                    THEN /\ target' = [path |-> n.path, depth |-> n.depth - 1, then |-> "branching"]
                         /\ t' = Unwind(s, sharedPrefixSize(s, n.path))
                         /\ here' = n.at
                         /\ pc' = "restoring"
                    ELSE /\ t' = s
                         /\ UNCHANGED <<pc, target, here>>
        /\ UNCHANGED <<root, before, lvl, turn, options, over, bounds, stats, runs, effect,
                       expanded, refuted>>

(* Mutant: bfs() does not return. *)
Exhausted_again == /\ pc = "pick" /\ frontier = {}
                   /\ dual' = IF objective THEN primal ELSE dual
                   /\ t' = Release(t, node)
                   /\ node' = <<>>
                   /\ pc' = "check"
                   /\ UNCHANGED <<root, before, frontier, lvl, target, turn, options, over, primal,
                                  stats, runs, ghosts>>

Exhausted == /\ pc = "pick" /\ frontier = {}
             /\ dual' = IF objective THEN primal ELSE dual
             /\ t' = Release(t, node)
             /\ node' = <<>>
             /\ pc' = "leave"
             /\ UNCHANGED <<root, before, frontier, lvl, target, turn, options, over, primal,
                            stats, runs, ghosts>>

(* withNewState closes its level by its id.                                   *)
End == /\ pc = "leave"
       /\ t' = PopToNode(t, lvl)
       /\ pc' = "done"
       /\ UNCHANGED <<search, target, options, over, bounds, stats, runs, ghosts>>

Next == \/ Solve \/ Infer \/ Leaf \/ Enter \/ Keep \/ Fail \/ ReachLimit \/ Leave
        \/ ReplayList \/ FailRestore \/ EndRestore
        \/ Continue \/ Stop \/ Pick \/ Exhausted \/ End
        \/ \E n \in 1..MaxBranches : Branch(n)
        \/ \E low \in Costs : Post(low)

(* Some step is possible until the search is done, and the search does not    *)
(* stop by itself.  The second disjunct is what WF_vars(Next) asks, written   *)
(* so that TLC need not decide whether Next is enabled.                       *)
Running == pc \notin {"idle", "done"}

Spec == Init /\ [][Next]_vars /\ ([]<>~Running \/ []<><<Running>>_vars)
--------------------------------------------------------------------------------
TypeOK == /\ pc \in {"idle", "branching", "loop", "alt", "fail", "check", "restoring", "pick",
                     "leave", "done"}
          /\ \A l \in DOMAIN t.lists : t.lists[l].refs \in Nat /\ t.lists[l].node \in Int
          /\ Range(t.stack) \cup Range(t.pool) \subseteq DOMAIN t.lists
          /\ Len(t.pool) <= PoolSize
          /\ \A p \in Checkpoints : Range(p) \subseteq DOMAIN t.lists
          /\ primal \in Costs \cup {NoPrimal} /\ dual \in Costs \cup {NoPrimal}

(* Whenever bfs() asks for branches, or for the next alternative, the         *)
(* constraints in force are those that were when the node was reached first,  *)
(* whatever nodes the search has visited since and however little of the way  *)
(* it had to replay (tracer.cpp:66-103, search.cpp:226-243, 258-284).         *)
Faithful == pc \in {"branching", "loop"} => t.store = effect[here]

(* What the first k lists of the command stack hold. *)
Held(k) == UNION {Range(t.lists[t.stack[i]].head) : i \in 1..k}

(* The lists on the command stack and the levels of the Trailer correspond:   *)
(* what a level restores is what the lists under it hold; and the search      *)
(* closes every level it opened, unless the level of a node had by chance the *)
(* number of the search's own, which popToNode then takes it for: the levels  *)
(* under it stay open (tracer.cpp:27-103, trail.cpp:83, search.cpp:150-158).  *)
NodeAt(k) == t.lists[t.stack[k]].node

LevelsMatch ==
    runs = 1 =>
    /\ Running => /\ Len(t.frames) = Len(t.stack)
                  /\ t.store = Held(Len(t.stack))
                  /\ \A k \in DOMAIN t.frames : k > 1 => t.frames[k].store = Held(k - 1)
    /\ pc = "done" => LET open == Len(t.frames)
                      IN open > 0 => open < Len(t.stack) /\ NodeAt(open + 1) = lvl

(* After an alternative the way back is still open: the restore of _before,   *)
(* whose answer bfs() does not look at, has nothing to post that could fail   *)
(* (search.cpp:230-249).                                                      *)
WayBackOpen == pc = "restoring" /\ target.then = "loop" => t.stack = before

(* How often the stack, the checkpoints and the frontier refer to a list. *)
Times(p, l) == Cardinality({i \in DOMAIN p : p[i] = l})
Mentions(l) == Times(t.stack, l) + Times(root, l) + Times(before, l) + Times(node, l)
               + Cardinality({n \in frontier : l \in Range(n.path)})

(* A list that a checkpoint or the stack still refers to is never in the pool *)
(* to be handed out again: its count covers every reference to it             *)
(* (commandList.cpp:20-36, 81-98).                                            *)
CountsCover == /\ TypeOK
               /\ \A l \in DOMAIN t.lists : Mentions(l) <= t.lists[l].refs
               /\ \A i \in DOMAIN t.pool : t.lists[t.pool[i]].refs = 0
               /\ IsInjective(t.pool)

(* A search that says it completed branched once on every node it generated,  *)
(* but for those whose bound was no better than the best solution and those   *)
(* whose replay failed for that reason (search.cpp:226-289).                  *)
Excused(at) == \/ objective /\ primal <= value(effect[at])
               \/ \E p \in refuted : p = at

Complete == pc = "done" /\ stats.completed =>
               /\ \A at \in DOMAIN effect : at \in Range(expanded) \/ Excused(at)
               /\ IsInjective(expanded)
               /\ objective => dual = primal

(* Every solution counted under an objective is better than the last one,     *)
(* though nodes wait in the frontier while better ones are found.             *)
Improves == [][objective /\ runs' = runs /\ stats'.solutions > stats.solutions => primal' < primal]_vars

(* A search over a finite tree ends. *)
Ends == Running ~> ~Running
================================================================================
