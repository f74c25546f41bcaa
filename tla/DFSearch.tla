-------------------------------- MODULE DFSearch --------------------------------
(* DFSearch (search.hpp:113-142, search.cpp:25-144): the recursion of dfs()   *)
(* over whatever tree the branching unfolds, the levels it opens in the       *)
(* trail, and the two ways out of an alternative: failNow(), a longjmp to the *)
(* handler ptr points at (fail.hpp), and C++ exceptions, which TRYFAIL does   *)
(* not see.  The restored state is abstracted to the path of alternatives     *)
(* taken (BacktrackStore.tla says why that is what a restore brings back).    *)
EXTENDS Integers, Sequences, FiniteSets

CONSTANTS
    MaxBranches, MaxDepth,  \* bounds: alternatives of a node, depth of the tree
    Raises,                 \* whether alternatives may throw (the python bridge)
    Limited                 \* whether the limit may be reached

ASSUME DFSearchAssumption == /\ MaxBranches \in Nat \ {0} /\ MaxDepth \in Nat
                             /\ {Raises, Limited} \subseteq BOOLEAN

VARIABLES
    pc,             \* where the innermost call of dfs() is
    frames,         \* calls of dfs() in their loop: [total, cur, old]
    ptr,            \* the frame whose jmp_buf ptr points at; NoFrame at first
    here,           \* the state: alternatives applied since the search began
    levels,         \* the states the open levels of the trail restore
    over,           \* the limit was reached
    objective,      \* optimize() installed the solution listener that fails
    nodes, solutions, failures, completed,      \* SearchStatistics
    raised, opened, tried   \* for the properties only: something was
                    \* thrown; nodes branched on, with their alternatives;
                    \* alternatives entered, with multiplicity

stats == <<nodes, solutions, failures, completed>>
ghosts == <<raised, opened, tried>>
vars == <<pc, frames, ptr, here, levels, over, objective, stats, ghosts>>

NoFrame == 0

Paths == UNION {[1..d -> 1..MaxBranches] : d \in 0..MaxDepth}

TypeOK == /\ pc \in {"idle", "branching", "loop", "alt", "fail", "throw", "return",
                     "done", "crashed"}
          /\ frames \in Seq([total : 1..MaxBranches, cur : 1..(MaxBranches + 1), old : Nat])
          /\ Len(frames) <= MaxDepth /\ ptr \in 0..MaxDepth
          /\ here \in Paths /\ levels \in Seq(Paths)
          /\ over \in BOOLEAN /\ objective \in BOOLEAN /\ completed \in BOOLEAN
          /\ raised \in BOOLEAN
          /\ nodes \in Nat /\ solutions \in Nat /\ failures \in Nat
          /\ tried \in Seq(Paths)

Init == /\ pc = "idle" /\ frames = <<>> /\ ptr = NoFrame
        /\ here = <<>> /\ levels = <<>> /\ over = FALSE /\ objective \in BOOLEAN
        /\ nodes = 0 /\ solutions = 0 /\ failures = 0 /\ completed = TRUE
        /\ raised = FALSE /\ opened = {} /\ tried = <<>>

--------------------------------------------------------------------------------
SaveState == levels' = Append(levels, here)

RestoreState == /\ here' = levels[Len(levels)]
                /\ levels' = SubSeq(levels, 1, Len(levels) - 1)

Depth == Len(frames)
Top == frames[Depth]

(* withNewState opens a level around the first call of dfs().                 *)
Solve == /\ pc = "idle"
         /\ SaveState
         /\ pc' = "branching"
         /\ UNCHANGED <<frames, ptr, here, over, objective, stats, ghosts>>

Leaf == /\ pc = "branching"
        /\ solutions' = solutions + 1
        /\ pc' = IF objective THEN "fail" ELSE "return"
        /\ UNCHANGED <<frames, ptr, here, levels, over, objective, nodes, failures, completed,
                       raised, opened, tried>>

Branch(n) == /\ pc = "branching"
             /\ Len(here) < MaxDepth
             /\ frames' = Append(frames, [total |-> n, cur |-> 1, old |-> NoFrame])
             /\ opened' = opened \cup {<<here, n>>}
             /\ pc' = "loop"
             /\ UNCHANGED <<ptr, here, levels, over, objective, stats, raised, tried>>

(* Mutant: the handler is not set up. *)
Enter_bare == /\ pc = "loop" /\ ~over /\ Top.cur <= Top.total
              /\ SaveState
              /\ nodes' = IF Top.cur # Top.total THEN nodes + 1 ELSE nodes
              /\ tried' = Append(tried, Append(here, Top.cur))
              /\ pc' = "alt"
              /\ UNCHANGED <<frames, ptr, here, over, objective, solutions, failures, completed,
                             raised, opened>>

(* One more turn of the loop: a level, a handler, the statistics.             *)
Enter == /\ pc = "loop" /\ ~over /\ Top.cur <= Top.total
         /\ SaveState
         /\ frames' = [frames EXCEPT ![Depth].old = ptr]
         /\ ptr' = Depth
         /\ nodes' = IF Top.cur # Top.total THEN nodes + 1 ELSE nodes
         /\ tried' = Append(tried, Append(here, Top.cur))
         /\ pc' = "alt"
         /\ UNCHANGED <<here, over, objective, solutions, failures, completed, raised,
                        opened>>

Alternative(outcome) ==
    /\ pc = "alt"
    /\ here' = Append(here, Top.cur)
    /\ pc' = outcome
    /\ raised' = (raised \/ outcome = "throw")
    /\ UNCHANGED <<frames, ptr, levels, over, objective, stats, opened, tried>>

(* The limit looks at the statistics or the clock: it stays true once it is.  *)
ReachLimit == /\ Limited /\ ~over
              /\ pc \in {"loop", "branching", "alt"}
              /\ over' = TRUE
              /\ UNCHANGED <<pc, frames, ptr, here, levels, objective, stats, ghosts>>

(* Mutant: the last alternative is skipped. *)
Leave_early == /\ pc = "loop" /\ (over \/ Top.cur >= Top.total)
               /\ frames' = SubSeq(frames, 1, Depth - 1)
               /\ pc' = IF over THEN "throw" ELSE "return"
               /\ UNCHANGED <<ptr, here, levels, over, objective, stats, ghosts>>

(* The loop is over: dfs() returns, or throws StopException.                  *)
Leave == /\ pc = "loop" /\ (over \/ Top.cur > Top.total)
         /\ frames' = SubSeq(frames, 1, Depth - 1)
         /\ pc' = IF over THEN "throw" ELSE "return"
         /\ UNCHANGED <<ptr, here, levels, over, objective, stats, ghosts>>

NextAlternative(k) == frames' = [SubSeq(frames, 1, k) EXCEPT ![k].cur = @ + 1]

(* Mutant: the handler is left in place when the alternative succeeds. *)
Return_handler == /\ pc = "return" /\ frames # <<>>
                  /\ RestoreState
                  /\ NextAlternative(Depth)
                  /\ pc' = "loop"
                  /\ UNCHANGED <<ptr, over, objective, stats, ghosts>>

(* The call made by the current alternative returned: ENDFAIL.                *)
Return == /\ pc = "return" /\ frames # <<>>
          /\ ptr' = Top.old
          /\ RestoreState
          /\ NextAlternative(Depth)
          /\ pc' = "loop"
          /\ UNCHANGED <<over, objective, stats, ghosts>>

(* Mutant: a failure is not counted. *)
Fail_uncounted == /\ pc = "fail" /\ ptr \in 1..Depth
                  /\ ptr' = frames[ptr].old
                  /\ RestoreState
                  /\ NextAlternative(ptr)
                  /\ pc' = "loop"
                  /\ UNCHANGED <<over, objective, stats, ghosts>>

(* failNow(): control resumes in the frame ptr points at, if there is one.    *)
Fail == /\ pc = "fail" /\ ptr \in 1..Depth
        /\ ptr' = frames[ptr].old
        /\ failures' = failures + 1
        /\ RestoreState
        /\ NextAlternative(ptr)
        /\ pc' = "loop"
        /\ UNCHANGED <<over, objective, nodes, solutions, completed, ghosts>>

Crash == /\ pc = "fail" /\ ptr \notin 1..Depth
         /\ pc' = "crashed"
         /\ UNCHANGED <<frames, ptr, here, levels, over, objective, stats, ghosts>>

(* Mutant: a thrown exception does not close the level. *)
Catch_open == /\ pc = "throw" /\ frames # <<>>
              /\ failures' = failures + 1
              /\ NextAlternative(Depth)
              /\ pc' = "loop"
              /\ UNCHANGED <<ptr, here, levels, over, objective, nodes, solutions, completed, ghosts>>

(* catch(...): StopException and any other exception alike; ptr is left.      *)
Catch == /\ pc = "throw" /\ frames # <<>>
         /\ failures' = failures + 1
         /\ RestoreState
         /\ NextAlternative(Depth)
         /\ pc' = "loop"
         /\ UNCHANGED <<ptr, over, objective, nodes, solutions, completed, ghosts>>

(* Mutant: solve() has no catch for StopException. *)
End_uncaught == /\ pc = "return" /\ frames = <<>>
                /\ here' = levels[1] /\ levels' = <<>>
                /\ pc' = "done"
                /\ UNCHANGED <<frames, ptr, over, objective, stats, ghosts>>

(* Back in solve(): popToNode of the level withNewState opened.               *)
End == /\ pc \in {"return", "throw"} /\ frames = <<>>
       /\ completed' = (completed /\ pc # "throw")
       /\ here' = levels[1] /\ levels' = <<>>
       /\ pc' = "done"
       /\ UNCHANGED <<frames, ptr, over, objective, nodes, solutions, failures, ghosts>>

Outcomes == {"branching", "fail"} \cup (IF Raises THEN {"throw"} ELSE {})

Next == \/ Solve \/ Leaf \/ Enter \/ ReachLimit \/ Leave \/ Return \/ Fail \/ Crash
        \/ Catch \/ End
        \/ \E n \in 1..MaxBranches : Branch(n)
        \/ \E o \in Outcomes : Alternative(o)

Spec == Init /\ [][Next]_vars /\ WF_vars(Next)
--------------------------------------------------------------------------------
(* At the head of its loop every call of dfs() has closed the levels it       *)
(* opened, whichever way its alternatives ended, and the state is again the   *)
(* one the node was entered with: sibling alternatives start alike            *)
(* (search.cpp:117-139).                                                      *)
NodeOf(k) == [i \in 1..(k - 1) |-> frames[i].cur]

Balanced == /\ TypeOK
            /\ pc = "loop" => /\ here = NodeOf(Depth)
                              /\ levels = <<<<>>>> \o [k \in 1..(Depth - 1) |-> NodeOf(k)]

(* Below the root failNow() is called only while the innermost call of dfs()  *)
(* has set up its handler, and reaches that one: an outer one would close too *)
(* few levels (search.cpp:122-133, fail.hpp:52-54).                           *)
HandlerReady == pc = "fail" /\ here # <<>> => frames # <<>> /\ ptr = Depth

(* search.cpp:216 says that the failure of a tightened objective is caught.   *)
TightenIsCaught == pc # "crashed"

(* A search that says it completed tried each alternative of each node it     *)
(* opened, once, in the order of the branching, and left no level behind      *)
(* (search.cpp:117, 140-142, 29-35).                                          *)
Before(p, q) == \E k \in 1..Len(q) : /\ k <= Len(p) => p[k] < q[k]
                                     /\ \A i \in 1..(k - 1) : i <= Len(p) /\ p[i] = q[i]

Complete == pc = "done" /\ completed =>
               /\ \A node \in opened : \A i \in 1..node[2] :
                     \E k \in DOMAIN tried : tried[k] = Append(node[1], i)
               /\ \A j, k \in DOMAIN tried : j < k => Before(tried[j], tried[k])
               /\ here = <<>> /\ levels = <<>>

(* Choices are counted so that the leaves add up: a tree with that many       *)
(* binary choices ends in one more leaf, each a solution or a failure, and    *)
(* with an objective each solution is counted as a failure as well            *)
(* (search.cpp:116, 123-124; the comment "for proper counting of choices").   *)
LeavesAddUp == pc = "done" /\ completed =>
                  nodes + 1 = failures + (IF objective THEN 0 ELSE solutions)

(* When nothing was thrown, the handler in place before solve() is in place   *)
(* after it, so that a later failure of the caller finds its own              *)
(* (search.cpp:122-133).                                                      *)
HandlerRestored == pc = "done" /\ ~raised /\ ~over => ptr = NoFrame

(* A search over a finite tree ends, stopped or not. *)
Ends == pc = "branching" ~> pc \in {"done", "crashed"}
================================================================================
