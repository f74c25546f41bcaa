----------------------------- MODULE DFSearchProofs -----------------------------
(* For every tree, every depth, with or without exceptions, limit and         *)
(* objective: where the search is, which handler a failure reaches, that a    *)
(* completed search has tried every alternative once and in order, and that   *)
(* its statistics add up.                                                     *)
EXTENDS DFSearch, SequenceTheorems, FiniteSetTheorems, TLAPS

FrameSet == [total : 1..MaxBranches, cur : 1..(MaxBranches + 1), old : Nat]

(* The path p leads to the k-th call: it is made of the alternatives the      *)
(* calls below it are at.                                                     *)
Follows(p, k) == Len(p) = k /\ \A i \in 1..k : p[i] = frames[i].cur

(* Where the search is, in terms of its calls alone: the state it is in, the  *)
(* states of the levels it opened, and how far each loop is.                  *)
Started == pc \notin {"idle", "done"}

Place ==
    /\ ~Started => frames = <<>> /\ here = <<>> /\ levels = <<>>
    /\ pc \in {"loop", "alt"} => frames # <<>> /\ Follows(here, Depth - 1)
    /\ Started /\ pc \notin {"loop", "alt"} => Follows(here, Depth)
    /\ Started => Len(levels) = IF pc = "loop" THEN Depth ELSE Depth + 1
    /\ \A k \in 1..Len(levels) : Follows(levels[k], IF k = 1 THEN 0 ELSE k - 2)
    /\ \A k \in 1..Depth : frames[k].cur <= frames[k].total + (IF k = Depth /\ pc = "loop" THEN 1 ELSE 0)

(* Which frame ptr points at.  An exception leaves ptr where it was, so the   *)
(* frame may have itself for the handler to go back to; once the limit is     *)
(* reached no handler is set up any more.                                     *)
Handlers ==
    /\ pc \in {"idle", "alt", "branching", "fail"} => ptr = Depth
    /\ pc = "loop" /\ ~over => ptr \in {Depth - 1, Depth}
    /\ \A k \in 1..Depth : k < Depth \/ pc # "loop" => frames[k].old \in {k - 1, k}
    /\ pc = "throw" /\ ~over => raised /\ ptr = Depth /\ frames # <<>>
    /\ ~raised /\ ~over =>
          /\ pc = "loop" => ptr = Depth - 1
          /\ pc \in {"return", "idle", "done"} => ptr = Depth
          /\ \A k \in 1..Depth : k < Depth \/ pc # "loop" => frames[k].old = k - 1

Core == TypeOK /\ Place /\ Handlers

(* Once the limit has been seen by a loop, the search unwinds to its end      *)
(* with an exception and will not say that it completed.                      *)
Unwinding == over /\ pc \in {"loop", "throw"}

(* A choice is counted for each alternative but the last when it is entered,  *)
(* a leaf when it is reached; the loops that wait in an alternative that is   *)
(* not their last are the difference.                                         *)
Waiting(d) == {k \in 1..d : frames[k].cur < frames[k].total}

InAll == Cardinality(Waiting(Depth))
InOuter == Cardinality(Waiting(Depth - 1))

Leaves == failures + (IF objective THEN 0 ELSE solutions)

Exits == IF pc = "loop" /\ Top.cur <= Top.total THEN 0 ELSE 1

Counted ==
    completed /\ ~Unwinding =>
       /\ pc = "idle" => nodes = 0 /\ Leaves = 0
       /\ pc \in {"branching", "alt", "fail", "throw"} => nodes = Leaves + InAll
       /\ pc = "return" => nodes + 1 = Leaves + InAll
       /\ pc = "done" => nodes + 1 = Leaves
       /\ pc = "loop" => nodes + Exits = Leaves + InOuter

(* Every alternative of every node was entered, or the call that stands at    *)
(* the node has still to come to it.                                          *)
Tried(p) == \E j \in DOMAIN tried : tried[j] = p

ToCome(p, n, i) == \E k \in 1..Depth :
                      /\ Follows(p, k - 1) /\ n = frames[k].total
                      /\ frames[k].cur + (IF k = Depth /\ pc = "loop" THEN 0 ELSE 1) <= i

Covering == /\ opened \subseteq Paths \X (1..MaxBranches)
            /\ completed /\ ~Unwinding =>
                  \A node \in opened : \A i \in 1..node[2] :
                     Tried(Append(node[1], i)) \/ ToCome(node[1], node[2], i)

(* The alternative the first d calls are at, the last one d' further on, is   *)
(* after p in the order of the branching.                                     *)
Ahead(p, d, more) == \E k \in 1..d :
                        /\ k <= Len(p) => p[k] < frames[k].cur + (IF k = d THEN more ELSE 0)
                        /\ \A i \in 1..(k - 1) : i <= Len(p) /\ p[i] = frames[i].cur

Ordered ==
    /\ \A j, k \in DOMAIN tried : j < k => Before(tried[j], tried[k])
    /\ \A j \in DOMAIN tried :
          /\ pc = "loop" => Ahead(tried[j], Depth, 0)
          /\ pc \in {"alt", "branching"} => Ahead(tried[j], Depth, 0) \/ Follows(tried[j], Depth)
          /\ pc \in {"fail", "throw", "return"} /\ frames # <<>> => Ahead(tried[j], Depth, 1)
    /\ pc = "idle" => tried = <<>> /\ opened = {}
    /\ frames = <<>> /\ pc = "branching" => tried = <<>>

IInv == Core /\ Counted /\ Covering /\ Ordered

--------------------------------------------------------------------------------
(* What the types say of frames and paths.                                    *)
LEMMA Bounds == MaxBranches \in Nat \ {0} /\ MaxDepth \in Nat
  BY DFSearchAssumption

(* The loop of one call moves to its next alternative: the frame keeps its    *)
(* number of alternatives and the handler it remembers.                       *)
LEMMA FrameMoves ==
  ASSUME NEW f \in FrameSet, f.cur <= MaxBranches
  PROVE  LET g == [f EXCEPT !.cur = @ + 1]
         IN g \in FrameSet /\ g.total = f.total /\ g.old = f.old /\ g.cur = f.cur + 1
  BY Bounds DEF FrameSet

(* The stack of calls as a function: its domain, its depth, its fields.       *)
LEMMA FramesType ==
  ASSUME TypeOK
  PROVE  /\ frames \in Seq(FrameSet)
         /\ Depth \in Nat /\ DOMAIN frames = 1..Depth /\ Depth <= MaxDepth
         /\ \A k \in 1..Depth : /\ frames[k] \in FrameSet
                               /\ frames[k].total \in 1..MaxBranches
                               /\ frames[k].cur \in Nat /\ frames[k].cur >= 1
                               /\ frames[k].old \in Nat
         /\ frames = <<>> <=> Depth = 0
<1>1. frames \in Seq(FrameSet) /\ Len(frames) <= MaxDepth
  BY DEF TypeOK, FrameSet
<1>2. \A k \in 1..Len(frames) : frames[k] \in FrameSet
  BY <1>1
<1>3. \A f \in FrameSet : /\ f.total \in 1..MaxBranches /\ f.cur \in 1..(MaxBranches + 1)
                          /\ f.old \in Nat
  BY DEF FrameSet
<1>4. frames = <<>> <=> Len(frames) = 0
  BY <1>1, EmptySeq
<1>5. QED
  BY <1>1, <1>2, <1>3, <1>4, Bounds DEF Depth

(* A path is a sequence of alternatives no longer than the tree is deep.      *)
LEMMA PathsType ==
  ASSUME NEW p \in Paths
  PROVE  /\ p \in Seq(1..MaxBranches) /\ Len(p) \in Nat /\ Len(p) <= MaxDepth
         /\ \A i \in 1..Len(p) : p[i] \in 1..MaxBranches
<1>1. PICK d \in 0..MaxDepth : p \in [1..d -> 1..MaxBranches]
  BY DEF Paths
<1>2. d \in Nat
  BY Bounds
<1>3. p \in Seq(1..MaxBranches)
  BY <1>1, <1>2, SeqDef
<1>4. Len(p) = d
  BY <1>1, <1>2, <1>3
<1>5. QED
  BY <1>1, <1>2, <1>3, <1>4, Bounds

(* A short sequence of alternatives is a path.                                *)
LEMMA IsPath ==
  ASSUME NEW p, p \in Seq(1..MaxBranches), Len(p) <= MaxDepth
  PROVE  p \in Paths
<1>1. Len(p) \in Nat /\ p \in [1..Len(p) -> 1..MaxBranches]
  BY LenProperties
<1>2. Len(p) \in 0..MaxDepth
  BY <1>1, Bounds
<1>3. QED
  BY <1>1, <1>2 DEF Paths

(* Two paths that take the same alternatives are the same path.               *)
LEMMA PathEqual ==
  ASSUME NEW p \in Paths, NEW q \in Paths, Len(p) = Len(q), \A i \in 1..Len(p) : p[i] = q[i]
  PROVE  p = q
  BY PathsType, SeqEqual

(* One more alternative below the deepest level is again a path.              *)
LEMMA PathAppend ==
  ASSUME NEW p \in Paths, NEW e \in 1..MaxBranches, Len(p) < MaxDepth
  PROVE  /\ Append(p, e) \in Paths
         /\ Len(Append(p, e)) = Len(p) + 1
         /\ \A i \in 1..Len(p) : Append(p, e)[i] = p[i]
         /\ Append(p, e)[Len(p) + 1] = e
<1>1. p \in Seq(1..MaxBranches) /\ Len(p) \in Nat
  BY PathsType
<1>2. /\ Append(p, e) \in Seq(1..MaxBranches)
      /\ Len(Append(p, e)) = Len(p) + 1
      /\ \A i \in 1..Len(p) : Append(p, e)[i] = p[i]
      /\ Append(p, e)[Len(p) + 1] = e
  BY <1>1, AppendProperties
<1>3. Append(p, e) \in Paths
  <2>1. Len(Append(p, e)) <= MaxDepth
    BY <1>1, <1>2, Bounds
  <2> QED
    BY <1>2, <2>1, IsPath
<1>4. QED
  BY <1>1, <1>2, <1>3

(* The root is the only path without an alternative.                          *)
LEMMA EmptyPath == <<>> \in Paths /\ Len(<<>>) = 0 /\ \A p \in Paths : Len(p) = 0 => p = <<>>
<1> DEFINE e == <<>>
<1>1. e \in Seq(1..MaxBranches) /\ Len(e) = 0
  BY EmptySeq
<1> HIDE DEF e
<1>2. e \in Paths
  <2>1. Len(e) <= MaxDepth
    BY <1>1, Bounds
  <2> QED
    BY <1>1, <2>1, IsPath
<1>3. \A p \in Paths : Len(p) = 0 => p = e
  BY <1>1, <1>2, PathEqual
<1>4. QED
  BY <1>1, <1>2, <1>3 DEF e
--------------------------------------------------------------------------------
(* Back at the head of the innermost loop: its frame moves on, its level is   *)
(* closed, the state is the one the node was entered with.                    *)
LEMMA MovesOn ==
  ASSUME TypeOK, Place, frames # <<>>, pc \in {"return", "fail", "throw"},
         RestoreState, NextAlternative(Depth)
  PROVE  /\ frames' \in Seq(FrameSet) /\ Len(frames') = Depth
         /\ \A k \in 1..Depth : /\ frames'[k].total = frames[k].total
                               /\ frames'[k].old = frames[k].old
                               /\ frames'[k].cur = frames[k].cur + (IF k = Depth THEN 1 ELSE 0)
         /\ levels' \in Seq(Paths) /\ Len(levels') = Depth
         /\ \A k \in 1..Depth : levels'[k] = levels[k]
         /\ \A k \in 1..(Depth - 1) : frames'[k].cur = frames[k].cur
         /\ here' \in Paths /\ Follows(here', Depth - 1)
<1>1. Depth \in Nat \ {0} /\ frames \in Seq(FrameSet) /\ frames[Depth] \in FrameSet
  BY FramesType
<1>2. frames[Depth].cur <= frames[Depth].total /\ frames[Depth].total \in 1..MaxBranches
  BY <1>1, FramesType DEF Place
<1>3. /\ SubSeq(frames, 1, Depth) = frames
      /\ frames' = [frames EXCEPT ![Depth].cur = @ + 1]
  BY <1>1, SubSeqFull DEF NextAlternative, Depth
<1> DEFINE g == [frames[Depth] EXCEPT !.cur = @ + 1]
<1>4. frames' = [frames EXCEPT ![Depth] = g]
  BY <1>3
<1>5. /\ g \in FrameSet /\ g.total = frames[Depth].total /\ g.old = frames[Depth].old
      /\ g.cur = frames[Depth].cur + 1
  <2>1. frames[Depth].cur <= MaxBranches
    BY <1>1, <1>2, FramesType, Bounds
  <2> QED
    BY <1>1, <2>1, FrameMoves
<1> HIDE DEF g
<1>6. /\ frames' \in Seq(FrameSet) /\ Len(frames') = Depth
      /\ \A k \in 1..Depth : frames'[k] = IF k = Depth THEN g ELSE frames[k]
  BY <1>1, <1>4, <1>5, ExceptSeq DEF Depth
<1>7. \A k \in 1..Depth : /\ frames'[k].total = frames[k].total
                          /\ frames'[k].old = frames[k].old
                          /\ frames'[k].cur = frames[k].cur + (IF k = Depth THEN 1 ELSE 0)
  BY <1>1, <1>5, <1>6, FramesType
<1>8. levels \in Seq(Paths) /\ Len(levels) = Depth + 1
  BY <1>1 DEF TypeOK, Place, Started
<1>9. /\ levels' = SubSeq(levels, 1, Depth) /\ here' = levels[Depth + 1]
      /\ \A k \in 1..(Depth + 1) : levels[k] \in Paths
  BY <1>1, <1>8 DEF RestoreState
<1>10. /\ levels' \in Seq(Paths) /\ Len(levels') = Depth
       /\ \A k \in 1..Depth : levels'[k] = levels[k]
  BY <1>1, <1>9, SubSeqProperties
<1>11. here' \in Paths /\ Follows(here', Depth - 1)
  BY <1>1, <1>8, <1>9 DEF Place
<1>12. \A k \in 1..(Depth - 1) : frames'[k].cur = frames[k].cur
  BY <1>1, <1>7, FramesType
<1>13. QED
  BY <1>6, <1>7, <1>10, <1>11, <1>12
--------------------------------------------------------------------------------
(* Core, one action at a time.                                                *)
LEMMA CoreInit == Init => Core
<1> SUFFICES ASSUME Init PROVE Core
  OBVIOUS
<1>1. TypeOK
  <2>1. frames \in Seq([total : 1..MaxBranches, cur : 1..(MaxBranches + 1), old : Nat]) /\ Len(frames) = 0
    BY EmptySeq DEF Init
  <2>2. levels \in Seq(Paths) /\ tried \in Seq(Paths)
    BY EmptySeq DEF Init
  <2>3. /\ over \in BOOLEAN /\ objective \in BOOLEAN /\ completed \in BOOLEAN /\ raised \in BOOLEAN
        /\ nodes \in Nat /\ solutions \in Nat /\ failures \in Nat
    BY DEF Init
  <2>4. here \in Paths
    BY EmptyPath DEF Init
  <2>5. ptr \in 0..MaxDepth /\ 0 <= MaxDepth
    BY Bounds DEF Init, NoFrame
  <2>6. QED
    BY <2>1, <2>2, <2>3, <2>4, <2>5 DEF Init, TypeOK
<1>2. Place
  BY DEF Init, Place, Started, Follows, Depth
<1>3. Handlers
  BY DEF Init, Handlers, Depth, NoFrame
<1>4. QED
  BY <1>1, <1>2, <1>3 DEF Core

(* solve() enters the root with an empty stack and no handler.                *)
LEMMA CoreSolve == Core /\ Solve => Core'
<1> SUFFICES ASSUME Core, Solve PROVE Core'
  OBVIOUS
<1> USE DEF Core
<1>1. frames = <<>> /\ here = <<>> /\ levels = <<>>
  BY DEF Solve, Place, Started
<1>2. levels' \in Seq(Paths) /\ Len(levels') = 1 /\ levels'[1] = here
  BY <1>1, EmptyPath, AppendProperties DEF Solve, SaveState, TypeOK
<1>3. TypeOK'
  BY <1>2 DEF TypeOK, Solve, stats, ghosts
<1>4. Place'
  BY <1>1, <1>2, EmptyPath DEF Place, Started, Follows, Solve, Depth
<1>5. Handlers'
  <2>1. Depth = 0 /\ Depth' = 0
    BY <1>1, FramesType DEF Solve, Depth
  <2> QED
    BY <2>1 DEF Handlers, Solve, stats, ghosts
<1>6. QED
  BY <1>3, <1>4, <1>5

(* A leaf changes no frame: the call goes on to its return or its failure.    *)
LEMMA CoreLeaf == Core /\ Leaf => Core'
<1> SUFFICES ASSUME Core, Leaf PROVE Core'
  OBVIOUS
<1> USE DEF Core
<1>1. TypeOK'
  BY DEF TypeOK, Leaf
<1>2. Place'
  BY DEF Place, Started, Follows, Leaf, Depth
<1>3. Handlers'
  BY DEF Handlers, Leaf, Depth
<1>4. QED
  BY <1>1, <1>2, <1>3

(* A branching opens a frame at its first alternative, in the state of its    *)
(* node.                                                                      *)
LEMMA CoreBranch == ASSUME NEW n \in 1..MaxBranches, Core, Branch(n) PROVE Core'
<1> USE DEF Core
<1> DEFINE f == [total |-> n, cur |-> 1, old |-> NoFrame]
<1>1. /\ frames \in Seq(FrameSet) /\ Depth \in Nat
      /\ Len(here) = Depth /\ Depth < MaxDepth
  BY FramesType DEF Branch, Place, Started, Follows
<1>2. f \in FrameSet /\ f.total = n /\ f.cur = 1
  BY Bounds DEF FrameSet, NoFrame
<1> HIDE DEF f
<1>3. /\ frames' \in Seq(FrameSet) /\ Len(frames') = Depth + 1 /\ Depth' = Depth + 1
      /\ \A k \in 1..Depth : frames'[k] = frames[k]
      /\ frames'[Depth + 1] = f
  <2>1. frames' = Append(frames, f)
    BY DEF Branch, f
  <2> QED
    BY <1>1, <1>2, <2>1, AppendProperties DEF Depth
<1>4. frames' # <<>>
  BY <1>1, <1>3, EmptySeq
<1>5. TypeOK'
  BY <1>1, <1>3, Bounds DEF TypeOK, Branch, FrameSet, stats
<1>6. Place'
  <2>1. ASSUME NEW k \in 1..Len(levels')
        PROVE  Follows(levels[k], IF k = 1 THEN 0 ELSE k - 2)'
    <3>1. levels' = levels /\ Len(levels) = Depth + 1
      BY DEF Place, Started, Branch
    <3>2. Follows(levels[k], IF k = 1 THEN 0 ELSE k - 2)
      BY <3>1 DEF Place
    <3>3. k \in 1..(Depth + 1)
      BY <3>1
    <3>4. CASE k = 1
      BY <3>1, <3>2, <3>4 DEF Follows
    <3>5. CASE k # 1
      BY <1>1, <1>3, <3>1, <3>2, <3>3, <3>5 DEF Follows
    <3>6. QED
      BY <3>4, <3>5
  <2>2. Follows(here, Depth - 1)'
    BY <1>1, <1>3 DEF Place, Started, Follows, Branch
  <2>3. \A k \in 1..Depth' : frames'[k].cur <= frames'[k].total + (IF k = Depth' THEN 1 ELSE 0)
    BY <1>1, <1>2, <1>3, FramesType DEF Place, Branch
  <2>4. QED
    BY <1>1, <1>3, <1>4, <2>1, <2>2, <2>3 DEF Place, Started, Branch
<1>7. Handlers'
  BY <1>1, <1>3 DEF Handlers, Branch
<1>8. QED
  BY <1>5, <1>6, <1>7

(* Entering an alternative touches only the handler the frame remembers.      *)
LEMMA EnterKeeps ==
  ASSUME Core, Enter
  PROVE  /\ Depth \in Nat \ {0} /\ Depth' = Depth /\ frames' \in Seq(FrameSet)
         /\ \A k \in 1..Depth : frames'[k].cur = frames[k].cur /\ frames'[k].total = frames[k].total
         /\ \A k \in 1..(Depth - 1) : frames'[k].old = frames[k].old
         /\ frames'[Depth].old = ptr /\ ptr \in {Depth - 1, Depth}
<1> USE DEF Core
<1>1. /\ frames \in Seq(FrameSet) /\ Depth \in Nat \ {0} /\ frames[Depth] \in FrameSet
      /\ Depth <= MaxDepth
  BY FramesType DEF Enter, Place, Started
<1>2. ptr \in {Depth - 1, Depth}
  BY DEF Enter, Handlers
<1> DEFINE g == [frames[Depth] EXCEPT !.old = ptr]
<1>3. g \in FrameSet /\ g.total = Top.total /\ g.cur = Top.cur /\ g.old = ptr
  <2>1. ptr \in Nat
    BY <1>1, <1>2
  <2> QED
    BY <1>1, <2>1 DEF FrameSet, Top
<1> HIDE DEF g
<1>4. /\ frames' \in Seq(FrameSet) /\ Len(frames') = Depth /\ Depth' = Depth
      /\ \A k \in 1..Depth : frames'[k] = IF k = Depth THEN g ELSE frames[k]
  <2>1. frames' = [frames EXCEPT ![Depth] = g]
    BY DEF Enter, g
  <2> QED
    BY <1>1, <1>3, <2>1, ExceptSeq DEF Depth
<1>5. QED
  BY <1>1, <1>2, <1>3, <1>4 DEF Top

(* Entering an alternative saves the state, and installs the handler of its   *)
(* call.                                                                      *)
LEMMA CoreEnter == Core /\ Enter => Core'
<1> SUFFICES ASSUME Core, Enter PROVE Core'
  OBVIOUS
<1> USE DEF Core
<1>1. Depth <= MaxDepth
  BY FramesType
<1>2. /\ Depth \in Nat \ {0} /\ Depth' = Depth /\ frames' \in Seq(FrameSet)
      /\ \A k \in 1..Depth : frames'[k].cur = frames[k].cur /\ frames'[k].total = frames[k].total
      /\ \A k \in 1..(Depth - 1) : frames'[k].old = frames[k].old
      /\ frames'[Depth].old = ptr /\ ptr \in {Depth - 1, Depth}
  BY EnterKeeps
<1>6. /\ levels' \in Seq(Paths) /\ Len(levels') = Depth + 1
      /\ \A k \in 1..Depth : levels'[k] = levels[k]
      /\ levels'[Depth + 1] = here
  <2>1. levels \in Seq(Paths) /\ Len(levels) = Depth /\ here \in Paths
    BY DEF Enter, TypeOK, Place, Started
  <2> QED
    BY <1>1, <1>2, <2>1, AppendProperties DEF Enter, SaveState
<1>7. frames' # <<>>
  BY <1>2, EmptySeq DEF Depth
<1>8. Top.cur \in 1..MaxBranches /\ Len(here) = Depth - 1 /\ here \in Paths
  <2>1. Top.cur <= Top.total /\ pc = "loop"
    BY DEF Enter
  <2>2. Top.cur \in 1..MaxBranches
    BY <1>1, <1>2, <2>1, FramesType, Bounds DEF Top
  <2>3. QED
    BY <2>1, <2>2 DEF TypeOK, Place, Follows
<1>9. TypeOK'
  <2>1. Append(here, Top.cur) \in Paths
    BY <1>1, <1>2, <1>8, PathAppend, Bounds
  <2>2. tried' \in Seq(Paths)
    BY <2>1, AppendProperties DEF Enter, TypeOK
  <2>3. ptr' \in 0..MaxDepth
    BY <1>1, <1>2, Bounds DEF Enter
  <2>4. nodes' \in Nat
    BY DEF Enter, TypeOK
  <2>5. frames' \in Seq([total : 1..MaxBranches, cur : 1..(MaxBranches + 1), old : Nat])
        /\ Len(frames') <= MaxDepth
    BY <1>1, <1>2 DEF FrameSet, Depth
  <2> QED
    BY <1>6, <2>2, <2>3, <2>4, <2>5 DEF TypeOK, Enter
<1>10. Place'
  <2>1. Follows(here, Depth - 1)'
    BY <1>1, <1>2, <1>8 DEF Place, Follows, Enter
  <2>2. ASSUME NEW k \in 1..Len(levels')
        PROVE  Follows(levels[k], IF k = 1 THEN 0 ELSE k - 2)'
    <3>1. Len(levels) = Depth /\ k \in 1..(Depth + 1)
      BY <1>6 DEF Place, Started, Enter
    <3>2. CASE k = Depth + 1
      <4>1. Follows(here, k - 2) /\ levels'[k] = here /\ k # 1
        BY <1>1, <1>2, <1>6, <3>2 DEF Place, Enter
      <4> QED
        BY <1>1, <1>2, <3>2, <4>1 DEF Follows
    <3>3. CASE k = 1
      <4>1. Follows(levels[1], 0) /\ levels'[1] = levels[1]
        BY <1>1, <1>2, <1>6, <3>1 DEF Place
      <4> QED
        BY <3>3, <4>1 DEF Follows
    <3>4. CASE k \in 2..Depth
      <4>1. Follows(levels[k], k - 2) /\ levels'[k] = levels[k]
        BY <1>1, <1>2, <1>6, <3>1, <3>4 DEF Place
      <4> QED
        BY <1>1, <1>2, <3>4, <4>1 DEF Follows
    <3>5. QED
      BY <1>1, <1>2, <3>1, <3>2, <3>3, <3>4
  <2>3. \A k \in 1..Depth' : frames'[k].cur <= frames'[k].total
    BY <1>1, <1>2, FramesType DEF Place, Enter, Top
  <2>4. QED
    BY <1>1, <1>2, <1>6, <1>7, <2>1, <2>2, <2>3, FramesType DEF Place, Started, Enter
<1>11. Handlers'
  <2>1. ptr' = Depth' /\ pc' = "alt" /\ over' = over /\ raised' = raised /\ Depth' = Depth
    BY <1>1, <1>2 DEF Enter
  <2>2. ASSUME NEW k \in 1..Depth
        PROVE  frames'[k].old \in {k - 1, k} /\ (~raised /\ ~over => frames'[k].old = k - 1)
    <3>1. CASE k = Depth
      BY <1>1, <1>2, <3>1 DEF Handlers, Enter
    <3>2. CASE k # Depth
      BY <1>1, <1>2, <3>2 DEF Handlers, Enter
    <3> QED
      BY <3>1, <3>2
  <2> QED
    BY <2>1, <2>2 DEF Handlers
<1>12. QED
  BY <1>9, <1>10, <1>11

(* The limit is tested with the stack as the branching left it.               *)
LEMMA CoreReachLimit == Core /\ ReachLimit => Core'
<1> SUFFICES ASSUME Core, ReachLimit PROVE Core'
  OBVIOUS
<1> USE DEF Core
<1>1. TypeOK'
  BY DEF TypeOK, ReachLimit, stats, ghosts
<1>2. Place'
  BY DEF Place, Started, Follows, ReachLimit, Depth
<1>3. Handlers'
  BY DEF Handlers, ReachLimit, Depth
<1>4. QED
  BY <1>1, <1>2, <1>3

(* An alternative ends in a node, in a failure or in an exception of its own. *)
LEMMA CoreAlternative == ASSUME NEW o \in Outcomes, Core, Alternative(o) PROVE Core'
<1> USE DEF Core
<1>1. /\ Depth \in Nat \ {0} /\ Depth <= MaxDepth /\ Len(here) = Depth - 1 /\ here \in Paths
      /\ \A i \in 1..(Depth - 1) : here[i] = frames[i].cur
  BY FramesType DEF Alternative, Place, TypeOK, Follows
<1>2. Top.cur \in 1..MaxBranches
  <2>1. Depth \in 1..Depth /\ pc = "alt"
    BY <1>1 DEF Alternative
  <2>2. frames[Depth].cur <= frames[Depth].total + (IF Depth = Depth /\ pc = "loop" THEN 1 ELSE 0)
    BY <2>1 DEF Place
  <2>3. frames[Depth].cur \in Nat /\ frames[Depth].cur >= 1 /\ frames[Depth].total \in 1..MaxBranches
    BY <2>1, FramesType
  <2>4. frames[Depth].cur <= frames[Depth].total
    BY <2>1, <2>2, <2>3, Bounds
  <2> QED
    BY <2>3, <2>4, Bounds DEF Top
<1>3. /\ here' \in Paths /\ Len(here') = Depth
      /\ \A i \in 1..(Depth - 1) : here'[i] = here[i]
      /\ here'[Depth] = Top.cur
  BY <1>1, <1>2, PathAppend, Bounds DEF Alternative
<1>4. Depth' = Depth /\ frames' = frames /\ levels' = levels /\ pc' = o /\ pc = "alt"
      /\ o \in {"branching", "fail", "throw"}
  BY DEF Alternative, Depth, Outcomes
<1>5. TypeOK'
  BY <1>3, <1>4 DEF TypeOK, Alternative, stats
<1>6. Place'
  <2>1. Follows(here, Depth)'
    BY <1>1, <1>3, <1>4 DEF Follows, Top
  <2>2. \A k \in 1..Len(levels') : Follows(levels[k], IF k = 1 THEN 0 ELSE k - 2)'
    BY <1>4 DEF Place, Follows
  <2>3. QED
    BY <1>1, <1>4, <2>1, <2>2 DEF Place, Started
<1>7. Handlers'
  BY <1>1, <1>4, FramesType DEF Handlers, Alternative, stats
<1>8. QED
  BY <1>5, <1>6, <1>7

(* Popping a frame leaves the outer ones alone.                               *)
LEMMA LeaveKeeps ==
  ASSUME Core, Leave
  PROVE  /\ Depth \in Nat \ {0} /\ Depth' = Depth - 1 /\ frames' \in Seq(FrameSet)
         /\ \A k \in 1..(Depth - 1) : frames'[k] = frames[k]
<1> USE DEF Core
<1>1. /\ frames \in Seq(FrameSet) /\ Depth \in Nat \ {0}
      /\ \A k \in 1..Depth : frames[k] \in FrameSet
  BY FramesType DEF Leave, Place
<1>2. frames' = SubSeq(frames, 1, Depth - 1)
  BY DEF Leave
<1>3. \A i \in 1..(Depth - 1) : frames[i] \in FrameSet
  BY <1>1
<1>4. /\ SubSeq(frames, 1, Depth - 1) \in Seq(FrameSet)
      /\ Len(SubSeq(frames, 1, Depth - 1)) = Depth - 1
      /\ \A i \in 1..(Depth - 1) : SubSeq(frames, 1, Depth - 1)[i] = frames[i]
  BY <1>1, <1>3, SubSeqProperties
<1>5. QED
  BY <1>1, <1>2, <1>4 DEF Depth

(* Past its last alternative the call pops its frame and returns to its       *)
(* caller.                                                                    *)
LEMMA CoreLeave == Core /\ Leave => Core'
<1> SUFFICES ASSUME Core, Leave PROVE Core'
  OBVIOUS
<1> USE DEF Core
<1>1. Depth \in Nat \ {0} /\ Depth <= MaxDepth
  BY FramesType, LeaveKeeps
<1>2. /\ frames' \in Seq(FrameSet) /\ Depth' = Depth - 1 /\ Len(frames') = Depth - 1
      /\ \A k \in 1..(Depth - 1) : frames'[k] = frames[k]
  BY LeaveKeeps DEF Depth
<1>3. /\ pc = "loop" /\ pc' \in {"throw", "return"} /\ (pc' = "throw" <=> over)
      /\ levels' = levels /\ here' = here /\ ptr' = ptr /\ over' = over /\ raised' = raised
  BY DEF Leave, ghosts
<1>4. TypeOK'
  <2>1. frames' \in Seq([total : 1..MaxBranches, cur : 1..(MaxBranches + 1), old : Nat])
        /\ Len(frames') <= MaxDepth
    BY <1>1, <1>2, Bounds DEF FrameSet
  <2> QED
    BY <2>1, <1>3 DEF TypeOK, Leave, stats, ghosts
<1>5. Place'
  <2>1. Follows(here, Depth)'
    BY <1>1, <1>2, <1>3 DEF Follows, Place
  <2>2. ASSUME NEW k \in 1..Len(levels')
        PROVE  Follows(levels[k], IF k = 1 THEN 0 ELSE k - 2)'
    <3>1. Len(levels) = Depth /\ k \in 1..Depth /\ levels'[k] = levels[k]
      BY <1>3 DEF Place, Started
    <3>2. CASE k = 1
      BY <3>1, <3>2 DEF Place, Follows
    <3>3. CASE k # 1
      <4>1. Follows(levels[k], k - 2)
        BY <3>1, <3>3 DEF Place
      <4> QED
        BY <1>1, <1>2, <3>1, <3>3, <4>1 DEF Follows
    <3>4. QED
      BY <3>2, <3>3
  <2>3. \A k \in 1..Depth' : frames'[k].cur <= frames'[k].total
    BY <1>1, <1>2, <1>3, FramesType DEF Place
  <2>4. Len(levels') = Depth' + 1
    BY <1>1, <1>2, <1>3 DEF Place, Started
  <2>5. QED
    BY <1>1, <1>2, <1>3, <2>1, <2>2, <2>3, <2>4, FramesType DEF Place, Started
<1>6. Handlers'
  <2>1. \A k \in 1..Depth' : k \in 1..Depth /\ k < Depth /\ frames'[k] = frames[k]
    BY <1>1, <1>2
  <2>2. \A k \in 1..Depth' : frames'[k].old \in {k - 1, k}
    BY <1>3, <2>1 DEF Handlers
  <2>3. ~raised /\ ~over => ptr = Depth - 1 /\ \A k \in 1..Depth' : frames'[k].old = k - 1
    BY <1>3, <2>1 DEF Handlers
  <2>4. QED
    BY <1>1, <1>2, <1>3, <2>2, <2>3 DEF Handlers
<1>7. QED
  BY <1>4, <1>5, <1>6

(* What Return, Fail and Catch share: the loop that goes on is the innermost, *)
(* and ptr is what its handler or its exception left.                         *)
LEMMA CoreMovesOn ==
  ASSUME Core, frames # <<>>, pc \in {"return", "fail", "throw"},
         RestoreState, NextAlternative(Depth), pc' = "loop",
         UNCHANGED <<over, objective, completed, raised, opened, tried>>,
         ptr' \in {frames[Depth].old, ptr}, pc # "throw" => ptr' = frames[Depth].old,
         nodes' \in Nat, solutions' \in Nat, failures' \in Nat
  PROVE  Core'
<1> USE DEF Core
<1>1. Depth \in Nat \ {0} /\ Depth <= MaxDepth
  BY FramesType
<1>2. /\ frames' \in Seq(FrameSet) /\ Len(frames') = Depth
      /\ \A k \in 1..Depth : /\ frames'[k].total = frames[k].total
                            /\ frames'[k].old = frames[k].old
                            /\ frames'[k].cur = frames[k].cur + (IF k = Depth THEN 1 ELSE 0)
      /\ levels' \in Seq(Paths) /\ Len(levels') = Depth
      /\ \A k \in 1..Depth : levels'[k] = levels[k]
      /\ \A k \in 1..(Depth - 1) : frames'[k].cur = frames[k].cur
      /\ here' \in Paths /\ Follows(here', Depth - 1)
  BY MovesOn
<1>3. Depth' = Depth /\ frames' # <<>>
  BY <1>1, <1>2, EmptySeq DEF Depth
<1>4. frames[Depth].old \in {Depth - 1, Depth}
  BY <1>1 DEF Handlers
<1>5. TypeOK'
  <2>1. frames' \in Seq([total : 1..MaxBranches, cur : 1..(MaxBranches + 1), old : Nat])
        /\ Len(frames') <= MaxDepth
    BY <1>1, <1>2 DEF FrameSet
  <2>2. ptr' \in 0..MaxDepth
    <3>1. ptr \in 0..MaxDepth
      BY DEF TypeOK
    <3> QED
      BY <1>1, <1>4, <3>1, Bounds
  <2> QED
    BY <1>2, <2>1, <2>2 DEF TypeOK
<1>6. Place'
  <2>1. Follows(here, Depth - 1)'
    BY <1>1, <1>2, <1>3 DEF Follows
  <2>2. ASSUME NEW k \in 1..Len(levels')
        PROVE  Follows(levels[k], IF k = 1 THEN 0 ELSE k - 2)'
    <3>1. Len(levels) = Depth + 1 /\ k \in 1..Depth /\ levels'[k] = levels[k]
      BY <1>1, <1>2 DEF Place, Started
    <3>2. CASE k = 1
      BY <3>1, <3>2 DEF Place, Follows
    <3>3. CASE k # 1
      <4>1. Follows(levels[k], k - 2)
        BY <1>1, <3>1, <3>3 DEF Place
      <4> QED
        BY <1>1, <1>2, <3>1, <3>3, <4>1 DEF Follows
    <3>4. QED
      BY <3>2, <3>3
  <2>3. \A k \in 1..Depth' : frames'[k].cur <= frames'[k].total + (IF k = Depth' THEN 1 ELSE 0)
    <3>1. \A k \in 1..Depth : /\ frames[k].cur <= frames[k].total
                              /\ frames[k].cur \in Nat /\ frames[k].total \in Nat
      BY FramesType, Bounds DEF Place
    <3>2. ASSUME NEW k \in 1..Depth
          PROVE  frames'[k].cur <= frames'[k].total + (IF k = Depth THEN 1 ELSE 0)
      <4>1. /\ frames'[k].total = frames[k].total
            /\ frames'[k].cur = frames[k].cur + (IF k = Depth THEN 1 ELSE 0)
        BY <1>2
      <4>2. frames[k].cur <= frames[k].total /\ frames[k].cur \in Nat /\ frames[k].total \in Nat
        BY <3>1
      <4>3. ASSUME NEW c \in Nat, NEW t \in Nat, NEW d \in {0, 1}, c <= t PROVE c + d <= t + d
        BY <4>3
      <4> QED
        BY ONLY <4>1, <4>2, <4>3
    <3> QED
      BY <1>3, <3>2
  <2>4. QED
    BY <1>1, <1>2, <1>3, <2>1, <2>2, <2>3 DEF Place, Started
<1>7. Handlers'
  <2>1. \A k \in 1..Depth : k < Depth => frames'[k].old \in {k - 1, k}
    BY <1>2 DEF Handlers
  <2>2. ~over => ptr' \in {Depth - 1, Depth}
    BY <1>1, <1>4 DEF Handlers
  <2>3. ASSUME ~raised, ~over
        PROVE  ptr' = Depth - 1 /\ \A k \in 1..Depth : k < Depth => frames'[k].old = k - 1
    <3>1. pc \in {"return", "fail"}
      BY <2>3 DEF Handlers
    <3>2. \A k \in 1..Depth : frames[k].old = k - 1
      BY <2>3, <3>1 DEF Handlers
    <3> QED
      BY <1>1, <1>2, <3>1, <3>2
  <2>4. QED
    BY <1>3, <2>1, <2>2, <2>3 DEF Handlers
<1>8. QED
  BY <1>5, <1>6, <1>7

(* A return restores the state and the handler, and goes on.                  *)
LEMMA CoreReturn == Core /\ Return => Core'
  BY CoreMovesOn DEF Return, Core, TypeOK, stats, ghosts, Top

(* So does the catch clause, except that the handler may be the failed one.   *)
LEMMA CoreCatch == Core /\ Catch => Core'
  BY CoreMovesOn DEF Catch, Core, TypeOK, ghosts

(* Below the root the handler a failure finds is that of the innermost call.  *)
LEMMA FailGoesToTop == ASSUME Core, Fail PROVE ptr = Depth /\ frames # <<>>
  BY FramesType DEF Core, Handlers, Fail

(* A failure jumps to the handler in ptr, which is the innermost call.        *)
LEMMA CoreFail == Core /\ Fail => Core'
  BY FailGoesToTop, CoreMovesOn DEF Fail, Core, TypeOK, ghosts

(* An exception that no frame catches leaves the stack as it was.             *)
LEMMA CoreCrash == Core /\ Crash => Core'
<1> SUFFICES ASSUME Core, Crash PROVE Core'
  OBVIOUS
<1> USE DEF Core
<1>1. TypeOK'
  BY DEF TypeOK, Crash, stats, ghosts
<1>2. Place'
  BY DEF Place, Started, Follows, Crash, Depth
<1>3. Handlers'
  BY DEF Handlers, Crash, Depth, stats, ghosts
<1>4. QED
  BY <1>1, <1>2, <1>3

(* The root call returns, and the search is over.                             *)
LEMMA CoreEnd == Core /\ End => Core'
<1> SUFFICES ASSUME Core, End PROVE Core'
  OBVIOUS
<1> USE DEF Core
<1>1. Depth = 0 /\ frames' = frames /\ Depth' = 0 /\ frames = <<>>
  BY FramesType DEF End, Depth
<1>2. /\ levels' = <<>> /\ levels' \in Seq(Paths) /\ Len(levels') = 0
      /\ here' = <<>> /\ here' \in Paths
  <2>1. Len(levels) = 1 /\ levels[1] \in Paths
    BY <1>1 DEF Place, Started, End, TypeOK
  <2>2. Len(levels[1]) = 0
    BY <2>1 DEF Place, Follows
  <2> QED
    BY <2>1, <2>2, EmptyPath, EmptySeq DEF End
<1>3. TypeOK'
  BY <1>1, <1>2 DEF TypeOK, End, ghosts
<1>4. Place'
  BY <1>1, <1>2 DEF Place, Started, End
<1>5. Handlers'
  BY <1>1 DEF Handlers, End, ghosts
<1>6. QED
  BY <1>3, <1>4, <1>5

(* A step that changes nothing keeps what is said of the state.               *)
LEMMA CoreStutter == Core /\ UNCHANGED vars => Core'
  BY DEF Core, TypeOK, Place, Started, Follows, Depth, Handlers, vars, stats, ghosts

(* Every step keeps the types, the place in the tree and the handlers.        *)
LEMMA CoreStep == Core /\ [Next]_vars => Core'
  BY CoreSolve, CoreLeaf, CoreBranch, CoreEnter, CoreReachLimit, CoreAlternative, CoreLeave,
     CoreReturn, CoreFail, CoreCrash, CoreCatch, CoreEnd, CoreStutter DEF Next
--------------------------------------------------------------------------------
(* The statistics.                                                            *)
LEMMA WaitingStep ==
  ASSUME TypeOK, NEW d \in 1..Depth
  PROVE  /\ Cardinality(Waiting(d)) \in Nat /\ Cardinality(Waiting(d - 1)) \in Nat
         /\ Cardinality(Waiting(d)) = Cardinality(Waiting(d - 1))
                                       + (IF frames[d].cur < frames[d].total THEN 1 ELSE 0)
<1>1. d \in Nat \ {0} /\ IsFiniteSet(1..(d - 1))
  <2>1. d \in Nat \ {0} /\ d - 1 \in Int /\ 1 \in Int
    BY FramesType
  <2> QED
    BY <2>1, FS_Interval
<1>2. IsFiniteSet(Waiting(d - 1)) /\ d \notin Waiting(d - 1)
  <2>1. Waiting(d - 1) \in SUBSET (1..(d - 1)) /\ d \notin 1..(d - 1)
    BY <1>1 DEF Waiting
  <2> QED
    BY <1>1, <2>1, FS_Subset
<1>3. Waiting(d) = IF frames[d].cur < frames[d].total THEN Waiting(d - 1) \cup {d} ELSE Waiting(d - 1)
  BY <1>1 DEF Waiting
<1>4. QED
  BY <1>2, <1>3, FS_AddElement, FS_CardinalityType

(* Outside every call no alternative waits.                                   *)
LEMMA NoneWaiting == Cardinality(Waiting(0)) = 0
<1>1. Waiting(0) = {}
  BY DEF Waiting
<1>2. QED
  BY <1>1, FS_EmptySet

(* What waits depends on the loops only.                                      *)
LEMMA WaitingSame ==
  ASSUME NEW d \in Nat,
         \A k \in 1..d : frames'[k].cur = frames[k].cur /\ frames'[k].total = frames[k].total
  PROVE  {k \in 1..d : frames'[k].cur < frames'[k].total} = Waiting(d)
  BY DEF Waiting

(* The innermost loop counts among those that wait if it is not at its last   *)
(* alternative.                                                               *)
LEMMA WaitingTop ==
  ASSUME TypeOK
  PROVE  /\ InAll \in Nat
         /\ Depth = 0 => InAll = 0
         /\ Depth # 0 => /\ InOuter \in Nat
                         /\ InAll = InOuter + (IF Top.cur < Top.total THEN 1 ELSE 0)
                         /\ Top.cur \in Nat /\ Top.total \in Nat
<1>1. Depth \in Nat
  BY FramesType
<1>2. CASE Depth = 0
  BY <1>2, NoneWaiting DEF InAll
<1>3. CASE Depth # 0
  <2>1. Depth \in 1..Depth
    BY <1>1, <1>3
  <2>2. frames[Depth].cur \in Nat /\ frames[Depth].total \in Nat
    BY <2>1, FramesType, Bounds
  <2> QED
    BY <2>1, <2>2, <1>3, WaitingStep DEF InAll, InOuter, Top
<1>4. QED
  BY <1>2, <1>3

(* The counters are numbers, the flags are Booleans.                          *)
LEMMA CountTypes ==
  ASSUME TypeOK
  PROVE  /\ Leaves \in Nat /\ nodes \in Nat /\ completed \in BOOLEAN /\ over \in BOOLEAN
  BY DEF TypeOK, Leaves

(* A call that ended in a failure counts one, and one alternative waits less. *)
LEMMA CountedMovesOn ==
  ASSUME Core, frames # <<>>, pc \in {"return", "fail", "throw"},
         RestoreState, NextAlternative(Depth), pc' = "loop",
         UNCHANGED <<over, objective, nodes, solutions, completed>>,
         pc = "return" => failures' = failures, pc # "return" => failures' = failures + 1,
         Counted
  PROVE  Counted'
<1> USE DEF Core
<1> SUFFICES ASSUME completed, ~over PROVE nodes' + Exits' = Leaves' + InOuter'
  BY DEF Counted, Unwinding
<1>1. Depth \in Nat \ {0} /\ Top.cur \in Nat /\ Top.total \in Nat
  BY FramesType, WaitingTop
<1>2. /\ \A k \in 1..(Depth - 1) : frames'[k].cur = frames[k].cur /\ frames'[k].total = frames[k].total
      /\ Top'.cur = Top.cur + 1 /\ Top'.total = Top.total
      /\ Depth' = Depth
  BY <1>1, MovesOn DEF Depth, Top
<1>3. InOuter' = InOuter
  <2>1. Depth - 1 \in Nat
    BY <1>1
  <2>2. Waiting(Depth - 1) = {k \in 1..(Depth - 1) : frames'[k].cur < frames'[k].total}
    BY <1>2, <2>1, WaitingSame
  <2> QED
    BY <1>2, <2>2 DEF InOuter, Waiting
<1>4. nodes + 1 = Leaves' + InAll
  <2>1. pc = "return" => nodes + 1 = Leaves + InAll /\ Leaves' = Leaves
    BY DEF Counted, Unwinding, Leaves
  <2>2. pc # "return" => nodes = Leaves + InAll /\ Leaves' = Leaves + 1
    BY DEF Counted, Unwinding, Leaves, TypeOK
  <2> QED
    BY <2>1, <2>2, CountTypes, WaitingTop
<1>5. Exits' = IF Top.cur < Top.total THEN 0 ELSE 1
  BY <1>1, <1>2 DEF Exits
<1>6. InAll = InOuter + (IF Top.cur < Top.total THEN 1 ELSE 0) /\ InOuter \in Nat
  BY <1>1, WaitingTop
<1>7. Leaves' \in Nat /\ nodes \in Nat /\ nodes' = nodes
  <2>1. failures' \in Nat /\ solutions' \in Nat /\ nodes \in Nat /\ nodes' = nodes
    BY DEF TypeOK
  <2>2. ASSUME NEW a \in Nat, NEW b \in Nat PROVE a + b \in Nat
    OBVIOUS
  <2> HIDE DEF Core
  <2>3. failures' + solutions' \in Nat /\ failures' + 0 \in Nat
    BY <2>1, <2>2
  <2>4. Leaves' = failures' + 0 \/ Leaves' = failures' + solutions'
    BY DEF Leaves
  <2> QED
    BY <2>1, <2>3, <2>4
<1>8. CASE Top.cur < Top.total
  <2>1. Exits' = 0 /\ InAll = InOuter + 1 /\ InOuter \in Nat
    BY <1>5, <1>6, <1>8
  <2>2. nodes = Leaves' + InOuter
    <3>1. ASSUME NEW a \in Nat, NEW b \in Nat, NEW c \in Nat, a + 1 = b + (c + 1) PROVE a = b + c
      BY <3>1
    <3>2. nodes + 1 = Leaves' + (InOuter + 1)
      BY <1>4, <2>1
    <3>3. Leaves' \in Nat /\ nodes \in Nat /\ InOuter \in Nat
      BY <1>7, <2>1
    <3> QED
      BY ONLY <3>1, <3>2, <3>3
  <2>3. nodes' + 0 = nodes
    BY <1>7
  <2> QED
    BY <1>3, <2>1, <2>2, <2>3
<1>9. CASE ~(Top.cur < Top.total)
  <2>1. Exits' = 1 /\ InAll = InOuter
    BY <1>5, <1>6, <1>9
  <2> QED
    BY <1>3, <1>4, <1>6, <1>7, <2>1
<1>10. QED
  BY <1>8, <1>9

(* Every step keeps the count of the nodes, solutions and failures.           *)
LEMMA CountedStep ==
  ASSUME Core, Counted, [Next]_vars
  PROVE  Counted'
<1> USE DEF Core
<1>1. CASE Solve
  <2>1. Depth = 0 /\ frames' = frames
    BY <1>1, FramesType DEF Place, Started, Solve
  <2>2. InAll' = InAll
    BY <2>1 DEF InAll, Waiting, Depth
  <2>3. InAll = 0 /\ Leaves' = Leaves
    BY <1>1, <2>1, WaitingTop DEF Solve, Leaves, stats
  <2> QED
    BY <1>1, <2>2, <2>3 DEF Counted, Solve, Unwinding, stats, ghosts
<1>2. CASE Leaf
  <2>1. InAll' = InAll
    BY <1>2 DEF Leaf, Waiting, InAll, Depth
  <2>2. Leaves' = IF objective THEN Leaves ELSE Leaves + 1
    BY <1>2, CountTypes DEF Leaves, Leaf, TypeOK
  <2>3. completed /\ ~Unwinding => nodes = Leaves + InAll
    BY <1>2 DEF Counted, Leaf
  <2> QED
    BY <1>2, <2>1, <2>2, <2>3, CountTypes, WaitingTop DEF Counted, Leaf, Unwinding
<1>3. ASSUME NEW n \in 1..MaxBranches, Branch(n) PROVE Counted'
  <2>1. Depth \in Nat /\ Depth' = Depth + 1 /\ Top'.cur = 1 /\ Top'.total = n
        /\ \A k \in 1..Depth : frames'[k] = frames[k]
    <3>1. frames \in Seq(FrameSet) /\ Depth \in Nat
      BY FramesType
    <3>2. [total |-> n, cur |-> 1, old |-> NoFrame] \in FrameSet
      BY Bounds DEF FrameSet, NoFrame
    <3>3. frames' = Append(frames, [total |-> n, cur |-> 1, old |-> NoFrame])
      BY <1>3 DEF Branch
    <3>4. /\ Len(frames') = Depth + 1 /\ \A k \in 1..Depth : frames'[k] = frames[k]
          /\ frames'[Depth + 1] = [total |-> n, cur |-> 1, old |-> NoFrame]
      BY <3>1, <3>2, <3>3, AppendProperties DEF Depth
    <3> QED
      BY <3>1, <3>4 DEF Depth, Top
  <2>2. InOuter' = InAll
    BY <2>1 DEF InOuter, InAll, Waiting
  <2>3. Exits' = 0
    BY <1>3, <2>1 DEF Exits, Branch
  <2>4. nodes' = nodes /\ Leaves' = Leaves /\ completed' = completed
    BY <1>3 DEF Branch, stats, Leaves
  <2>5. completed /\ ~Unwinding => nodes = Leaves + InAll
    BY <1>3 DEF Counted, Branch
  <2> QED
    BY <1>3, <2>2, <2>3, <2>4, <2>5, CountTypes DEF Counted, Branch, Unwinding
<1>4. CASE Enter
  <2>1. Depth \in Nat \ {0} /\ Depth' = Depth
        /\ \A k \in 1..Depth : frames'[k].cur = frames[k].cur /\ frames'[k].total = frames[k].total
    BY <1>4, EnterKeeps
  <2>2. InAll' = InAll
    <3>1. Waiting(Depth) = {k \in 1..Depth : frames'[k].cur < frames'[k].total}
      BY <2>1, WaitingSame
    <3> QED
      BY <2>1, <3>1 DEF InAll, Waiting
  <2>3. /\ InAll = InOuter + (IF Top.cur < Top.total THEN 1 ELSE 0) /\ InOuter \in Nat
        /\ Top.cur \in Nat /\ Top.total \in Nat
    BY <2>1, WaitingTop
  <2>4. Top.cur <= Top.total /\ pc = "loop" /\ Exits = 0 /\ ~over /\ pc' = "alt"
    BY <1>4, <2>3 DEF Enter, Exits
  <2>5. nodes' = nodes + (IF Top.cur < Top.total THEN 1 ELSE 0) /\ Leaves' = Leaves
    BY <1>4, <2>3, <2>4, CountTypes DEF Enter, Leaves
  <2>6. completed => nodes = Leaves + InOuter
    BY <2>4, CountTypes DEF Counted, Unwinding
  <2>7. completed => nodes' = Leaves' + InAll'
    BY <2>2, <2>3, <2>5, <2>6, CountTypes
  <2>8. completed' = completed
    BY <1>4 DEF Enter
  <2> QED
    BY <2>4, <2>7, <2>8 DEF Counted
<1>5. CASE ReachLimit
  <2>1. InAll' = InAll
    BY <1>5 DEF ReachLimit, Waiting, Depth, InAll
  <2> QED
    BY <1>5, <2>1 DEF Counted, ReachLimit, Unwinding, Leaves, stats
<1>6. ASSUME NEW o \in Outcomes, Alternative(o) PROVE Counted'
  <2>1. InAll' = InAll
    BY <1>6 DEF Alternative, Waiting, Depth, InAll
  <2> QED
    BY <1>6, <2>1 DEF Counted, Alternative, Unwinding, Leaves, stats, Outcomes
<1>7. CASE Leave
  <2>1. Depth \in Nat \ {0} /\ Depth' = Depth - 1 /\ \A k \in 1..(Depth - 1) : frames'[k] = frames[k]
    BY <1>7, LeaveKeeps
  <2>2. InAll' = InOuter
    BY <2>1 DEF Waiting, InAll, InOuter
  <2>3. ~over => Exits = 1
    BY <1>7, <2>1, WaitingTop DEF Leave, Exits
  <2>4. Leaves' = Leaves /\ nodes' = nodes /\ completed' = completed
    BY <1>7 DEF Leave, Leaves, stats
  <2> QED
    BY <1>7, <2>2, <2>3, <2>4 DEF Counted, Leave, Unwinding
<1>8. CASE Return
  BY <1>8, CountedMovesOn DEF Return, stats
<1>9. CASE Fail
  BY <1>9, FailGoesToTop, CountedMovesOn DEF Fail
<1>10. CASE Catch
  BY <1>10, CountedMovesOn DEF Catch
<1>11. CASE Crash
  BY <1>11 DEF Counted, Crash
<1>12. CASE End
  <2>1. InAll = 0
    BY <1>12, FramesType, WaitingTop DEF End
  <2>2. completed' => completed /\ pc = "return"
    BY <1>12 DEF End
  <2>3. completed' => nodes + 1 = Leaves
    BY <2>1, <2>2, CountTypes DEF Counted, Unwinding
  <2>4. nodes' = nodes /\ Leaves' = Leaves /\ pc' = "done"
    BY <1>12 DEF End, Leaves
  <2> QED
    BY <2>3, <2>4 DEF Counted
<1>13. CASE UNCHANGED vars
  <2>1. InAll' = InAll /\ InOuter' = InOuter /\ Exits' = Exits /\ Leaves' = Leaves /\ Unwinding' = Unwinding
    BY <1>13 DEF vars, Waiting, InAll, InOuter, Depth, Exits, Top, Leaves, stats, Unwinding
  <2> QED
    BY <1>13, <2>1 DEF vars, Counted, stats
<1>14. QED
  BY <1>1, <1>2, <1>3, <1>4, <1>5, <1>6, <1>7, <1>8, <1>9, <1>10, <1>11, <1>12, <1>13 DEF Next
--------------------------------------------------------------------------------
(* Every alternative is tried.                                                *)
LEMMA TriedGrows ==
  ASSUME NEW p, tried' = tried, Tried(p)
  PROVE  Tried(p)'
  BY DEF Tried

(* The call that ended was of the alternative entered last.                   *)
LEMMA CoveringMovesOn ==
  ASSUME Core, frames # <<>>, pc \in {"return", "fail", "throw"},
         RestoreState, NextAlternative(Depth), pc' = "loop",
         UNCHANGED <<over, completed, opened, tried>>, Covering
  PROVE  Covering'
<1> USE DEF Core
<1> SUFFICES ASSUME completed, ~over, NEW node \in opened, NEW i \in 1..node[2]
             PROVE  Tried(Append(node[1], i))' \/ ToCome(node[1], node[2], i)'
  BY DEF Covering, Unwinding
<1>1. CASE Tried(Append(node[1], i))
  BY <1>1, TriedGrows
<1>2. CASE ToCome(node[1], node[2], i)
  <2>1. PICK k \in 1..Depth : Follows(node[1], k - 1) /\ node[2] = frames[k].total
                              /\ frames[k].cur + 1 <= i
    BY <1>2 DEF ToCome
  <2>2. /\ Depth \in Nat /\ Depth' = Depth /\ frames[k].cur \in Nat
        /\ frames'[k].cur = frames[k].cur + (IF k = Depth THEN 1 ELSE 0)
        /\ frames'[k].total = frames[k].total
        /\ \A j \in 1..(Depth - 1) : frames'[j].cur = frames[j].cur
    BY FramesType, MovesOn DEF Depth
  <2>3. Follows(node[1], k - 1)'
    BY <2>1, <2>2 DEF Follows
  <2> QED
    BY <2>1, <2>2, <2>3 DEF ToCome
<1>3. QED
  BY <1>1, <1>2 DEF Covering, Unwinding

(* A step that keeps the frames away from the head of a loop.                 *)
LEMMA CoveringKept ==
  ASSUME Covering, UNCHANGED <<frames, opened, tried>>, completed' => completed,
         completed' /\ ~Unwinding' => pc # "loop" /\ pc' # "loop" /\ ~Unwinding
  PROVE  Covering'
<1> SUFFICES ASSUME completed', ~Unwinding', NEW node \in opened, NEW i \in 1..node[2]
             PROVE  Tried(Append(node[1], i))' \/ ToCome(node[1], node[2], i)'
  BY DEF Covering
<1>1. CASE Tried(Append(node[1], i))
  BY <1>1, TriedGrows
<1>2. CASE ToCome(node[1], node[2], i)
  BY <1>2 DEF ToCome, Follows, Depth
<1>3. QED
  BY <1>1, <1>2 DEF Covering

(* A branching owes all its alternatives, none before its first.              *)
LEMMA CoveringBranch ==
  ASSUME Core, Covering, NEW n \in 1..MaxBranches, Branch(n)
  PROVE  Covering'
<1> USE DEF Core
<1> DEFINE f == [total |-> n, cur |-> 1, old |-> NoFrame]
<1>1. /\ frames \in Seq(FrameSet) /\ Depth \in Nat /\ Follows(here, Depth) /\ here \in Paths
  BY FramesType DEF Branch, Place, Started, TypeOK
<1>2. f \in FrameSet /\ f.total = n /\ f.cur = 1
  BY Bounds DEF FrameSet, NoFrame
<1> HIDE DEF f
<1>3. /\ Depth' = Depth + 1 /\ frames'[Depth + 1] = f
      /\ \A k \in 1..Depth : frames'[k] = frames[k]
  <2>1. frames' = Append(frames, f)
    BY DEF Branch, f
  <2> QED
    BY <1>1, <1>2, <2>1, AppendProperties DEF Depth
<1>4. /\ opened' = opened \cup {<<here, n>>} /\ tried' = tried /\ completed' = completed
      /\ pc = "branching" /\ pc' = "loop"
  BY DEF Branch, stats
<1>5. opened' \subseteq Paths \X (1..MaxBranches)
  BY <1>1, <1>4 DEF Covering
<1>6. ASSUME completed, NEW node \in opened, NEW i \in 1..node[2]
      PROVE  Tried(Append(node[1], i))' \/ ToCome(node[1], node[2], i)'
  <2>1. CASE Tried(Append(node[1], i))
    BY <2>1, <1>4, TriedGrows
  <2>2. CASE ToCome(node[1], node[2], i)
    <3>1. PICK k \in 1..Depth : /\ Follows(node[1], k - 1) /\ node[2] = frames[k].total
                                /\ frames[k].cur + 1 <= i
      BY <2>2, <1>4 DEF ToCome
    <3>2. Follows(node[1], k - 1)'
      BY <1>1, <1>3, <3>1 DEF Follows
    <3>3. k \in 1..Depth' /\ k # Depth' /\ frames'[k] = frames[k]
      BY <1>1, <1>3
    <3> QED
      BY <3>1, <3>2, <3>3 DEF ToCome
  <2>3. QED
    BY <1>4, <1>6, <2>1, <2>2 DEF Covering, Unwinding
<1>7. ASSUME NEW p, p = here, NEW i \in 1..n PROVE ToCome(p, n, i)'
  <2>1. Depth' \in 1..Depth' /\ frames'[Depth'] = f /\ Depth' - 1 = Depth
    BY <1>1, <1>3
  <2>2. Len(p) = Depth' - 1 /\ \A j \in 1..(Depth' - 1) : p[j] = frames'[j].cur
    BY <1>1, <1>3, <1>7 DEF Follows
  <2>3. 1 + 0 <= i
    BY Bounds
  <2> QED
    BY <1>2, <1>4, <2>1, <2>2, <2>3 DEF ToCome, Follows
<1>8. QED
  <2> SUFFICES ASSUME completed', NEW node \in opened', NEW i \in 1..node[2]
               PROVE  Tried(Append(node[1], i))' \/ ToCome(node[1], node[2], i)'
    BY <1>5 DEF Covering
  <2>1. CASE node \in opened
    BY <1>4, <1>6, <2>1
  <2>2. CASE node = <<here, n>>
    <3>1. node[1] = here /\ node[2] = n
      BY <2>2
    <3> QED
      BY <1>7, <3>1
  <2>3. QED
    BY <1>4, <2>1, <2>2

(* Entering pays for one alternative, the one the loop stands at.             *)
LEMMA CoveringEnter ==
  ASSUME Core, Covering, Enter
  PROVE  Covering'
<1> USE DEF Core
<1>1. /\ Depth \in Nat \ {0} /\ Depth' = Depth
      /\ \A k \in 1..Depth : frames'[k].cur = frames[k].cur /\ frames'[k].total = frames[k].total
  BY EnterKeeps
<1>2. /\ pc = "loop" /\ ~over /\ pc' = "alt" /\ opened' = opened /\ completed' = completed
      /\ tried' = Append(tried, Append(here, Top.cur))
  BY DEF Enter
<1>3. Follows(here, Depth - 1) /\ here \in Paths /\ Top.cur <= Top.total
  BY <1>2 DEF Place, TypeOK, Enter
<1>4. Append(here, Top.cur) \in Paths
  <2>1. Top.cur \in 1..MaxBranches /\ Depth <= MaxDepth
    BY <1>1, <1>3, FramesType, Bounds DEF Top
  <2>2. Len(here) < MaxDepth
    BY <1>1, <1>3, <2>1, Bounds DEF Follows
  <2> QED
    BY <1>3, <2>1, <2>2, PathAppend
<1>5. /\ \A p : Tried(p) => Tried(p)'
      /\ \A p : p = Append(here, Top.cur) => Tried(p)'
  <2>1. tried \in Seq(Paths)
    BY DEF TypeOK
  <2>2. /\ DOMAIN tried' = 1..(Len(tried) + 1) /\ DOMAIN tried = 1..Len(tried) /\ Len(tried) \in Nat
        /\ \A j \in 1..Len(tried) : tried'[j] = tried[j]
        /\ tried'[Len(tried) + 1] = Append(here, Top.cur)
    BY <1>2, <1>4, <2>1, AppendProperties, LenProperties
  <2>3. ASSUME NEW p, Tried(p) PROVE Tried(p)'
    BY <2>2, <2>3 DEF Tried
  <2>4. \E j \in DOMAIN tried' : tried'[j] = Append(here, Top.cur)
    BY <2>2
  <2>5. ASSUME NEW p, p = Append(here, Top.cur) PROVE Tried(p)'
    BY <2>4, <2>5 DEF Tried
  <2> QED
    BY <2>3, <2>5
<1> SUFFICES ASSUME completed, NEW node \in opened, NEW i \in 1..node[2]
             PROVE  Tried(Append(node[1], i))' \/ ToCome(node[1], node[2], i)'
  BY <1>2 DEF Covering
<1>6. node[1] \in Paths /\ node[2] \in 1..MaxBranches /\ i \in Nat
  BY Bounds DEF Covering
<1>7. Tried(Append(node[1], i)) \/ ToCome(node[1], node[2], i)
  BY <1>2 DEF Covering, Unwinding
<1>8. CASE Tried(Append(node[1], i))
  BY <1>5, <1>8
<1>9. CASE ToCome(node[1], node[2], i)
  <2>1. PICK k \in 1..Depth : /\ Follows(node[1], k - 1) /\ node[2] = frames[k].total
                              /\ frames[k].cur + (IF k = Depth THEN 0 ELSE 1) <= i
    BY <1>2, <1>9 DEF ToCome
  <2>2. frames[k].cur \in Nat /\ k \in Nat
    BY <1>1, FramesType
  <2>3. Follows(node[1], k - 1)'
    BY <1>1, <2>1 DEF Follows
  <2>4. CASE k = Depth /\ frames[k].cur = i
    <3>1. node[1] = here
      BY <1>3, <1>6, <2>1, <2>4, PathEqual DEF Follows
    <3>2. Append(node[1], i) = Append(here, Top.cur)
      BY <2>4, <3>1 DEF Top
    <3> QED
      BY <1>5, <3>2
  <2>5. CASE ~(k = Depth /\ frames[k].cur = i)
    <3>1. frames[k].cur + 1 <= i
      BY <1>6, <2>1, <2>2, <2>5
    <3> QED
      BY <1>1, <1>2, <2>1, <2>3, <3>1 DEF ToCome
  <2>6. QED
    BY <2>4, <2>5
<1>10. QED
  BY <1>7, <1>8, <1>9

(* A loop that ran to its end leaves nothing owed.                            *)
LEMMA CoveringLeave ==
  ASSUME Core, Covering, Leave
  PROVE  Covering'
<1> USE DEF Core
<1>1. Depth \in Nat \ {0} /\ Depth' = Depth - 1 /\ \A k \in 1..(Depth - 1) : frames'[k] = frames[k]
  BY LeaveKeeps
<1>2. /\ pc = "loop" /\ (over => pc' = "throw") /\ (~over => pc' = "return")
      /\ over' = over /\ opened' = opened /\ tried' = tried /\ completed' = completed
      /\ (~over => Top.cur > Top.total)
  BY DEF Leave, stats, ghosts
<1> SUFFICES ASSUME completed, ~over, NEW node \in opened, NEW i \in 1..node[2]
             PROVE  Tried(Append(node[1], i))' \/ ToCome(node[1], node[2], i)'
  BY <1>2 DEF Covering, Unwinding
<1>3. CASE Tried(Append(node[1], i))
  BY <1>2, <1>3, TriedGrows
<1>4. CASE ToCome(node[1], node[2], i)
  <2>1. PICK k \in 1..Depth : /\ Follows(node[1], k - 1) /\ node[2] = frames[k].total
                              /\ frames[k].cur + (IF k = Depth THEN 0 ELSE 1) <= i
    BY <1>2, <1>4 DEF ToCome
  <2>2. frames[k].cur \in Nat /\ frames[k].total \in Nat /\ i <= frames[k].total /\ i \in Nat
    BY <2>1, FramesType, Bounds
  <2>3. k # Depth
    BY <1>2, <2>1, <2>2 DEF Top
  <2>4. Follows(node[1], k - 1)'
    BY <1>1, <2>1 DEF Follows
  <2> QED
    BY <1>1, <1>2, <2>1, <2>3, <2>4 DEF ToCome
<1>5. QED
  BY <1>2, <1>3, <1>4 DEF Covering, Unwinding

(* Every step keeps what was promised of the opened nodes.                    *)
LEMMA CoveringStep ==
  ASSUME Core, Covering, pc = "idle" => opened = {}, [Next]_vars
  PROVE  Covering'
<1> USE DEF Core
<1>1. CASE Solve
  BY <1>1 DEF Solve, Covering, ghosts
<1>2. CASE Leaf
  BY <1>2, CoveringKept DEF Leaf, Unwinding
<1>3. CASE ReachLimit
  BY <1>3, CoveringKept DEF ReachLimit, Unwinding, stats, ghosts
<1>4. ASSUME NEW o \in Outcomes, Alternative(o) PROVE Covering'
  BY <1>4, CoveringKept DEF Alternative, Unwinding, stats, Outcomes
<1>5. CASE Return
  BY <1>5, CoveringMovesOn DEF Return, stats, ghosts
<1>6. CASE Fail
  BY <1>6, FailGoesToTop, CoveringMovesOn DEF Fail, ghosts
<1>7. CASE Catch
  BY <1>7, CoveringMovesOn DEF Catch, ghosts
<1>8. CASE Crash
  BY <1>8, CoveringKept DEF Crash, Unwinding, stats, ghosts
<1>9. CASE End
  BY <1>9, CoveringKept DEF End, Unwinding, ghosts
<1>10. CASE UNCHANGED vars
  <2>1. Depth' = Depth /\ frames' = frames /\ pc' = pc /\ tried' = tried /\ opened' = opened
        /\ completed' = completed /\ Unwinding' = Unwinding
    BY <1>10 DEF vars, Depth, Unwinding, stats, ghosts
  <2> QED
    BY <2>1 DEF Covering, Tried, ToCome, Follows
<1>11. QED
  BY <1>1, <1>2, <1>3, <1>4, <1>5, <1>6, <1>7, <1>8, <1>9, <1>10,
     CoveringBranch, CoveringEnter, CoveringLeave DEF Next
--------------------------------------------------------------------------------
(* The order of the branching.                                                *)
LEMMA OrderedMovesOn ==
  ASSUME Core, frames # <<>>, pc \in {"return", "fail", "throw"},
         RestoreState, NextAlternative(Depth), pc' = "loop", tried' = tried, Ordered
  PROVE  Ordered'
<1> USE DEF Core
<1>1. /\ Depth \in Nat \ {0} /\ Depth' = Depth /\ frames'[Depth].cur = frames[Depth].cur + 1
      /\ \A j \in 1..(Depth - 1) : frames'[j].cur = frames[j].cur /\ frames[j].cur \in Nat
      /\ frames[Depth].cur \in Nat
  BY FramesType, MovesOn DEF Depth
<1>2. ASSUME NEW j \in DOMAIN tried PROVE Ahead(tried[j], Depth, 0)'
  <2>1. PICK k \in 1..Depth :
           /\ k <= Len(tried[j]) => tried[j][k] < frames[k].cur + (IF k = Depth THEN 1 ELSE 0)
           /\ \A i \in 1..(k - 1) : i <= Len(tried[j]) /\ tried[j][i] = frames[i].cur
    BY DEF Ordered, Ahead
  <2>2. frames[k].cur + (IF k = Depth THEN 1 ELSE 0) = frames'[k].cur + 0
    BY <1>1
  <2>3. \A i \in 1..(k - 1) : frames'[i].cur = frames[i].cur
    BY <1>1
  <2> QED
    BY <1>1, <2>1, <2>2, <2>3 DEF Ahead
<1>3. QED
  BY <1>2 DEF Ordered, Before

(* The alternatives entered before are still ahead of the next one when the   *)
(* current one is over.                                                       *)
LEMMA AheadAfter ==
  ASSUME Core, frames # <<>>, NEW p \in Paths, Ahead(p, Depth, 0) \/ Follows(p, Depth)
  PROVE  Ahead(p, Depth, 1)
<1>1. Depth \in Nat \ {0} /\ \A k \in 1..Depth : frames[k].cur \in Nat
  BY FramesType DEF Core
<1>2. CASE Ahead(p, Depth, 0)
  <2>1. PICK k \in 1..Depth : /\ k <= Len(p) => p[k] < frames[k].cur
                              /\ \A i \in 1..(k - 1) : i <= Len(p) /\ p[i] = frames[i].cur
    BY <1>1, <1>2 DEF Ahead
  <2>2. k <= Len(p) => p[k] \in Nat
    BY PathsType, Bounds
  <2>3. k <= Len(p) => p[k] < frames[k].cur + (IF k = Depth THEN 1 ELSE 0)
    BY <1>1, <2>1, <2>2
  <2> QED
    BY <2>1, <2>3 DEF Ahead
<1>3. CASE Follows(p, Depth)
  <2>1. p[Depth] < frames[Depth].cur + 1 /\ \A i \in 1..(Depth - 1) : i <= Len(p) /\ p[i] = frames[i].cur
    BY <1>1, <1>3 DEF Follows
  <2> QED
    BY <1>1, <2>1 DEF Ahead
<1>4. QED
  BY <1>2, <1>3

(* The history of the nodes is a sequence of paths.                           *)
LEMMA TriedType ==
  ASSUME TypeOK
  PROVE  /\ tried \in Seq(Paths) /\ Len(tried) \in Nat /\ DOMAIN tried = 1..Len(tried)
         /\ \A j \in DOMAIN tried : tried[j] \in Paths
  BY DEF TypeOK

(* A frame that is popped stood past its last alternative.                    *)
LEMMA OrderedLeave ==
  ASSUME Core, Ordered, Leave
  PROVE  Ordered'
<1> USE DEF Core
<1>1. Depth \in Nat \ {0} /\ Depth' = Depth - 1 /\ \A k \in 1..(Depth - 1) : frames'[k] = frames[k]
  BY LeaveKeeps
<1>2. \A k \in 1..Depth : frames[k].cur \in Nat
  BY FramesType
<1>3. pc = "loop" /\ tried' = tried /\ pc' \in {"throw", "return"}
  BY DEF Leave, ghosts
<1>4. ASSUME NEW j \in DOMAIN tried, Depth' # 0 PROVE Ahead(tried[j], Depth, 1)'
  <2> DEFINE p == tried[j]
  <2>1. \A k \in 1..Len(p) : p[k] \in Nat
    BY TriedType, PathsType, Bounds
  <2>2. PICK k \in 1..Depth : /\ k <= Len(p) => p[k] < frames[k].cur + (IF k = Depth THEN 0 ELSE 0)
                              /\ \A i \in 1..(k - 1) : i <= Len(p) /\ p[i] = frames[i].cur
    BY <1>3 DEF Ordered, Ahead
  <2>3. Len(p) \in Nat
    BY TriedType, PathsType
  <2> HIDE DEF p
  <2>4. CASE k \in 1..Depth'
    <3>1. k <= Len(p) => p[k] < frames'[k].cur + (IF k = Depth' THEN 1 ELSE 0)
      BY <1>1, <1>2, <2>1, <2>2, <2>3, <2>4
    <3>2. \A i \in 1..(k - 1) : i <= Len(p) /\ p[i] = frames'[i].cur
      BY <1>1, <2>2, <2>4
    <3> QED
      BY <1>3, <2>4, <3>1, <3>2 DEF Ahead, p
  <2>5. CASE k = Depth
    <3>1. Depth' \in 1..Depth' /\ Depth' \in 1..(k - 1)
      BY <1>1, <1>4, <2>5
    <3>2. p[Depth'] < frames'[Depth'].cur + 1
      BY <1>1, <1>2, <2>2, <3>1
    <3>3. \A i \in 1..(Depth' - 1) : i <= Len(p) /\ p[i] = frames'[i].cur
      BY <1>1, <2>2, <2>5
    <3> QED
      BY <1>3, <3>1, <3>2, <3>3 DEF Ahead, p
  <2>6. QED
    BY <1>1, <2>4, <2>5
<1>5. frames' # <<>> => Depth' # 0
  <2>1. frames' \in Seq(FrameSet)
    BY LeaveKeeps
  <2> QED
    BY <2>1, EmptySeq DEF Depth
<1>6. QED
  BY <1>3, <1>4, <1>5 DEF Ordered, Before

(* A node that branches now was never tried below.                            *)
LEMMA OrderedBranch ==
  ASSUME Core, Ordered, NEW n \in 1..MaxBranches, Branch(n)
  PROVE  Ordered'
<1> USE DEF Core
<1> DEFINE f == [total |-> n, cur |-> 1, old |-> NoFrame]
<1>1. frames \in Seq(FrameSet) /\ Depth \in Nat /\ \A k \in 1..Depth : frames[k].cur \in Nat
  BY FramesType
<1>2. f \in FrameSet /\ f.cur = 1
  BY Bounds DEF FrameSet, NoFrame
<1> HIDE DEF f
<1>3. /\ Depth' = Depth + 1 /\ frames'[Depth + 1] = f
      /\ \A k \in 1..Depth : frames'[k] = frames[k]
  <2>1. frames' = Append(frames, f)
    BY DEF Branch, f
  <2> QED
    BY <1>1, <1>2, <2>1, AppendProperties DEF Depth
<1>4. tried' = tried /\ pc = "branching" /\ pc' = "loop"
  BY DEF Branch
<1>5. ASSUME NEW j \in DOMAIN tried PROVE Ahead(tried[j], Depth, 0)'
  <2> DEFINE p == tried[j]
  <2>1. Len(p) \in Nat
    BY TriedType, PathsType
  <2> HIDE DEF p
  <2>2. CASE Ahead(p, Depth, 0)
    <3>1. PICK k \in 1..Depth : /\ k <= Len(p) => p[k] < frames[k].cur + (IF k = Depth THEN 0 ELSE 0)
                                /\ \A i \in 1..(k - 1) : i <= Len(p) /\ p[i] = frames[i].cur
      BY <2>2 DEF Ahead
    <3>2. k <= Len(p) => p[k] < frames'[k].cur + (IF k = Depth' THEN 0 ELSE 0)
      BY <1>1, <1>3, <3>1
    <3>3. \A i \in 1..(k - 1) : i <= Len(p) /\ p[i] = frames'[i].cur
      <4> TAKE i \in 1..(k - 1)
      <4>1. i \in 1..Depth
        BY <1>1
      <4>2. frames'[i].cur = frames[i].cur
        BY <1>3, <4>1
      <4> QED
        BY <3>1, <4>2
    <3>4. k \in 1..Depth'
      BY <1>1, <1>3
    <3> QED
      BY <1>4, <3>2, <3>3, <3>4 DEF Ahead, p
  <2>3. CASE Follows(p, Depth)
    <3>1. \A i \in 1..(Depth' - 1) : i <= Len(p) /\ p[i] = frames'[i].cur
      BY <1>1, <1>3, <2>3 DEF Follows
    <3>2. ~(Depth' <= Len(p)) /\ Depth' \in 1..Depth'
      BY <1>1, <1>3, <2>1, <2>3 DEF Follows
    <3> QED
      BY <1>4, <3>1, <3>2 DEF Ahead, p
  <2>4. QED
    BY <1>4, <2>2, <2>3 DEF Ordered, p
<1>6. QED
  BY <1>4, <1>5 DEF Ordered, Before

(* The alternative entered is behind none of those tried before.              *)
LEMMA OrderedEnter ==
  ASSUME Core, Ordered, Enter
  PROVE  Ordered'
<1> USE DEF Core
<1>1. /\ Depth \in Nat \ {0} /\ Depth' = Depth
      /\ \A k \in 1..Depth : frames'[k].cur = frames[k].cur /\ frames[k].cur \in Nat
  BY EnterKeeps, FramesType
<1> DEFINE q == Append(here, Top.cur)
<1>2. pc = "loop" /\ pc' = "alt" /\ tried' = Append(tried, q)
  BY DEF Enter
<1>3. q \in Paths /\ Len(q) = Depth /\ \A i \in 1..Depth : q[i] = frames[i].cur
  <2>1. Follows(here, Depth - 1) /\ here \in Paths /\ Top.cur <= Top.total
    BY <1>2 DEF Place, TypeOK, Enter
  <2>2. Top.cur \in 1..MaxBranches /\ Depth <= MaxDepth
    BY <1>1, <2>1, FramesType, Bounds DEF Top
  <2>3. Len(here) < MaxDepth /\ Len(here) + 1 = Depth
    BY <1>1, <2>1, <2>2, Bounds DEF Follows
  <2>4. /\ q \in Paths /\ Len(q) = Depth
        /\ \A i \in 1..(Depth - 1) : q[i] = here[i]
        /\ q[Depth] = Top.cur
    BY <2>1, <2>2, <2>3, PathAppend
  <2> QED
    BY <1>1, <2>1, <2>4 DEF Follows, Top
<1> HIDE DEF q
<1>4. /\ Len(tried) \in Nat /\ DOMAIN tried = 1..Len(tried) /\ DOMAIN tried' = 1..(Len(tried) + 1)
      /\ \A j \in 1..Len(tried) : tried'[j] = tried[j] /\ tried[j] \in Paths
      /\ tried'[Len(tried) + 1] = q
  BY <1>2, <1>3, TriedType, AppendProperties, LenProperties
<1>5. ASSUME NEW j \in 1..Len(tried) PROVE Ahead(tried[j], Depth, 0) /\ Before(tried[j], q)
  <2>1. Ahead(tried[j], Depth, 0)
    BY <1>2, <1>4 DEF Ordered
  <2>2. PICK k \in 1..Depth :
           /\ k <= Len(tried[j]) => tried[j][k] < frames[k].cur + (IF k = Depth THEN 0 ELSE 0)
           /\ \A i \in 1..(k - 1) : i <= Len(tried[j]) /\ tried[j][i] = frames[i].cur
    BY <2>1 DEF Ahead
  <2>3. k <= Len(tried[j]) => tried[j][k] < q[k]
    BY <1>1, <1>3, <2>2
  <2>4. \A i \in 1..(k - 1) : i <= Len(tried[j]) /\ tried[j][i] = q[i]
    BY <1>1, <1>3, <2>2
  <2> QED
    BY <1>3, <2>1, <2>3, <2>4 DEF Before
<1>6. \A j, k \in DOMAIN tried' : j < k => Before(tried'[j], tried'[k])
  <2> SUFFICES ASSUME NEW j \in 1..(Len(tried) + 1), NEW k \in 1..(Len(tried) + 1), j < k
               PROVE  Before(tried'[j], tried'[k])
    BY <1>4
  <2>1. j \in 1..Len(tried)
    BY <1>4
  <2>2. CASE k = Len(tried) + 1
    BY <1>4, <1>5, <2>1, <2>2
  <2>3. CASE k # Len(tried) + 1
    BY <1>4, <2>1, <2>3 DEF Ordered
  <2>4. QED
    BY <2>2, <2>3
<1>7. ASSUME NEW j \in DOMAIN tried' PROVE (Ahead(tried[j], Depth, 0) \/ Follows(tried[j], Depth))'
  <2>1. CASE j = Len(tried) + 1
    BY <1>1, <1>3, <1>4, <2>1 DEF Follows
  <2>2. CASE j # Len(tried) + 1
    <3>1. j \in 1..Len(tried) /\ tried'[j] = tried[j]
      BY <1>4, <2>2
    <3>2. PICK k \in 1..Depth :
           /\ k <= Len(tried[j]) => tried[j][k] < frames[k].cur + (IF k = Depth THEN 0 ELSE 0)
           /\ \A i \in 1..(k - 1) : i <= Len(tried[j]) /\ tried[j][i] = frames[i].cur
      BY <1>5, <3>1 DEF Ahead
    <3>3. \A i \in 1..k : frames'[i].cur = frames[i].cur
      BY <1>1
    <3>4. /\ k \in 1..Depth'
          /\ k <= Len(tried'[j]) => tried'[j][k] < frames'[k].cur + (IF k = Depth' THEN 0 ELSE 0)
          /\ \A i \in 1..(k - 1) : i <= Len(tried'[j]) /\ tried'[j][i] = frames'[i].cur
      BY <1>1, <3>1, <3>2, <3>3
    <3>5. Ahead(tried[j], Depth, 0)'
      BY <3>4 DEF Ahead
    <3> QED
      BY <3>5
  <2>3. QED
    BY <2>1, <2>2
<1>8. frames' # <<>>
  <2>1. frames' \in Seq(FrameSet)
    BY EnterKeeps
  <2> QED
    BY <1>1, <2>1, EmptySeq DEF Depth
<1>9. QED
  BY <1>2, <1>6, <1>7, <1>8 DEF Ordered, Before

(* A step that keeps the frames, away from the head of a loop.                *)
LEMMA OrderedKept ==
  ASSUME Core, Ordered, frames' = frames, tried' = tried, opened' = opened,
         \/ pc' = pc
         \/ pc \in {"alt", "branching"} /\ pc' \in {"branching", "fail", "throw", "return"}
            /\ (frames = <<>> => pc' # "branching")
         \/ pc \notin {"loop", "idle"} /\ pc' \in {"crashed", "done"}
  PROVE  Ordered'
<1>1. Depth' = Depth
  BY DEF Depth
<1>2. ASSUME NEW j \in DOMAIN tried
      PROVE  /\ Ahead(tried[j], Depth, 0)' <=> Ahead(tried[j], Depth, 0)
             /\ Ahead(tried[j], Depth, 1)' <=> Ahead(tried[j], Depth, 1)
             /\ Follows(tried[j], Depth)' <=> Follows(tried[j], Depth)
  BY <1>1 DEF Ahead, Follows
<1>3. \A j, k \in DOMAIN tried' : j < k => Before(tried[j], tried[k])'
  BY DEF Ordered, Before
<1>4. ASSUME NEW j \in DOMAIN tried, frames # <<>>,
             Ahead(tried[j], Depth, 0) \/ Follows(tried[j], Depth)
      PROVE  Ahead(tried[j], Depth, 1)
  BY <1>4, AheadAfter, TriedType DEF Core
<1>5. CASE pc' = pc
  BY <1>2, <1>3, <1>5 DEF Ordered
<1>6. CASE pc \in {"alt", "branching"} /\ pc' \in {"branching", "fail", "throw", "return"}
           /\ (frames = <<>> => pc' # "branching")
  BY <1>2, <1>3, <1>4, <1>6 DEF Ordered
<1>7. CASE pc \notin {"loop", "idle"} /\ pc' \in {"crashed", "done"}
  BY <1>3, <1>7 DEF Ordered
<1>8. QED
  BY <1>5, <1>6, <1>7

(* Every step keeps the order of the branching.                               *)
LEMMA OrderedStep ==
  ASSUME Core, Ordered, [Next]_vars
  PROVE  Ordered'
<1> USE DEF Core
<1>1. CASE Solve
  <2>1. tried' = <<>> /\ opened' = {} /\ pc' = "branching" /\ DOMAIN tried' = {}
    BY <1>1, EmptySeq DEF Solve, Ordered, ghosts
  <2> QED
    BY <2>1 DEF Ordered
<1>2. CASE Leaf
  BY <1>2, OrderedKept DEF Leaf
<1>3. CASE ReachLimit
  BY <1>3, OrderedKept DEF ReachLimit, ghosts
<1>4. ASSUME NEW o \in Outcomes, Alternative(o) PROVE Ordered'
  <2>1. frames # <<>>
    BY <1>4 DEF Alternative, Place
  <2> QED
    BY <1>4, <2>1, OrderedKept DEF Alternative, Outcomes
<1>5. CASE Return
  BY <1>5, OrderedMovesOn DEF Return, ghosts
<1>6. CASE Fail
  BY <1>6, FailGoesToTop, OrderedMovesOn DEF Fail, ghosts
<1>7. CASE Catch
  BY <1>7, OrderedMovesOn DEF Catch, ghosts
<1>8. CASE Crash
  BY <1>8, OrderedKept DEF Crash, ghosts
<1>9. CASE End
  BY <1>9, OrderedKept DEF End, ghosts
<1>10. CASE UNCHANGED vars
  BY <1>10, OrderedKept DEF vars, ghosts
<1>11. QED
  BY <1>1, <1>2, <1>3, <1>4, <1>5, <1>6, <1>7, <1>8, <1>9, <1>10,
     OrderedBranch, OrderedEnter, OrderedLeave DEF Next
--------------------------------------------------------------------------------

(* The invariant holds before the search begins.                              *)
LEMMA InvInit == Init => IInv
<1> SUFFICES ASSUME Init PROVE IInv
  OBVIOUS
<1>1. Core
  BY CoreInit
<1>2. InAll = 0
  BY <1>1, FramesType, WaitingTop DEF Core, Init
<1>3. Counted
  BY <1>2 DEF Init, Counted, Leaves
<1>4. DOMAIN tried = {} /\ tried = <<>>
  BY EmptySeq DEF Init
<1>5. Covering /\ Ordered
  BY <1>4 DEF Init, Covering, Ordered
<1>6. QED
  BY <1>1, <1>3, <1>5 DEF IInv

(* Every step keeps the invariant.                                            *)
LEMMA InvStep == IInv /\ [Next]_vars => IInv'
  BY CoreStep, CountedStep, CoveringStep, OrderedStep DEF IInv, Ordered

(* Types, place, handlers, counters, promises and order are invariant of the  *)
(* search with every number of alternatives and every depth                   *)
(* (search.cpp:99-143).                                                       *)
THEOREM Invariant == Spec => []IInv
  BY InvInit, InvStep, PTL DEF Spec

(* What follows a loop's call is the node it stands at.                       *)
LEMMA NodeFollowed ==
  ASSUME TypeOK, Place, NEW k \in 1..Depth, NEW p \in Paths, Follows(p, k - 1)
  PROVE  NodeOf(k) = p
<1>1. k - 1 \in Nat /\ Len(p) = k - 1 /\ \A i \in 1..(k - 1) : p[i] = frames[i].cur
  BY FramesType DEF Follows
<1>2. p \in [1..(k - 1) -> 1..MaxBranches]
  BY <1>1, PathsType, LenProperties
<1>3. QED
  BY <1>1, <1>2 DEF NodeOf

(* The levels of the trail are those of the calls on the stack.               *)
LEMMA InvBalanced == Core => Balanced
<1> SUFFICES ASSUME Core, pc = "loop"
             PROVE  /\ here = NodeOf(Depth)
                    /\ levels = <<<<>>>> \o [k \in 1..(Depth - 1) |-> NodeOf(k)]
  BY DEF Balanced, Core
<1> USE DEF Core
<1>1. Depth \in Nat \ {0} /\ Follows(here, Depth - 1) /\ here \in Paths
  BY FramesType DEF Place, TypeOK
<1>2. /\ levels \in Seq(Paths) /\ Len(levels) = Depth
      /\ \A k \in 1..Depth : levels[k] \in Paths /\ Follows(levels[k], IF k = 1 THEN 0 ELSE k - 2)
  <2>1. levels \in Seq(Paths) /\ Len(levels) = Depth
    BY <1>1 DEF Place, Started, TypeOK
  <2>2. \A k \in 1..Depth : levels[k] \in Paths
    BY <1>1, <2>1
  <2> QED
    BY <2>1, <2>2 DEF Place
<1>3. here = NodeOf(Depth)
  BY <1>1, NodeFollowed
<1>4. ASSUME NEW k \in 2..Depth PROVE levels[k] = NodeOf(k - 1)
  <2>1. k \in 1..Depth /\ k - 1 \in 1..Depth /\ k # 1 /\ k - 2 = (k - 1) - 1
    BY <1>1
  <2>2. Follows(levels[k], (k - 1) - 1) /\ levels[k] \in Paths
    BY <1>2, <2>1
  <2> QED
    BY <2>1, <2>2, NodeFollowed
<1>5. levels[1] = <<>>
  BY <1>1, <1>2, EmptyPath DEF Follows
<1> DEFINE root == <<<<>>>>
           rest == [k \in 1..(Depth - 1) |-> NodeOf(k)]
<1>6. root \in Seq(Paths) /\ Len(root) = 1 /\ root[1] = <<>>
  BY EmptyPath
<1>7. rest \in Seq(Paths) /\ Len(rest) = Depth - 1 /\ \A k \in 1..(Depth - 1) : rest[k] = levels[k + 1]
  <2>1. \A k \in 1..(Depth - 1) : NodeOf(k) = levels[k + 1] /\ levels[k + 1] \in Paths
    BY <1>1, <1>2, <1>4
  <2>2. rest \in [1..(Depth - 1) -> Paths] /\ Depth - 1 \in Nat
    BY <1>1, <2>1
  <2>3. rest \in Seq(Paths)
    BY <2>2, SeqDef
  <2>4. Len(rest) = Depth - 1
    BY <2>2, <2>3
  <2> QED
    BY <2>1, <2>3, <2>4
<1> HIDE DEF root, rest
<1>8. /\ root \o rest \in Seq(Paths) /\ Len(root \o rest) = Depth
      /\ \A k \in 1..Depth : (root \o rest)[k] = IF k <= 1 THEN root[k] ELSE rest[k - 1]
  <2>1. /\ root \o rest \in Seq(Paths) /\ Len(root \o rest) = Len(root) + Len(rest)
        /\ \A i \in 1..(Len(root) + Len(rest)) :
              (root \o rest)[i] = IF i <= Len(root) THEN root[i] ELSE rest[i - Len(root)]
    <3>1. root \in Seq(Paths) /\ rest \in Seq(Paths)
      BY <1>6, <1>7
    <3> QED
      BY ONLY <3>1, ConcatProperties
  <2>2. 1 + (Depth - 1) = Depth
    BY <1>1
  <2> QED
    BY <1>6, <1>7, <2>1, <2>2
<1>9. \A k \in 1..Depth : (root \o rest)[k] = levels[k]
  <2> SUFFICES ASSUME NEW k \in 1..Depth PROVE (root \o rest)[k] = levels[k]
    OBVIOUS
  <2>1. CASE k = 1
    BY <1>5, <1>6, <1>8, <2>1
  <2>2. CASE k # 1
    <3>1. k - 1 \in 1..(Depth - 1) /\ ~(k <= 1) /\ (k - 1) + 1 = k
      BY <1>1, <2>2
    <3> QED
      BY <1>7, <1>8, <3>1
  <2>3. QED
    BY <2>1, <2>2
<1>10. levels = root \o rest
  BY <1>2, <1>8, <1>9, SeqEqual
<1>11. QED
  BY <1>3, <1>10 DEF root, rest

(* Between two alternatives of a node the search is back in the state of the  *)
(* node, and the trail has exactly the levels of the calls that are open:     *)
(* what dfs() promises whichever way an alternative ends (search.cpp:117-139).*)
THEOREM BalancedHolds == Spec => []Balanced
<1>1. IInv => Balanced
  BY InvBalanced DEF IInv
<1>2. QED
  BY <1>1, Invariant, PTL

(* A failure below the root resumes in the innermost call of dfs(), never in  *)
(* a handler further out (search.cpp:122-133).                                *)
THEOREM HandlerReadyHolds == Spec => []HandlerReady
<1>1. IInv => HandlerReady
  <2> SUFFICES ASSUME IInv, pc = "fail", here # <<>> PROVE frames # <<>> /\ ptr = Depth
    BY DEF HandlerReady
  <2>1. Follows(here, Depth) /\ here \in Paths /\ ptr = Depth
    BY DEF IInv, Core, Place, Started, TypeOK, Handlers
  <2>2. frames # <<>>
    BY <2>1, EmptyPath, FramesType DEF Follows, IInv, Core
  <2> QED
    BY <2>1, <2>2
<1>2. QED
  BY <1>1, Invariant, PTL

(* A search without exceptions hands back the handler it found               *)
(* (search.cpp:122-133).                                                      *)
THEOREM HandlerRestoredHolds == Spec => []HandlerRestored
<1>1. IInv => HandlerRestored
  <2> SUFFICES ASSUME IInv, pc = "done", ~raised, ~over PROVE ptr = NoFrame
    BY DEF HandlerRestored
  <2>1. ptr = Depth /\ frames = <<>>
    BY DEF IInv, Core, Handlers, Place, Started
  <2> QED
    BY <2>1, FramesType DEF NoFrame, IInv, Core
<1>2. QED
  BY <1>1, Invariant, PTL

(* The counters of a completed search fit a tree of binary choices            *)
(* (search.cpp:116, 123-124).                                                 *)
THEOREM LeavesAddUpHolds == Spec => []LeavesAddUp
<1>1. IInv => LeavesAddUp
  BY DEF IInv, LeavesAddUp, Counted, Unwinding, Leaves
<1>2. QED
  BY <1>1, Invariant, PTL

(* A completed search is exhaustive: each alternative of each node it opened  *)
(* was entered, once, in the order of the branching, and the state it started *)
(* from is back (search.cpp:29-35, 117, 140-142).                             *)
THEOREM CompleteHolds == Spec => []Complete
<1>1. IInv => Complete
  <2> SUFFICES ASSUME IInv, pc = "done", completed PROVE Complete
    BY DEF Complete
  <2>1. frames = <<>> /\ here = <<>> /\ levels = <<>>
    BY DEF IInv, Core, Place, Started
  <2>2. ASSUME NEW node \in opened, NEW i \in 1..node[2]
        PROVE  \E k \in DOMAIN tried : tried[k] = Append(node[1], i)
    <3>1. Depth = 0
      BY <2>1, FramesType DEF IInv, Core
    <3>2. ~ToCome(node[1], node[2], i)
      BY <3>1 DEF ToCome
    <3> QED
      BY <3>2 DEF IInv, Covering, Unwinding, Tried
  <2>3. \A j, k \in DOMAIN tried : j < k => Before(tried[j], tried[k])
    BY DEF IInv, Ordered
  <2> QED
    BY <2>1, <2>2, <2>3 DEF Complete
<1>2. QED
  BY <1>1, Invariant, PTL
================================================================================
