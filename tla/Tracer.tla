--------------------------------- MODULE Tracer ---------------------------------
(* The semantic trail of CPSemSolver (tracer.cpp, commandList.cpp, solver.cpp *)
(* 98-140): next to each level of the Trailer the Tracer keeps the list of    *)
(* the constraints posted in it, so that a checkpoint, a sequence of such     *)
(* lists, can be reached again from any other node.  Lists are shared between *)
(* the command stack and the checkpoints, counted, frozen, copied on write    *)
(* and recycled through a pool.                                               *)
(*                                                                            *)
(* A tracer t is a record of                                                  *)
(*    lists   the list objects: head (newest first), node, refs, frozen       *)
(*    pool    objects given back by letgo, oldest first                       *)
(*    stack   the CommandStack, bottom first                                  *)
(*    nodes   _lastNodeID, which no constructor sets (tracer.cpp:19-25)       *)
(*    level   _level                                                          *)
(*    frames  the levels of the Trailer with their ids and what they restore  *)
(*            (BacktrackStore.tla)                                            *)
(*    pushes  the Trailer's own _lastNode                                     *)
(*    store   the constraints in force.                                       *)
EXTENDS Integers, Sequences, FiniteSets, SequencesExt

CONSTANT PoolSize       \* lists the pool can hold (8191 in the code)

CommandList(id) == [head |-> <<>>, node |-> id, refs |-> 1, frozen |-> FALSE]

--------------------------------------------------------------------------------
(* CommandList and CommandStack.                                              *)

(* An object of the pool if it has one, else a new one, on top of the stack.  *)
pushList(t, id) ==
    IF t.pool = <<>>
    THEN LET l == Cardinality(DOMAIN t.lists) + 1
         IN [t EXCEPT !.lists = [k \in DOMAIN @ \cup {l} |->
                                    IF k = l THEN CommandList(id) ELSE @[k]],
                      !.stack = Append(@, l)]
    ELSE LET l == Head(t.pool)
         IN [t EXCEPT !.lists[l] = [CommandList(id) EXCEPT !.head = t.lists[l].head],
                      !.pool = Tail(@), !.stack = Append(@, l)]

popList(t) == [t EXCEPT !.stack = Front(@)]

grab(t, l) == [t EXCEPT !.lists[l].refs = @ + 1]

(* Mutant: the pool is written past its end. *)
letgo_full(t, l) ==
    IF t.lists[l].refs > 1 THEN [t EXCEPT !.lists[l].refs = @ - 1]
    ELSE [t EXCEPT !.lists[l] = [@ EXCEPT !.refs = 0, !.head = <<>>, !.node = -1],
                   !.pool = Append(@, l)]

(* Mutant: recycled while one reference is left. *)
letgo_early(t, l) ==
    IF t.lists[l].refs > 2 THEN [t EXCEPT !.lists[l].refs = @ - 1]
    ELSE [t EXCEPT !.lists[l] = [@ EXCEPT !.refs = 0, !.head = <<>>, !.node = -1],
                   !.pool = IF Len(@) < PoolSize THEN Append(@, l) ELSE @]

letgo(t, l) ==
    IF t.lists[l].refs > 1 THEN [t EXCEPT !.lists[l].refs = @ - 1]
    ELSE [t EXCEPT !.lists[l] = [@ EXCEPT !.refs = 0, !.head = <<>>, !.node = -1],
                   !.pool = IF Len(@) < PoolSize THEN Append(@, l) ELSE @]

(* A frozen list is replaced by a copy, which takes over its count.           *)
thaw(t) ==
    LET top == Last(t.stack)
        l == Cardinality(DOMAIN t.lists) + 1
        copied == [t EXCEPT !.lists = [k \in DOMAIN @ \cup {l} |->
                                          IF k = l THEN [@[top] EXCEPT !.frozen = FALSE] ELSE @[k]],
                            !.stack = Append(Front(@), l)]
    IN IF t.lists[top].frozen THEN letgo(copied, top) ELSE t

addCommand(t, c) == LET s == thaw(t) IN [s EXCEPT !.lists[Last(s.stack)].head = <<c>> \o @]

(* Mutant: two lists at the same height are the same. *)
SameList_height(t, i, path) == i <= Len(path)

(* Lists are compared by their node.                                          *)
SameList(t, i, path) == t.lists[t.stack[i]].node = t.lists[path[i]].node

sharedPrefixSize(t, path) ==
    CHOOSE n \in 0..Len(t.stack) :
        /\ n <= Len(path) /\ \A i \in 1..n : SameList(t, i, path)
        /\ n < Len(t.stack) /\ n < Len(path) => ~SameList(t, n + 1, path)

--------------------------------------------------------------------------------
(* The levels of the Trailer.                                                 *)
Push(t, id) == [t EXCEPT !.frames = Append(@, [id |-> id, store |-> t.store])]
PushOwn(t) == Push([t EXCEPT !.pushes = @ + 1], t.pushes + 1)
Pop(t) == [t EXCEPT !.store = Last(t.frames).store, !.frames = Front(@)]

(* Mutant: one level is popped. *)
PopToNode_one(t, id) == Pop(t)

PopToNode(t, id) ==
    LET j == CHOOSE k \in DOMAIN t.frames :
                /\ t.frames[k].id = id
                /\ \A m \in (k + 1)..Len(t.frames) : t.frames[m].id # id
    IN [t EXCEPT !.store = t.frames[j].store, !.frames = SubSeq(@, 1, j - 1)]

--------------------------------------------------------------------------------
(* Tracer and CPSemSolver.                                                    *)
NewTracer(id) ==
    pushList([lists |-> <<>>, pool |-> <<>>, stack |-> <<>>, nodes |-> id + 1, level |-> 1,
              frames |-> <<>>, pushes |-> 0, store |-> {}], id)

pushNode(t) == LET s == PushOwn(pushList(t, t.nodes))
               IN [s EXCEPT !.nodes = @ + 1, !.level = @ + 1]

(* Checkpoint(_commands): the lists of the stack, counted and frozen; then a  *)
(* new node is opened, so that they are not written any more.                 *)
Freeze(t, l) == [grab(t, l) EXCEPT !.lists[l].frozen = TRUE]
captureCheckpoint(t) == pushNode(FoldLeft(Freeze, t, t.stack))

(* ~Checkpoint. *)
Release(t, path) == FoldLeft(letgo, t, path)

(* CPSemSolver::post in a search: what is posted is recorded first.           *)
post(t, c) == [addCommand(t, c) EXCEPT !.store = @ \cup {c}]

(* restoreCheckpoint, in two parts.  First the levels that the path does not  *)
(* share are closed, ...                                                      *)
Unwind(t, n) == LET Close(s, l) == letgo(popList(Pop(s)), l)
                IN FoldLeft(Close, t, Reverse(SubSeq(t.stack, n + 1, Len(t.stack))))

(* ... then, one list at a time, a level is opened and its constraints are    *)
(* posted, newest first; a failure closes that level again.                   *)
Opened(t, path) == LET id == t.lists[path[Len(t.stack) + 1]].node IN pushList(Push(t, id), id)
Commands(t, path) == t.lists[path[Len(t.stack) + 1]].head
Replay(t, path) == FoldLeft(post, Opened(t, path), Commands(t, path))

(* Mutant: the list stays. *)
Abandon_list(t) == Pop(t)

Abandon(t) == popList(Pop(t))
================================================================================
