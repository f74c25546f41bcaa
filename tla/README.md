# A TLA+ development of MiniCP++

This directory specifies, model-checks and proves properties of the solver in this
repository: a constraint-programming kernel that narrows domains by propagation
(`domain.*`, `intvar.*`, `solver.*`, `constraint.*`, `fz_constraints/`), undoes everything
through a trail (`trail.*`), explores a tree depth first or best first (`search.*`,
`tracer.*`, `commandList.*`) and propagates relaxed decision diagrams (`mdd*`). The code is
single-threaded. Its
difficulties are of another kind: a state that is only partly trailed, failure by `longjmp`
through half-finished operations, constraints that wake each other in an order nobody chose,
and long protocols of push, write, pop and post in which each call is legal and the sequence
may not be.

`tlc -config X.cfg M` checks a run, `tlapm M.tla` the proofs; `PROJECT.json` lists the runs,
the lines each definition models, the hazards and the findings.

## 1. Inventory

| Component | State | Operations | What is hard about it | What makes it correct |
|---|---|---|---|---|
| Trailer (`trail.*`), `trail<T>` (`trailable.hpp`), `TVec` (`trailVec.hpp`) | stack of entries, stack of frames, magic number, memory block; a value and a stamp per cell | enable, push, pop, popToNode, clear, incMagic, write | a write is logged only once per magic number | what a level restores is what it saved; entries fit the block |
| `trailList` (`trailList.hpp`) | doubly linked list with trailed pointers | emplace_back, detach, iterate | detaching twice, or during an iteration | the list is the added minus the detached |
| BitDomain (`domain.*`) | words, bounds, size | assign, remove, removeBelow, removeAbove | stale bits behind the bounds, word boundaries, failing half way | the set narrows as the operation says, and the listener is told exactly that |
| SparseSet, SparseSetDomain (`domain.*`) | untrailed permutation, trailed size and bounds | the same | backtracking restores a size over a permutation that moved | the same; outer levels keep their sets |
| IntVarImpl, views, literals (`intvar.*`) | a domain, three lists of constraints | the domain operations, event subscription | which list an event wakes | no subscriber is missed |
| CPSolver, DEPQueue, Constraint (`solver.*`, `acstr.*`) | two queues and a flag per constraint (untrailed), active flags (trailed), hooks | post, schedule, fixpoint | mixture of trailed and untrailed state; failure inside and outside `fixpoint` | the fixpoint ends, is one, and loses no solution |
| Constraints (`constraint.*`) | per constraint | post, propagate | switching off, incremental state | sound, and entailed when switched off |
| DFSearch (`search.*`), `fail.*` | recursion, `ptr` to the innermost `jmp_buf`, statistics | solve, optimize, solveSubjectTo | three exits from an alternative: return, longjmp, exception | levels balanced; complete; counts add up |
| BFSearch, Tracer, CommandList, CPSemSolver | checkpoints as lists of commands, a frontier | captureCheckpoint, restoreCheckpoint, post | replaying commands may fail in the middle | a restored node is the node that was captured |
| Storage, Pool (`store.*`) | segments, trailed top | allocate, mark, clear | memory of an abandoned branch is reused | live allocations do not overlap |
| MaximumMatching, AllDifferentAC (`matching.*`) | graph, matching | setup, maximize, scc | augmenting paths, incremental repair | maximal; only edges in no maximum matching go |
| SparseBitSet (`bitset.*`) | trailed words and limit, untrailed permutation of the words, a mask | clearBit, addToMask, intersectWithMask | words become empty and change places, backtracking restores only their number | the words in front are the ones with a bit left |
| CQueue (`queue.hpp`), heap | circular buffer of locations | enQueue, deQueue, retract | retraction and growth | FIFO without the retracted |
| MDD engine (`mdd.*`, `mddrelax.*`, `mddnode.*`, `mddstate.*`, `mdddelta.*`) | layered diagram of trailed nodes and arcs; untrailed queues, deltas and removal list | build, trim, refine, filter, refresh | two incremental sweeps over queues of nodes; splitting while filtering; trailed marks and untrailed queues | no solution path is lost, states cover exact ones, bound variables are a solution |
| MDD specifications (`mddAmong.cpp`, `mddSum.cpp`, ...) | properties of a state | transition, relaxation, arc and node conditions | merged states must stay permissive | each merge covers what it merges |
| FlatZinc constraints (`fz_constraints/`) | per constraint | post, propagate | reified forms, incremental supports | as for the constraints |
| TableCT, Regular (`table.*`, `regular.*`) | the rows left, supports and residues of every value, the sizes last seen | post, propagate | rows leave for what has changed since the last look only | as for the constraints |
| LexLeq (`lex.*`) | four trailed positions and a state | post, propagateFrom | an automaton run by closures that know one position each | as for the constraints |
| CumulativeTT, Profile (`ttable.*`, `profile.*`) | none kept | post, propagate | a mirror over reversed time does the other bound | as for the constraints |
| FlatZinc parser, python bridge, GPU constraints, `gfl`, examples, vendored headers | | | | outside the core |

How they interact: a search calls `saveState` and `restoreState` of the trailer and runs
alternatives; an alternative posts a constraint; posting and propagating narrow domains; a
domain calls its listener, which schedules constraints of the variable's lists or calls
`failNow`; `fixpoint` runs the queue; every field of type `trail<T>` writes through the
trailer. `failNow` is a `longjmp` to the innermost `TRYFAIL`, of `fixpoint` or of the search.
A best-first search moves between nodes through the Tracer, which closes the levels two nodes
do not share and posts the constraints of the others again. An MDD is a constraint of low
priority with one `MDDTrim` of high priority for each variable: the trims cut arcs, the MDD
repairs the diagram and removes values, which wakes other constraints.

## 2. Modules

| Module | Models | Role |
|---|---|---|
| `BacktrackStore` | | abstract: a store and the stores its open levels remember |
| `Trail` | `trail.*`, `trailable.hpp`, `trailVec.hpp` | implements `BacktrackStore` |
| `TrailProofs`, `BitDomainProofs`, `SparseSetProofs`, `DFSearchProofs`, `PropagationProofs`, `BFSearchProofs` | | TLAPS proofs about the module they are named after |
| `ArithmeticProofs` | | TLAPS proofs that clients of the arithmetic constraints need assume nothing of them |
| `IntervalLemmas` | | lemmas on intervals, recursive functions, folds and division, used by them |
| `IntDomain` | | abstract: a set that is narrowed, tells, fails and is restored |
| `BitDomain`, `SparseSet` | `domain.*` | implement `IntDomain` |
| `Events` | `intvar.*`, `acstr.*`, `solver.hpp` | domain operations on views, notifications, listener lists, scheduling |
| `Arithmetic`, `Logical`, `Globals` | `constraint.*`, `matching.*` | post, propagate and meaning of each constraint class |
| `FzBasics`, `FzLinear`, `FzArrays` | `fz_constraints/` | the same for FlatZinc |
| `Sequencing` | `lex.*`, `ttable.*`, `profile.*` | the same for the order of arrays and the time table |
| `Tables` | `table.*`, `regular.*`, `bitset.*` | the same for tables and automata, over a sparse bit set |
| `Propagators` | | dispatches on the kind of a constraint |
| `Factory` | factory functions, `flatzinc.cpp` | the objects a client's expression allocates |
| `Propagation` | `solver.*`, `Minimize`, `Maximize` | the solver as a state machine over constraints given as CONSTANT operators |
| `DFSearch` | `search.*`, `fail.hpp` | the recursion over any tree |
| `Tracer` | `tracer.*`, `commandList.*` | operators on the command stack, its lists and levels |
| `BFSearch` | `search.*`, `solver.cpp` | best-first search over `Tracer`, over any tree |
| `MDDConstraints` | `mddAmong.cpp`, `mddAlldiff.cpp`, `mddGcc.cpp`, `mddSum.cpp`, `mddSeq.cpp`, `mddPrecedence.cpp`, `mddGoc.cpp`, `mddAbs.cpp`, `mddMaximumCutObjective.cpp` | a descriptor for each factory function, with the lambdas it registers |
| `MDDSpecs` | `mddstate.*` | the states of a spec, their transitions, merges and conditions |
| `MDDRelax` | `mdd.*`, `mddrelax.*`, `mddnode.*`, `mdddelta.*` | the relaxed diagram as a state machine |
| `MC*` | | instances for TLC |

Operators named after a definition with a suffix (`Count_short`, `Enter_bare`, ...) and a
comment "Mutant" are broken variants: put in place of the original, each makes a run fail.

### Trail

`val` and `stamp` are `_value` and `_magic` of every cell; `trail`, `tops`, `magic`,
`lastNode`, `enabled`, `btop`, `bsz` are the fields of `Trailer`. An entry has the offset it
was allocated at, a frame the height and offset `push` stores. `Assign` is every writing
operator of `trail<T>`, or `TVec::at` when the cell is in `Vecs` (always logged). `LogOld` is
`operator new(sz, Trailer&)` followed by `Trailer::trail`: no room doubles the block, a
disabled trailer logs nothing. `pop` is a loop; the model uses the closed form `ValueAt` (the
lowest entry above the frame decides) and `PopIsTheLoop` checks that it is what the loop
computes. `popped` is the only variable the code does not have: a pop happened and the magic
number has not moved since. `Spec` allows any client; `ClientSpec` only those that keep what
the searches keep: no `trail<T>` is written between a pop and the next magic number while a
level is open (`MayWrite`).

The abstraction `Remembered` is, for each frame, the store that undoing down to it would
give. A level pushed before `enable()` promises nothing (`NoPromise`): `DFSearch` enables the
trailer when it is constructed, what was posted before is permanent.

### BitDomain, SparseSet

`words` are the set bits of each word; the CONSTANT `W` is 32 in the code, 2 in the run, so
that six values need three words. `count`, `findMin` and `findMax` are given with the
word arithmetic of the source; a scan that leaves the array stops at an arbitrary place
(`FindMin` answers a set). A notification that reaches `empty()` does not return: `Notify`
cuts the sequence there, and the variables written before keep their values until a
restore. `SparseSet` keeps the permutation across `Restore`; the loops of `removeBelow` and
`removeAbove` are recursive functions over `RemoveOne`. For the properties, `saved` also
records the set each level saw.

### Events, the constraints, Propagation

A solver state is a record: domains (as sets: that is what `BitDomain` and `SparseSet` are
shown to implement), listener lists, queue, flags, active flags, the trailed members of each
constraint (`mem`), its ordinary members (`aux`), and `failed`. Each operation of a variable,
through a view `<<x, a, b>>` for `a * x + b` if need be, is a function from such a record to the
next; once `failed` is up the rest of a body changes nothing, which is what `longjmp` does.
Notifications come in the order of `BitDomain`, the domain every variable gets unless it is
asked for sparse. Of a constraint `c`, `<<c, 0>>` is the object and `<<c, 1>>`, ... are its
closures or the constraints it owns (`IsClause` has a `Clause`; `LexLeq` the orders it may post
on two of its variables, `CumulativeTT` its mirror). A constraint whose last act is to post
another, with the fixpoint of `post()`, leaves `asked`: the loop that follows is the one of that
fixpoint, which runs first what the caller's loop would run next, and the hooks it starts with
change nothing the second time.

A table has its rows in words of 32 bits; the program `split` has words of two, so that words
become empty and change places with few rows. The residues of `TableCT` say only where a
support is looked for first and are left out. `Regular` posts its tables over states it
creates; the program `odd` names them. A repeated variable of a table has the entry of its
first column, as `_entries` is a map.

Where the client makes the Boolean of a reified constraint the model has the object he posts:
`IsEqual`, `isMember`, `IsLessOrEqual`. The factories that make it for him (`isEqual(x, c)` and its
like, `constraint.hpp:779-846`) post inside a `TRYFAIL` with an empty handler. The constraint
itself cannot fail on a new Boolean, but the fixpoint that follows runs what was waiting and the
objective's hook, and a failure there is swallowed: the queue is drained and the constraint that
failed is forgotten until its next event. That is not modelled; `implies`, which goes through one
of these factories, is posted in the model as it is when nothing else waits.

`Propagation` knows the constraints only as CONSTANT operators (`newMem`, `newAux`, `post`,
`propagate`, `aborts`, `holds`): they are virtual methods, and `aborts` says whether an assertion
of a `post()` ends the program (of these constraints only `Element1DDC` has one that can). A
program says which constraints exist, the domains, the levels, the values the search branches on
and the objective. `pc` is where the solver is: `open` (work may be waiting), `hooks` and `loop`
inside `fixpoint()`, `resume` in a `post()` that posted something with a fixpoint of its own,
`rest` after a fixpoint, `failed` when a failure left the solver for the search, `aborted` after
an assertion: nothing happens any more (`AssertionsHold` says that this is never so). `Step` runs
one constraint of the queue, high priority first, inactive ones skipped. `Decide` and `Refute` are
the posts of `EQc` and `NEQc`, what branching alternatives do. `Tighten` is the objective's
listener at a solution. `SaveState` and `RestoreState` restore what is trailed and leave queue,
flags, `aux` and `primal`. `Cons` is memory rather than constraints: a constraint posted on an
abandoned branch leaves its slot to another (the same one, in these instances).

`wanted` is the set of assignments that meet everything posted on the path, the reference the
propagators are held to. `OnlyNarrows` is about the calls the next step may make: whatever state
a constraint's method finds, it fails or leaves every variable a value, brings no value back,
takes nothing from the queue and raises no flag without an entry. `OnlyInfers` is what each call
owes the search: if it narrows or fails, what it excludes does not meet the constraint; if the
constraint is off afterwards, what is left meets it; the listeners and active flags of other
constraints are as before, and only what listens to something that could have happened is
woken up. Together they are what the solver needs to know of a constraint; a run checks them of
all of them, and the proofs start from them.

### DFSearch

`frames` are the calls of `dfs()` in their loop, `ptr` the frame whose `jmp_buf` is in place,
`here` the restored state (abstracted to the path of alternatives taken), `levels` the states
of the open levels. An alternative goes on to the recursive call, fails, or throws; a leaf
notifies its listeners, which fail when an objective is installed. `ReachLimit` may happen
wherever the code asks the limit or runs between two askings, and stays. `Catch` does not
restore `ptr`, as in the code: a C++ exception unwinds past the macro.

### Tracer, BFSearch

A tracer is a record: the list objects with their counts and marks, the pool, the command stack,
the levels of the Trailer with their numbers and what they restore, and `store`, the constraints
in force, which stands for all trailed state. `pushNode`, `captureCheckpoint`, `letgo`, `thaw`
(copy on write), `Replay` and the rest are functions on it; a replay posts the lists of a
checkpoint one at a time, and fails in the middle when one of its constraints does. `BFSearch`
unfolds a tree while it searches: an alternative may post constraints, fail, or reach a leaf;
`effect` records what the constraints were when a node was first reached, so that `Faithful` can
compare. `pc` follows `bfs()`: `branching` at a node, `loop` over its alternatives, `alt` inside
one, `restoring` on the way back or to the next node, `pick` at the frontier. A node's value is
that of its constraints: the bound the frontier is ordered by.

### MDDConstraints, MDDSpecs, MDDRelax

`MDDConstraints` has one constructor for each factory function (overloads get names of their
own: `amongMDDb` for Boolean variables, `sumVeci`, `sumArray`, `sumSigned`, `sumMatrix` for the
kinds of coefficients) and one operator for each family of lambdas: what a layer adds to a count
(`countStep`), a set of used values (`usedStep`), a number of occurrences (`occurStep`), a pair of
bounds (`weightStep`), a sliding window (`windowStep`), what was seen before or after
(`seenStep`, `visitedStep`, `metStep`), the weights and the value of a cut (`weightsStep`,
`cutStep`), and when an arc (`amongArc`, ...) or a node (`gccNode`, `sumNode`) may exist.
`transition`, `arcExist`, `nodeExist` and `fixpointBounds` stand for the tables in which
`MDDSpec` finds them.

A spec is a sequence of constraint descriptors; a state maps each property
`<<constraint, name, key>>` to a number, a set or a window, with the mark that it is relaxed.
`MDDSpecs` gives what `MDDSpec` compiles from the lambdas of each constraint: transitions downwards and
upwards, frames at layers out of scope, which properties depend on which, full and incremental
states, relaxations, `exist` for an arc and `consistent` for a node, and, for the properties,
what the constraint means and when a merged state covers an exact one.

`MDDRelax` is the diagram `m`: nodes with their states, marks and arcs, domains and the variable
`z` of a sum (trailed); the forward and backward queues with their cursors, the deltas, the
removal list of `MDD`, and the solver's two queues (not trailed). The propagation is not one
step: each node taken from a queue, each layer and node split, each layer refreshed is a step,
in any order the heuristics could choose.
Between trims and the MDD another propagator may remove a value (`Infer`) or fail
(`OtherFails`); decisions open levels, `Backtrack` restores them. The state `old` records which
node states carry the hash of another state: hashes are not restored (`mddstate.hpp:1215-1230`),
so such a state may compare as changed when it has not.

## 3. Runs

| Run | Instance | Properties |
|---|---|---|
| `trail_client` | a `trail<int>` of two bytes and a `TVec` slot of one, two values, a first block of three bytes, magic numbers up to 2, three entries, three frames, ids 1 (of the Tracer) and those of `push()` | `Layout` (with `TypeOK`), `Covered`, `PopIsTheLoop`, refinement of `BacktrackStore` |
| `bit_domain` | six values from a negative minimum in words of two bits, one level | `BoundsAndSize`, `OperationsExact`, refinement of `IntDomain` |
| `sparse_set` | four values, two levels | `WellFormed`, `LevelsIntact`, `OperationsExact`, refinement of `IntDomain` |
| `constraints` | 57 programs: every constraint class of `constraint.hpp`, tables, automata, lexicographic order and time table, and most of FlatZinc, alone or with others that share variables, with views, reifications and objectives | `OnlyNarrows`, `OnlyInfers`, `FlagHasEntry` (with `TypeOK`), `NoSolutionLost`, `NoWakeUpLost`, `InactiveIsEntailed`, `SolutionsAreReal`, `DomainConsistent`, `Improves`, `Terminates` |
| `prop_dropped` | one `int_lin_eq` over two variables | violated: `SolutionsAreReal` |
| `prop_table` | a table of two rows on two variables with values `0..2`, posted after a decision that leaves a hole | violated: `SolutionsAreReal` |
| `prop_assert` | one `Element1DDC` over an index in `0..4` and a result in `0..2`, posted after one or two decisions | violated: `AssertionsHold` |
| `dfs` | every tree of depth three, two branches, alternatives that fail or throw, a limit, with and without an objective | `Balanced`, `HandlerReady`, `Complete`, `LeavesAddUp`, `HandlerRestored`, `Ends` |
| `dfs_root` | depth two | violated: `TightenIsCaught` |
| `bfs` | every tree of depth two with two branches, one constraint at most for each alternative, posts in the branching of the root, three costs, a pool of two lists, with and without objective and limit; `_lastNodeID`, which no constructor sets, starts from 0 or from 100 | `Faithful`, `LevelsMatch`, `WayBackOpen`, `CountsCover`, `Complete`, `Improves`, `Ends` |
| `mdd` | three variables of two or three values, width two, one splitting round, two decisions; 22 programs: `amongMDD`, `amongMDD2`, `upToOneMDD`, `allDiffMDD`, `allDiffMDD2`, `atMostMDD`, `atMostMDD2`, `gccMDD`, `gccMDD2`, `seqMDD`, `seqMDD2`, `precedenceMDD`, `requiredPrecedenceMDD`, `gocMDD`, `gocMDD2`, `absDiffMDD`, `maxCutObjectiveMDD`, `sum` with bounds, with a variable, with coefficients of both signs and with a matrix, and two constraints together | `NoSolutionLost`, `StatesCover`, `LeavesExact`, `Shape`, `QueuesMatch`, `Terminates` |
| `mdd_stale` | `sum(x) = z` on three Booleans with another propagator that fails | violated: `NoSolutionLost` |

Why the bounds are enough to be interesting. *Trail*: two magic numbers and three frames allow a
write, a push, two writes, a pop of one or two levels and a write again; three entries of two
bytes overflow a block of three bytes once or twice, so the doubling happens with entries live.
*BitDomain*: six values in words of two bits have a first, an inner and a last word, so a count
may start and end in any of them, or at the first bit past the array. *SparseSet*: four values and
two levels let the inner level shuffle slots the outer one still owns. *Propagation*: each program
has the domains its constraints need (holes for the domain consistent ones, a third value for
rounding under a coefficient), one or two levels, which is enough for a dead branch and a sibling,
and every order of posts, decisions and backtracks is explored; the paths of the program `exact`
on which `Element1DDC::post` aborts end there. *DFSearch*: depth three has an inner call with a
caller and a callee; two branches have a last and a not-last one. *BFSearch*: depth two has nodes
that share none, one or all of their levels; two branches leave a frontier of several nodes with
equal and different bounds; a pool of two overflows; of two values of `_lastNodeID` one makes the
numbers of the nodes meet the number of the level of `withNewState` and one keeps them apart.
*MDDRelax*: three layers have a first, an inner and a last one; width two against four prefixes
forces merges; two decisions allow a failure, its backtrack and a second branch over the diagram
that is left.

Deadlock checking is off: the trail stops at its bounds, a failed domain at the bottom of the
levels can do nothing, a solver that failed at the root has nothing left, a search ends.

**Fairness.** `fixpoint()` does not stop between two of its steps: `Propagation!Spec` says (and
`TidySpec`) that if it is running for ever it takes steps for ever. This is weak fairness of
`Fixpoint`, written with `Running` for `ENABLED Fixpoint`, because while the solver is running
only such steps are possible and one always is; TLC takes exponential time to find that out by
itself. `MDDRelax!Spec` has the same form with `Busy` and `Propagate`, `BFSearch!Spec` with
`Running` and `Next`. `Terminates` therefore says that the loop ends, not that somebody calls it.
`DFSearch!Spec` has weak fairness of `Next`: one thread that keeps running. The limit need not be
reached.

**Obligations of the caller.** The run `constraints` uses `TidySpec`: no work is waiting when a
level is opened or restored. The default of `post()`, which runs the fixpoint at once, gives this
as long as no post fails by itself; `post(c, false)` just before a search does not, and a post
that fails outside `fixpoint()` (a removal on a bound variable notifies before it fails) leaves
what it scheduled in the queue: the next fixpoint, in a sibling branch, runs a constraint that is
no longer posted. What holds without the discipline is proved (`FlagHasEntryHolds` and
`ImprovesHolds`, for `Spec`). `trail_client` uses `ClientSpec`: a `trail<T>` written after a pop
and before the next push is not logged if its stamp is the current magic number, whatever
`trailable.hpp:22-23` says of preserving on write.

## 4. Findings

1. `prop_dropped`: `int_lin_eq` takes bounds it has just derived for bounds the variables
   have, and switches itself off before it asks whether they fail.
2. `dfs_root`: `optimize()` on a tree whose root is a leaf fails without a handler.
3. `prop_table`: a table posted on a domain with a hole keeps the rows that use the hole and
   accepts their values.
4. `prop_assert`: `Element1DDC::post` asserts that an index of its array is less than the length of
   a list that starts at the least index (`constraint.cpp:1044`; the list is read with the
   offset). Posted when the index has lost its least values, it aborts on a legal removal in a
   build with assertions, which is the default one. Without them the removals go on and are right.
5. `mdd_stale`: nodes queued for removal when another propagator fails are removed from the
   diagram of the next branch if its first event is a change of `z`. All solutions are lost.

Met while modelling, without a run of their own.

*Search and solver.* A second best-first search on the same solver trips the assertion of
`tracer.cpp:36` in a build with assertions: `popToNode` closes the levels of the Trailer,
nothing empties the command stack, and from then on it is higher than the trail. With `Runs = 2`
the model reaches such states, three lists against two levels after one alternative at each root.
Without assertions the constraints in force are still those of the node: `Faithful` is proved for
any number of calls. Best-first search reads its dual bound from the top of a frontier that may
be empty when the limit is reached. `_lastNodeID` is not initialized (`tracer.cpp:19-25`). If it
happens to be 0, or to wrap at the wrong moment, the number of a replayed node may be that of the
level `solve()` opened; `popToNode` then closes down to the level of that node, and the levels
under it stay open when the search is done. The run starts from 0 as well, and `LevelsMatch` says
that nothing else leaves a level open. The restore after an alternative ignores its answer;
`WayBackOpen` shows that it never replays anything, so nothing can fail there. Reaching the
limit counts a failure for each open call of `dfs()`. `solveSubjectTo` does not mark a stopped
search as incomplete. `isEqual`, `isMember` and `isLessOrEqual` swallow failures (section 2).

*Domains and constraints.* `SparseSet::changed` answers the opposite of `BitDomain::changed`.
`EQBinBC`, `EQTernBC` and `EQAbsDiffBC` narrow before they listen, so they may rest short of a
fixpoint; for `EQAbsDiffBC` that is a wrong answer (`x = 0`, `y` in `{0, 2}`, `z = 1` is
accepted). `EQBinDC::post` and `IsClause::post` never run their propagation. `Circuit` needs
domains `0..n-1`; `Element1DBasic` reads outside its array when `y` does; the comments at
`constraint.hpp:1059`, `1074` and `1089` promise domain consistency for element constraints that
are bounds consistent.

*Tables.* `SparseBitSet::clearBit` takes the place of a word for the word
(`bitset.cpp:71-77`): after the first word has become empty in `post()`, clearing the same row
twice, because it is outside in two columns, clears a bit of another word, or nothing. Tables of
more than 32 rows can lose a solution so; the program `cut` (four rows in words of two) does.
A variable that occurs twice in a table is held to its first column only, and a view has no
identifier of its own (`intvar.hpp`), so that two views may share an entry; the programs have
neither. `DomainConsistent` says for `TableCT` that no value without a row stays; the tables of
the run are posted on domains without holes.

*FlatZinc constraints.* These are modelled as they are and left out of the programs of
`constraints`, because the properties do not hold of them: `int_times` and `int_div`
(`calDivMinMax` writes two of its four quotients twice), `int_lin_ne`, `int_lin_eq` with
coefficients other than one, `bool_lin_eq` (only `>=`), `array_bool_xor` (the parity of bound
variables), `array_int_maximum` and `array_int_minimum` (they narrow the wrong side),
`bool_clause` (never propagated when posted), `array_bool_element` (its index goes one too far).

*MDD.* No arc is checked when the first diagram is built (`mddrelax.cpp:113`): with `amongMDD`,
which has no upward state, and variables bound before the post, a violated constraint is accepted.
The same holds of the arcs of the root for every spec without upward properties: a node's arcs are
filtered when its state changes, and the root's never does, so that `precedenceMDD(x, 0, 1)` keeps
the assignment `100` (its program gives the first variable a domain without the value 1). `seqMDD`
subtracts the -1 that stands for a window not yet full (`mddSeq.cpp:34`), which makes its lower
bound one weaker there, and asks it of the first layers too: with a bound of two or more it cuts
arcs that solutions need; its program has one. `absDiffMDD` passes over equal `x` and `y` and over
`z = 0`, although `mddAbs.cpp:25` says `|x - y| = z`, and looks `z` up without the least value of
the domains (`mddAbs.cpp:100`): the program starts at zero and `holds` asks what the code does.
`gccMDD` keeps a second set of counters that nothing reads, merged by maximum although they count
singletons; `gocMDD` indexes its matrix by values (`mddGoc.cpp:38`), out of its bounds when the
least value is not zero. The sums multiply a coefficient by the least and by the greatest value
(`mddSum.cpp:82-87`), which is wrong when it is negative: `x0 - x1 + x2 = 0` loses `110`. A node
left without children by a split is not removed when nothing else visits it, against the assertion
of `checkGraph` (`mddrelax.cpp:1638`, never called). With a variable `z`, `refreshAll` leaves
nodes queued and marked at rest; the marks come back with the trail and the queue does not, so
they are not visited again (weaker filtering, nothing lost). `CPSolver()` does not initialize
`_inRestore` and `_inBranching`, which `MDDRelax::propagate` reads; they are taken to be false.

## 5. Proofs

Each theorem holds for every value of the constants that meets the module's `ASSUME`. Every
inductive invariant was first checked by TLC on the instance of the module's run.

`TrailProofs`, for every set of cells and values, every block size and every bound
(`TrailAssumption`: an entry is smaller than the first block; the sets are what they are
called):

- `TypeCorrect`, `BlockSafe`: `Spec => []TypeOK`, `Spec => []Layout`, any client. The inductive
  invariant is `FreeInv == TypeOK /\ Ordered /\ InBlock`. `Layout` alone is not inductive: after
  a pop of several frames the frames below must still point into the shorter trail, which is
  what `Ordered` (frames stand in the order of their heights) adds.
- `PopIsTheLoopHolds`: `Spec => []PopIsTheLoop`. The closed form `ValueAt` goes from one height
  to the next as a turn of the loop does (`OneTurn`), so it is the function the recursion
  defines (`LoopUndoes`, an induction down the trail).
- `StampsSound`: `ClientSpec => []Covered`. A cell stamped with the current magic number has an
  entry above the innermost recording frame. It needs that no stamp is ahead of the magic
  number (in `Ordered`), so that a new frame starts with every cell unstamped.
- `TrailIsBacktrackStore`: `ClientSpec` implements `BacktrackStore`. A write either appends the
  old value above every frame (`LoggedWrite`) or is covered by an entry that is (`CoveredWrite`,
  where `Covered` is used); a pop keeps what the frames below remember (`PopKeepsLower`); a push
  remembers the store (`PushRefines`).

`BitDomainProofs`, for every word width, size and least value (`BoundsAndSizeHolds`,
`OperationsExactHold`, `BitDomainIsIntDomain`). The inductive invariant adds to the types that
every saved level, and unless it failed the present fields, are `Proper`: the bounds lie in
the array and are members, the size counts the members. The members must be members for the
scans `FindMin` and `FindMax` to stop inside the array (`FoundMin`, `FoundMax`), and the saved
levels must be proper because a restore makes one of them the present. That the count over
partial and whole words counts is `CountCounts`, from the fold over the words (`WordsCount`)
and the placing of values in words (`Places`); `InArray` is about the bits past the last
value. What an operation leaves and tells is stated once (`Result`), proved of each, and used
for the exactness of the operations and, a step at a time, for the refinement of `IntDomain`.

`SparseSetProofs`, for every size and offset (`WellFormedHolds`, `LevelsIntactHolds`,
`OperationsExactHold`, `SparseSetIsIntDomain`). The inductive invariant: the arrays are inverse
permutations, the bounds fit, and every saved level still shows its values in its first slots.
The last part holds because nothing moves past the size (`Keeps`) and the sizes of the levels
only shrink going up; it is needed because a restore brings back three numbers only. The loops
of `removeBelow` and `removeAbove` are followed to their end (`UpToRemoved`, `FromRemoved`).

`DFSearchProofs`, for every depth and number of alternatives, with and without exceptions,
limit and objective (`BalancedHolds`, `HandlerReadyHolds`, `HandlerRestoredHolds`,
`LeavesAddUpHolds`, `CompleteHolds`). The inductive invariant has four parts. `Core` says where
the search is in terms of its calls alone: the state is the path the calls stand for, each
level is that of a prefix of them (`Place`), and `ptr` and the handlers each call remembers
point to the call or the one below (`Handlers`; after an exception `ptr` may have stayed behind,
which is why it cannot be an equation). `Counted` relates the counters to the calls that still
wait in an alternative that is not their last. `Covering` says that every alternative of an
opened node was tried or is still ahead of a call that stands at the node, `Ordered` that what
was tried lies behind the calls in the order of the branching. A search that unwinds after
its limit keeps none of the last two promises and says so (`completed`).

`PropagationProofs`, for every library of constraints and every program. First the operations on
variables, as they stand in `Events`: through a view of either sign and any coefficient each keeps
exactly the values at which the view is what it is to be, and fails if there are none
(`OperationsOnViews`; the rounding of `floorDiv` and `ceilDiv` is `SeenBounds`, the order of
scheduling is a fold over the notifications and the lists, `TellGrows`). Then the solver:
`TypeHolds`, `FlagHasEntryHolds` and `ImprovesHolds` hold for every search (`Spec`) and every tidy
program (`TidySpec`) under which `OnlyNarrows` holds. The methods are CONSTANT operators, so
something must be assumed of them; what is assumed is a state predicate about the calls that are
made, it is what the operations on variables and members are proved to do (`Narrows`), and the run
`constraints` checks it for every class, and `ArithmeticProofs` proves it of seven. A call whose
assertion fails ends the program and owes nothing. The inductive invariant `IInv` adds to the
types that a flag that is up has its entry (`Good`, which is also what makes the drain of the
failure handler lower every flag); that what an open level will restore has its types and lies
within the first domains (`Levels`); and that after the hook, until the next branching, every
value left to the objective's view is better than the best so far (`Bettered`). `Improves` is not
inductive without the last part: the bound is not trailed, a restored level knows nothing of it
until the next fixpoint starts with the hook. `ProgramsAssumption` and `BodyAssumption` say that a
program is one: finite, nonempty domains, views of its variables, a library that has what is
posted.

Then its search, for every library of constraints and every tidy program whose calls keep
`OnlyNarrows` and `OnlyInfers`: no solution the objective wants is ever excluded, and a failure
means that none was left (`NoSolutionLostHolds`); a constraint that is switched off is met by all
that is left, after every backtrack (`InactiveIsEntailedHolds`). A call owes something only to its own
constraint, so the proof is about everything between the calls: the queue, the drain of the
failure handler, the hook, what a level saves and what a backtrack brings back beside the queue
and the flags it leaves. The inductive invariant `SInv` adds to `IInv` that whatever listens or
waits belongs to a constraint posted on the path (`Owned`: a closure of an abandoned branch run
here would exclude what its constraint forbids), that the assignments wanted meet the path and
are still there (`Meant`, `Keeping`), that what is off is entailed (`Sure`), and the same of every
level that can be restored (`Sealed`). `TidySpec` is needed for `Owned`: with work waiting at a
backtrack it is false, and so are the theorems.

`ArithmeticProofs` discharges what these theorems assume, for every client of `LessOrEqual`, the
binary equations `EQBinBC` and `EQBinDC`, the sums of two `EQTernBC` and `EQTernBCbool` and the
disequalities `NEQBinBC` and `NEQBinBCLight`: any number of them, over any domains and views that
share variables as they like. `Library` says that the constraints have the shape the factories
give them, the methods of `Arithmetic` and no assertion; under it, and nothing else, every call keeps
`OnlyNarrows` and `OnlyInfers` (`ArithmeticOnlyNarrows`, `ArithmeticOnlyInfers`), so a search loses
no solution, what it has switched off is entailed and each solution is better than the one
before (`ArithmeticLosesNothing`, `ArithmeticIsSafe`). A method is a chain of operations on
views; `Work(c, r, s)` is what one link may make of the solver, each operation is shown to be
such a link when the constraint implies what it asks for (`WorkBounds`, `WorkRemove`, `WorkListen`,
...), and links compose (`WorkOn`). It is not true in every state that these calls infer only
what they mean: a closure of a disequality takes its variable for bound, and run a moment
earlier it would remove the least value of the other's counterpart. Two invariants are
needed: what listens for a disequality listens to a binding (`Placed`), and what waits has a
variable that is bound (`Due`), which later calls do not undo; the levels keep the first, and a
backtrack finds the queue empty.

It also proves that what such a search accepts is a solution (`ArithmeticSolutionsAreReal`): when
every variable is bound and nothing waits, every constraint posted on the path holds. The
inductive invariant `HInv` says of each of them that it is entailed, or watches each of its
variables with an active closure and is in the queue when all of them are bound; and of the
levels that can be restored the same with "not all are bound" in place of the queue, because a
restored level brings back domains and lists but not what waited. This needs the other half of
what an operation on a variable does: not only that it wakes nobody it should not, but that
whoever listens to a variable that becomes bound is woken up (`Stirs`) and stays on its list
(`Minds`). It is not true of every client. `EQBinDC::post` never propagates, so posted on bound
variables it is never run; `EQBinBC` on one variable twice, and a sum whose result is one of its
terms, narrow a variable before they listen to it and do not look again. `Heedful` says that a
client has none of these, and is assumed by this theorem only.

`BFSearchProofs`, for every tree (any numbers of alternatives, posts and costs), every pool size
and every choice among equals of the frontier. The theorems that say nothing of `Runs` hold for
any number of calls of `solve()`. There are three invariants, each inductive only relative to the
one before.

- `Base` (`BaseAlways`) is about the lists. `Sane` says that with `Refs`, the claims of the root's
  checkpoint, `_before`, the node that is being restored and the frontier, every list's count
  covers the stack and the claims, what the pool holds is claimed by nobody and held once, and
  what is claimed is frozen; `Aimed` where each restore goes and from which stack; `Anchored` that
  nothing below the root of the search is closed, and that the level of `withNewState` is still
  where `lvl` says. Each operation of the Tracer is a lemma that keeps `Sane` for the claims after it
  and says which lists stay what they were (`Holds`); an action is a composition of these. Freezing
  is what makes it inductive: only the top of the stack is written, and a frozen top is copied
  first, so a claimed list never changes. `CountsCover` and `WayBackOpen` follow.
- `Told` (`ToldAlways`) is about what is in force. `restoreCheckpoint` compares lists by their
  number only. `Mirrored` says why that is enough: two paths that agree in the numbers up to some
  height above the root hold the same constraints there (`Alike`), though the lists may be
  replayed copies of one another, and no waiting path is a prefix of another or of the stack
  (`Apart`), so no list that is still written is shared. `Recalled` says that the store recorded for
  a node is that of the root and what its path holds, and that every level restores the part below
  it. `Generated` keeps the nodes of the tree apart: each is generated once, from a node that was
  branched on. `Faithful` follows.
- `Reckoned` (`ReckonedAlways`) is about the tree and the objective: a node of the frontier has the
  value its store had, a node that is coming up is better than the best solution (`Worth`), and each
  node generated is expanded, waiting, coming up or excused (`Accounted`). `Complete` follows, and
  that each solution is better than the one before (`BetteredAlways`), which is `Improves` when
  `solve()` is called once (`ImprovesOnce`). With two calls `Improves` is false: a root that is a
  solution is counted again with the same value.

The levels of the Trailer are a matter of the first call, since a second one starts with lists that
have none (section 4). `Levelled` adds that the search started with one list and no level; then
`LevelsFollowAlways` shows, for every value `_lastNodeID` may have had, that list and level
correspond while the search runs. `LevelsMatchAlways` adds the end of the search, again for every
value: `Numbered` says that the level of `withNewState` has the number 2 and that another level can
have it only if it belongs to a list of that number, since the levels of alternatives are numbered
later by the Trailer and those of a replay take the number of their list. So a search that is done
has closed every level, or has stopped at such a list.

`IntervalLemmas` has what these proofs share: the least and the greatest element of a set of
integers (from well-foundedness), induction along an interval (`Upwards`), what a recursive
function on an interval is (`Unrolls`), what a fold over a finite set or a sequence is
(`FoldExists`, `FoldStays`, `FoldTurns`, `FoldKeeps`), and quotients (`DivMod`, `DivUnique`,
`DivOrder`, `FloorOrder`, `CeilOrder`).

Only model-checked: that the calls of the other constraints keep `OnlyNarrows` and `OnlyInfers`,
and their `SolutionsAreReal`; `NoWakeUpLost` and `DomainConsistent`, which ask of a constraint that
it infers enough; the invariants of `MDDRelax`; liveness (`Terminates`, `Ends`), as `ENABLED`
and fairness are out of the prover's reach; whatever goes through a `RECURSIVE` operator.

## 6. Plan

Done: Trail, the two domains, depth-first and best-first search with the Tracer, and the solver's
fixpoint, with proofs; every constraint
class of `constraint.hpp`, tables, automata, lexicographic order, time table and most of
FlatZinc; the relaxed MDD engine with its library of constraints.

Next:

1. Proofs: the constraints of `Logical` and `Sum`, which keeps a permutation between two calls; in
`MDDSpecs`, that a merge covers what it merges. 2. `Storage` with its marks; `CQueue` with
retraction. 3. Approximate equivalence, constraint priorities and combined states of `MDDRelax`
(with `seqMDD3`), `tspSumMDD`. 4. A composition of `DFSearch` with `Propagation`: complete search
over real constraints.

## 7. Not modelled

Wording, printing, statistics other than the counts, memory management other than the block of the
trail and the pool of command lists, the clock. Magic numbers and values do not overflow in the
models (the counter is an `int` that is never reset). Of the constraints: `int_mod`, `int_pow`,
the class `array_int_element` (nothing constructs it) and the cumulative constraint of
`global_constraints/`. Of the variables: the literal views. Of the MDD engine: `splitNodeApprox`
and constraint priorities, the reboot distance (taken to be zero), restricted diagrams, combined
states, `_preComputeKeepKids`, the exact diagram of `MDD::buildDiagram`, `seqMDD3` (which needs
combined states) and `tspSumMDD`; the rankings of nodes and candidates are nondeterministic
choices. FlatZinc parsing is generated; CUDA kernels, `gfl`, python bindings, examples and
vendored headers stay outside the core, and with them more than half of the repository's lines.
