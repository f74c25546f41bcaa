------------------------------ MODULE Propagation ------------------------------
(* CPSolver (solver.hpp, solver.cpp): constraints are posted, then fixpoint() *)
(* empties a queue with two priorities, first running the objective's hook.   *)
(* Domains, listener lists, active flags and mem are trailed; the queue, the  *)
(* scheduled flags and aux are not.  failNow jumps to the innermost handler:  *)
(* the one of fixpoint() drains the queue, post() has none of its own.        *)
EXTENDS Events

CONSTANTS
    newMem(_), newAux(_),           \* what a constraint remembers when it is constructed
    post(_, _), propagate(_, _),    \* its virtual methods, functions of a solver state
    aborts(_, _),                   \* whether an assertion of its post() ends the program
    holds(_, _),                    \* what it means of an assignment
    Programs,       \* what a client may be, see below
    NoPrimal        \* _primal before the first solution

(* A program is [dom, cons, early, obj, moves, levels]: the domains variables *)
(* are created with, the constraints posted, those of them that are posted    *)
(* before any search, the objective (<<>> or <<view, "min" or "max">>), the   *)
(* <<x, v>> its alternatives decide or refute, and a bound on the open levels.*)

(* The constraints of a program, those that others post included.             *)
Inner(C) == UNION {{Body[c].inner[k] : k \in DOMAIN Body[c].inner} : c \in C}
ConsOf(p) == LET C == p.cons \cup Inner(p.cons) IN C \cup Inner(C)

Domains == {D \in SUBSET Int : D # {} /\ IsFiniteSet(D)}

(* The views of the variables X. *)
Views(X) == X \X (Int \ {0}) \X Int

ASSUME ProgramsAssumption ==
    /\ NoPrimal \in Int
    /\ \A p \in Programs :
          /\ p.dom \in [DOMAIN p.dom -> Domains]
          /\ \A c \in ConsOf(p) : Body[c].x \in Seq(Views(DOMAIN p.dom))
          /\ p.early \subseteq p.cons /\ ConsOf(p) \subseteq DOMAIN Body
          /\ Inner(ConsOf(p)) \subseteq ConsOf(p)
          /\ p.obj # <<>> => p.obj[1] \in Views(DOMAIN p.dom) /\ p.obj[2] \in {"min", "max"}
          /\ \A m \in p.moves : m[1] \in DOMAIN p.dom /\ m[2] \in Int
          /\ p.levels \in Nat

(* What a constraint posts in its own post() follows from it.                 *)
ASSUME InnerAssumption ==
    \A p \in Programs : \A c \in ConsOf(p) :
        \A a \in [DOMAIN p.dom -> UNION {p.dom[x] : x \in DOMAIN p.dom}] :
            holds(a, c) => \A k \in DOMAIN Body[c].inner : holds(a, Body[c].inner[k])

VARIABLES
    program,        \* the member of Programs that runs
    dom, listen, active, mem,   \* trailed
    queue, scheduled, aux,      \* not trailed
    pc,             \* "open", "hooks" and "loop" of fixpoint(), "resume" inside a
                    \* post() that posts constraints, "rest", "failed", "aborted"
    agenda,         \* what the posts that are running still have to do
    posted,         \* constraints allocated on the current path
    primal,         \* _primal of Minimize and Maximize
    saved,          \* what the open levels restore
    wanted          \* the assignments that meet everything asked on this path
                    \* (for the properties only)

solver == <<dom, listen, active, mem, queue, scheduled, aux>>
vars == <<program, solver, pc, agenda, posted, primal, saved, wanted>>

Vars == DOMAIN program.dom
Values == UNION {program.dom[x] : x \in Vars}
Fits(a, D) == \A x \in Vars : a[x] \in D[x]

Cons == ConsOf(program)
Ids == UNION {Parts(c) : c \in Cons}

Waiting == UNION {{queue[p][k] : k \in DOMAIN queue[p]} : p \in {CLOW, CHIGH}}

TypeOK == /\ program \in Programs
          /\ DOMAIN dom = Vars /\ \A x \in Vars : dom[x] # {} /\ dom[x] \subseteq program.dom[x]
          /\ DOMAIN listen = Vars
          /\ \A x \in Vars : \A l \in Lists : \A k \in DOMAIN listen[x][l] : listen[x][l][k] \in Ids
          /\ active \in [Ids -> BOOLEAN] /\ scheduled \in [Ids -> BOOLEAN]
          /\ DOMAIN mem = Cons /\ DOMAIN aux = Cons
          /\ Waiting \subseteq Ids
          /\ pc \in {"open", "hooks", "loop", "resume", "rest", "failed", "aborted"}
          /\ posted \subseteq Cons
          /\ primal \in Int
          /\ Len(saved) <= program.levels
          /\ pc \in {"open", "rest", "failed", "aborted"} => agenda = <<>>

Init == /\ program \in Programs
        /\ dom = program.dom
        /\ listen = [x \in Vars |-> [l \in Lists |-> <<>>]]
        /\ active = [i \in Ids |-> TRUE] /\ scheduled = [i \in Ids |-> FALSE]
        /\ mem = [c \in Cons |-> newMem(c)] /\ aux = [c \in Cons |-> newAux(c)]
        /\ queue = [p \in {CLOW, CHIGH} |-> <<>>]
        /\ pc = "open" /\ agenda = <<>>
        /\ posted = {}
        /\ primal = NoPrimal
        /\ saved = <<>>
        /\ wanted = {a \in [Vars -> Values] : Fits(a, program.dom)}

--------------------------------------------------------------------------------
Solver == [dom |-> dom, listen |-> listen, queue |-> queue, scheduled |-> scheduled,
           active |-> active, mem |-> mem, aux |-> aux, failed |-> FALSE, asked |-> FALSE]

Becomes(r) == /\ dom' = r.dom /\ listen' = r.listen /\ active' = r.active /\ mem' = r.mem
              /\ queue' = r.queue /\ scheduled' = r.scheduled /\ aux' = r.aux

Idle == pc \in {"open", "rest"}

(* A constraint object whose members are those of a new one.                  *)
New(r, c) == [r EXCEPT !.scheduled = [i \in DOMAIN @ |-> @[i] /\ i[1] # c],
                       !.active = [i \in DOMAIN @ |-> @[i] \/ i[1] = c],
                       !.mem[c] = newMem(c), !.aux[c] = newAux(c)]

(* Where the solver is after a post() that has work left to do.               *)
Done(r, fix, left) == IF r.failed THEN "failed" ELSE IF fix THEN "hooks"
                      ELSE IF left # <<>> THEN "resume" ELSE "open"

(* What post(c, fix) does: the constraints that c's own post() posts, each    *)
(* with its fixpoint, then the rest of it.                                    *)
Calls(c, fix) == [k \in DOMAIN Body[c].inner |-> [c |-> Body[c].inner[k], fix |-> TRUE, rest |-> FALSE]]
                 \o <<[c |-> c, fix |-> fix, rest |-> TRUE]>>

Fresh(call) == IF call.rest THEN Solver ELSE New(Solver, call.c)
Nests(call) == Body[call.c].inner # <<>> /\ ~call.rest

(* post() runs up to its first fixpoint, or to its end.  The program that an  *)
(* assertion ends in the middle of it leaves no solver to look at.            *)
Run(call, left) ==
    LET r == post(Fresh(call), call.c)
    IN IF Nests(call)
       THEN Becomes(Fresh(call)) /\ pc' = "resume" /\ agenda' = Calls(call.c, call.fix) \o left
       ELSE IF aborts(Fresh(call), call.c)
       THEN Becomes(Fresh(call)) /\ pc' = "aborted" /\ agenda' = <<>>
       ELSE /\ Becomes(r)
            /\ pc' = Done(r, call.fix \/ r.asked, left)
            /\ agenda' = IF r.failed THEN <<>> ELSE left

Call(c, fix) == [c |-> c, fix |-> fix, rest |-> FALSE]

PostConstraint(c, fix) ==
    /\ Idle
    /\ c \in program.cons \ posted
    /\ posted' = posted \cup {c}
    /\ Run(Call(c, fix), <<>>)
    /\ wanted' = {a \in wanted : holds(a, c)}
    /\ UNCHANGED <<program, primal, saved>>

(* The post() that was interrupted by a fixpoint goes on. *)
Resume ==
    /\ pc = "resume"
    /\ posted' = posted \cup {Head(agenda).c}
    /\ Run(Head(agenda), Tail(agenda))
    /\ UNCHANGED <<program, primal, saved, wanted>>

(* EQc and NEQc, what branching alternatives post.                            *)
Narrowed(r) == Becomes(r) /\ pc' = Done(r, TRUE, <<>>)

Decide(x, v) ==
    /\ Idle /\ program.early \subseteq posted
    /\ Narrowed(DomAssign(Solver, x, v))
    /\ wanted' = {a \in wanted : a[x] = v}
    /\ UNCHANGED <<program, agenda, posted, primal, saved>>

Refute(x, v) ==
    /\ Idle /\ program.early \subseteq posted
    /\ Narrowed(DomRemove(Solver, x, v))
    /\ wanted' = {a \in wanted : a[x] # v}
    /\ UNCHANGED <<program, agenda, posted, primal, saved>>

(* Mutant: the queue is emptied and the flags stay up. *)
Drained_flags(r) == [r EXCEPT !.queue = [p \in {CLOW, CHIGH} |-> <<>>]]

(* The handler of fixpoint(): empty the queue, lower the flags, fail again.   *)
Drained(r) == [r EXCEPT !.queue = [p \in {CLOW, CHIGH} |-> <<>>],
                        !.scheduled = [i \in DOMAIN @ |-> @[i] /\ \A p \in {CLOW, CHIGH} :
                                          \A k \in DOMAIN r.queue[p] : r.queue[p][k] # i]]

(* Mutant: a post() that was interrupted goes on after the failure. *)
Ran_agenda(r) == IF r.failed THEN Becomes(Drained(r)) /\ pc' = "failed" /\ agenda' = agenda
                 ELSE Becomes(r) /\ pc' = "loop" /\ agenda' = agenda

Ran(r) == IF r.failed THEN Becomes(Drained(r)) /\ pc' = "failed" /\ agenda' = <<>>
          ELSE Becomes(r) /\ pc' = "loop" /\ agenda' = agenda

(* What is better than the value of a solution. *)
Better(w, v) == IF program.obj[2] = "min" THEN w < v ELSE w > v
Unbeaten == program.obj = <<>> \/ primal = NoPrimal
ValueOf(a) == LET v == program.obj[1] IN v[2] * a[v[1]] + v[3]

(* Mutant: as good as the best so far is good enough. *)
Hooks_equal ==
    /\ pc = "hooks"
    /\ Ran(IF Unbeaten THEN Solver
           ELSE IF program.obj[2] = "min" THEN RemoveAbove(Solver, program.obj[1], primal)
           ELSE RemoveBelow(Solver, program.obj[1], primal))
    /\ wanted' = IF Unbeaten THEN wanted
                 ELSE {a \in wanted : Better(ValueOf(a), primal) \/ ValueOf(a) = primal}
    /\ UNCHANGED <<program, posted, primal, saved>>

(* notifyFixpoint: the objective asks for better than the best so far.        *)
Hooks ==
    /\ pc = "hooks"
    /\ Ran(IF Unbeaten THEN Solver
           ELSE IF program.obj[2] = "min" THEN RemoveAbove(Solver, program.obj[1], primal - 1)
           ELSE RemoveBelow(Solver, program.obj[1], primal + 1))
    /\ wanted' = IF Unbeaten THEN wanted ELSE {a \in wanted : Better(ValueOf(a), primal)}
    /\ UNCHANGED <<program, posted, primal, saved>>

(* The next in the queue, and the solver when it has left it. *)
Turn == IF queue[CHIGH] # <<>> THEN CHIGH ELSE CLOW
Taken == Head(queue[Turn])
Popped == [Solver EXCEPT !.queue[Turn] = Tail(@), !.scheduled[Taken] = FALSE]

Step ==
    /\ pc = "loop" /\ queue[Turn] # <<>>
    /\ Ran(IF active[Taken] THEN propagate(Popped, Taken) ELSE Popped)
    /\ UNCHANGED <<program, posted, primal, saved, wanted>>

Finish ==
    /\ pc = "loop" /\ Waiting = {}
    /\ pc' = IF agenda = <<>> THEN "rest" ELSE "resume"
    /\ UNCHANGED <<program, solver, agenda, posted, primal, saved, wanted>>

Fixpoint == Hooks \/ Step \/ Finish \/ Resume

Solved == pc = "rest" /\ program.obj # <<>> /\ \A x \in Vars : Singleton(dom[x])

(* At a solution tighten() notes its value and fails.                         *)
Tighten ==
    /\ Solved
    /\ primal' = IF program.obj[2] = "min" THEN Hi(Solver, program.obj[1])
                 ELSE Lo(Solver, program.obj[1])
    /\ pc' = "failed"
    /\ wanted' = {}
    /\ UNCHANGED <<program, solver, agenda, posted, saved>>

SaveState ==
    /\ Idle
    /\ Len(saved) < program.levels
    /\ saved' = Append(saved, [dom |-> dom, listen |-> listen, active |-> active, mem |-> mem,
                               posted |-> posted, wanted |-> wanted])
    /\ pc' = "open"
    /\ UNCHANGED <<program, solver, agenda, posted, primal, wanted>>

RestoreState ==
    /\ pc \in {"open", "rest", "failed"}
    /\ saved # <<>>
    /\ LET top == saved[Len(saved)]
       IN /\ dom' = top.dom /\ listen' = top.listen /\ active' = top.active /\ mem' = top.mem
          /\ posted' = top.posted /\ wanted' = top.wanted
    /\ saved' = SubSeq(saved, 1, Len(saved) - 1)
    /\ pc' = "open"
    /\ UNCHANGED <<program, queue, scheduled, aux, agenda, primal>>

Branch == \/ \E m \in program.moves : Decide(m[1], m[2]) \/ Refute(m[1], m[2])
          \/ Tighten

(* A search: every post is followed by its fixpoint, the default of post().   *)
Next == \/ Fixpoint \/ Branch \/ SaveState \/ RestoreState
        \/ \E c \in program.cons : PostConstraint(c, TRUE)

(* fixpoint() does not stop between two of its steps.  This is                *)
(* WF_vars(Fixpoint): while Running, only Fixpoint steps are possible and one *)
(* always is (TLC is slow at finding that out by itself).                     *)
Running == pc \in {"hooks", "loop", "resume"}

Spec == Init /\ [][Next]_vars /\ ([]<>~Running \/ []<><<Running>>_vars)

(* Posts with and without a fixpoint, but nothing is waiting when a level is  *)
(* opened or restored.  The code does not ensure it: a post that fails half   *)
(* way leaves what it scheduled, and so does a post without its fixpoint.     *)
TidyNext == \/ Fixpoint \/ Branch
            \/ \E c \in program.cons, fix \in BOOLEAN : PostConstraint(c, fix)
            \/ Waiting = {} /\ (SaveState \/ RestoreState)

TidySpec == Init /\ [][TidyNext]_vars /\ ([]<>~Running \/ []<><<Running>>_vars)
--------------------------------------------------------------------------------
(* The states of a solver with the variables X and the constraints and        *)
(* closures I, which remember M and A.                                        *)
States(X, I, M, A) ==
    [dom : [X -> Domains], listen : [X -> [Lists -> Seq(I)]], queue : [{CLOW, CHIGH} -> Seq(I)],
     scheduled : [I -> BOOLEAN], active : [I -> BOOLEAN], mem : M, aux : A,
     failed : BOOLEAN, asked : BOOLEAN]

(* From r to s the queue only grows, and with it the flags; domains shrink.   *)
Entries(r) == UNION {{r.queue[p][k] : k \in DOMAIN r.queue[p]} : p \in {CLOW, CHIGH}}

Grows(r, s) == /\ Entries(r) \subseteq Entries(s)
               /\ \A i \in DOMAIN r.scheduled : s.scheduled[i] => r.scheduled[i] \/ i \in Entries(s)
Shrinks(r, s) == \A x \in DOMAIN r.dom : s.dom[x] \subseteq r.dom[x]
Narrows(S, r, s) == s \in S /\ Grows(r, s) /\ Shrinks(r, s)

Modest(r, s) == /\ DOMAIN s.mem = Cons /\ DOMAIN s.aux = Cons
                /\ Narrows(States(Vars, Ids, {s.mem}, {s.aux}), r, s)

(* The calls of post() the next step may make. *)
Posts == {call \in (IF Idle THEN {Call(c, TRUE) : c \in program.cons \ posted}
                    ELSE IF pc = "resume" THEN {Head(agenda)} ELSE {}) :
              ~Nests(call) /\ ~aborts(Fresh(call), call.c)}

(* A method of a constraint, called in whatever state the search has reached, *)
(* fails or leaves every variable a value, but never one it had lost; it      *)
(* takes nothing from the queue and raises no flag without an entry.  This is *)
(* what the fixpoint relies on (solver.cpp:66-93).                            *)
OnlyNarrows ==
    /\ pc = "loop" /\ Waiting # {} /\ active[Taken] => Modest(Popped, propagate(Popped, Taken))
    /\ \A call \in Posts : Modest(Fresh(call), post(Fresh(call), call.c))

(* The closures that listen to a variable, and the assignments that are left. *)
Listening(r) == UNION {{<<x, l, r.listen[x][l][k]>> : k \in DOMAIN r.listen[x][l]} :
                       x \in DOMAIN r.listen, l \in Lists}
Heard(r) == {t[3] : t \in Listening(r)}
LeftIn(r) == {a \in [Vars -> Values] : Fits(a, r.dom)}
Left == LeftIn(Solver)

(* What is heard now: a list of onBind waits until the variable is bound.     *)
Alert(r) == {t[3] : t \in {u \in Listening(r) : u[2] = "onBind" => Singleton(r.dom[u[1]])}}

(* An IsClause whose Boolean is true leaves the work to its Clause, a LexLeq  *)
(* to the order it has posted on two of its variables.                        *)
SwitchedOff(r, c) ==
    /\ ~r.active[<<c, 0>>]
    /\ Body[c].kind = "IsClause" => ~(r.active[<<c, 1>>] /\ Is(r, Body[c].x[1], 1))
    /\ Body[c].kind = "LexLeq" =>
          \A n \in (Len(Body[c].x) + 1)..Body[c].parts :
              r.active[<<c, n>>] => <<c, n>> \notin Alert(r)

(* From r to s the constraint c keeps to itself: other constraints listen and *)
(* are active as before, and only those that listen have been woken up.       *)
KeepsToItself(c, r, s) ==
    /\ \A t \in Listening(r) \cup Listening(s) :
          t[3] \in Parts(c) \/ t \in Listening(r) \cap Listening(s)
    /\ \A i \in Ids \ Parts(c) : s.active[i] = r.active[i]
    /\ Entries(s) \subseteq Entries(r) \cup Alert(s) \cup Parts(c)

(* It loses no assignment that meets it, and is off only if all that are left *)
(* do.                                                                        *)
Infers(c, r, s) ==
    /\ s.failed \/ s.dom # r.dom =>
          \A a \in LeftIn(r) : s.failed \/ ~Fits(a, s.dom) => ~holds(a, c)
    /\ ~s.failed /\ SwitchedOff(s, c) => \A a \in LeftIn(s) : holds(a, c)

(* A method of a constraint, called in whatever state the search has reached, *)
(* infers no more than the constraint says and does not meddle with the other *)
(* ones.  Soundness of the whole search rests on this (constraint.cpp).       *)
OnlyInfers ==
    /\ pc = "loop" /\ Waiting # {} /\ active[Taken] =>
          LET s == propagate(Popped, Taken)
          IN KeepsToItself(Taken[1], Popped, s) /\ Infers(Taken[1], Popped, s)
    /\ \A call \in Posts :
          LET s == post(Fresh(call), call.c)
          IN KeepsToItself(call.c, Fresh(call), s) /\ Infers(call.c, Fresh(call), s)

(* A constraint whose flag is up is in the queue: were it not, schedule()     *)
(* would ignore it for good (solver.hpp:82-87, solver.cpp:87-92).             *)
FlagHasEntry == TypeOK /\ \A i \in Ids : scheduled[i] => i \in Waiting

(* The links post() follows fit the list it has built of them                 *)
(* (constraint.cpp:1044: assert(0 <= link && link < yMax - yMin + 1)).        *)
AssertionsHold == pc # "aborted"

(* fixpoint() ends, however the constraints wake each other up.               *)
Terminates == Running ~> ~Running

(* Propagation removes no assignment that meets everything posted on the      *)
(* path, and fails only where there is none (constraint.cpp:67-1180).         *)
NoSolutionLost == IF pc = "failed" THEN wanted = {}
                  ELSE \A a \in wanted : Fits(a, dom)

(* When fixpoint() has ended, running anything that listens once more would   *)
(* change no domain: no wake-up was lost.  Left out are the constraints whose *)
(* post narrows before it listens, which may rest short of a fixpoint, and    *)
(* the closures that count and so run once for each event.                    *)
(* Deaf: those that read what they do not listen to.                          *)
Hasty == {"EQBinBC", "EQTernBC", "EQTernBCbool", "EQAbsDiffBC", "Element1DBasic"}
Counting == {"SumBool", "Circuit"}
Deaf(b) == b.kind = "array_var_bool_element" \/ (b.kind = "int_bin_reif" /\ b.k = "ne")


Settled(i) == LET r == propagate(Solver, i) IN ~r.failed /\ r.dom = dom

NoWakeUpLost ==
    pc = "rest" => \A c \in posted : Body[c].kind \notin Hasty \cup Counting /\ ~Deaf(Body[c]) =>
        \A i \in Parts(c) : active[i] /\ i \in Alert(Solver) => Settled(i)

(* A constraint switches itself off only when nothing left in the domains     *)
(* can violate it, and stays so across backtracks (acstr.hpp:86-91).          *)
InactiveIsEntailed == pc \notin {"failed", "aborted"} =>
                         \A c \in posted : SwitchedOff(Solver, c) => \A a \in Left : holds(a, c)

(* What a search reports as a solution is one: at rest with every variable    *)
(* bound, all the constraints posted on the path hold.                        *)
SolutionsAreReal == pc = "rest" /\ (\A x \in Vars : Singleton(dom[x])) =>
                       \A c \in posted, a \in Left : holds(a, c)

(* The constraints documented as domain consistent leave no value without a   *)
(* solution of their own (constraint.hpp:395, 1036, table.cpp:71).            *)
ScopeOf(c) == {Body[c].x[n][1] : n \in DOMAIN Body[c].x}

DomainConsistent ==
    pc = "rest" => \A c \in posted : Body[c].kind \in {"AllDifferentAC", "Element1DDC", "TableCT"} =>
        LET sound == {a \in Left : holds(a, c)}
        IN \A x \in ScopeOf(c) : \A v \in dom[x] : \E a \in sound : a[x] = v

(* Every solution is strictly better than the one before it, whatever levels  *)
(* were restored in between: the objective's bound is not trailed, the hook   *)
(* puts it back (constraint.cpp:278-335).                                     *)
Improves == [][Tighten => Unbeaten \/ Better(primal', primal)]_vars
================================================================================
