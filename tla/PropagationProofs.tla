---------------------------- MODULE PropagationProofs ----------------------------
(* Proofs about Propagation.tla for every library of constraints: what the    *)
(* operations on variables (Events.tla) do to a solver, and what follows for  *)
(* the fixpoint and the search as long as the methods of the constraints do   *)
(* no more than these operations do (OnlyNarrows).                            *)
EXTENDS Propagation, IntervalLemmas, SequenceTheorems

(* What telling the listeners of a variable leaves alone.                     *)
Same(r, s) == s.dom = r.dom /\ s.listen = r.listen /\ s.active = r.active /\ s.failed = r.failed

(* The flags that are up stay up.                                             *)
Raises(r, s) == \A i \in DOMAIN r.scheduled : r.scheduled[i] => s.scheduled[i]

(* Who may have been put into the queue.                                      *)
Queues(r, s, J) == Entries(s) \subseteq Entries(r) \cup J

(* A list of x, all of whose active listeners are scheduled in s.             *)
Stirred(r, s, x, l) ==
    \A k \in DOMAIN r.listen[x][l] : r.active[r.listen[x][l][k]] => s.scheduled[r.listen[x][l][k]]

(* A variable that has become bound has woken up whoever listens to it.       *)
Stirs(r, s) == ~s.failed => \A x \in DOMAIN r.dom :
                  ~Singleton(r.dom[x]) /\ Singleton(s.dom[x]) => \A l \in Lists : Stirred(r, s, x, l)

(* From r to s nobody listens or is active who was not, and only those that   *)
(* listen to something that is true in s have been woken up.                  *)
Wakes(r, s) == /\ s.listen = r.listen /\ s.active = r.active /\ Queues(r, s, Alert(s))
               /\ Stirs(r, s)

(* Who listens to the notices W of x, of which "bind" is only sent when the   *)
(* domain D that is left has one value.                                       *)
Called(r, x, W) == {t[3] : t \in {u \in Listening(r) : u[1] = x /\ \E n \in W : u[2] = List(n)}}
Notices(D) == {n \in {"bind", "change", "changeMin", "changeMax"} : n = "bind" => Singleton(D)}

Identifiers(I) == \A i \in I : Priority(i) \in {CLOW, CHIGH}

--------------------------------------------------------------------------------
(* The fields of a state.                                                     *)
LEMMA StateFields ==
  ASSUME NEW X, NEW I, NEW M, NEW A, NEW r \in States(X, I, M, A)
  PROVE  /\ r.dom \in [X -> Domains] /\ r.listen \in [X -> [Lists -> Seq(I)]]
         /\ r.queue \in [{CLOW, CHIGH} -> Seq(I)]
         /\ r.scheduled \in [I -> BOOLEAN] /\ r.active \in [I -> BOOLEAN]
         /\ r.mem \in M /\ r.aux \in A
         /\ r.failed \in BOOLEAN /\ r.asked \in BOOLEAN
  BY DEF States

LEMMA GrowsOn ==
  ASSUME NEW I, NEW r, NEW s, NEW t, DOMAIN r.scheduled = I, DOMAIN s.scheduled = I,
         Grows(r, s), Grows(s, t)
  PROVE  Grows(r, t)
  BY DEF Grows

LEMMA NarrowsOn ==
  ASSUME NEW X, NEW I, NEW M, NEW A, NEW r \in States(X, I, M, A), NEW s, NEW t,
         Narrows(States(X, I, M, A), r, s), Narrows(States(X, I, M, A), s, t)
  PROVE  Narrows(States(X, I, M, A), r, t)
<1>1. s \in States(X, I, M, A)
  BY DEF Narrows
<1>2. DOMAIN r.scheduled = I /\ DOMAIN s.scheduled = I /\ DOMAIN r.dom = X /\ DOMAIN s.dom = X
  BY <1>1, StateFields
<1>3. Grows(r, t)
  BY <1>2, GrowsOn DEF Narrows
<1>4. Shrinks(r, t)
  BY <1>2 DEF Narrows, Shrinks
<1>5. QED
  BY <1>3, <1>4 DEF Narrows

(* schedule() raises a flag and appends the entry that goes with it.          *)
LEMMA ScheduleGrows ==
  ASSUME NEW X, NEW I, Identifiers(I), NEW M, NEW A, NEW r \in States(X, I, M, A), NEW i \in I
  PROVE  LET s == Schedule(r, i)
         IN /\ s \in States(X, I, M, A) /\ Grows(r, s) /\ Same(r, s) /\ Queues(r, s, {i})
            /\ Raises(r, s) /\ (r.active[i] => s.scheduled[i])
<1> DEFINE p == Priority(i)
           q == Append(r.queue[p], i)
           s == [r EXCEPT !.scheduled[i] = TRUE, !.queue[p] = q]
<1>1. p \in {CLOW, CHIGH} /\ r.queue[p] \in Seq(I)
  BY StateFields DEF Identifiers
<1>2. /\ q \in Seq(I) /\ DOMAIN q = 1..(Len(r.queue[p]) + 1) /\ q[Len(r.queue[p]) + 1] = i
      /\ DOMAIN r.queue[p] = 1..Len(r.queue[p]) /\ Len(r.queue[p]) \in Nat
      /\ \A k \in DOMAIN r.queue[p] : k \in DOMAIN q /\ q[k] = r.queue[p][k]
      /\ \A k \in DOMAIN q : (k \in DOMAIN r.queue[p] /\ q[k] = r.queue[p][k]) \/ q[k] = i
  BY <1>1
<1>3. s \in States(X, I, M, A)
  BY <1>1, <1>2 DEF States
<1>4. /\ s.dom = r.dom /\ s.listen = r.listen /\ s.active = r.active /\ s.failed = r.failed
      /\ s.scheduled = [r.scheduled EXCEPT ![i] = TRUE]
      /\ s.queue = [r.queue EXCEPT ![p] = q]
  BY DEF States
<1> HIDE DEF s
<1>5. Grows(r, s) /\ Queues(r, s, {i})
  <2>1. DOMAIN r.queue = {CLOW, CHIGH} /\ r.scheduled \in [I -> BOOLEAN]
    BY StateFields
  <2>2. s.queue[p] = q /\ \A o \in {CLOW, CHIGH} : o # p => s.queue[o] = r.queue[o]
    BY <1>1, <1>4, <2>1
  <2> HIDE DEF p, q
  <2>3. i \in Entries(s)
    <3>1. Len(r.queue[p]) + 1 \in DOMAIN s.queue[p] /\ s.queue[p][Len(r.queue[p]) + 1] = i
      BY <1>2, <2>2
    <3> QED
      BY <1>1, <3>1 DEF Entries
  <2>4. ASSUME NEW o \in {CLOW, CHIGH}, NEW k \in DOMAIN r.queue[o]
        PROVE  k \in DOMAIN s.queue[o] /\ s.queue[o][k] = r.queue[o][k]
    BY <1>2, <2>2
  <2>5. Entries(r) \subseteq Entries(s)
    BY <2>4 DEF Entries
  <2>6. \A j \in I : s.scheduled[j] => r.scheduled[j] \/ j = i
    BY <1>4, <2>1
  <2>7. ASSUME NEW o \in {CLOW, CHIGH}, NEW k \in DOMAIN s.queue[o]
        PROVE  s.queue[o][k] \in Entries(r) \cup {i}
    <3>1. (k \in DOMAIN r.queue[o] /\ s.queue[o][k] = r.queue[o][k]) \/ s.queue[o][k] = i
      BY <1>2, <2>2
    <3> QED
      BY <3>1 DEF Entries
  <2>8. Entries(s) \subseteq Entries(r) \cup {i}
    BY <2>7 DEF Entries
  <2> QED
    BY <2>1, <2>3, <2>5, <2>6, <2>8 DEF Grows, Queues
<1>6. CASE r.active[i] /\ ~r.scheduled[i]
  <2>1. Schedule(r, i) = s
    BY <1>6 DEF Schedule, s, q, p
  <2>2. r.scheduled \in [I -> BOOLEAN]
    BY StateFields
  <2>3. Raises(r, s) /\ s.scheduled[i]
    BY <1>4, <2>2 DEF Raises
  <2> QED
    BY <1>3, <1>4, <1>5, <2>1, <2>3 DEF Same
<1>7. CASE ~(r.active[i] /\ ~r.scheduled[i])
  <2>1. Schedule(r, i) = r
    BY <1>7 DEF Schedule
  <2> QED
    BY <1>7, <2>1 DEF Same, Grows, Queues, Raises
<1>8. QED
  BY <1>6, <1>7

(* What a listener's list is woken up to leave.                               *)
LEMMA ListOf ==
  ASSUME NEW X, NEW I, NEW M, NEW A, NEW r \in States(X, I, M, A), NEW x \in X, NEW n
  PROVE  /\ r.listen[x][List(n)] \in Seq(I)
         /\ Len(r.listen[x][List(n)]) \in Nat
         /\ DOMAIN r.listen[x][List(n)] = 1..Len(r.listen[x][List(n)])
<1>1. List(n) \in Lists
  BY DEF List, Lists
<1>2. QED
  BY <1>1, StateFields

LEMMA CalledOf ==
  ASSUME NEW X, NEW I, NEW M, NEW A, NEW r \in States(X, I, M, A), NEW x \in X, NEW W, NEW n \in W
  PROVE  \A k \in DOMAIN r.listen[x][List(n)] : r.listen[x][List(n)][k] \in Called(r, x, W)
<1>1. List(n) \in Lists /\ x \in DOMAIN r.listen
  <2>1. DOMAIN r.listen = X
    BY StateFields
  <2> QED
    BY <2>1 DEF List, Lists
<1> DEFINE l == List(n)
<1> HIDE DEF l
<1>2. ASSUME NEW k \in DOMAIN r.listen[x][l]
      PROVE  r.listen[x][l][k] \in Called(r, x, W)
  <2> DEFINE t == <<x, l, r.listen[x][l][k]>>
  <2> DEFINE Here(y, m) == {<<y, m, r.listen[y][m][j]>> : j \in DOMAIN r.listen[y][m]}
  <2>0. t \in Here(x, l) /\ x \in DOMAIN r.listen /\ l \in Lists
    BY <1>1 DEF l
  <2>1. t \in Listening(r)
    <3>1. Listening(r) = UNION {Here(y, m) : y \in DOMAIN r.listen, m \in Lists}
      BY DEF Listening
    <3> HIDE DEF Here, t
    <3> QED
      BY <2>0, <3>1
  <2>2. t[1] = x /\ t[2] = l /\ t[3] = r.listen[x][l][k]
    OBVIOUS
  <2> HIDE DEF t
  <2> QED
    BY <2>1, <2>2 DEF Called, l
<1>3. QED
  BY <1>2 DEF l

LEMMA HeardSame ==
  ASSUME NEW r, NEW s, s.listen = r.listen
  PROVE  Heard(s) = Heard(r) /\ Listening(s) = Listening(r)
  BY DEF Heard, Listening

LEMMA SameMax == \A T : Seqs!Max(T) = Max(T)
  BY DEF Seqs!Max, Max

LEMMA GrowsSelf ==
  ASSUME NEW r
  PROVE  /\ Grows(r, r) /\ Same(r, r) /\ Shrinks(r, r) /\ Wakes(r, r) /\ Raises(r, r)
         /\ \A J : Queues(r, r, J)
  BY DEF Grows, Same, Shrinks, Wakes, Queues, Stirs, Raises

(* What schedule() makes of r for constraints of J.                           *)
Grown(X, I, M, A, r, J) ==
    {s \in States(X, I, M, A) : Grows(r, s) /\ Same(r, s) /\ Queues(r, s, J) /\ Raises(r, s)}

LEMMA ScheduleOn ==
  ASSUME NEW X, NEW I, Identifiers(I), NEW M, NEW A, NEW r \in States(X, I, M, A),
         NEW J, NEW s \in Grown(X, I, M, A, r, J), NEW i \in I, i \in J
  PROVE  /\ Schedule(s, i) \in Grown(X, I, M, A, r, J)
         /\ Raises(s, Schedule(s, i)) /\ (r.active[i] => Schedule(s, i).scheduled[i])
<1>1. s \in States(X, I, M, A) /\ Grows(r, s) /\ Same(r, s) /\ Queues(r, s, J) /\ Raises(r, s)
  BY DEF Grown
<1> DEFINE t == Schedule(s, i)
<1>2. /\ t \in States(X, I, M, A) /\ Grows(s, t) /\ Same(s, t) /\ Queues(s, t, {i})
      /\ Raises(s, t) /\ (s.active[i] => t.scheduled[i])
  BY <1>1, ScheduleGrows
<1> HIDE DEF t
<1>3. DOMAIN r.scheduled = I /\ DOMAIN s.scheduled = I
  BY <1>1, StateFields
<1>4. Grows(r, t)
  BY <1>1, <1>2, <1>3, GrowsOn
<1>5. Same(r, t)
  BY <1>1, <1>2 DEF Same
<1>6. Queues(r, t, J)
  BY <1>1, <1>2 DEF Queues
<1>7. Raises(r, t)
  BY <1>1, <1>2, <1>3 DEF Raises
<1>8. QED
  BY <1>1, <1>2, <1>4, <1>5, <1>6, <1>7 DEF Grown, Same, t

(* Scheduling one constraint after the other.                                 *)
LEMMA ScheduleFold ==
  ASSUME NEW X, NEW I, Identifiers(I), NEW M, NEW A, NEW r \in States(X, I, M, A),
         NEW J, NEW q \in Seq(I), \A k \in DOMAIN q : q[k] \in J
  PROVE  /\ Seqs!FoldLeft(Schedule, r, q) \in Grown(X, I, M, A, r, J)
         /\ \A k \in DOMAIN q : r.active[q[k]] => Seqs!FoldLeft(Schedule, r, q).scheduled[q[k]]
<1> DEFINE D == Grown(X, I, M, A, r, J)
           m == Len(q)
           N == 1..m
           turn(g, T) == IF T = {} THEN r ELSE Schedule(g[T \ {Max(T)}], q[Max(T)])
           iter == CHOOSE g : g = [T \in SUBSET N |-> turn(g, T)]
           F == [k \in N |-> [s \in D |-> Schedule(s, q[k])]]
<1>1. m \in Nat /\ DOMAIN q = N /\ \A k \in N : q[k] \in I /\ q[k] \in J
  OBVIOUS
<1>2. r \in D
  BY GrowsSelf DEF Grown
<1>3. \A k \in N : \A s \in D : F[k][s] = Schedule(s, q[k]) /\ F[k][s] \in D
  <2> SUFFICES ASSUME NEW k \in N, NEW s \in D
               PROVE  F[k][s] = Schedule(s, q[k]) /\ F[k][s] \in D
    OBVIOUS
  <2>1. F[k][s] = Schedule(s, q[k])
    OBVIOUS
  <2>2. Schedule(s, q[k]) \in D
    BY <1>1, ScheduleOn
  <2> QED
    BY <2>1, <2>2
<1> HIDE DEF D, F, m
<1>4. \A T \in SUBSET N : T # {} => Max(T) \in T
  BY <1>1, Initial
<1>5. 1..0 = {} /\ N \in SUBSET N /\ {} \in SUBSET N
  OBVIOUS
<1>6. \E g : g = [T \in SUBSET N |-> turn(g, T)]
  <2>1. PICK g : FoldOf(g, m, r, F) /\ \A T \in SUBSET N : g[T] \in D
    <3>1. Closed(m, D, F)
      BY <1>3 DEF Closed
    <3> QED
      BY <1>1, <1>2, <3>1, FoldTurns
  <2>2. ASSUME NEW T \in SUBSET N
        PROVE  (IF T = {} THEN r ELSE F[Max(T)][g[T \ {Max(T)}]]) = turn(g, T)
    <3>1. CASE T = {}
      BY <3>1
    <3>2. CASE T # {}
      <4>1. Max(T) \in N /\ g[T \ {Max(T)}] \in D
        BY <1>4, <2>1, <3>2
      <4> QED
        BY <1>3, <3>2, <4>1
    <3> QED
      BY <3>1, <3>2
  <2> HIDE DEF turn
  <2>3. g = [T \in SUBSET N |-> turn(g, T)]
    BY <2>1, <2>2 DEF FoldOf
  <2> QED
    BY <2>3
<1>7. iter = [T \in SUBSET N |-> turn(iter, T)]
  <2> HIDE DEF turn, N
  <2> QED
    BY <1>6
<1>8. Seqs!FoldLeft(Schedule, r, q) = iter[N]
  BY <1>1, SameMax DEF Seqs!FoldLeft, Seqs!MapThenFoldSet
<1> HIDE DEF iter
<1>9. iter[{}] = r
  BY <1>5, <1>7
<1>10. ASSUME NEW T \in SUBSET N, T # {} /\ iter[T \ {Max(T)}] \in D
       PROVE  iter[T] = F[Max(T)][iter[T \ {Max(T)}]]
  <2>1. iter[T] = Schedule(iter[T \ {Max(T)}], q[Max(T)])
    BY <1>7, <1>10
  <2> QED
    BY <1>3, <1>4, <1>10, <2>1
<1>11. Closed(m, D, F) /\ Follows(iter, m, D, r, F)
  BY <1>3, <1>9, <1>10 DEF Closed, Follows
<1>12. iter[1..m] \in D
  BY <1>1, <1>2, <1>11, FoldKeeps
<1>13. ASSUME NEW k \in N, r.active[q[k]]
       PROVE  iter[1..m].scheduled[q[k]]
  <2> DEFINE P == {s \in D : s.scheduled[q[k]]}
  <2>1. \A s \in D : F[k][s] \in P
    BY <1>1, <1>3, <1>13, ScheduleOn DEF D
  <2>2. ASSUME NEW j \in N, NEW s \in D, s \in P PROVE F[j][s] \in P
    <3>1. Raises(s, Schedule(s, q[j])) /\ F[j][s] = Schedule(s, q[j]) /\ F[j][s] \in D
      BY <1>1, <1>3, ScheduleOn DEF D
    <3>2. q[k] \in DOMAIN s.scheduled
      BY <1>1, StateFields DEF D, Grown
    <3> QED
      BY <2>2, <3>1, <3>2 DEF Raises
  <2> HIDE DEF P
  <2>3. iter[1..m] \in P
    BY <1>1, <1>2, <1>11, <2>1, <2>2, FoldReaches
  <2> QED
    BY <2>3 DEF P
<1>14. QED
  BY <1>1, <1>8, <1>12, <1>13 DEF D

(* A notification schedules the listeners it is for.                          *)
LEMMA WakeOn ==
  ASSUME NEW X, NEW I, Identifiers(I), NEW M, NEW A, NEW r \in States(X, I, M, A), NEW x \in X,
         NEW W, NEW s \in Grown(X, I, M, A, r, Called(r, x, W)), NEW n \in W
  PROVE  /\ Wake(s, x, n) \in Grown(X, I, M, A, r, Called(r, x, W))
         /\ Raises(s, Wake(s, x, n)) /\ Stirred(r, Wake(s, x, n), x, List(n))
<1>1. /\ s \in States(X, I, M, A) /\ Grows(r, s) /\ Same(r, s) /\ Queues(r, s, Called(r, x, W))
      /\ Raises(r, s)
  BY DEF Grown
<1> DEFINE t == Wake(s, x, n)
           J == Called(r, x, W)
<1>2. t \in Grown(X, I, M, A, s, J) /\ Stirred(r, t, x, List(n))
  <2> DEFINE q == s.listen[x][List(n)]
  <2>1. q \in Seq(I)
    BY <1>1, ListOf
  <2>2. \A k \in DOMAIN q : q[k] \in J
    <3>1. Called(s, x, W) = J
      BY <1>1, HeardSame DEF Same, Called
    <3>2. \A k \in DOMAIN q : q[k] \in Called(s, x, W)
      BY <1>1, CalledOf
    <3> QED
      BY <3>1, <3>2
  <2> HIDE DEF q, J
  <2>3. /\ Seqs!FoldLeft(Schedule, s, q) \in Grown(X, I, M, A, s, J)
        /\ \A k \in DOMAIN q : s.active[q[k]] => Seqs!FoldLeft(Schedule, s, q).scheduled[q[k]]
    BY <1>1, <2>1, <2>2, ScheduleFold
  <2>4. t \in Grown(X, I, M, A, s, J) /\ \A k \in DOMAIN q : s.active[q[k]] => t.scheduled[q[k]]
    BY <2>3 DEF Wake, q
  <2>5. s.listen = r.listen /\ s.active = r.active
    BY <1>1 DEF Same
  <2> HIDE DEF t
  <2> QED
    BY <2>4, <2>5 DEF Stirred, q
<1> HIDE DEF J
<1>3. t \in States(X, I, M, A) /\ Grows(s, t) /\ Same(s, t) /\ Queues(s, t, J) /\ Raises(s, t)
  BY <1>2 DEF Grown
<1> HIDE DEF t
<1>4. DOMAIN r.scheduled = I /\ DOMAIN s.scheduled = I
  BY <1>1, StateFields
<1>5. Grows(r, t)
  BY <1>1, <1>3, <1>4, GrowsOn
<1>6. Same(r, t)
  BY <1>1, <1>3 DEF Same
<1>7. Queues(r, t, J)
  BY <1>1, <1>3 DEF Queues, J
<1>8. Raises(r, t)
  BY <1>1, <1>3, <1>4 DEF Raises
<1>9. QED
  BY <1>2, <1>3, <1>5, <1>6, <1>7, <1>8 DEF Grown, t, J

LEMMA StirredOn ==
  ASSUME NEW r, NEW s, NEW u, NEW x, NEW l, Stirred(r, s, x, l), Raises(s, u),
         \A h \in DOMAIN r.listen[x][l] : r.listen[x][l][h] \in DOMAIN s.scheduled
  PROVE  Stirred(r, u, x, l)
BY DEF Stirred, Raises

(* All notifications of an operation.                                         *)
LEMMA TellGrows ==
  ASSUME NEW X, NEW I, Identifiers(I), NEW M, NEW A, NEW r \in States(X, I, M, A),
         NEW x \in X, NEW W, NEW q \in Seq(W)
  PROVE  /\ Tell(r, x, q) \in Grown(X, I, M, A, r, Called(r, x, W))
         /\ \A k \in DOMAIN q : Stirred(r, Tell(r, x, q), x, List(q[k]))
<1> DEFINE D == Grown(X, I, M, A, r, Called(r, x, W))
           m == Len(q)
           N == 1..m
           turn(g, T) == IF T = {} THEN r ELSE Wake(g[T \ {Max(T)}], x, q[Max(T)])
           iter == CHOOSE g : g = [T \in SUBSET N |-> turn(g, T)]
           F == [k \in N |-> [s \in D |-> Wake(s, x, q[k])]]
<1>1. m \in Nat /\ DOMAIN q = N /\ \A k \in N : q[k] \in W
  OBVIOUS
<1>2. r \in D
  BY GrowsSelf DEF Grown
<1>3. \A k \in N : \A s \in D : F[k][s] = Wake(s, x, q[k]) /\ F[k][s] \in D
  <2> SUFFICES ASSUME NEW k \in N, NEW s \in D
               PROVE  F[k][s] = Wake(s, x, q[k]) /\ F[k][s] \in D
    OBVIOUS
  <2>1. F[k][s] = Wake(s, x, q[k])
    OBVIOUS
  <2>2. Wake(s, x, q[k]) \in D
    BY <1>1, WakeOn
  <2> QED
    BY <2>1, <2>2
<1> HIDE DEF D, F, m
<1>4. \A T \in SUBSET N : T # {} => Max(T) \in T
  BY <1>1, Initial
<1>5. 1..0 = {} /\ N \in SUBSET N /\ {} \in SUBSET N
  OBVIOUS
<1>6. \E g : g = [T \in SUBSET N |-> turn(g, T)]
  <2>1. PICK g : FoldOf(g, m, r, F) /\ \A T \in SUBSET N : g[T] \in D
    <3>1. Closed(m, D, F)
      BY <1>3 DEF Closed
    <3> QED
      BY <1>1, <1>2, <3>1, FoldTurns
  <2>2. ASSUME NEW T \in SUBSET N
        PROVE  (IF T = {} THEN r ELSE F[Max(T)][g[T \ {Max(T)}]]) = turn(g, T)
    <3>1. CASE T = {}
      BY <3>1
    <3>2. CASE T # {}
      <4>1. Max(T) \in N /\ g[T \ {Max(T)}] \in D
        BY <1>4, <2>1, <3>2
      <4> QED
        BY <1>3, <3>2, <4>1
    <3> QED
      BY <3>1, <3>2
  <2> HIDE DEF turn
  <2>3. g = [T \in SUBSET N |-> turn(g, T)]
    BY <2>1, <2>2 DEF FoldOf
  <2> QED
    BY <2>3
<1>7. iter = [T \in SUBSET N |-> turn(iter, T)]
  <2> HIDE DEF turn, N
  <2> QED
    BY <1>6
<1>8. Tell(r, x, q) = iter[N]
  BY <1>1, SameMax DEF Tell, Seqs!FoldLeft, Seqs!MapThenFoldSet
<1> HIDE DEF iter
<1>9. iter[{}] = r
  BY <1>5, <1>7
<1>10. ASSUME NEW T \in SUBSET N, T # {} /\ iter[T \ {Max(T)}] \in D
       PROVE  iter[T] = F[Max(T)][iter[T \ {Max(T)}]]
  <2>1. iter[T] = Wake(iter[T \ {Max(T)}], x, q[Max(T)])
    BY <1>7, <1>10
  <2> QED
    BY <1>3, <1>4, <1>10, <2>1
<1>11. Closed(m, D, F) /\ Follows(iter, m, D, r, F)
  BY <1>3, <1>9, <1>10 DEF Closed, Follows
<1>12. iter[1..m] \in D
  BY <1>1, <1>2, <1>11, FoldKeeps
<1>13. ASSUME NEW k \in N
       PROVE  Stirred(r, iter[1..m], x, List(q[k]))
  <2> DEFINE P == {s \in D : Stirred(r, s, x, List(q[k]))}
  <2>1. \A s \in D : F[k][s] \in P
    BY <1>1, <1>3, WakeOn DEF D
  <2>2. ASSUME NEW j \in N, NEW s \in D, s \in P PROVE F[j][s] \in P
    <3>1. Raises(s, Wake(s, x, q[j])) /\ F[j][s] = Wake(s, x, q[j]) /\ F[j][s] \in D
      BY <1>1, <1>3, WakeOn DEF D
    <3>2. /\ DOMAIN s.scheduled = I /\ r.listen[x][List(q[k])] \in Seq(I)
      BY ListOf, StateFields DEF D, Grown
    <3>3. Stirred(r, s, x, List(q[k]))
      BY <2>2
    <3>4. \A h \in DOMAIN r.listen[x][List(q[k])] : r.listen[x][List(q[k])][h] \in DOMAIN s.scheduled
      BY <3>2
    <3>5. Raises(s, F[j][s])
      BY <3>1
    <3>6. Stirred(r, F[j][s], x, List(q[k]))
      BY <3>3, <3>4, <3>5, StirredOn
    <3> QED
      BY <3>1, <3>6
  <2> HIDE DEF P
  <2>3. iter[1..m] \in P
    BY <1>1, <1>2, <1>11, <2>1, <2>2, FoldReaches
  <2> QED
    BY <2>3 DEF P
<1>14. QED
  BY <1>1, <1>8, <1>12, <1>13 DEF D

(* Notices that wake up all three lists.                                      *)
Loud(q) == \A l \in Lists : \E k \in DOMAIN q : List(q[k]) = l
Says(q, n) == \E k \in DOMAIN q : q[k] = n

LEMMA LoudOf ==
  ASSUME NEW q, Says(q, "bind"), Says(q, "change"), Says(q, "changeMin") \/ Says(q, "changeMax")
  PROVE  Loud(q)
BY DEF Loud, Says, List, Lists

LEMMA SaysBoth ==
  ASSUME NEW S, NEW p \in Seq(S), NEW q \in Seq(S), NEW n, Says(p, n) \/ Says(q, n)
  PROVE  Says(p \o q, n)
<1>1. /\ Len(p) \in Nat /\ Len(q) \in Nat /\ DOMAIN p = 1..Len(p) /\ DOMAIN q = 1..Len(q)
      /\ DOMAIN (p \o q) = 1..(Len(p) + Len(q))
      /\ \A k \in 1..Len(p) : (p \o q)[k] = p[k]
      /\ \A k \in 1..Len(q) : (p \o q)[Len(p) + k] = q[k]
  OBVIOUS
<1>2. CASE Says(p, n)
  BY <1>1, <1>2 DEF Says
<1>3. CASE Says(q, n)
  <2>1. PICK k \in 1..Len(q) : q[k] = n
    BY <1>1, <1>3 DEF Says
  <2>2. Len(p) + k \in DOMAIN (p \o q) /\ (p \o q)[Len(p) + k] = n
    BY <1>1, <2>1
  <2> QED
    BY <2>2 DEF Says
<1>4. QED
  BY <1>2, <1>3

LEMMA SaysOf ==
  ASSUME NEW m, NEW n
  PROVE  Says(<<n>>, n) /\ Says(<<m, n>>, n) /\ Says(<<n, m>>, n) /\ \A c : c => Says(When(c, n), n)
<1>1. 1 \in DOMAIN <<n>> /\ 1 \in DOMAIN <<n, m>> /\ 2 \in DOMAIN <<m, n>>
  OBVIOUS
<1>2. <<n>>[1] = n /\ <<n, m>>[1] = n /\ <<m, n>>[2] = n
  OBVIOUS
<1>3. QED
  BY <1>1, <1>2 DEF Says, When

--------------------------------------------------------------------------------
(* Telling the listeners and storing a smaller domain.                        *)
Stored(r, s, x, D) == s.failed = r.failed /\ s.dom = [r.dom EXCEPT ![x] = D] /\ Wakes(r, s)

LEMMA NarrowNarrows ==
  ASSUME NEW X, NEW I, Identifiers(I), NEW M, NEW A, NEW r \in States(X, I, M, A),
         NEW x \in X, NEW D \in Domains, D \subseteq r.dom[x], NEW q \in Seq(Notices(D)),
         Singleton(D) => Loud(q)
  PROVE  /\ Narrows(States(X, I, M, A), r, Narrow(r, x, D, q))
         /\ Stored(r, Narrow(r, x, D, q), x, D)
<1> DEFINE t == Tell(r, x, q)
           s == [t EXCEPT !.dom[x] = D]
<1>1. /\ t \in States(X, I, M, A) /\ Grows(r, t) /\ Same(r, t)
      /\ Queues(r, t, Called(r, x, Notices(D)))
      /\ \A k \in DOMAIN q : Stirred(r, t, x, List(q[k]))
  BY TellGrows DEF Grown
<1> HIDE DEF t
<1>2. /\ s \in States(X, I, M, A)
      /\ s.dom = [t.dom EXCEPT ![x] = D] /\ s.failed = t.failed
      /\ s.listen = t.listen /\ s.active = t.active
      /\ s.queue = t.queue /\ s.scheduled = t.scheduled
  BY <1>1 DEF States
<1>3. Narrow(r, x, D, q) = s
  BY DEF Narrow, t
<1> HIDE DEF s
<1>4. s.dom = [r.dom EXCEPT ![x] = D] /\ s.failed = r.failed
  BY <1>1, <1>2 DEF Same
<1>5. Grows(r, s) /\ Wakes(r, s)
  <2>1. Entries(s) = Entries(t)
    BY <1>2 DEF Entries
  <2>2. Listening(s) = Listening(r) /\ s.dom[x] = D
    BY <1>1, <1>2, HeardSame, StateFields DEF Same
  <2>3. ASSUME NEW u \in Listening(r), u[1] = x, NEW n \in Notices(D), u[2] = List(n), u[2] = "onBind"
        PROVE  Singleton(s.dom[u[1]])
    <3>1. n = "bind"
      BY <2>3 DEF List, Notices
    <3> QED
      BY <2>2, <2>3, <3>1 DEF Notices
  <2>4. Called(r, x, Notices(D)) \subseteq Alert(s)
    BY <2>2, <2>3 DEF Called, Alert
  <2>5. Stirs(r, s)
    <3> SUFFICES ASSUME NEW y \in DOMAIN r.dom, ~Singleton(r.dom[y]), Singleton(s.dom[y]), NEW l \in Lists
                 PROVE  Stirred(r, s, y, l)
      BY DEF Stirs
    <3>1. y = x /\ s.dom[x] = D
      BY <1>4, StateFields
    <3>2. PICK k \in DOMAIN q : List(q[k]) = l
      BY <3>1 DEF Loud
    <3> QED
      BY <1>1, <1>2, <3>1, <3>2 DEF Stirred
  <2> QED
    BY <1>1, <1>2, <2>1, <2>4, <2>5 DEF Grows, Wakes, Queues, Same
<1>6. Shrinks(r, s)
  BY <1>4, StateFields DEF Shrinks
<1>7. QED
  BY <1>2, <1>3, <1>4, <1>5, <1>6 DEF Narrows, Stored

(* failNow: the state a failing operation leaves.                             *)
LEMMA FailNarrows ==
  ASSUME NEW X, NEW I, NEW M, NEW A, NEW r \in States(X, I, M, A)
  PROVE  Narrows(States(X, I, M, A), r, Fail(r)) /\ Fail(r).failed /\ Wakes(r, Fail(r))
<1> DEFINE s == Fail(r)
<1>1. /\ s \in States(X, I, M, A) /\ s.dom = r.dom /\ s.failed = TRUE
      /\ s.listen = r.listen /\ s.active = r.active
      /\ s.queue = r.queue /\ s.scheduled = r.scheduled
  BY DEF States, Fail
<1> HIDE DEF s
<1>2. Grows(r, s) /\ Shrinks(r, s) /\ Wakes(r, s)
  BY <1>1 DEF Grows, Entries, Shrinks, Wakes, Queues, Stirs
<1>3. QED
  BY <1>1, <1>2 DEF Narrows, s

LEMMA NarrowsSelf ==
  ASSUME NEW X, NEW I, NEW M, NEW A, NEW r \in States(X, I, M, A)
  PROVE  Narrows(States(X, I, M, A), r, r)
  BY GrowsSelf DEF Narrows

--------------------------------------------------------------------------------
(* What an operation that keeps only the values K of x comes to.              *)
Cuts(r, s, x, K) ==
    /\ Wakes(r, s)
    /\ r.failed => s = r
    /\ ~r.failed /\ r.dom[x] \cap K = {} => s.failed
    /\ ~r.failed /\ r.dom[x] \cap K # {} => ~s.failed /\ s.dom = [r.dom EXCEPT ![x] = @ \cap K]

LEMMA CutsNothing ==
  ASSUME NEW X, NEW I, NEW M, NEW A, NEW r \in States(X, I, M, A), NEW x \in X, NEW K,
         r.failed \/ r.dom[x] \subseteq K
  PROVE  Narrows(States(X, I, M, A), r, r) /\ Cuts(r, r, x, K)
<1>1. r.dom[x] \in Domains /\ r.dom \in [X -> Domains]
  BY StateFields
<1>2. r.dom[x] # {}
  BY <1>1 DEF Domains
<1>3. ~r.failed => r.dom[x] \cap K = r.dom[x]
  OBVIOUS
<1>4. r.dom = [r.dom EXCEPT ![x] = @]
  BY <1>1
<1>5. Cuts(r, r, x, K)
  BY <1>2, <1>3, <1>4, GrowsSelf DEF Cuts
<1>6. QED
  BY <1>5, NarrowsSelf

LEMMA CutsAll ==
  ASSUME NEW X, NEW I, NEW M, NEW A, NEW r \in States(X, I, M, A), NEW x \in X, NEW K,
         ~r.failed, r.dom[x] \cap K = {}
  PROVE  Narrows(States(X, I, M, A), r, Fail(r)) /\ Cuts(r, Fail(r), x, K)
  BY FailNarrows DEF Cuts

LEMMA CutsSome ==
  ASSUME NEW X, NEW I, Identifiers(I), NEW M, NEW A, NEW r \in States(X, I, M, A), NEW x \in X,
         NEW K, ~r.failed, r.dom[x] \cap K # {}, NEW D, D = r.dom[x] \cap K, NEW q \in Seq(Notices(D)),
         Singleton(D) => Loud(q)
  PROVE  Narrows(States(X, I, M, A), r, Narrow(r, x, D, q)) /\ Cuts(r, Narrow(r, x, D, q), x, K)
<1> DEFINE s == Narrow(r, x, D, q)
<1>1. r.dom[x] \in Domains
  BY StateFields
<1>2. D \subseteq r.dom[x] /\ D # {}
  OBVIOUS
<1>3. IsFiniteSet(D)
  BY <1>1, <1>2, FS_Subset DEF Domains
<1>4. D \in Domains
  BY <1>1, <1>2, <1>3 DEF Domains
<1>5. /\ Narrows(States(X, I, M, A), r, s)
      /\ Stored(r, s, x, D)
  BY <1>2, <1>4, NarrowNarrows
<1> HIDE DEF s
<1>6. Cuts(r, s, x, K)
  BY <1>5 DEF Cuts, Stored
<1>7. QED
  BY <1>5, <1>6 DEF s

AtLeast(w) == {k \in Int : k >= w}
AtMost(w) == {k \in Int : k <= w}

(* The least and the greatest value of a domain.                              *)
LEMMA DomainBounds ==
  ASSUME NEW D \in Domains
  PROVE  /\ Min(D) \in D /\ \A w \in D : Min(D) <= w
         /\ Max(D) \in D /\ \A w \in D : Max(D) >= w
<1>1. D \in SUBSET Int /\ D # {} /\ IsFiniteSet(D)
  BY DEF Domains
<1>2. PICK lo \in Int, hi \in Int : \A w \in D : lo <= w /\ w <= hi
  BY <1>1, FiniteBounds
<1>3. Min(D) \in D /\ \A w \in D : Min(D) <= w
  BY <1>1, <1>2, LeastInt
<1>4. Max(D) \in D /\ \A w \in D : Max(D) >= w
  BY <1>1, <1>2, GreatestInt
<1>5. QED
  BY <1>3, <1>4

LEMMA NoticesType ==
  ASSUME NEW D
  PROVE  /\ Singleton(D) => <<"bind", "change">> \in Seq(Notices(D))
         /\ <<"change">> \in Seq(Notices(D))
         /\ <<"changeMin">> \in Seq(Notices(D)) /\ <<"changeMin", "change">> \in Seq(Notices(D))
         /\ <<"changeMax", "change">> \in Seq(Notices(D))
         /\ \A c : /\ When(c, "changeMin") \in Seq(Notices(D))
                   /\ When(c, "changeMax") \in Seq(Notices(D))
         /\ When(Singleton(D), "bind") \in Seq(Notices(D))
         /\ \A p, q \in Seq(Notices(D)) : p \o q \in Seq(Notices(D))
<1>1. /\ "change" \in Notices(D) /\ "changeMin" \in Notices(D) /\ "changeMax" \in Notices(D)
      /\ Singleton(D) => "bind" \in Notices(D)
  BY DEF Notices
<1> DEFINE N == Notices(D)
<1> HIDE DEF N
<1>2. \A m, n \in N : <<n>> \in Seq(N) /\ <<m, n>> \in Seq(N)
  OBVIOUS
<1>3. \A p, q \in Seq(N) : p \o q \in Seq(N)
  OBVIOUS
<1>4. <<>> \in Seq(N)
  OBVIOUS
<1>5. ASSUME NEW c, NEW n, n \in N \/ ~c PROVE When(c, n) \in Seq(N)
  <2>1. (When(c, n) = <<n>> /\ n \in N) \/ When(c, n) = <<>>
    BY <1>5 DEF When
  <2> QED
    BY <1>2, <1>4, <2>1
<1>6. QED
  BY <1>1, <1>2, <1>3, <1>5 DEF N

--------------------------------------------------------------------------------
(* The operations on a variable keep exactly the values they are to keep.     *)
LEMMA AssignCuts ==
  ASSUME NEW X, NEW I, Identifiers(I), NEW M, NEW A, NEW r \in States(X, I, M, A), NEW x \in X,
         NEW v \in Int
  PROVE  /\ Narrows(States(X, I, M, A), r, DomAssign(r, x, v))
         /\ Cuts(r, DomAssign(r, x, v), x, {v})
<1> DEFINE D == r.dom[x]
           q == <<"bind", "change">> \o When(Min(D) # v, "changeMin")
                                     \o When(Max(D) # v, "changeMax")
<1>1. CASE r.failed \/ D = {v}
  <2>1. DomAssign(r, x, v) = r
    BY <1>1 DEF DomAssign
  <2>2. r.failed \/ D \subseteq {v}
    BY <1>1
  <2> QED
    BY <2>1, <2>2, CutsNothing
<1>2. CASE ~r.failed /\ v \notin D
  <2>1. DomAssign(r, x, v) = Fail(r)
    BY <1>2 DEF DomAssign
  <2>2. D \cap {v} = {}
    BY <1>2
  <2> QED
    BY <1>2, <2>1, <2>2, CutsAll
<1>3. CASE ~r.failed /\ D # {v} /\ v \in D
  <2>1. DomAssign(r, x, v) = Narrow(r, x, {v}, q)
    BY <1>3 DEF DomAssign
  <2>2. q \in Seq(Notices({v}))
    <3>1. /\ When(Min(D) # v, "changeMin") \in Seq(Notices({v}))
          /\ When(Max(D) # v, "changeMax") \in Seq(Notices({v}))
      BY NoticesType
    <3>2. <<"bind", "change">> \in Seq(Notices({v}))
      BY FS_Singleton, NoticesType DEF Singleton
    <3>3. <<"bind", "change">> \o When(Min(D) # v, "changeMin") \in Seq(Notices({v}))
      BY <3>1, <3>2, NoticesType
    <3> QED
      BY <3>1, <3>3, NoticesType
  <2>3. D \cap {v} # {} /\ {v} = D \cap {v} /\ ~r.failed
    BY <1>3
  <2>4. Loud(q)
    <3> DEFINE a == <<"bind", "change">>
               b == When(Min(D) # v, "changeMin")
               c == When(Max(D) # v, "changeMax")
               S == Notices({v})
    <3>1. a \in Seq(S) /\ b \in Seq(S) /\ c \in Seq(S) /\ a \o b \in Seq(S)
      BY FS_Singleton, NoticesType DEF Singleton
    <3>2. Min(D) # v \/ Max(D) # v
      <4>1. D \in Domains
        BY StateFields
      <4>2. /\ Min(D) \in D /\ \A w \in D : Min(D) <= w
            /\ Max(D) \in D /\ \A w \in D : Max(D) >= w
        BY <4>1, DomainBounds
      <4>3. D \subseteq Int
        BY <4>1 DEF Domains
      <4>4. PICK w \in D : w # v
        BY <1>3
      <4> QED
        BY <4>2, <4>3, <4>4
    <3>3. Says(a, "bind") /\ Says(a, "change") /\ (Says(b, "changeMin") \/ Says(c, "changeMax"))
      BY <3>2, SaysOf
    <3> HIDE DEF a, b, c, S
    <3>4. /\ Says((a \o b) \o c, "bind") /\ Says((a \o b) \o c, "change")
          /\ Says((a \o b) \o c, "changeMin") \/ Says((a \o b) \o c, "changeMax")
      BY <3>1, <3>3, SaysBoth
    <3> QED
      BY <3>4, LoudOf DEF a, b, c
  <2> HIDE DEF q
  <2>5. /\ Narrows(States(X, I, M, A), r, Narrow(r, x, {v}, q))
        /\ Cuts(r, Narrow(r, x, {v}, q), x, {v})
    BY <2>2, <2>3, <2>4, CutsSome
  <2> QED
    BY <2>1, <2>5
<1>4. QED
  BY <1>1, <1>2, <1>3

LEMMA RemoveCuts ==
  ASSUME NEW X, NEW I, Identifiers(I), NEW M, NEW A, NEW r \in States(X, I, M, A), NEW x \in X,
         NEW v \in Int
  PROVE  /\ Narrows(States(X, I, M, A), r, DomRemove(r, x, v))
         /\ Cuts(r, DomRemove(r, x, v), x, Int \ {v})
<1> DEFINE D == r.dom[x]
           K == Int \ {v}
           first == IF v = Min(D) THEN <<"changeMin">> ELSE When(v = Max(D), "changeMax")
           q == first \o When(Singleton(D \ {v}), "bind") \o <<"change">>
           told == Tell(r, x, <<"changeMin">>)
<1>0. D \subseteq Int /\ D # {}
  BY StateFields DEF Domains
<1>1. CASE r.failed \/ v \notin D
  <2>1. DomRemove(r, x, v) = r
    BY <1>1 DEF DomRemove
  <2>2. r.failed \/ D \subseteq K
    BY <1>0, <1>1
  <2> HIDE DEF K
  <2> QED
    BY <2>1, <2>2, CutsNothing DEF K
<1>2. CASE ~r.failed /\ D = {v}
  <2>1. DomRemove(r, x, v) = Fail(told)
    BY <1>2 DEF DomRemove
  <2> DEFINE W == {"changeMin"}
  <2>2. told \in States(X, I, M, A) /\ Grows(r, told) /\ Same(r, told) /\ Queues(r, told, Called(r, x, W))
    <3>1. <<"changeMin">> \in Seq(W)
      OBVIOUS
    <3> HIDE DEF W
    <3> QED
      BY <3>1, TellGrows DEF Grown
  <2> HIDE DEF told
  <2>3. /\ Narrows(States(X, I, M, A), told, Fail(told)) /\ Fail(told).failed
        /\ Wakes(told, Fail(told))
    BY <2>2, FailNarrows
  <2>4. Shrinks(r, told)
    BY <2>2 DEF Same, Shrinks
  <2>5. Narrows(States(X, I, M, A), r, Fail(told))
    BY <2>2, <2>3, <2>4, NarrowsOn DEF Narrows
  <2>6. D \cap K = {}
    BY <1>2
  <2>7. Wakes(r, Fail(told))
    <3>1. Listening(Fail(told)) = Listening(r)
      BY <2>2, <2>3, HeardSame DEF Wakes, Same
    <3>2. Called(r, x, W) \subseteq Alert(Fail(told))
      BY <3>1 DEF Called, Alert, List
    <3>3. Entries(Fail(told)) = Entries(told)
      BY <2>2 DEF Fail, Entries, States
    <3> QED
      BY <2>2, <2>3, <3>2, <3>3 DEF Wakes, Queues, Same, Stirs
  <2>8. Cuts(r, Fail(told), x, K)
    BY <1>2, <2>3, <2>6, <2>7 DEF Cuts
  <2> QED
    BY <2>1, <2>5, <2>8
<1>3. CASE ~r.failed /\ D # {v} /\ v \in D
  <2>1. DomRemove(r, x, v) = Narrow(r, x, D \ {v}, q)
    BY <1>3 DEF DomRemove
  <2>2. q \in Seq(Notices(D \ {v}))
    <3>1. /\ When(v = Max(D), "changeMax") \in Seq(Notices(D \ {v}))
          /\ When(Singleton(D \ {v}), "bind") \in Seq(Notices(D \ {v}))
      BY NoticesType
    <3>2. first \in Seq(Notices(D \ {v}))
      BY <3>1, NoticesType
    <3> HIDE DEF first
    <3>3. first \o When(Singleton(D \ {v}), "bind") \in Seq(Notices(D \ {v}))
      BY <3>1, <3>2, NoticesType
    <3> QED
      BY <3>3, NoticesType
  <2>3. D \cap K # {} /\ D \ {v} = D \cap K
    BY <1>0, <1>3
  <2>4. Singleton(D \ {v}) => Loud(q)
    <3> SUFFICES ASSUME Singleton(D \ {v}) PROVE Loud(q)
      OBVIOUS
    <3> DEFINE b == When(Singleton(D \ {v}), "bind")
               c == <<"change">>
               S == Notices(D \ {v})
    <3>1. first \in Seq(S) /\ b \in Seq(S) /\ c \in Seq(S) /\ first \o b \in Seq(S)
      BY NoticesType
    <3>2. v = Min(D) \/ v = Max(D)
      <4>1. D \in Domains
        BY StateFields
      <4>2. /\ Min(D) \in D /\ \A w \in D : Min(D) <= w
            /\ Max(D) \in D /\ \A w \in D : Max(D) >= w
        BY <4>1, DomainBounds
      <4>3. IsFiniteSet(D \ {v})
        BY <4>1, FS_RemoveElement DEF Domains
      <4>4. PICK u : D \ {v} = {u}
        BY <4>3, FS_Singleton DEF Singleton
      <4>5. u \in Int
        BY <1>0, <4>4
      <4> QED
        BY <1>3, <4>2, <4>4, <4>5
    <3>3. Says(first, "changeMin") \/ Says(first, "changeMax")
      BY <3>2, SaysOf
    <3>4. Says(b, "bind") /\ Says(c, "change")
      BY SaysOf
    <3> HIDE DEF first, b, c, S
    <3>5. /\ Says((first \o b) \o c, "bind") /\ Says((first \o b) \o c, "change")
          /\ Says((first \o b) \o c, "changeMin") \/ Says((first \o b) \o c, "changeMax")
      BY <3>1, <3>3, <3>4, SaysBoth
    <3> QED
      BY <3>5, LoudOf DEF b, c
  <2> HIDE DEF q, K
  <2>5. ~r.failed
    BY <1>3
  <2>6. /\ Narrows(States(X, I, M, A), r, Narrow(r, x, D \ {v}, q))
        /\ Cuts(r, Narrow(r, x, D \ {v}, q), x, K)
    BY <2>2, <2>3, <2>4, <2>5, CutsSome
  <2> QED
    BY <2>1, <2>6 DEF K
<1>4. QED
  BY <1>1, <1>2, <1>3

LEMMA RemoveBelowCuts ==
  ASSUME NEW X, NEW I, Identifiers(I), NEW M, NEW A, NEW r \in States(X, I, M, A), NEW x \in X,
         NEW v \in Int
  PROVE  /\ Narrows(States(X, I, M, A), r, DomRemoveBelow(r, x, v))
         /\ Cuts(r, DomRemoveBelow(r, x, v), x, AtLeast(v))
<1> DEFINE D == r.dom[x]
           K == AtLeast(v)
           E == {w \in D : w >= v}
           q == <<"changeMin", "change">> \o When(Singleton(E), "bind")
<1>1. D \in Domains /\ D \subseteq Int
  BY StateFields DEF Domains
<1>2. Min(D) \in D /\ \A w \in D : w >= Min(D)
  BY <1>1, DomainBounds
<1>3. E = D \cap K
  BY <1>1 DEF AtLeast, AtMost
<1>4. v <= Min(D) => D \subseteq K
  BY <1>1, <1>2 DEF AtLeast, AtMost
<1>5. CASE r.failed \/ v <= Min(D)
  <2>1. DomRemoveBelow(r, x, v) = r
    BY <1>5 DEF DomRemoveBelow
  <2> HIDE DEF K
  <2> QED
    BY <1>4, <1>5, <2>1, CutsNothing DEF K
<1>6. CASE ~(r.failed \/ v <= Min(D)) /\ E = {}
  <2>1. DomRemoveBelow(r, x, v) = Fail(r)
    BY <1>6 DEF DomRemoveBelow
  <2> HIDE DEF K, E
  <2> QED
    BY <1>3, <1>6, <2>1, CutsAll DEF K
<1>7. CASE ~(r.failed \/ v <= Min(D)) /\ E # {}
  <2>1. DomRemoveBelow(r, x, v) = Narrow(r, x, E, q)
    BY <1>7 DEF DomRemoveBelow
  <2>2. q \in Seq(Notices(E))
    <3>1. When(Singleton(E), "bind") \in Seq(Notices(E))
      BY NoticesType
    <3> HIDE DEF E
    <3> QED
      BY <3>1, NoticesType
  <2>3. Singleton(E) => Loud(q)
    <3> SUFFICES ASSUME Singleton(E) PROVE Loud(q)
      OBVIOUS
    <3> DEFINE a == <<"changeMin", "change">>
               b == When(Singleton(E), "bind")
               S == Notices(E)
    <3>1. a \in Seq(S) /\ b \in Seq(S)
      BY NoticesType
    <3>2. Says(a, "changeMin") /\ Says(a, "change") /\ Says(b, "bind")
      BY SaysOf
    <3> HIDE DEF a, b, S
    <3>3. Says(a \o b, "bind") /\ Says(a \o b, "change") /\ Says(a \o b, "changeMin")
      BY <3>1, <3>2, SaysBoth
    <3> QED
      BY <3>3, LoudOf DEF a, b
  <2> HIDE DEF K, E, q
  <2>4. /\ Narrows(States(X, I, M, A), r, Narrow(r, x, E, q))
        /\ Cuts(r, Narrow(r, x, E, q), x, K)
    BY <1>3, <1>7, <2>2, <2>3, CutsSome
  <2> QED
    BY <2>1, <2>4 DEF K
<1>8. QED
  BY <1>5, <1>6, <1>7

LEMMA RemoveAboveCuts ==
  ASSUME NEW X, NEW I, Identifiers(I), NEW M, NEW A, NEW r \in States(X, I, M, A), NEW x \in X,
         NEW v \in Int
  PROVE  /\ Narrows(States(X, I, M, A), r, DomRemoveAbove(r, x, v))
         /\ Cuts(r, DomRemoveAbove(r, x, v), x, AtMost(v))
<1> DEFINE D == r.dom[x]
           K == AtMost(v)
           E == {w \in D : w <= v}
           q == <<"changeMax", "change">> \o When(Singleton(E), "bind")
<1>1. D \in Domains /\ D \subseteq Int
  BY StateFields DEF Domains
<1>2. Max(D) \in D /\ \A w \in D : w <= Max(D)
  BY <1>1, DomainBounds
<1>3. E = D \cap K
  BY <1>1 DEF AtLeast, AtMost
<1>4. v >= Max(D) => D \subseteq K
  BY <1>1, <1>2 DEF AtLeast, AtMost
<1>5. CASE r.failed \/ v >= Max(D)
  <2>1. DomRemoveAbove(r, x, v) = r
    BY <1>5 DEF DomRemoveAbove
  <2> HIDE DEF K
  <2> QED
    BY <1>4, <1>5, <2>1, CutsNothing DEF K
<1>6. CASE ~(r.failed \/ v >= Max(D)) /\ E = {}
  <2>1. DomRemoveAbove(r, x, v) = Fail(r)
    BY <1>6 DEF DomRemoveAbove
  <2> HIDE DEF K, E
  <2> QED
    BY <1>3, <1>6, <2>1, CutsAll DEF K
<1>7. CASE ~(r.failed \/ v >= Max(D)) /\ E # {}
  <2>1. DomRemoveAbove(r, x, v) = Narrow(r, x, E, q)
    BY <1>7 DEF DomRemoveAbove
  <2>2. q \in Seq(Notices(E))
    <3>1. When(Singleton(E), "bind") \in Seq(Notices(E))
      BY NoticesType
    <3> HIDE DEF E
    <3> QED
      BY <3>1, NoticesType
  <2>3. Singleton(E) => Loud(q)
    <3> SUFFICES ASSUME Singleton(E) PROVE Loud(q)
      OBVIOUS
    <3> DEFINE a == <<"changeMax", "change">>
               b == When(Singleton(E), "bind")
               S == Notices(E)
    <3>1. a \in Seq(S) /\ b \in Seq(S)
      BY NoticesType
    <3>2. Says(a, "changeMax") /\ Says(a, "change") /\ Says(b, "bind")
      BY SaysOf
    <3> HIDE DEF a, b, S
    <3>3. Says(a \o b, "bind") /\ Says(a \o b, "change") /\ Says(a \o b, "changeMax")
      BY <3>1, <3>2, SaysBoth
    <3> QED
      BY <3>3, LoudOf DEF a, b
  <2> HIDE DEF K, E, q
  <2>4. /\ Narrows(States(X, I, M, A), r, Narrow(r, x, E, q))
        /\ Cuts(r, Narrow(r, x, E, q), x, K)
    BY <1>3, <1>7, <2>2, <2>3, CutsSome
  <2> QED
    BY <2>1, <2>4 DEF K
<1>8. QED
  BY <1>5, <1>6, <1>7

--------------------------------------------------------------------------------
(* A variable seen through a view.                                            *)
Seen(v, K) == {u \in Int : v[2] * u + v[3] \in K}

LEMMA ViewFields ==
  ASSUME NEW X, NEW v \in Views(X)
  PROVE  /\ v[1] \in X /\ v[2] \in Int /\ v[3] \in Int /\ v[2] # 0
         /\ Opposite(v) => v[2] < 0 /\ -v[2] \in Nat \ {0}
         /\ ~Opposite(v) => v[2] \in Nat \ {0}
<1>1. v[1] \in X /\ v[2] \in Int \ {0} /\ v[3] \in Int
  BY DEF Views
<1>2. v[2] \in Int /\ v[2] # 0
  BY <1>1
<1>3. (v[2] < 0 => -v[2] \in Nat \ {0}) /\ (~(v[2] < 0) => v[2] \in Nat \ {0})
  BY <1>2
<1>4. QED
  BY <1>1, <1>2, <1>3 DEF Opposite

(* Multiplying by an opposite.                                                *)
LEMMA Mirror ==
  ASSUME NEW a \in Int, NEW u \in Int
  PROVE  a * u \in Int /\ (-a) * u = -(a * u)
  OBVIOUS

(* The value of the variable at which the view is w.                          *)
LEMMA SeenValue ==
  ASSUME NEW X, NEW v \in Views(X), NEW w \in Int
  PROVE  /\ Hits(v, w) => Source(v, w) \in Int /\ Seen(v, {w}) = {Source(v, w)}
         /\ ~Hits(v, w) => Seen(v, {w}) = {}
<1>1. v[2] \in Int /\ v[3] \in Int
  BY ViewFields
<1>2. CASE Opposite(v)
  <2> DEFINE d == -v[2]
             m == v[3] - w
  <2>1. d \in Nat \ {0} /\ m \in Int
    BY <1>1, <1>2, ViewFields
  <2>2. \A u \in Int : v[2] * u + v[3] = w <=> d * u = m
    <3> SUFFICES ASSUME NEW u \in Int PROVE v[2] * u + v[3] = w <=> d * u = m
      OBVIOUS
    <3>1. v[2] * u \in Int /\ d * u = -(v[2] * u)
      BY <1>1, Mirror
    <3>2. \A p \in Int : p + v[3] = w <=> -p = m
      BY <1>1
    <3> QED
      BY <3>1, <3>2
  <2>3. Source(v, w) = m \div d
    BY <1>2 DEF Source
  <2>4. Hits(v, w) <=> (w - v[3]) % d = 0
    BY <1>2 DEF Hits
  <2>5. (w - v[3]) % d = 0 <=> m % d = 0
    <3> DEFINE k == w - v[3]
    <3>1. k \in Int /\ m = -k
      BY <1>1
    <3> HIDE DEF d, k, m
    <3>2. ASSUME k % d = 0 PROVE m % d = 0
      <4>1. k \div d \in Int /\ k = d * (k \div d)
        BY <2>1, <3>1, <3>2, DivMod
      <4>2. d * (-(k \div d)) = -(d * (k \div d)) /\ -(k \div d) \in Int
        BY <2>1, <4>1
      <4>3. d * (-(k \div d)) = m
        BY <3>1, <4>1, <4>2
      <4> QED
        BY <2>1, <4>2, <4>3, ExactQuotient
    <3>3. ASSUME m % d = 0 PROVE k % d = 0
      <4>1. m \div d \in Int /\ m = d * (m \div d)
        BY <2>1, <3>1, <3>3, DivMod
      <4>2. d * (-(m \div d)) = -(d * (m \div d)) /\ -(m \div d) \in Int
        BY <2>1, <4>1
      <4>3. d * (-(m \div d)) = k
        BY <2>1, <3>1, <4>1, <4>2
      <4> QED
        BY <2>1, <3>1, <4>2, <4>3, ExactQuotient
    <3> QED
      BY <3>2, <3>3 DEF k
  <2> HIDE DEF d, m
  <2>6. \A u \in Int : v[2] * u + v[3] = w <=> m % d = 0 /\ u = m \div d
    BY <2>1, <2>2, ExactQuotient
  <2>7. m \div d \in Int
    BY <2>1, DivMod
  <2> QED
    BY <2>3, <2>4, <2>5, <2>6, <2>7 DEF Seen
<1>3. CASE ~Opposite(v)
  <2> DEFINE d == v[2]
             m == w - v[3]
  <2>1. d \in Nat \ {0} /\ m \in Int
    BY <1>1, <1>3, ViewFields
  <2>2. \A u \in Int : v[2] * u + v[3] = w <=> d * u = m
    <3> SUFFICES ASSUME NEW u \in Int PROVE v[2] * u + v[3] = w <=> d * u = m
      OBVIOUS
    <3>1. v[2] * u \in Int
      BY <1>1
    <3>2. \A p \in Int : p + v[3] = w <=> p = w - v[3]
      BY <1>1
    <3> QED
      BY <3>1, <3>2
  <2>3. Source(v, w) = m \div d
    BY <1>3 DEF Source
  <2>4. Hits(v, w) <=> m % d = 0
    BY <1>3 DEF Hits
  <2> HIDE DEF d, m
  <2>5. \A u \in Int : v[2] * u + v[3] = w <=> m % d = 0 /\ u = m \div d
    BY <2>1, <2>2, ExactQuotient
  <2>6. m \div d \in Int
    BY <2>1, DivMod
  <2> QED
    BY <2>3, <2>4, <2>5, <2>6 DEF Seen
<1>4. QED
  BY <1>2, <1>3

(* The values of the variable at which the view is at least, or at most, w.   *)
LEMMA SeenBounds ==
  ASSUME NEW X, NEW v \in Views(X), NEW w \in Int
  PROVE  /\ Opposite(v) =>
               /\ Seen(v, AtLeast(w)) = AtMost(floorDiv(v[3] - w, -v[2]))
               /\ Seen(v, AtMost(w)) = AtLeast(ceilDiv(v[3] - w, -v[2]))
               /\ floorDiv(v[3] - w, -v[2]) \in Int /\ ceilDiv(v[3] - w, -v[2]) \in Int
         /\ ~Opposite(v) =>
               /\ Seen(v, AtLeast(w)) = AtLeast(ceilDiv(w - v[3], v[2]))
               /\ Seen(v, AtMost(w)) = AtMost(floorDiv(w - v[3], v[2]))
               /\ floorDiv(w - v[3], v[2]) \in Int /\ ceilDiv(w - v[3], v[2]) \in Int
<1>1. v[2] \in Int /\ v[3] \in Int
  BY ViewFields
<1>2. ASSUME NEW d \in Nat \ {0}, NEW m \in Int
      PROVE  /\ floorDiv(m, d) \in Int /\ ceilDiv(m, d) \in Int
             /\ \A u \in Int : /\ d * u <= m <=> u <= floorDiv(m, d)
                               /\ d * u >= m <=> u >= ceilDiv(m, d)
  <2>1. m \div d \in Int /\ (-m) \div d \in Int /\ -m \in Int
    BY DivMod
  <2>2. floorDiv(m, d) = m \div d /\ ceilDiv(m, d) = -((-m) \div d)
    BY DEF floorDiv, ceilDiv
  <2>3. \A u \in Int : /\ d * u <= m <=> u <= m \div d
                       /\ d * u >= m <=> u >= -((-m) \div d)
    BY FloorOrder, CeilOrder
  <2> QED
    BY <2>1, <2>2, <2>3
<1>3. \A u \in Int : v[2] * u \in Int /\ (-v[2]) * u = -(v[2] * u)
  BY <1>1, Mirror
<1>4. CASE Opposite(v)
  <2> DEFINE d == -v[2]
             m == v[3] - w
  <2>1. d \in Nat \ {0} /\ m \in Int
    BY <1>1, <1>4, ViewFields
  <2>2. \A u \in Int : /\ v[2] * u + v[3] >= w <=> d * u <= m
                       /\ v[2] * u + v[3] <= w <=> d * u >= m
                       /\ v[2] * u + v[3] \in Int
    BY <1>1, <1>3
  <2> HIDE DEF d, m
  <2>3. /\ floorDiv(m, d) \in Int /\ ceilDiv(m, d) \in Int
        /\ \A u \in Int : /\ d * u <= m <=> u <= floorDiv(m, d)
                          /\ d * u >= m <=> u >= ceilDiv(m, d)
    BY <1>2, <2>1
  <2>4. Seen(v, AtLeast(w)) = AtMost(floorDiv(m, d))
    BY <2>2, <2>3 DEF Seen, AtLeast, AtMost
  <2>5. Seen(v, AtMost(w)) = AtLeast(ceilDiv(m, d))
    BY <2>2, <2>3 DEF Seen, AtLeast, AtMost
  <2> QED
    BY <1>4, <2>3, <2>4, <2>5 DEF d, m
<1>5. CASE ~Opposite(v)
  <2> DEFINE d == v[2]
             m == w - v[3]
  <2>1. d \in Nat \ {0} /\ m \in Int
    BY <1>1, <1>5, ViewFields
  <2>2. \A u \in Int : /\ v[2] * u + v[3] >= w <=> d * u >= m
                       /\ v[2] * u + v[3] <= w <=> d * u <= m
                       /\ v[2] * u + v[3] \in Int
    BY <1>1, <1>3
  <2> HIDE DEF d, m
  <2>3. /\ floorDiv(m, d) \in Int /\ ceilDiv(m, d) \in Int
        /\ \A u \in Int : /\ d * u <= m <=> u <= floorDiv(m, d)
                          /\ d * u >= m <=> u >= ceilDiv(m, d)
    BY <1>2, <2>1
  <2>4. Seen(v, AtLeast(w)) = AtLeast(ceilDiv(m, d))
    BY <2>2, <2>3 DEF Seen, AtLeast, AtMost
  <2>5. Seen(v, AtMost(w)) = AtMost(floorDiv(m, d))
    BY <2>2, <2>3 DEF Seen, AtLeast, AtMost
  <2> QED
    BY <1>5, <2>3, <2>4, <2>5 DEF d, m
<1>6. QED
  BY <1>4, <1>5

LEMMA ViewAssign ==
  ASSUME NEW X, NEW I, Identifiers(I), NEW M, NEW A, NEW r \in States(X, I, M, A),
         NEW v \in Views(X), NEW w \in Int
  PROVE  /\ Narrows(States(X, I, M, A), r, Assign(r, v, w))
         /\ Cuts(r, Assign(r, v, w), v[1], Seen(v, {w}))
<1>1. v[1] \in X
  BY ViewFields
<1>2. CASE Hits(v, w)
  <2> DEFINE u == Source(v, w)
  <2>1. u \in Int /\ Seen(v, {w}) = {u}
    BY <1>2, SeenValue
  <2>2. Assign(r, v, w) = DomAssign(r, v[1], u)
    BY <1>2 DEF Assign
  <2> HIDE DEF u
  <2>3. /\ Narrows(States(X, I, M, A), r, DomAssign(r, v[1], u))
        /\ Cuts(r, DomAssign(r, v[1], u), v[1], {u})
    BY <1>1, <2>1, AssignCuts
  <2> QED
    BY <2>1, <2>2, <2>3
<1>3. CASE ~Hits(v, w)
  <2>1. Seen(v, {w}) = {}
    BY <1>3, SeenValue
  <2>2. CASE r.failed
    <3>1. Assign(r, v, w) = r
      BY <1>3, <2>2 DEF Assign
    <3> QED
      BY <1>1, <2>2, <3>1, CutsNothing
  <2>3. CASE ~r.failed
    <3>1. Assign(r, v, w) = Fail(r)
      BY <1>3, <2>3 DEF Assign
    <3>2. r.dom[v[1]] \cap Seen(v, {w}) = {}
      BY <2>1
    <3> QED
      BY <1>1, <2>3, <3>1, <3>2, CutsAll
  <2> QED
    BY <2>2, <2>3
<1>4. QED
  BY <1>2, <1>3

LEMMA ViewRemove ==
  ASSUME NEW X, NEW I, Identifiers(I), NEW M, NEW A, NEW r \in States(X, I, M, A),
         NEW v \in Views(X), NEW w \in Int
  PROVE  /\ Narrows(States(X, I, M, A), r, Remove(r, v, w))
         /\ Cuts(r, Remove(r, v, w), v[1], Int \ Seen(v, {w}))
<1>1. v[1] \in X
  BY ViewFields
<1>2. CASE Hits(v, w)
  <2>1. Source(v, w) \in Int /\ Seen(v, {w}) = {Source(v, w)}
    BY <1>2, SeenValue
  <2>2. Remove(r, v, w) = DomRemove(r, v[1], Source(v, w))
    BY <1>2 DEF Remove
  <2> DEFINE u == Source(v, w)
  <2> HIDE DEF u
  <2>3. u \in Int /\ Seen(v, {w}) = {u} /\ Remove(r, v, w) = DomRemove(r, v[1], u)
    BY <2>1, <2>2 DEF u
  <2>4. /\ Narrows(States(X, I, M, A), r, DomRemove(r, v[1], u))
        /\ Cuts(r, DomRemove(r, v[1], u), v[1], Int \ {u})
    BY <1>1, <2>3, RemoveCuts
  <2>5. Int \ Seen(v, {w}) = Int \ {u}
    BY <2>3
  <2> QED
    BY <2>3, <2>4, <2>5
<1>3. CASE ~Hits(v, w)
  <2>1. Remove(r, v, w) = r
    BY <1>3 DEF Remove
  <2>2. r.dom[v[1]] \subseteq Int \ Seen(v, {w})
    <3>1. Seen(v, {w}) = {}
      BY <1>3, SeenValue
    <3>2. r.dom[v[1]] \subseteq Int
      BY <1>1, StateFields DEF Domains
    <3> QED
      BY <3>1, <3>2
  <2> QED
    BY <1>1, <2>1, <2>2, CutsNothing
<1>4. QED
  BY <1>2, <1>3

LEMMA ViewRemoveBelow ==
  ASSUME NEW X, NEW I, Identifiers(I), NEW M, NEW A, NEW r \in States(X, I, M, A),
         NEW v \in Views(X), NEW w \in Int
  PROVE  /\ Narrows(States(X, I, M, A), r, RemoveBelow(r, v, w))
         /\ Cuts(r, RemoveBelow(r, v, w), v[1], Seen(v, AtLeast(w)))
<1>1. v[1] \in X
  BY ViewFields
<1>2. CASE Opposite(v)
  <2> DEFINE u == floorDiv(v[3] - w, -v[2])
  <2>1. u \in Int /\ Seen(v, AtLeast(w)) = AtMost(u)
    BY <1>2, SeenBounds
  <2>2. RemoveBelow(r, v, w) = DomRemoveAbove(r, v[1], u)
    BY <1>2 DEF RemoveBelow
  <2> HIDE DEF u
  <2> QED
    BY <1>1, <2>1, <2>2, RemoveAboveCuts
<1>3. CASE ~Opposite(v)
  <2> DEFINE u == ceilDiv(w - v[3], v[2])
  <2>1. u \in Int /\ Seen(v, AtLeast(w)) = AtLeast(u)
    BY <1>3, SeenBounds
  <2>2. RemoveBelow(r, v, w) = DomRemoveBelow(r, v[1], u)
    BY <1>3 DEF RemoveBelow
  <2> HIDE DEF u
  <2> QED
    BY <1>1, <2>1, <2>2, RemoveBelowCuts
<1>4. QED
  BY <1>2, <1>3

LEMMA ViewRemoveAbove ==
  ASSUME NEW X, NEW I, Identifiers(I), NEW M, NEW A, NEW r \in States(X, I, M, A),
         NEW v \in Views(X), NEW w \in Int
  PROVE  /\ Narrows(States(X, I, M, A), r, RemoveAbove(r, v, w))
         /\ Cuts(r, RemoveAbove(r, v, w), v[1], Seen(v, AtMost(w)))
<1>1. v[1] \in X
  BY ViewFields
<1>2. CASE Opposite(v)
  <2> DEFINE u == ceilDiv(v[3] - w, -v[2])
  <2>1. u \in Int /\ Seen(v, AtMost(w)) = AtLeast(u)
    BY <1>2, SeenBounds
  <2>2. RemoveAbove(r, v, w) = DomRemoveBelow(r, v[1], u)
    BY <1>2 DEF RemoveAbove
  <2> HIDE DEF u
  <2> QED
    BY <1>1, <2>1, <2>2, RemoveBelowCuts
<1>3. CASE ~Opposite(v)
  <2> DEFINE u == floorDiv(w - v[3], v[2])
  <2>1. u \in Int /\ Seen(v, AtMost(w)) = AtMost(u)
    BY <1>3, SeenBounds
  <2>2. RemoveAbove(r, v, w) = DomRemoveAbove(r, v[1], u)
    BY <1>3 DEF RemoveAbove
  <2> HIDE DEF u
  <2> QED
    BY <1>1, <2>1, <2>2, RemoveAboveCuts
<1>4. QED
  BY <1>2, <1>3

(* Through any view, whatever its sign and its coefficient, an operation      *)
(* keeps exactly the values at which the view is what it is to be, and fails  *)
(* if there are none; the queue and the flags only gain (intvar.hpp, the      *)
(* opposite, multiplied and translated views).                                *)
THEOREM OperationsOnViews ==
  ASSUME NEW X, NEW I, Identifiers(I), NEW M, NEW A, NEW r \in States(X, I, M, A),
         NEW v \in Views(X), NEW w \in Int
  PROVE  /\ Cuts(r, Assign(r, v, w), v[1], Seen(v, {w}))
         /\ Cuts(r, Remove(r, v, w), v[1], Int \ Seen(v, {w}))
         /\ Cuts(r, RemoveBelow(r, v, w), v[1], Seen(v, AtLeast(w)))
         /\ Cuts(r, RemoveAbove(r, v, w), v[1], Seen(v, AtMost(w)))
         /\ \A s \in {Assign(r, v, w), Remove(r, v, w), RemoveBelow(r, v, w), RemoveAbove(r, v, w)} :
               Narrows(States(X, I, M, A), r, s)
<1>1. /\ Cuts(r, Assign(r, v, w), v[1], Seen(v, {w}))
      /\ Narrows(States(X, I, M, A), r, Assign(r, v, w))
  BY ViewAssign
<1>2. /\ Cuts(r, Remove(r, v, w), v[1], Int \ Seen(v, {w}))
      /\ Narrows(States(X, I, M, A), r, Remove(r, v, w))
  BY ViewRemove
<1>3. /\ Cuts(r, RemoveBelow(r, v, w), v[1], Seen(v, AtLeast(w)))
      /\ Narrows(States(X, I, M, A), r, RemoveBelow(r, v, w))
  BY ViewRemoveBelow
<1>4. /\ Cuts(r, RemoveAbove(r, v, w), v[1], Seen(v, AtMost(w)))
      /\ Narrows(States(X, I, M, A), r, RemoveAbove(r, v, w))
  BY ViewRemoveAbove
<1>5. QED
  BY <1>1, <1>2, <1>3, <1>4

(* The operations on the members of a constraint and on the lists it is in.   *)
LEMMA MembersNarrow ==
  ASSUME NEW X, NEW I, NEW M, NEW A, NEW r \in States(X, I, M, A)
  PROVE  /\ \A i \in I, on \in BOOLEAN : Narrows(States(X, I, M, A), r, SetActive(r, i, on))
         /\ \A c, m : [r.mem EXCEPT ![c] = m] \in M => Narrows(States(X, I, M, A), r, Remember(r, c, m))
         /\ \A c, m : [r.aux EXCEPT ![c] = m] \in A => Narrows(States(X, I, M, A), r, Note(r, c, m))
<1>1. ASSUME NEW i \in I, NEW on \in BOOLEAN
      PROVE  Narrows(States(X, I, M, A), r, SetActive(r, i, on))
  <2> DEFINE s == [r EXCEPT !.active[i] = on]
  <2>1. /\ s \in States(X, I, M, A) /\ s.dom = r.dom
        /\ s.queue = r.queue /\ s.scheduled = r.scheduled
    BY DEF States
  <2> HIDE DEF s
  <2>2. Grows(r, s) /\ Shrinks(r, s)
    BY <2>1 DEF Grows, Entries, Shrinks
  <2>3. Narrows(States(X, I, M, A), r, s)
    BY <2>1, <2>2 DEF Narrows
  <2> QED
    BY <2>3, NarrowsSelf DEF SetActive, s
<1>2. ASSUME NEW c, NEW m, [r.mem EXCEPT ![c] = m] \in M
      PROVE  Narrows(States(X, I, M, A), r, Remember(r, c, m))
  <2> DEFINE s == [r EXCEPT !.mem[c] = m]
  <2>1. /\ s \in States(X, I, M, A) /\ s.dom = r.dom
        /\ s.queue = r.queue /\ s.scheduled = r.scheduled
    BY <1>2 DEF States
  <2> HIDE DEF s
  <2>2. Grows(r, s) /\ Shrinks(r, s)
    BY <2>1 DEF Grows, Entries, Shrinks
  <2>3. Narrows(States(X, I, M, A), r, s)
    BY <2>1, <2>2 DEF Narrows
  <2> QED
    BY <2>3, NarrowsSelf DEF Remember, s
<1>3. ASSUME NEW c, NEW m, [r.aux EXCEPT ![c] = m] \in A
      PROVE  Narrows(States(X, I, M, A), r, Note(r, c, m))
  <2> DEFINE s == [r EXCEPT !.aux[c] = m]
  <2>1. /\ s \in States(X, I, M, A) /\ s.dom = r.dom
        /\ s.queue = r.queue /\ s.scheduled = r.scheduled
    BY <1>3 DEF States
  <2> HIDE DEF s
  <2>2. Grows(r, s) /\ Shrinks(r, s)
    BY <2>1 DEF Grows, Entries, Shrinks
  <2>3. Narrows(States(X, I, M, A), r, s)
    BY <2>1, <2>2 DEF Narrows
  <2> QED
    BY <2>3, NarrowsSelf DEF Note, s
<1>4. QED
  BY <1>1, <1>2, <1>3

LEMMA ListsNarrow ==
  ASSUME NEW X, NEW I, NEW M, NEW A, NEW r \in States(X, I, M, A), NEW x \in X,
         NEW l \in Lists, NEW q \in Seq(I)
  PROVE  Narrows(States(X, I, M, A), r, [r EXCEPT !.listen[x][l] = q])
<1> DEFINE s == [r EXCEPT !.listen[x][l] = q]
<1>1. /\ s \in States(X, I, M, A) /\ s.dom = r.dom
      /\ s.queue = r.queue /\ s.scheduled = r.scheduled
  <2>1. [r.listen EXCEPT ![x][l] = q] \in [X -> [Lists -> Seq(I)]]
    BY StateFields
  <2> QED
    BY <2>1 DEF States
<1> HIDE DEF s
<1>2. Grows(r, s) /\ Shrinks(r, s)
  BY <1>1 DEF Grows, Entries, Shrinks
<1>3. QED
  BY <1>1, <1>2 DEF Narrows, s

(* Listening.                                                                 *)
LEMMA ListenNarrows ==
  ASSUME NEW X, NEW I, NEW M, NEW A, NEW r \in States(X, I, M, A), NEW v \in Views(X),
         NEW l \in Lists, NEW i \in I
  PROVE  Narrows(States(X, I, M, A), r, Listen(r, v, l, i))
<1> DEFINE q == r.listen[v[1]][l]
           more == <<i>> \o q
<1>1. q \in Seq(I)
  BY ViewFields, StateFields
<1>2. more \in Seq(I)
  BY <1>1
<1> HIDE DEF more
<1>3. CASE r.failed
  BY <1>3, NarrowsSelf DEF Listen
<1>4. CASE ~r.failed
  <2>1. Listen(r, v, l, i) = [r EXCEPT !.listen[v[1]][l] = more]
    BY <1>4 DEF Listen, more
  <2>2. v[1] \in X
    BY ViewFields
  <2>3. Narrows(States(X, I, M, A), r, [r EXCEPT !.listen[v[1]][l] = more])
    BY <1>2, <2>2, ListsNarrow
  <2> QED
    BY <2>1, <2>3
<1>5. QED
  BY <1>3, <1>4

--------------------------------------------------------------------------------
(* The fixpoint.  What every state of a solver has, whatever has run:         *)
Good(r) == /\ r \in States(Vars, Ids, {r.mem}, {r.aux})
           /\ DOMAIN r.mem = Cons /\ DOMAIN r.aux = Cons
           /\ \A x \in Vars : r.dom[x] \subseteq program.dom[x]
           /\ \A i \in Ids : r.scheduled[i] => i \in Entries(r)

Control == /\ pc \in {"open", "hooks", "loop", "resume", "rest", "failed", "aborted"}
           /\ agenda \in Seq([c : Cons, fix : BOOLEAN, rest : BOOLEAN])
           /\ pc = "resume" => agenda # <<>>
           /\ pc \in {"open", "rest", "failed", "aborted"} => agenda = <<>>
           /\ posted \subseteq Cons
           /\ primal \in Int

(* What an open level restores. *)
Kept(f) == /\ f.dom \in [Vars -> Domains] /\ f.listen \in [Vars -> [Lists -> Seq(Ids)]]
           /\ f.active \in [Ids -> BOOLEAN]
           /\ DOMAIN f.mem = Cons
           /\ f.posted \subseteq Cons
           /\ \A x \in Vars : f.dom[x] \subseteq program.dom[x]

Levels == /\ saved \in Seq({saved[k] : k \in DOMAIN saved})
          /\ Len(saved) <= program.levels
          /\ \A k \in DOMAIN saved : Kept(saved[k])

(* Once the objective's hook has run, until the next branching, only better   *)
(* values are left.                                                           *)
Seeks(D) == LET v == program.obj[1] IN \A w \in D[v[1]] : Better(v[2] * w + v[3], primal)
Bettered == pc \in {"loop", "rest"} /\ ~Unbeaten => Seeks(dom)

IInv == program \in Programs /\ Good(Solver) /\ Control /\ Levels /\ Bettered

(* The closures and constraints of a program have one of the two priorities.  *)
LEMMA TheIdentifiers ==
  ASSUME program \in Programs
  PROVE  Identifiers(Ids)
<1> SUFFICES ASSUME NEW i \in Ids
             PROVE  Priority(i) \in {CLOW, CHIGH}
  BY DEF Identifiers
<1>1. PICK c \in Cons : i \in Parts(c)
  BY DEF Ids
<1>2. c \in DOMAIN Body
  BY <1>1, ProgramsAssumption DEF Cons
<1>3. i[1] = c
  BY <1>1 DEF Parts
<1>4. QED
  BY <1>2, <1>3, BodyAssumption DEF Priority

LEMMA GoodModest ==
  ASSUME NEW r, NEW s, Good(r), Modest(r, s)
  PROVE  Good(s)
<1>1. /\ s \in States(Vars, Ids, {s.mem}, {s.aux}) /\ Grows(r, s) /\ Shrinks(r, s)
      /\ DOMAIN s.mem = Cons /\ DOMAIN s.aux = Cons
  BY DEF Modest, Narrows
<1>2. DOMAIN r.dom = Vars /\ DOMAIN r.scheduled = Ids
  BY StateFields DEF Good
<1>3. \A x \in Vars : s.dom[x] \subseteq program.dom[x]
  BY <1>1, <1>2 DEF Good, Shrinks
<1>4. \A i \in Ids : s.scheduled[i] => i \in Entries(s)
  BY <1>1, <1>2 DEF Good, Grows
<1>5. QED
  BY <1>1, <1>3, <1>4 DEF Good

LEMMA GoodNarrows ==
  ASSUME NEW r, NEW s, Good(r), Narrows(States(Vars, Ids, {r.mem}, {r.aux}), r, s)
  PROVE  Good(s)
<1>1. s.mem = r.mem /\ s.aux = r.aux
  BY StateFields DEF Narrows
<1>2. Modest(r, s)
  BY <1>1 DEF Modest, Good
<1>3. QED
  BY <1>2, GoodModest

(* The state that a step leaves is good if what it computed is.               *)
LEMMA GoodBecomes ==
  ASSUME NEW r, Good(r), Becomes(r), program' = program
  PROVE  Good(Solver)'
<1>1. Vars' = Vars /\ Cons' = Cons /\ Ids' = Ids
  BY DEF Vars, Cons, Ids
<1>2. /\ r.dom \in [Vars -> Domains] /\ r.listen \in [Vars -> [Lists -> Seq(Ids)]]
      /\ r.queue \in [{CLOW, CHIGH} -> Seq(Ids)]
      /\ r.scheduled \in [Ids -> BOOLEAN] /\ r.active \in [Ids -> BOOLEAN]
  <2>1. r \in States(Vars, Ids, {r.mem}, {r.aux})
    BY DEF Good
  <2> QED
    BY <2>1 DEF States
<1>3. Solver' \in States(Vars, Ids, {mem'}, {aux'})
  <2>1. /\ dom' \in [Vars -> Domains] /\ listen' \in [Vars -> [Lists -> Seq(Ids)]]
        /\ queue' \in [{CLOW, CHIGH} -> Seq(Ids)]
        /\ scheduled' \in [Ids -> BOOLEAN] /\ active' \in [Ids -> BOOLEAN]
    BY <1>2 DEF Becomes
  <2> QED
    BY <2>1 DEF Solver, States
<1>4. /\ Solver'.mem = mem' /\ Solver'.aux = aux' /\ Solver'.dom = r.dom
      /\ Solver'.scheduled = r.scheduled /\ Solver'.queue = r.queue
      /\ mem' = r.mem /\ aux' = r.aux
  BY DEF Becomes, Solver
<1>5. Entries(Solver') = Entries(r)
  BY <1>4 DEF Entries
<1> DEFINE s == Solver'
<1> HIDE DEF s
<1>6. /\ s \in States(Vars', Ids', {s.mem}, {s.aux})
      /\ DOMAIN s.mem = Cons' /\ DOMAIN s.aux = Cons'
      /\ \A x \in Vars' : s.dom[x] \subseteq program'.dom[x]
      /\ \A i \in Ids' : s.scheduled[i] => i \in Entries(s)
  BY <1>1, <1>3, <1>4, <1>5 DEF Good, s
<1>7. QED
  BY <1>6 DEF Good, s

LEMMA GoodFields ==
  ASSUME NEW r, Good(r)
  PROVE  /\ r.dom \in [Vars -> Domains] /\ r.listen \in [Vars -> [Lists -> Seq(Ids)]]
         /\ r.queue \in [{CLOW, CHIGH} -> Seq(Ids)]
         /\ r.scheduled \in [Ids -> BOOLEAN] /\ r.active \in [Ids -> BOOLEAN]
         /\ r.failed \in BOOLEAN /\ r.asked \in BOOLEAN
<1>1. r \in States(Vars, Ids, {r.mem}, {r.aux})
  BY DEF Good
<1>2. QED
  BY <1>1 DEF States

(* A constraint object that is constructed anew. *)
LEMMA GoodNew ==
  ASSUME NEW c \in Cons, NEW r, Good(r)
  PROVE  Good(New(r, c))
<1> DEFINE off == [i \in DOMAIN r.scheduled |-> r.scheduled[i] /\ i[1] # c]
           on == [i \in DOMAIN r.active |-> r.active[i] \/ i[1] = c]
           m == [r.mem EXCEPT ![c] = newMem(c)]
           a == [r.aux EXCEPT ![c] = newAux(c)]
           s == [r EXCEPT !.scheduled = off, !.active = on, !.mem = m, !.aux = a]
<1>1. r \in States(Vars, Ids, {r.mem, m}, {r.aux, a})
  <2>1. r \in States(Vars, Ids, {r.mem}, {r.aux})
    BY DEF Good
  <2> QED
    BY <2>1 DEF States
<1>2. New(r, c) = s
  BY <1>1 DEF New, States
<1>3. off \in [Ids -> BOOLEAN] /\ on \in [Ids -> BOOLEAN]
  BY GoodFields
<1>4. DOMAIN m = Cons /\ DOMAIN a = Cons
  BY DEF Good
<1>5. \A i \in Ids : off[i] => r.scheduled[i]
  BY GoodFields
<1> HIDE DEF off, on, m, a
<1>6. s \in States(Vars, Ids, {r.mem, m}, {r.aux, a})
  BY <1>1, <1>3 DEF States
<1>7. s.mem = m /\ s.aux = a /\ s.dom = r.dom /\ s.scheduled = off /\ s.queue = r.queue
  BY <1>1 DEF States
<1> HIDE DEF s
<1>8. s \in States(Vars, Ids, {s.mem}, {s.aux})
  BY <1>6, <1>7 DEF States
<1>9. Entries(s) = Entries(r)
  BY <1>7 DEF Entries
<1>10. Good(s)
  <2>1. \A x \in Vars : s.dom[x] \subseteq program.dom[x]
    BY <1>7 DEF Good
  <2>2. \A i \in Ids : s.scheduled[i] => i \in Entries(s)
    BY <1>5, <1>7, <1>9 DEF Good
  <2> QED
    BY <1>4, <1>7, <1>8, <2>1, <2>2 DEF Good
<1>11. QED
  BY <1>2, <1>10

(* The head of the queue leaves it, and its flag goes down.                   *)
LEMMA GoodTaken ==
  ASSUME NEW r, Good(r), NEW p \in {CLOW, CHIGH}, r.queue[p] # <<>>
  PROVE  /\ Head(r.queue[p]) \in Ids
         /\ Good([r EXCEPT !.queue[p] = Tail(@), !.scheduled[Head(r.queue[p])] = FALSE])
<1> DEFINE q == r.queue[p]
           j == Head(q)
           rest == Tail(q)
           left == [r.queue EXCEPT ![p] = rest]
           off == [r.scheduled EXCEPT ![j] = FALSE]
           s == [r EXCEPT !.queue = left, !.scheduled = off]
           t == [r EXCEPT !.queue[p] = Tail(@), !.scheduled[j] = FALSE]
<1>1. r \in States(Vars, Ids, {r.mem}, {r.aux})
  BY DEF Good
<1>2. r.queue \in [{CLOW, CHIGH} -> Seq(Ids)] /\ r.scheduled \in [Ids -> BOOLEAN]
  BY GoodFields
<1>3. q \in Seq(Ids)
  BY <1>2
<1>4. /\ rest \in Seq(Ids) /\ j \in Ids /\ Len(q) \in Nat /\ DOMAIN q = 1..Len(q)
      /\ DOMAIN rest = 1..(Len(q) - 1)
      /\ \A k \in DOMAIN rest : rest[k] = q[k + 1]
      /\ j = q[1]
  BY <1>3
<1>5. left \in [{CLOW, CHIGH} -> Seq(Ids)] /\ off \in [Ids -> BOOLEAN]
  BY <1>2, <1>4
<1>6. left[p] = rest /\ \A o \in {CLOW, CHIGH} : o # p => left[o] = r.queue[o]
  BY <1>2
<1>7. \A i \in Ids : off[i] => r.scheduled[i] /\ i # j
  BY <1>2
<1>8. t = s
  BY <1>1 DEF States
<1> HIDE DEF rest, left, off, t
<1>9. s \in States(Vars, Ids, {r.mem}, {r.aux})
  BY <1>1, <1>5 DEF States
<1>10. /\ s.mem = r.mem /\ s.aux = r.aux /\ s.dom = r.dom /\ s.scheduled = off /\ s.queue = left
  BY <1>1 DEF States
<1> HIDE DEF s, q
<1>11. ASSUME NEW i \in Ids, s.scheduled[i]
       PROVE  i \in Entries(s)
  <2>1. r.scheduled[i] /\ i # j
    BY <1>7, <1>10, <1>11
  <2>2. i \in Entries(r)
    BY <2>1 DEF Good
  <2>3. PICK o \in {CLOW, CHIGH} : \E k \in DOMAIN r.queue[o] : i = r.queue[o][k]
    BY <2>2 DEF Entries
  <2>4. PICK k \in DOMAIN r.queue[o] : i = r.queue[o][k]
    BY <2>3
  <2>5. \E o1 \in {CLOW, CHIGH} : \E k1 \in DOMAIN left[o1] : i = left[o1][k1]
    <3>1. CASE o # p
      BY <1>6, <2>4, <3>1
    <3>2. CASE o = p
      <4>1. k \in 1..Len(q) /\ k # 1 /\ q[k] = i
        BY <1>4, <2>1, <2>4, <3>2 DEF q
      <4>2. k - 1 \in DOMAIN rest /\ rest[k - 1] = i
        BY <1>4, <4>1
      <4> QED
        BY <1>6, <4>2
    <3> QED
      BY <3>1, <3>2
  <2> QED
    BY <1>10, <2>5 DEF Entries
<1>12. Good(s)
  <2>1. \A x \in Vars : s.dom[x] \subseteq program.dom[x]
    BY <1>10 DEF Good
  <2>2. DOMAIN r.mem = Cons /\ DOMAIN r.aux = Cons
    BY DEF Good
  <2> QED
    BY <1>9, <1>10, <1>11, <2>1, <2>2 DEF Good
<1>13. QED
  BY <1>4, <1>8, <1>12 DEF q, t

LEMMA GoodPopped ==
  ASSUME Good(Solver), queue[Turn] # <<>>
  PROVE  Taken \in Ids /\ Good(Popped)
<1>1. Turn \in {CLOW, CHIGH} /\ Solver.queue = queue
  BY DEF Turn, Solver
<1>2. Taken = Head(Solver.queue[Turn])
  BY <1>1 DEF Taken
<1>3. QED
  BY <1>1, <1>2, GoodTaken DEF Popped

LEMMA GoodDrained ==
  ASSUME NEW r, Good(r)
  PROVE  Good(Drained(r)) /\ Drained(r).dom = r.dom
<1> DEFINE none == [p \in {CLOW, CHIGH} |-> <<>>]
           off == [i \in DOMAIN r.scheduled |-> r.scheduled[i] /\ \A p \in {CLOW, CHIGH} :
                                  \A k \in DOMAIN r.queue[p] : r.queue[p][k] # i]
           s == [r EXCEPT !.queue = none, !.scheduled = off]
<1>1. r \in States(Vars, Ids, {r.mem}, {r.aux})
  BY DEF Good
<1>2. Drained(r) = s
  BY <1>1 DEF Drained, States
<1>3. none \in [{CLOW, CHIGH} -> Seq(Ids)]
  <2>1. <<>> \in Seq(Ids)
    OBVIOUS
  <2> QED
    BY <2>1
<1>4. off \in [Ids -> BOOLEAN]
  BY GoodFields
<1>5. \A i \in Ids : ~off[i]
  <2> SUFFICES ASSUME NEW i \in Ids, off[i]
               PROVE  FALSE
    OBVIOUS
  <2>1. r.scheduled[i] /\ \A p \in {CLOW, CHIGH} : \A k \in DOMAIN r.queue[p] : r.queue[p][k] # i
    BY GoodFields
  <2>2. i \in Entries(r)
    BY <2>1 DEF Good
  <2> QED
    BY <2>1, <2>2 DEF Entries
<1> HIDE DEF none, off
<1>6. s \in States(Vars, Ids, {r.mem}, {r.aux})
  BY <1>1, <1>3, <1>4 DEF States
<1>7. s.mem = r.mem /\ s.aux = r.aux /\ s.dom = r.dom /\ s.scheduled = off
  BY <1>1 DEF States
<1> HIDE DEF s
<1>8. Good(s)
  <2>1. \A x \in Vars : s.dom[x] \subseteq program.dom[x]
    BY <1>7 DEF Good
  <2>2. DOMAIN r.mem = Cons /\ DOMAIN r.aux = Cons
    BY DEF Good
  <2> QED
    BY <1>5, <1>6, <1>7, <2>1, <2>2 DEF Good
<1>9. QED
  BY <1>2, <1>7, <1>8

(* Where running a constraint, or the hook, leaves the solver.                *)
LEMMA RanLeaves ==
  ASSUME NEW r, Good(r), Ran(r), program' = program
  PROVE  /\ Good(Solver)'
         /\ r.failed => pc' = "failed" /\ agenda' = <<>>
         /\ ~r.failed => pc' = "loop" /\ agenda' = agenda /\ dom' = r.dom
<1>1. CASE r.failed
  <2>1. Becomes(Drained(r)) /\ pc' = "failed" /\ agenda' = <<>>
    BY <1>1 DEF Ran
  <2>2. Good(Drained(r))
    BY GoodDrained
  <2> QED
    BY <1>1, <2>1, <2>2, GoodBecomes
<1>2. CASE ~r.failed
  <2>1. Becomes(r) /\ pc' = "loop" /\ agenda' = agenda
    BY <1>2 DEF Ran
  <2>2. dom' = r.dom
    BY <2>1 DEF Becomes
  <2> QED
    BY <1>2, <2>1, <2>2, GoodBecomes
<1>3. QED
  BY <1>1, <1>2

TypedCalls == [c : Cons, fix : BOOLEAN, rest : BOOLEAN]

LEMMA CallsTyped ==
  ASSUME program \in Programs, NEW c \in Cons, NEW fix \in BOOLEAN
  PROVE  Calls(c, fix) \in Seq(TypedCalls) /\ Calls(c, fix) # <<>>
<1> DEFINE q == Body[c].inner
           inner == [k \in DOMAIN q |-> [c |-> q[k], fix |-> TRUE, rest |-> FALSE]]
           last == [c |-> c, fix |-> fix, rest |-> TRUE]
<1>1. c \in DOMAIN Body /\ Inner(Cons) \subseteq Cons
  BY ProgramsAssumption DEF Cons
<1>2. q \in Seq(DOMAIN Body)
  BY <1>1, BodyAssumption
<1>3. \A k \in DOMAIN q : q[k] \in Cons
  BY <1>1 DEF Inner
<1>4. Len(q) \in Nat /\ DOMAIN q = 1..Len(q)
  BY <1>2
<1> HIDE DEF q
<1>5. \A k \in DOMAIN q : [c |-> q[k], fix |-> TRUE, rest |-> FALSE] \in TypedCalls
  BY <1>3 DEF TypedCalls
<1>6. inner \in [1..Len(q) -> TypedCalls]
  BY <1>4, <1>5
<1>7. inner \in Seq(TypedCalls)
  BY <1>4, <1>6
<1>8. last \in TypedCalls
  BY DEF TypedCalls
<1>9. Calls(c, fix) = inner \o <<last>>
  BY DEF Calls, q
<1> HIDE DEF inner, last
<1>10. <<last>> \in Seq(TypedCalls) /\ Len(<<last>>) = 1
  BY <1>8
<1>11. inner \o <<last>> \in Seq(TypedCalls) /\ Len(inner \o <<last>>) = Len(inner) + 1
  BY <1>7, <1>10
<1>12. inner \o <<last>> # <<>>
  BY <1>7, <1>11
<1>13. QED
  BY <1>9, <1>11, <1>12

(* What branching and the objective's hook do to the domains.                 *)
LEMMA GoodOperations ==
  ASSUME program \in Programs, NEW r, Good(r)
  PROVE  /\ \A x \in Vars, v \in Int : Good(DomAssign(r, x, v)) /\ Good(DomRemove(r, x, v))
         /\ \A v \in Views(Vars), w \in Int : Good(RemoveAbove(r, v, w)) /\ Good(RemoveBelow(r, v, w))
<1>1. Identifiers(Ids) /\ r \in States(Vars, Ids, {r.mem}, {r.aux})
  BY TheIdentifiers DEF Good
<1>2. ASSUME NEW x \in Vars, NEW v \in Int
      PROVE  Good(DomAssign(r, x, v)) /\ Good(DomRemove(r, x, v))
  <2>1. Narrows(States(Vars, Ids, {r.mem}, {r.aux}), r, DomAssign(r, x, v))
    BY <1>1, AssignCuts
  <2>2. Narrows(States(Vars, Ids, {r.mem}, {r.aux}), r, DomRemove(r, x, v))
    BY <1>1, RemoveCuts
  <2> QED
    BY <2>1, <2>2, GoodNarrows
<1>3. ASSUME NEW v \in Views(Vars), NEW w \in Int
      PROVE  Good(RemoveAbove(r, v, w)) /\ Good(RemoveBelow(r, v, w))
  <2>1. Narrows(States(Vars, Ids, {r.mem}, {r.aux}), r, RemoveAbove(r, v, w))
    BY <1>1, ViewRemoveAbove
  <2>2. Narrows(States(Vars, Ids, {r.mem}, {r.aux}), r, RemoveBelow(r, v, w))
    BY <1>1, ViewRemoveBelow
  <2> QED
    BY <2>1, <2>2, GoodNarrows
<1>4. QED
  BY <1>2, <1>3

(* A call of post(), or what is left of one. *)
LEMMA RunLeaves ==
  ASSUME program \in Programs, Good(Solver), NEW call \in TypedCalls, NEW left \in Seq(TypedCalls),
         ~Nests(call) /\ ~aborts(Fresh(call), call.c) => Modest(Fresh(call), post(Fresh(call), call.c)),
         Run(call, left), program' = program
  PROVE  /\ Good(Solver)'
         /\ agenda' \in Seq(TypedCalls)
         /\ pc' \in {"open", "hooks", "resume", "failed", "aborted"}
         /\ pc' = "resume" => agenda' # <<>>
         /\ pc' \in {"open", "failed", "aborted"} => agenda' = <<>>
<1> DEFINE f == Fresh(call)
           r == post(f, call.c)
<1>1. call.c \in Cons /\ call.fix \in BOOLEAN
  BY DEF TypedCalls
<1>2. Good(f)
  BY <1>1, GoodNew DEF Fresh
<1>3. CASE Nests(call)
  <2>1. Becomes(f) /\ pc' = "resume" /\ agenda' = Calls(call.c, call.fix) \o left
    BY <1>3 DEF Run
  <2> DEFINE q == Calls(call.c, call.fix)
  <2>2. q \in Seq(TypedCalls) /\ q # <<>>
    BY <1>1, CallsTyped
  <2> HIDE DEF q
  <2>3. q \o left \in Seq(TypedCalls) /\ q \o left # <<>>
    BY <2>2
  <2>4. Good(Solver)'
    BY <1>2, <2>1, GoodBecomes
  <2> QED
    BY <2>1, <2>3, <2>4 DEF q
<1>4. CASE ~Nests(call) /\ aborts(f, call.c)
  <2>1. Becomes(f) /\ pc' = "aborted" /\ agenda' = <<>>
    BY <1>4 DEF Run
  <2>2. Good(Solver)'
    BY <1>2, <2>1, GoodBecomes
  <2> QED
    BY <2>1, <2>2
<1>5. CASE ~Nests(call) /\ ~aborts(f, call.c)
  <2>1. /\ Becomes(r) /\ pc' = Done(r, call.fix \/ r.asked, left)
        /\ agenda' = IF r.failed THEN <<>> ELSE left
    BY <1>5 DEF Run
  <2>2. Good(r)
    BY <1>2, <1>5, GoodModest
  <2>3. Good(Solver)'
    BY <2>1, <2>2, GoodBecomes
  <2>4. <<>> \in Seq(TypedCalls)
    OBVIOUS
  <2>5. CASE r.failed
    BY <2>1, <2>3, <2>4, <2>5 DEF Done
  <2>6. CASE ~r.failed
    BY <2>1, <2>3, <2>6 DEF Done
  <2> QED
    BY <2>5, <2>6
<1>6. QED
  BY <1>3, <1>4, <1>5

LEMMA LevelsSame ==
  ASSUME Levels, saved' = saved, program' = program
  PROVE  Levels'
<1>1. Vars' = Vars /\ Ids' = Ids /\ Cons' = Cons
  BY DEF Vars, Ids, Cons
<1>2. \A k \in DOMAIN saved : Kept(saved[k])'
  <2> SUFFICES ASSUME NEW k \in DOMAIN saved
               PROVE  Kept(saved[k])'
    OBVIOUS
  <2>1. Kept(saved[k])
    BY DEF Levels
  <2> QED
    BY <1>1, <2>1 DEF Kept
<1>3. QED
  BY <1>2 DEF Levels

LEMMA Initially ==
  ASSUME Init
  PROVE  IInv
<1>1. program \in Programs
  BY DEF Init
<1>2. program.dom \in [Vars -> Domains]
  BY <1>1, ProgramsAssumption DEF Vars
<1>3. Good(Solver)
  <2>1. dom = program.dom /\ dom \in [Vars -> Domains]
    BY <1>2 DEF Init
  <2>2. <<>> \in Seq(Ids)
    OBVIOUS
  <2>3. listen \in [Vars -> [Lists -> Seq(Ids)]] /\ queue \in [{CLOW, CHIGH} -> Seq(Ids)]
    BY <2>2 DEF Init
  <2>4. scheduled \in [Ids -> BOOLEAN] /\ active \in [Ids -> BOOLEAN]
    BY DEF Init
  <2>5. Solver \in States(Vars, Ids, {mem}, {aux})
    BY <2>1, <2>3, <2>4 DEF Solver, States
  <2>6. DOMAIN mem = Cons /\ DOMAIN aux = Cons
    BY DEF Init
  <2>7. \A i \in Ids : ~scheduled[i]
    BY DEF Init
  <2>8. /\ Solver.mem = mem /\ Solver.aux = aux /\ Solver.dom = dom /\ Solver.scheduled = scheduled
    BY DEF Solver
  <2> QED
    BY <2>1, <2>5, <2>6, <2>7, <2>8 DEF Good
<1>4. Control
  <2>1. agenda \in Seq(TypedCalls)
    BY DEF Init
  <2> QED
    BY <2>1, ProgramsAssumption DEF Init, Control, TypedCalls
<1>5. Levels
  <2>1. saved = <<>> /\ program.levels \in Nat
    BY <1>1, ProgramsAssumption DEF Init
  <2> QED
    BY <2>1 DEF Levels
<1>6. Bettered
  BY DEF Init, Bettered
<1>7. QED
  BY <1>1, <1>3, <1>4, <1>5, <1>6 DEF IInv

--------------------------------------------------------------------------------
(* The steps. *)
LEMMA PostKeeps ==
  ASSUME IInv, OnlyNarrows, NEW c \in program.cons, NEW fix \in BOOLEAN, PostConstraint(c, fix)
  PROVE  IInv'
<1> DEFINE call == Call(c, fix)
<1>1. program' = program /\ saved' = saved /\ primal' = primal /\ Run(call, <<>>)
  BY DEF PostConstraint
<1>2. c \in Cons
  BY DEF Cons, ConsOf
<1>3. call \in TypedCalls /\ call.c = c
  BY <1>2 DEF Call, TypedCalls
<1>4. ~Nests(call) /\ ~aborts(Fresh(call), call.c) =>
         Modest(Fresh(call), post(Fresh(call), call.c))
  <2>1. Fresh(call) = Fresh(Call(c, TRUE)) /\ (Nests(call) <=> Nests(Call(c, TRUE)))
        /\ Call(c, TRUE).c = c
    BY DEF Fresh, Nests, Call
  <2>2. Idle /\ c \in program.cons \ posted
    BY DEF PostConstraint
  <2>3. ~Nests(Call(c, TRUE)) /\ ~aborts(Fresh(Call(c, TRUE)), c) => Call(c, TRUE) \in Posts
    BY <2>1, <2>2 DEF Posts
  <2> QED
    BY <1>3, <2>1, <2>3 DEF OnlyNarrows
<1>5. <<>> \in Seq(TypedCalls)
  OBVIOUS
<1> HIDE DEF call
<1>6. /\ Good(Solver)'
      /\ agenda' \in Seq(TypedCalls)
      /\ pc' \in {"open", "hooks", "resume", "failed", "aborted"}
      /\ pc' = "resume" => agenda' # <<>>
      /\ pc' \in {"open", "failed", "aborted"} => agenda' = <<>>
  BY <1>1, <1>3, <1>4, <1>5, RunLeaves DEF IInv
<1>7. posted' \subseteq Cons'
  BY <1>2 DEF PostConstraint, IInv, Control, Cons
<1>8. Control'
  <2>1. Cons' = Cons
    BY <1>1 DEF Cons
  <2> QED
    BY <1>1, <1>6, <1>7, <2>1 DEF Control, IInv, TypedCalls
<1>9. Levels'
  BY <1>1, LevelsSame DEF IInv
<1>10. Bettered'
  BY <1>6 DEF Bettered
<1>11. QED
  BY <1>1, <1>6, <1>8, <1>9, <1>10 DEF IInv

LEMMA ResumeKeeps ==
  ASSUME IInv, OnlyNarrows, Resume
  PROVE  IInv'
<1> DEFINE call == Head(agenda)
           left == Tail(agenda)
<1>1. /\ program' = program /\ saved' = saved /\ primal' = primal /\ pc = "resume"
      /\ Run(call, left)
  BY DEF Resume
<1>2. agenda \in Seq(TypedCalls) /\ agenda # <<>>
  BY <1>1 DEF IInv, Control, TypedCalls
<1>3. call \in TypedCalls /\ left \in Seq(TypedCalls)
  BY <1>2
<1>4. ~Nests(call) /\ ~aborts(Fresh(call), call.c) =>
         Modest(Fresh(call), post(Fresh(call), call.c))
  BY <1>1 DEF OnlyNarrows, Posts, Idle
<1> HIDE DEF left
<1>5. posted' \subseteq Cons'
  BY <1>3 DEF Resume, IInv, Control, Cons, TypedCalls
<1> HIDE DEF call
<1>6. /\ Good(Solver)'
      /\ agenda' \in Seq(TypedCalls)
      /\ pc' \in {"open", "hooks", "resume", "failed", "aborted"}
      /\ pc' = "resume" => agenda' # <<>>
      /\ pc' \in {"open", "failed", "aborted"} => agenda' = <<>>
  BY <1>1, <1>3, <1>4, RunLeaves DEF IInv
<1>7. Control'
  <2>1. Cons' = Cons
    BY <1>1 DEF Cons
  <2> QED
    BY <1>1, <1>5, <1>6, <2>1 DEF Control, IInv, TypedCalls
<1>8. Levels'
  BY <1>1, LevelsSame DEF IInv
<1>9. Bettered'
  BY <1>6 DEF Bettered
<1>10. QED
  BY <1>1, <1>6, <1>7, <1>8, <1>9 DEF IInv

(* A branching alternative. *)
LEMMA BranchKeeps ==
  ASSUME IInv, NEW r, Good(r), Idle, Narrowed(r),
         UNCHANGED <<program, agenda, posted, primal, saved>>
  PROVE  IInv'
<1>1. Becomes(r) /\ pc' = IF r.failed THEN "failed" ELSE "hooks"
  BY DEF Narrowed, Done
<1>2. Good(Solver)'
  BY <1>1, GoodBecomes
<1>3. agenda = <<>>
  BY DEF IInv, Control, Idle
<1>4. pc' \in {"failed", "hooks"}
  BY <1>1
<1>5. Control'
  BY <1>3, <1>4 DEF IInv, Control, Cons
<1>6. Levels'
  BY LevelsSame DEF IInv
<1>7. Bettered'
  BY <1>4 DEF Bettered
<1>8. QED
  BY <1>2, <1>5, <1>6, <1>7 DEF IInv

LEMMA DecideKeeps ==
  ASSUME IInv, NEW m \in program.moves, Decide(m[1], m[2]) \/ Refute(m[1], m[2])
  PROVE  IInv'
<1>1. m[1] \in Vars /\ m[2] \in Int
  BY ProgramsAssumption DEF IInv, Vars
<1>2. Good(DomAssign(Solver, m[1], m[2])) /\ Good(DomRemove(Solver, m[1], m[2]))
  BY <1>1, GoodOperations DEF IInv
<1>3. CASE Decide(m[1], m[2])
  BY <1>2, <1>3, BranchKeeps DEF Decide
<1>4. CASE Refute(m[1], m[2])
  BY <1>2, <1>4, BranchKeeps DEF Refute
<1>5. QED
  BY <1>3, <1>4

(* What is left when the hook has not failed is better than the best so far.  *)
LEMMA HookCuts ==
  ASSUME program \in Programs, Good(Solver), ~Unbeaten, primal \in Int
  PROVE  LET v == program.obj[1]
             r == IF program.obj[2] = "min" THEN RemoveAbove(Solver, v, primal - 1)
                  ELSE RemoveBelow(Solver, v, primal + 1)
         IN Good(r) /\ (~r.failed => Seeks(r.dom))
<1> DEFINE v == program.obj[1]
<1>1. v \in Views(Vars)
  BY ProgramsAssumption DEF Unbeaten, Vars
<1>2. /\ v[1] \in Vars /\ v[2] \in Int /\ v[3] \in Int
  BY <1>1, ViewFields
<1>3. /\ Identifiers(Ids) /\ Solver \in States(Vars, Ids, {mem}, {aux})
      /\ Solver.failed = FALSE /\ Solver.dom = dom /\ dom \in [Vars -> Domains]
  <2>1. Solver.mem = mem /\ Solver.aux = aux /\ Solver.dom = dom /\ Solver.failed = FALSE
    BY DEF Solver
  <2>2. Solver.dom \in [Vars -> Domains]
    BY GoodFields
  <2>3. Solver \in States(Vars, Ids, {Solver.mem}, {Solver.aux})
    BY DEF Good
  <2> QED
    BY <2>1, <2>2, <2>3, TheIdentifiers
<1>4. dom[v[1]] \subseteq Int
  BY <1>2, <1>3 DEF Domains
<1> HIDE DEF v
<1>5. ASSUME NEW r, NEW w \in Int, NEW K, Cuts(Solver, r, v[1], Seen(v, K)), ~r.failed
      PROVE  \A u \in r.dom[v[1]] : u \in Int /\ v[2] * u + v[3] \in K
  <2>1. r.dom = [dom EXCEPT ![v[1]] = dom[v[1]] \cap Seen(v, K)]
    BY <1>3, <1>5 DEF Cuts
  <2>2. r.dom[v[1]] = dom[v[1]] \cap Seen(v, K)
    BY <1>2, <1>3, <2>1
  <2> QED
    BY <2>2 DEF Seen
<1>6. CASE program.obj[2] = "min"
  <2> DEFINE r == RemoveAbove(Solver, v, primal - 1)
  <2>1. primal - 1 \in Int
    OBVIOUS
  <2>2. Good(r)
    BY <1>1, <2>1, GoodOperations DEF v
  <2>3. Cuts(Solver, r, v[1], Seen(v, AtMost(primal - 1)))
    BY <1>1, <1>3, <2>1, ViewRemoveAbove DEF v
  <2> HIDE DEF r
  <2>4. ASSUME ~r.failed
        PROVE  Seeks(r.dom)
    <3>1. \A u \in r.dom[v[1]] : u \in Int /\ v[2] * u + v[3] \in AtMost(primal - 1)
      BY <1>5, <2>1, <2>3, <2>4
    <3>2. \A k \in AtMost(primal - 1) : k < primal
      BY DEF AtMost
    <3>3. \A u \in r.dom[v[1]] : v[2] * u + v[3] < primal
      BY <3>1, <3>2
    <3> QED
      BY <1>6, <3>3 DEF Seeks, Better, v
  <2> QED
    BY <1>6, <2>2, <2>4 DEF r, v
<1>7. CASE program.obj[2] # "min"
  <2> DEFINE r == RemoveBelow(Solver, v, primal + 1)
  <2>1. primal + 1 \in Int
    OBVIOUS
  <2>2. Good(r)
    BY <1>1, <2>1, GoodOperations DEF v
  <2>3. Cuts(Solver, r, v[1], Seen(v, AtLeast(primal + 1)))
    BY <1>1, <1>3, <2>1, ViewRemoveBelow DEF v
  <2> HIDE DEF r
  <2>4. ASSUME ~r.failed
        PROVE  Seeks(r.dom)
    <3>1. \A u \in r.dom[v[1]] : u \in Int /\ v[2] * u + v[3] \in AtLeast(primal + 1)
      BY <1>5, <2>1, <2>3, <2>4
    <3>2. \A k \in AtLeast(primal + 1) : k > primal
      BY DEF AtLeast
    <3>3. \A u \in r.dom[v[1]] : v[2] * u + v[3] > primal
      BY <3>1, <3>2
    <3> QED
      BY <1>7, <3>3 DEF Seeks, Better, v
  <2> QED
    BY <1>7, <2>2, <2>4 DEF r, v
<1>8. QED
  BY <1>6, <1>7 DEF v

(* A step of the fixpoint that leaves the constraints posted as they are.     *)
LEMMA RanKeeps ==
  ASSUME IInv, NEW r, Good(r), Ran(r), ~r.failed /\ ~Unbeaten => Seeks(r.dom),
         UNCHANGED <<program, posted, primal, saved>>
  PROVE  IInv'
<1>1. /\ Good(Solver)'
      /\ r.failed => pc' = "failed" /\ agenda' = <<>>
      /\ ~r.failed => pc' = "loop" /\ agenda' = agenda /\ dom' = r.dom
  BY RanLeaves
<1>2. <<>> \in Seq(TypedCalls)
  OBVIOUS
<1>3. Control'
  BY <1>1, <1>2 DEF IInv, Control, Cons, TypedCalls
<1>4. Levels'
  BY LevelsSame DEF IInv
<1>5. Bettered'
  <2>1. Unbeaten' = Unbeaten
    BY DEF Unbeaten
  <2>2. CASE r.failed
    BY <1>1, <2>2 DEF Bettered
  <2>3. CASE ~r.failed
    BY <1>1, <2>1, <2>3 DEF Bettered, Seeks, Better
  <2> QED
    BY <2>2, <2>3
<1>6. QED
  BY <1>1, <1>3, <1>4, <1>5 DEF IInv

LEMMA HooksKeeps ==
  ASSUME IInv, Hooks
  PROVE  IInv'
<1>1. CASE Unbeaten
  BY <1>1, RanKeeps DEF Hooks, IInv
<1>2. CASE ~Unbeaten
  <2> DEFINE v == program.obj[1]
             r == IF program.obj[2] = "min" THEN RemoveAbove(Solver, v, primal - 1)
                  ELSE RemoveBelow(Solver, v, primal + 1)
  <2>1. Good(r) /\ (~r.failed => Seeks(r.dom))
    BY <1>2, HookCuts DEF IInv, Control
  <2>2. Ran(r) /\ UNCHANGED <<program, posted, primal, saved>>
    BY <1>2 DEF Hooks
  <2> HIDE DEF r
  <2> QED
    BY <2>1, <2>2, RanKeeps
<1>3. QED
  BY <1>1, <1>2

(* Fewer values, none of them worse. *)
LEMMA SeeksOn ==
  ASSUME program \in Programs, program.obj # <<>>, NEW r, Good(r), NEW s, Shrinks(r, s), Seeks(r.dom)
  PROVE  Seeks(s.dom)
<1>1. program.obj[1][1] \in Vars
  BY ProgramsAssumption, ViewFields DEF Vars
<1>2. DOMAIN r.dom = Vars
  BY GoodFields
<1>3. QED
  BY <1>1, <1>2 DEF Shrinks, Seeks

LEMMA StepKeeps ==
  ASSUME IInv, OnlyNarrows, Step
  PROVE  IInv'
<1> DEFINE r == IF active[Taken] THEN propagate(Popped, Taken) ELSE Popped
<1>1. /\ pc = "loop" /\ queue[Turn] # <<>> /\ Ran(r)
      /\ UNCHANGED <<program, posted, primal, saved>>
  BY DEF Step
<1>2. Good(Popped) /\ Solver.dom = dom
  BY <1>1, GoodPopped DEF IInv, Solver
<1>3. Popped.dom = dom
  BY DEF Popped, Solver
<1>4. active[Taken] => Modest(Popped, r)
  <2>1. Waiting # {}
    <3>1. Taken \in Waiting
      <4>1. Turn \in {CLOW, CHIGH}
        BY DEF Turn
      <4>2. queue[Turn] \in Seq(Ids)
        <5>1. Solver.queue \in [{CLOW, CHIGH} -> Seq(Ids)] /\ Solver.queue = queue
          BY GoodFields DEF IInv, Solver
        <5> QED
          BY <4>1, <5>1
      <4>3. 1 \in DOMAIN queue[Turn] /\ Taken = queue[Turn][1]
        BY <1>1, <4>2 DEF Taken
      <4> QED
        BY <4>1, <4>3 DEF Waiting
    <3> QED
      BY <3>1
  <2> QED
    BY <1>1, <2>1 DEF OnlyNarrows
<1> HIDE DEF r
<1>5. Good(r) /\ Shrinks(Popped, r)
  <2>1. CASE active[Taken]
    BY <1>2, <1>4, <2>1, GoodModest DEF Modest, Narrows
  <2>2. CASE ~active[Taken]
    BY <1>2, <2>2, GrowsSelf DEF r
  <2> QED
    BY <2>1, <2>2
<1>6. ~Unbeaten => Seeks(r.dom)
  <2> SUFFICES ASSUME ~Unbeaten
               PROVE  Seeks(r.dom)
    OBVIOUS
  <2>1. Seeks(Popped.dom)
    BY <1>1, <1>3 DEF IInv, Bettered
  <2>2. program.obj # <<>> /\ program \in Programs
    BY DEF Unbeaten, IInv
  <2> QED
    BY <1>2, <1>5, <2>1, <2>2, SeeksOn
<1>7. QED
  BY <1>1, <1>5, <1>6, RanKeeps

LEMMA FinishKeeps ==
  ASSUME IInv, Finish
  PROVE  IInv'
<1>1. /\ pc = "loop" /\ pc' = IF agenda = <<>> THEN "rest" ELSE "resume"
      /\ UNCHANGED <<program, solver, agenda, posted, primal, saved>>
  BY DEF Finish
<1>2. Good(Solver)'
  <2>1. Becomes(Solver)
    BY <1>1 DEF Becomes, Solver, solver
  <2> QED
    BY <1>1, <2>1, GoodBecomes DEF IInv
<1>3. Control'
  BY <1>1 DEF IInv, Control, Cons
<1>4. Levels'
  BY <1>1, LevelsSame DEF IInv
<1>5. Bettered'
  BY <1>1 DEF IInv, Bettered, Seeks, Better, Unbeaten, solver
<1>6. QED
  BY <1>1, <1>2, <1>3, <1>4, <1>5 DEF IInv

(* The value of a solution is one that the hook had left. *)
LEMMA SolutionSeeks ==
  ASSUME IInv, Tighten
  PROVE  primal' \in Int /\ (Unbeaten \/ Better(primal', primal))
<1> DEFINE v == program.obj[1]
           D == dom[v[1]]
           K == Dom(Solver, v)
<1>1. pc = "rest" /\ program.obj # <<>> /\ \A x \in Vars : Singleton(dom[x])
  BY DEF Tighten, Solved
<1>2. v \in Views(Vars)
  BY <1>1, ProgramsAssumption DEF IInv, Vars
<1>3. v[1] \in Vars /\ v[2] \in Int /\ v[3] \in Int
  BY <1>2, ViewFields
<1>4. D \in Domains /\ Solver.dom = dom
  <2>1. Solver.dom = dom /\ Solver.dom \in [Vars -> Domains]
    BY GoodFields DEF IInv, Solver
  <2> QED
    BY <1>3, <2>1
<1>5. PICK w \in Int : D = {w}
  <2>1. D \subseteq Int /\ Cardinality(D) = 1 /\ IsFiniteSet(D)
    BY <1>1, <1>3, <1>4 DEF Domains, Singleton
  <2>2. \E w : D = {w}
    BY <2>1, FS_Singleton
  <2> QED
    BY <2>1, <2>2
<1> HIDE DEF D
<1>6. K = {v[2] * w + v[3]}
  <2>1. D = Solver.dom[v[1]]
    BY <1>4 DEF D
  <2>2. CASE v[2] = 1 /\ v[3] = 0
    <3>1. v[2] * w + v[3] = w
      BY <2>2
    <3>2. K = D
      BY <2>1, <2>2 DEF Dom
    <3> QED
      BY <1>5, <3>1, <3>2
  <2>3. CASE ~(v[2] = 1 /\ v[3] = 0)
    <3>1. K = {v[2] * u + v[3] : u \in D}
      BY <2>1, <2>3 DEF Dom
    <3> QED
      BY <1>5, <3>1
  <2> QED
    BY <2>2, <2>3
<1>7. v[2] * w + v[3] \in Int
  BY <1>3, <1>5
<1>8. K \in Domains
  <2>1. IsFiniteSet(K)
    BY <1>6, FS_Singleton
  <2> QED
    BY <1>6, <1>7, <2>1 DEF Domains
<1>9. Max(K) \in K /\ Min(K) \in K
  BY <1>8, DomainBounds
<1>10. primal' = v[2] * w + v[3]
  <2>1. primal' = Max(K) \/ primal' = Min(K)
    BY DEF Tighten, Hi, Lo
  <2> QED
    BY <1>6, <1>9, <2>1
<1>11. ~Unbeaten => Better(v[2] * w + v[3], primal)
  <2> SUFFICES ASSUME ~Unbeaten
               PROVE  Better(v[2] * w + v[3], primal)
    OBVIOUS
  <2>1. \A u \in dom[v[1]] : Better(v[2] * u + v[3], primal)
    BY <1>1 DEF IInv, Bettered, Seeks
  <2> QED
    BY <1>5, <2>1 DEF D
<1>12. QED
  BY <1>7, <1>10, <1>11

LEMMA TightenKeeps ==
  ASSUME IInv, Tighten
  PROVE  IInv'
<1>1. /\ pc = "rest" /\ pc' = "failed"
      /\ UNCHANGED <<program, solver, agenda, posted, saved>>
  BY DEF Tighten, Solved
<1>2. Good(Solver)'
  <2>1. Becomes(Solver)
    BY <1>1 DEF Becomes, Solver, solver
  <2> QED
    BY <1>1, <2>1, GoodBecomes DEF IInv
<1>3. Control'
  BY <1>1, SolutionSeeks DEF IInv, Control, Cons
<1>4. Levels'
  BY <1>1, LevelsSame DEF IInv
<1>5. Bettered'
  BY <1>1 DEF Bettered
<1>6. QED
  BY <1>1, <1>2, <1>3, <1>4, <1>5 DEF IInv

LEMMA SeqOfItself ==
  ASSUME NEW S, NEW q \in Seq(S)
  PROVE  q \in Seq({q[k] : k \in DOMAIN q})
<1> DEFINE T == {q[k] : k \in DOMAIN q}
<1>1. Len(q) \in Nat /\ q \in [1..Len(q) -> S] /\ DOMAIN q = 1..Len(q)
  OBVIOUS
<1>2. \A k \in 1..Len(q) : q[k] \in T
  BY <1>1
<1> HIDE DEF T
<1>3. q \in [1..Len(q) -> T]
  BY <1>1, <1>2
<1>4. q \in Seq(T)
  BY <1>1, <1>3, SeqDef
<1>5. QED
  BY <1>4 DEF T

LEMMA SaveKeeps ==
  ASSUME IInv, SaveState
  PROVE  IInv'
<1> DEFINE f == [dom |-> dom, listen |-> listen, active |-> active, mem |-> mem,
                 posted |-> posted, wanted |-> wanted]
           S == {saved[k] : k \in DOMAIN saved}
           n == Len(saved)
<1>1. /\ Idle /\ n < program.levels /\ saved' = Append(saved, f) /\ pc' = "open"
      /\ UNCHANGED <<program, solver, agenda, posted, primal>>
  BY DEF SaveState
<1>2. Good(Solver)'
  <2>1. Becomes(Solver)
    BY <1>1 DEF Becomes, Solver, solver
  <2> QED
    BY <1>1, <2>1, GoodBecomes DEF IInv
<1>3. Control'
  BY <1>1 DEF IInv, Control, Cons, Idle
<1>4. Kept(f)
  <2>1. /\ Solver.dom = dom /\ Solver.listen = listen /\ Solver.active = active /\ Solver.mem = mem
    BY DEF Solver
  <2>2. dom \in [Vars -> Domains] /\ listen \in [Vars -> [Lists -> Seq(Ids)]] /\ active \in [Ids -> BOOLEAN]
    BY <2>1, GoodFields DEF IInv
  <2>3. DOMAIN mem = Cons /\ \A x \in Vars : dom[x] \subseteq program.dom[x]
    BY <2>1 DEF IInv, Good
  <2>4. posted \subseteq Cons
    BY DEF IInv, Control
  <2> QED
    BY <2>2, <2>3, <2>4 DEF Kept
<1> HIDE DEF f
<1>5. saved \in Seq(S) /\ n \in Nat /\ \A k \in DOMAIN saved : Kept(saved[k])
  BY DEF IInv, Levels
<1>6. Levels'
  <2> DEFINE T == S \cup {f}
  <2>1. saved \in Seq(T)
    BY <1>5, SeqMonotonic
  <2>2. saved' \in Seq(T)
    BY <1>1, <2>1
  <2>3. saved' \in Seq({saved'[k] : k \in DOMAIN saved'})
    BY <2>2, SeqOfItself
  <2>4. Len(saved') = n + 1 /\ DOMAIN saved' = 1..(n + 1) /\ saved'[n + 1] = f
        /\ DOMAIN saved = 1..n /\ \A k \in 1..n : saved'[k] = saved[k]
    BY <1>1, <1>5
  <2>5. Len(saved') <= program.levels
    <3>1. program.levels \in Nat
      BY ProgramsAssumption DEF IInv
    <3> QED
      BY <1>1, <1>5, <2>4, <3>1
  <2>6. \A k \in DOMAIN saved' : Kept(saved'[k])
    <3> SUFFICES ASSUME NEW k \in 1..(n + 1)
                 PROVE  Kept(saved'[k])
      BY <2>4
    <3>1. CASE k = n + 1
      BY <1>4, <2>4, <3>1
    <3>2. CASE k # n + 1
      <4>1. k \in 1..n
        BY <1>5, <3>2
      <4> QED
        BY <1>5, <2>4, <4>1
    <3> QED
      BY <3>1, <3>2
  <2>7. Vars' = Vars /\ Ids' = Ids /\ Cons' = Cons
    BY <1>1 DEF Vars, Ids, Cons
  <2>8. \A k \in DOMAIN saved' : Kept(saved[k])'
    <3> SUFFICES ASSUME NEW k \in DOMAIN saved'
                 PROVE  Kept(saved[k])'
      OBVIOUS
    <3>1. Kept(saved'[k])
      BY <2>6
    <3> QED
      BY <1>1, <2>7, <3>1 DEF Kept
  <2> QED
    BY <1>1, <2>3, <2>5, <2>8 DEF Levels
<1>7. Bettered'
  BY <1>1 DEF Bettered
<1>8. QED
  BY <1>1, <1>2, <1>3, <1>6, <1>7 DEF IInv

(* A level is restored under the queue, the flags and the aux of the moment.  *)
LEMMA GoodRestored ==
  ASSUME NEW r, Good(r), NEW f, Kept(f)
  PROVE  Good([dom |-> f.dom, listen |-> f.listen, queue |-> r.queue, scheduled |-> r.scheduled,
               active |-> f.active, mem |-> f.mem, aux |-> r.aux, failed |-> FALSE, asked |-> FALSE])
<1> DEFINE s == [dom |-> f.dom, listen |-> f.listen, queue |-> r.queue, scheduled |-> r.scheduled,
                 active |-> f.active, mem |-> f.mem, aux |-> r.aux, failed |-> FALSE, asked |-> FALSE]
<1>1. /\ f.dom \in [Vars -> Domains] /\ f.listen \in [Vars -> [Lists -> Seq(Ids)]]
      /\ f.active \in [Ids -> BOOLEAN]
  BY DEF Kept
<1>2. r.queue \in [{CLOW, CHIGH} -> Seq(Ids)] /\ r.scheduled \in [Ids -> BOOLEAN]
  BY GoodFields
<1>3. s \in States(Vars, Ids, {f.mem}, {r.aux})
  BY <1>1, <1>2 DEF States
<1>4. /\ s.mem = f.mem /\ s.aux = r.aux /\ s.dom = f.dom /\ s.scheduled = r.scheduled
      /\ s.queue = r.queue
  OBVIOUS
<1> HIDE DEF s
<1>5. Entries(s) = Entries(r)
  BY <1>4 DEF Entries
<1>6. DOMAIN f.mem = Cons /\ DOMAIN r.aux = Cons
  BY DEF Kept, Good
<1>7. \A x \in Vars : s.dom[x] \subseteq program.dom[x]
  BY <1>4 DEF Kept
<1>8. \A i \in Ids : s.scheduled[i] => i \in Entries(s)
  BY <1>4, <1>5 DEF Good
<1>9. Good(s)
  BY <1>3, <1>4, <1>6, <1>7, <1>8 DEF Good
<1>10. QED
  BY <1>9 DEF s

LEMMA RestoreKeeps ==
  ASSUME IInv, RestoreState
  PROVE  IInv'
<1> DEFINE n == Len(saved)
           top == saved[n]
           S == {saved[k] : k \in DOMAIN saved}
           r == [dom |-> top.dom, listen |-> top.listen, queue |-> queue, scheduled |-> scheduled,
                 active |-> top.active, mem |-> top.mem, aux |-> aux, failed |-> FALSE, asked |-> FALSE]
<1>1. /\ pc \in {"open", "rest", "failed"} /\ saved # <<>> /\ pc' = "open"
      /\ dom' = top.dom /\ listen' = top.listen /\ active' = top.active /\ mem' = top.mem
      /\ posted' = top.posted
      /\ saved' = SubSeq(saved, 1, n - 1)
      /\ UNCHANGED <<program, queue, scheduled, aux, agenda, primal>>
  BY DEF RestoreState
<1>2. saved \in Seq(S) /\ \A k \in DOMAIN saved : Kept(saved[k])
  BY DEF IInv, Levels
<1>3. n \in Nat /\ n >= 1 /\ DOMAIN saved = 1..n
  BY <1>1, <1>2
<1>4. Kept(top)
  BY <1>2, <1>3
<1>5. Good(r)
  <2>1. Solver.queue = queue /\ Solver.scheduled = scheduled /\ Solver.aux = aux
    BY DEF Solver
  <2> HIDE DEF top
  <2> QED
    BY <1>4, <2>1, GoodRestored DEF IInv
<1>6. Good(Solver)'
  <2>1. Becomes(r)
    BY <1>1 DEF Becomes
  <2> HIDE DEF r
  <2> QED
    BY <1>1, <1>5, <2>1, GoodBecomes
<1> HIDE DEF top
<1>7. Control'
  BY <1>1, <1>4 DEF IInv, Control, Cons, Kept
<1>8. Levels'
  <2>1. saved' \in Seq(S) /\ Len(saved') = n - 1 /\ DOMAIN saved' = 1..(n - 1)
        /\ \A k \in 1..(n - 1) : saved'[k] = saved[k]
    BY <1>1, <1>2, <1>3
  <2>2. saved' \in Seq({saved'[k] : k \in DOMAIN saved'})
    BY <2>1, SeqOfItself
  <2>3. Len(saved') <= program.levels
    <3>1. program.levels \in Nat /\ n <= program.levels
      BY ProgramsAssumption DEF IInv, Levels
    <3> QED
      BY <1>3, <2>1, <3>1
  <2>4. Vars' = Vars /\ Ids' = Ids /\ Cons' = Cons
    BY <1>1 DEF Vars, Ids, Cons
  <2>5. \A k \in DOMAIN saved' : Kept(saved[k])'
    <3> SUFFICES ASSUME NEW k \in DOMAIN saved'
                 PROVE  Kept(saved[k])'
      OBVIOUS
    <3>1. k \in DOMAIN saved /\ saved'[k] = saved[k]
      BY <1>3, <2>1
    <3>2. Kept(saved'[k])
      BY <1>2, <3>1
    <3> QED
      BY <1>1, <2>4, <3>2 DEF Kept
  <2> QED
    BY <1>1, <2>2, <2>3, <2>5 DEF Levels
<1>9. Bettered'
  BY <1>1 DEF Bettered
<1>10. QED
  BY <1>1, <1>6, <1>7, <1>8, <1>9 DEF IInv

LEMMA StutterKeeps ==
  ASSUME IInv, UNCHANGED vars
  PROVE  IInv'
<1>1. Good(Solver)'
  <2>1. Becomes(Solver) /\ program' = program
    BY DEF Becomes, Solver, solver, vars
  <2> QED
    BY <2>1, GoodBecomes DEF IInv
<1>2. Control'
  BY DEF IInv, Control, Cons, vars
<1>3. Levels'
  BY LevelsSame DEF IInv, vars
<1>4. Bettered'
  BY DEF IInv, Bettered, Seeks, Better, Unbeaten, vars, solver
<1>5. QED
  BY <1>1, <1>2, <1>3, <1>4 DEF IInv, vars

(* Both what a search does and what a program that is tidy does. *)
AnyNext == \/ Fixpoint \/ Branch \/ SaveState \/ RestoreState
           \/ \E c \in program.cons, fix \in BOOLEAN : PostConstraint(c, fix)

LEMMA AnySpec == Next \/ TidyNext => AnyNext
  BY DEF Next, TidyNext, AnyNext

LEMMA Inductive ==
  ASSUME IInv, OnlyNarrows, [AnyNext]_vars
  PROVE  IInv'
<1>1. CASE Fixpoint
  BY <1>1, HooksKeeps, StepKeeps, FinishKeeps, ResumeKeeps DEF Fixpoint
<1>2. CASE Branch
  BY <1>2, DecideKeeps, TightenKeeps DEF Branch
<1>3. CASE SaveState
  BY <1>3, SaveKeeps
<1>4. CASE RestoreState
  BY <1>4, RestoreKeeps
<1>5. CASE \E c \in program.cons, fix \in BOOLEAN : PostConstraint(c, fix)
  BY <1>5, PostKeeps
<1>6. CASE UNCHANGED vars
  BY <1>6, StutterKeeps
<1>7. QED
  BY <1>1, <1>2, <1>3, <1>4, <1>5, <1>6 DEF AnyNext

LEMMA Everywhere == Init /\ [][AnyNext]_vars /\ []OnlyNarrows => []IInv
<1>1. Init => IInv
  BY Initially
<1>2. IInv /\ OnlyNarrows /\ [AnyNext]_vars => IInv'
  BY Inductive
<1>3. QED
  BY <1>1, <1>2, PTL

LEMMA Either ==
  (Spec \/ TidySpec) => Init /\ [][AnyNext]_vars
<1>1. [Next]_vars => [AnyNext]_vars
  BY AnySpec
<1>2. [TidyNext]_vars => [AnyNext]_vars
  BY AnySpec
<1>3. QED
  BY <1>1, <1>2, PTL DEF Spec, TidySpec

LEMMA InvariantTypes ==
  ASSUME IInv
  PROVE  TypeOK /\ Waiting = Entries(Solver)
<1>1. /\ Solver.dom = dom /\ Solver.listen = listen /\ Solver.queue = queue
      /\ Solver.scheduled = scheduled /\ Solver.active = active
      /\ Solver.mem = mem /\ Solver.aux = aux
  BY DEF Solver
<1>2. /\ dom \in [Vars -> Domains] /\ listen \in [Vars -> [Lists -> Seq(Ids)]]
      /\ queue \in [{CLOW, CHIGH} -> Seq(Ids)]
      /\ scheduled \in [Ids -> BOOLEAN] /\ active \in [Ids -> BOOLEAN]
  BY <1>1, GoodFields DEF IInv
<1>3. DOMAIN dom = Vars /\ \A x \in Vars : dom[x] # {} /\ dom[x] \subseteq program.dom[x]
  BY <1>1, <1>2 DEF IInv, Good, Domains
<1>4. ASSUME NEW x \in Vars, NEW l \in Lists, NEW k \in DOMAIN listen[x][l]
      PROVE  listen[x][l][k] \in Ids
  <2>1. listen[x][l] \in Seq(Ids)
    BY <1>2
  <2> QED
    BY <1>4, <2>1
<1>5. Waiting \subseteq Ids
  <2> SUFFICES ASSUME NEW p \in {CLOW, CHIGH}, NEW k \in DOMAIN queue[p]
               PROVE  queue[p][k] \in Ids
    BY DEF Waiting
  <2>1. queue[p] \in Seq(Ids)
    BY <1>2
  <2> QED
    BY <2>1
<1>6. DOMAIN mem = Cons /\ DOMAIN aux = Cons
  BY <1>1 DEF IInv, Good
<1>7. Waiting = Entries(Solver)
  BY <1>1 DEF Waiting, Entries
<1>8. DOMAIN listen = Vars
  BY <1>2
<1>9. /\ pc \in {"open", "hooks", "loop", "resume", "rest", "failed", "aborted"}
      /\ posted \subseteq Cons /\ primal \in Int /\ Len(saved) <= program.levels
      /\ pc \in {"open", "rest", "failed", "aborted"} => agenda = <<>>
      /\ program \in Programs
  BY DEF IInv, Control, Levels
<1>10. QED
  BY <1>2, <1>3, <1>4, <1>5, <1>6, <1>7, <1>8, <1>9 DEF TypeOK

(* Whatever the library of constraints and the program, as long as each call  *)
(* of a constraint's method only narrows (OnlyNarrows), the state keeps its   *)
(* type: no domain is ever empty or larger than it was created, failures and  *)
(* restores included.                                                         *)
THEOREM TypeHolds == (Spec \/ TidySpec) /\ []OnlyNarrows => []TypeOK
<1>1. IInv => TypeOK
  BY InvariantTypes
<1>2. QED
  BY <1>1, Everywhere, Either, PTL

(* A constraint whose flag is up is in the queue, wherever a failure jumped   *)
(* from and whatever was restored: the drain of the handler and schedule()    *)
(* are all that keeps the two together.                                       *)
THEOREM FlagHasEntryHolds == (Spec \/ TidySpec) /\ []OnlyNarrows => []FlagHasEntry
<1>1. IInv => FlagHasEntry
  BY InvariantTypes DEF FlagHasEntry, IInv, Good, Solver
<1>2. QED
  BY <1>1, Everywhere, Either, PTL

(* Every solution is strictly better than the one before: the hook leaves     *)
(* only better values of the objective's view, be it opposite, multiplied or  *)
(* translated, and nothing that runs before the next solution brings one back.*)
THEOREM ImprovesHolds == (Spec \/ TidySpec) /\ []OnlyNarrows => Improves
<1>1. IInv => (Tighten => Unbeaten \/ Better(primal', primal))
  BY SolutionSeeks
<1>2. IInv /\ [AnyNext]_vars => [Tighten => Unbeaten \/ Better(primal', primal)]_vars
  BY <1>1
<1>3. QED
  BY <1>2, Everywhere, Either, PTL DEF Improves

--------------------------------------------------------------------------------
(* The search: as long as every call of a method infers no more than its      *)
(* constraint says (OnlyInfers), the queue, the failure handler, the levels   *)
(* and the objective's hook lose nothing.                                     *)

(* What every state of a search whose constraints infer no more than they say *)
(* has: what listens or waits belongs to a constraint posted on the path,     *)
(* the assignments wanted meet all these and are still there, and what is     *)
(* switched off is entailed; so it is of the levels to restore.               *)
IdsOf(P) == UNION {Parts(c) : c \in P}

Owned(r, P) == Heard(r) \cup Entries(r) \subseteq IdsOf(P)
Meant(W, P) == W \subseteq [Vars -> Values] /\ \A a \in W, c \in P : holds(a, c)
Keeping(W, r) == \A a \in W : Fits(a, r.dom)
Sure(r, P) == \A c \in P : SwitchedOff(r, c) => \A a \in LeftIn(r) : holds(a, c)

Alive == pc \notin {"failed", "aborted"}

Path == /\ Owned(Solver, posted)
        /\ Meant(wanted, posted)
        /\ \A k \in DOMAIN agenda : Meant(wanted, {agenda[k].c})
        /\ pc = "failed" => wanted = {}
        /\ pc # "failed" => Keeping(wanted, Solver)
        /\ Alive => Sure(Solver, posted)

Sealed(f) == /\ Heard(f) \subseteq IdsOf(f.posted)
             /\ Meant(f.wanted, f.posted) /\ Keeping(f.wanted, f) /\ Sure(f, f.posted)

SInv == IInv /\ Path /\ \A k \in DOMAIN saved : Sealed(saved[k])

--------------------------------------------------------------------------------
LEMMA PartsApart ==
  ASSUME NEW c, NEW d, c # d
  PROVE  \A n : <<d, n>> \notin Parts(c)
  BY DEF Parts

LEMMA OwnParts ==
  ASSUME NEW d \in DOMAIN Body
  PROVE  /\ <<d, 0>> \in Parts(d)
         /\ Body[d].kind = "IsClause" => <<d, 1>> \in Parts(d)
         /\ \A n \in 1..Body[d].parts : <<d, n>> \in Parts(d)
<1>1. Body[d].parts \in Nat /\ (Body[d].kind = "IsClause" => Body[d].parts > 0)
  BY BodyAssumption
<1>2. 0 \in 0..Body[d].parts /\ \A n \in 1..Body[d].parts : n \in 0..Body[d].parts
  BY <1>1
<1>3. Body[d].kind = "IsClause" => 1 \in 0..Body[d].parts
  BY <1>1
<1>4. QED
  BY <1>2, <1>3 DEF Parts

LEMMA PartsOf ==
  ASSUME program \in Programs, NEW d \in Cons
  PROVE  Parts(d) \subseteq Ids /\ d \in DOMAIN Body /\ Body[d].x \in Seq(Views(Vars))
<1>1. d \in DOMAIN Body /\ Body[d].x \in Seq(Views(Vars))
  BY ProgramsAssumption DEF Cons, Vars
<1>2. QED
  BY <1>1 DEF Ids

(* Who listens to a bound variable goes on to do so.                          *)
LEMMA BoundStays ==
  ASSUME NEW D \in Domains, NEW E \in Domains, E \subseteq D, Singleton(D)
  PROVE  Singleton(E) /\ E = D
<1>1. IsFiniteSet(D) /\ Cardinality(D) = 1 /\ E # {}
  BY DEF Singleton, Domains
<1>2. PICK w : D = {w}
  BY <1>1, FS_Singleton
<1>3. E = D
  BY <1>1, <1>2
<1>4. QED
  BY <1>3

(* What a step must leave alone for d to be switched off as before.           *)
LeavesAlone(d, r, s) ==
    /\ \A i \in Parts(d) : s.active[i] = r.active[i]
    /\ \A t \in Listening(r) : t[3] \in Parts(d) => t \in Listening(s)

LEMMA AlertOn ==
  ASSUME NEW X, NEW I, NEW M, NEW A, NEW r \in States(X, I, M, A), NEW N, NEW B,
         NEW s \in States(X, I, N, B), Shrinks(r, s), NEW d, LeavesAlone(d, r, s),
         NEW i \in Parts(d), i \in Alert(r)
  PROVE  i \in Alert(s)
<1>1. PICK t \in Listening(r) : t[3] = i /\ (t[2] = "onBind" => Singleton(r.dom[t[1]]))
  BY DEF Alert
<1>2. t \in Listening(s)
  BY <1>1 DEF LeavesAlone
<1>3. t[1] \in X
  <2>1. DOMAIN r.listen = X
    BY StateFields
  <2>2. PICK x \in X, l \in Lists : \E k \in DOMAIN r.listen[x][l] : t = <<x, l, r.listen[x][l][k]>>
    BY <2>1 DEF Listening
  <2> QED
    BY <2>2
<1>4. Singleton(r.dom[t[1]]) => Singleton(s.dom[t[1]])
  <2>1. r.dom \in [X -> Domains] /\ s.dom \in [X -> Domains]
    BY StateFields
  <2>2. s.dom[t[1]] \subseteq r.dom[t[1]]
    BY <1>3, <2>1 DEF Shrinks
  <2>3. r.dom[t[1]] \in Domains /\ s.dom[t[1]] \in Domains
    BY <1>3, <2>1
  <2> QED
    BY <2>2, <2>3, BoundStays
<1>5. QED
  BY <1>1, <1>2, <1>4 DEF Alert

LEMMA IsOn ==
  ASSUME NEW X, NEW I, NEW M, NEW A, NEW r \in States(X, I, M, A), NEW N, NEW B,
         NEW s \in States(X, I, N, B), Shrinks(r, s), NEW v \in Views(X), NEW w, Is(r, v, w)
  PROVE  Is(s, v, w)
<1>1. v[1] \in X
  BY ViewFields
<1>2. r.dom \in [X -> Domains] /\ s.dom \in [X -> Domains]
  BY StateFields
<1>3. s.dom[v[1]] \subseteq r.dom[v[1]] /\ s.dom[v[1]] # {}
  BY <1>1, <1>2 DEF Shrinks, Domains
<1>4. Dom(s, v) \subseteq Dom(r, v) /\ Dom(s, v) # {}
  <2>1. CASE v[2] = 1 /\ v[3] = 0
    BY <1>3, <2>1 DEF Dom
  <2>2. CASE ~(v[2] = 1 /\ v[3] = 0)
    BY <1>3, <2>2 DEF Dom
  <2> QED
    BY <2>1, <2>2
<1>5. QED
  BY <1>4 DEF Is

LEMMA OffBack ==
  ASSUME program \in Programs, NEW r, Good(r), NEW s, Good(s), Shrinks(r, s),
         NEW d \in Cons, LeavesAlone(d, r, s), SwitchedOff(s, d)
  PROVE  SwitchedOff(r, d)
<1>1. r \in States(Vars, Ids, {r.mem}, {r.aux}) /\ s \in States(Vars, Ids, {s.mem}, {s.aux})
  BY DEF Good
<1>2. d \in DOMAIN Body
  BY PartsOf
<1>3. ~r.active[<<d, 0>>]
  BY <1>2, OwnParts DEF SwitchedOff, LeavesAlone
<1>4. ASSUME Body[d].kind = "IsClause", r.active[<<d, 1>>], Is(r, Body[d].x[1], 1)
      PROVE  FALSE
  <2>1. Body[d].x[1] \in Views(Vars)
    <3>1. 1 \in DOMAIN Body[d].x
      BY <1>2, <1>4, BodyAssumption
    <3>2. Body[d].x \in Seq(Views(Vars))
      BY PartsOf
    <3> QED
      BY <3>1, <3>2
  <2>2. Is(s, Body[d].x[1], 1)
    BY <1>1, <1>4, <2>1, IsOn
  <2>3. s.active[<<d, 1>>]
    BY <1>2, <1>4, OwnParts DEF LeavesAlone
  <2> QED
    BY <1>4, <2>2, <2>3 DEF SwitchedOff
<1>5. ASSUME Body[d].kind = "LexLeq",
             NEW n \in (Len(Body[d].x) + 1)..Body[d].parts, r.active[<<d, n>>],
             <<d, n>> \in Alert(r), <<d, n>> \in Parts(d)
      PROVE  FALSE
  <2>1. <<d, n>> \in Alert(s)
    BY <1>1, <1>5, AlertOn
  <2>2. s.active[<<d, n>>]
    BY <1>5 DEF LeavesAlone
  <2> QED
    BY <1>5, <2>1, <2>2 DEF SwitchedOff
<1>6. \A n \in (Len(Body[d].x) + 1)..Body[d].parts : <<d, n>> \in Parts(d)
  <2>1. Len(Body[d].x) \in Nat /\ Body[d].parts \in Nat
    BY <1>2, PartsOf, BodyAssumption
  <2>2. (Len(Body[d].x) + 1)..Body[d].parts \subseteq 1..Body[d].parts
    BY <2>1
  <2> QED
    BY <1>2, <2>2, OwnParts
<1>7. QED
  BY <1>3, <1>4, <1>5, <1>6 DEF SwitchedOff

LEMMA LeftShrinks ==
  ASSUME program \in Programs, NEW r, Good(r), NEW s, Shrinks(r, s)
  PROVE  LeftIn(s) \subseteq LeftIn(r)
<1>1. \A x \in Vars : s.dom[x] \subseteq r.dom[x]
  BY GoodFields DEF Shrinks
<1> SUFFICES ASSUME NEW a \in LeftIn(s)
             PROVE  a \in LeftIn(r)
  OBVIOUS
<1>2. a \in [Vars -> Values] /\ \A x \in Vars : a[x] \in s.dom[x]
  BY DEF LeftIn, Fits
<1>3. \A x \in Vars : a[x] \in r.dom[x]
  BY <1>1, <1>2
<1>4. QED
  BY <1>2, <1>3 DEF LeftIn, Fits

LEMMA WantedIsLeft ==
  ASSUME NEW a \in [Vars -> Values], NEW r, Fits(a, r.dom)
  PROVE  a \in LeftIn(r)
BY DEF LeftIn

LEMMA SureOn ==
  ASSUME program \in Programs, NEW r, Good(r), NEW s, Good(s), Shrinks(r, s),
         NEW P \in SUBSET Cons, \A d \in P : LeavesAlone(d, r, s), Sure(r, P)
  PROVE  Sure(s, P)
<1> SUFFICES ASSUME NEW d \in P, SwitchedOff(s, d), NEW a \in LeftIn(s)
             PROVE  holds(a, d)
  BY DEF Sure
<1>1. SwitchedOff(r, d)
  BY OffBack
<1>2. a \in LeftIn(r)
  BY LeftShrinks
<1>3. QED
  BY <1>1, <1>2 DEF Sure

LEMMA Apart ==
  ASSUME program \in Programs, NEW c, NEW r, NEW s, KeepsToItself(c, r, s), NEW d \in Cons, d # c
  PROVE  LeavesAlone(d, r, s)
<1>1. Parts(d) \subseteq Ids
  BY PartsOf
<1>2. Parts(d) \cap Parts(c) = {}
  BY PartsApart DEF Parts
<1>3. \A i \in Parts(d) : s.active[i] = r.active[i]
  BY <1>1, <1>2 DEF KeepsToItself
<1>4. \A t \in Listening(r) : t[3] \in Parts(d) => t \in Listening(s)
  BY <1>2 DEF KeepsToItself
<1>5. QED
  BY <1>3, <1>4 DEF LeavesAlone

LEMMA WakesApart ==
  ASSUME NEW r, NEW s, Wakes(r, s), NEW d
  PROVE  LeavesAlone(d, r, s)
<1>1. Listening(s) = Listening(r) /\ s.active = r.active
  BY HeardSame DEF Wakes
<1>2. QED
  BY <1>1 DEF LeavesAlone

LEMMA OwnedOn ==
  ASSUME NEW c, NEW r, NEW s, KeepsToItself(c, r, s), NEW P, Owned(r, P)
  PROVE  Owned(s, P \cup {c})
<1>1. Parts(c) \subseteq IdsOf(P \cup {c}) /\ IdsOf(P) \subseteq IdsOf(P \cup {c})
  BY DEF IdsOf
<1>2. Heard(r) \subseteq IdsOf(P \cup {c}) /\ Entries(r) \subseteq IdsOf(P \cup {c})
  BY <1>1 DEF Owned
<1>3. ASSUME NEW t \in Listening(s)
      PROVE  t[3] \in Parts(c) \cup Heard(r)
  BY <1>3 DEF KeepsToItself, Heard
<1>4. Heard(s) \subseteq Parts(c) \cup Heard(r)
  BY <1>3 DEF Heard
<1>5. Alert(s) \subseteq Heard(s)
  BY DEF Alert, Heard
<1>6. Entries(s) \subseteq IdsOf(P \cup {c})
  BY <1>1, <1>2, <1>4, <1>5 DEF KeepsToItself
<1>7. QED
  BY <1>1, <1>2, <1>4, <1>6 DEF Owned

LEMMA OwnedWakes ==
  ASSUME NEW r, NEW s, Wakes(r, s), NEW P, Owned(r, P)
  PROVE  Owned(s, P)
<1>1. Heard(s) = Heard(r)
  BY HeardSame DEF Wakes
<1>2. Alert(s) \subseteq Heard(s)
  BY DEF Alert, Heard
<1>3. QED
  BY <1>1, <1>2 DEF Wakes, Queues, Owned

(* What a call of a method of c makes of the path.                            *)
LEMMA CallOn ==
  ASSUME program \in Programs, NEW r, Good(r), NEW s, Good(s), Shrinks(r, s),
         NEW c \in Cons, NEW P \in SUBSET Cons, KeepsToItself(c, r, s), Infers(c, r, s),
         Owned(r, P), Sure(r, P \ {c}),
         NEW W, Meant(W, P), Meant(W, {c}), Keeping(W, r)
  PROVE  /\ Owned(s, P \cup {c}) /\ Meant(W, P \cup {c})
         /\ s.failed => W = {}
         /\ ~s.failed => Keeping(W, s) /\ Sure(s, P \cup {c})
<1>1. Owned(s, P \cup {c})
  BY OwnedOn
<1>2. Meant(W, P \cup {c})
  BY DEF Meant
<1>3. ASSUME NEW a \in W
      PROVE  ~s.failed /\ Fits(a, s.dom)
  <2>1. a \in LeftIn(r) /\ holds(a, c)
    BY WantedIsLeft DEF Meant, Keeping
  <2>2. ASSUME s.dom = r.dom
        PROVE  Fits(a, s.dom)
    BY <2>2 DEF Keeping
  <2> QED
    BY <2>1, <2>2 DEF Infers
<1>4. ASSUME ~s.failed
      PROVE  Sure(s, P \cup {c})
  <2>1. Sure(s, P \ {c})
    <3>1. \A d \in P \ {c} : LeavesAlone(d, r, s)
      BY Apart
    <3>2. P \ {c} \in SUBSET Cons
      OBVIOUS
    <3> QED
      BY <3>1, <3>2, SureOn
  <2>2. SwitchedOff(s, c) => \A a \in LeftIn(s) : holds(a, c)
    BY <1>4 DEF Infers
  <2> QED
    BY <2>1, <2>2 DEF Sure
<1>5. QED
  BY <1>1, <1>2, <1>3, <1>4 DEF Keeping

(* The variables of the next state, when the solver becomes r.                *)
LEMMA PathBecomes ==
  ASSUME NEW r, Becomes(r), program' = program, NEW P, NEW W
  PROVE  /\ Owned(r, P) => Owned(Solver, P)'
         /\ Sure(r, P) => Sure(Solver, P)'
         /\ Keeping(W, r) => Keeping(W, Solver)'
         /\ Meant(W, P) => Meant(W, P)'
<1>1. /\ Solver'.dom = r.dom /\ Solver'.listen = r.listen /\ Solver'.active = r.active
      /\ Solver'.queue = r.queue
  BY DEF Becomes, Solver
<1>2. Vars' = Vars /\ Values' = Values
  BY DEF Vars, Values
<1>3. Heard(Solver)' = Heard(r) /\ Entries(Solver)' = Entries(r)
  BY <1>1 DEF Heard, Listening, Entries
<1>4. Owned(r, P) => Owned(Solver, P)'
  BY <1>3 DEF Owned
<1>5. \A a : Fits(a, Solver.dom)' <=> Fits(a, r.dom)
  BY <1>1, <1>2 DEF Fits
<1>6. LeftIn(Solver)' = LeftIn(r)
  BY <1>1, <1>2 DEF LeftIn, Fits
<1>7. ASSUME NEW c
      PROVE  SwitchedOff(Solver, c)' <=> SwitchedOff(r, c)
  BY <1>1 DEF SwitchedOff, Is, Dom, Alert, Listening
<1>8. Sure(r, P) => Sure(Solver, P)'
  BY <1>6, <1>7 DEF Sure
<1>9. Keeping(W, r) => Keeping(W, Solver)'
  BY <1>5 DEF Keeping
<1>10. Meant(W, P) => Meant(W, P)'
  BY <1>2 DEF Meant
<1>11. QED
  BY <1>4, <1>8, <1>9, <1>10

LEMMA PathNext ==
  ASSUME NEW r, Becomes(r), program' = program, Owned(r, posted'), Meant(wanted', posted'),
         \A k \in DOMAIN agenda' : Meant(wanted', {agenda'[k].c}),
         pc' = "failed" => wanted' = {},
         pc' # "failed" => Keeping(wanted', r),
         pc' \notin {"failed", "aborted"} => Sure(r, posted')
  PROVE  Path'
<1>1. PICK P : P = posted'
  OBVIOUS
<1>2. PICK W : W = wanted'
  OBVIOUS
<1>3. Owned(Solver, P)' /\ Meant(W, P)'
  BY <1>1, <1>2, PathBecomes
<1>4. /\ pc' # "failed" => Keeping(W, Solver)'
      /\ pc' \notin {"failed", "aborted"} => Sure(Solver, P)'
  BY <1>1, <1>2, PathBecomes
<1>5. ASSUME NEW k \in DOMAIN agenda'
      PROVE  Meant(wanted, {agenda[k].c})'
  <2>1. PICK c : c = agenda'[k].c
    OBVIOUS
  <2>2. Meant(W, {c})
    BY <1>2, <1>5, <2>1
  <2>3. Meant(W, {c})'
    BY <2>2, PathBecomes
  <2> QED
    BY <1>2, <2>1, <2>3 DEF Meant
<1>6. Owned(Solver, posted)'
  BY <1>1, <1>3 DEF Owned
<1>7. Meant(wanted, posted)'
  BY <1>1, <1>2, <1>3 DEF Meant
<1>8. /\ pc' # "failed" => Keeping(wanted, Solver)'
      /\ pc' \notin {"failed", "aborted"} => Sure(Solver, posted)'
  BY <1>1, <1>2, <1>4 DEF Keeping, Sure
<1>9. QED
  BY <1>5, <1>6, <1>7, <1>8 DEF Path, Alive

(* Neither the domains nor who listens and who is active.                     *)
Alike(r, s) == s.dom = r.dom /\ s.listen = r.listen /\ s.active = r.active

LEMMA AlikePath ==
  ASSUME NEW r, NEW s, Alike(r, s), NEW P, NEW W
  PROVE  /\ Sure(r, P) => Sure(s, P)
         /\ Keeping(W, r) => Keeping(W, s)
         /\ Entries(s) \subseteq Entries(r) /\ Owned(r, P) => Owned(s, P)
<1>1. Listening(s) = Listening(r) /\ Heard(s) = Heard(r)
  BY HeardSame DEF Alike
<1>2. LeftIn(s) = LeftIn(r)
  BY DEF LeftIn, Alike
<1>3. \A c : SwitchedOff(s, c) <=> SwitchedOff(r, c)
  BY <1>1 DEF SwitchedOff, Is, Dom, Alert, Alike
<1>4. Sure(r, P) => Sure(s, P)
  BY <1>2, <1>3 DEF Sure
<1>5. QED
  BY <1>1, <1>4 DEF Keeping, Owned, Alike

LEMMA DrainedAlike ==
  ASSUME NEW r, Good(r)
  PROVE  Alike(r, Drained(r)) /\ Entries(Drained(r)) = {}
<1> DEFINE none == [p \in {CLOW, CHIGH} |-> <<>>]
           off == [i \in DOMAIN r.scheduled |-> r.scheduled[i] /\ \A p \in {CLOW, CHIGH} :
                                  \A k \in DOMAIN r.queue[p] : r.queue[p][k] # i]
           s == [r EXCEPT !.queue = none, !.scheduled = off]
<1>1. r \in States(Vars, Ids, {r.mem}, {r.aux})
  BY DEF Good
<1>2. Drained(r) = s
  BY <1>1 DEF Drained, States
<1> HIDE DEF none, off
<1>3. s.dom = r.dom /\ s.listen = r.listen /\ s.active = r.active /\ s.queue = none
  BY <1>1 DEF States
<1> HIDE DEF s
<1>4. Entries(s) = {}
  BY <1>3 DEF Entries, none
<1>5. QED
  BY <1>2, <1>3, <1>4 DEF Alike

LEMMA RanPath ==
  ASSUME IInv, Path, NEW r, Good(r), Ran(r), program' = program, posted' = posted,
         Owned(r, posted), wanted' \subseteq wanted,
         r.failed => wanted' = {},
         ~r.failed => Keeping(wanted', r) /\ Sure(r, posted)
  PROVE  Path'
<1>1. Meant(wanted', posted')
  BY DEF Path, Meant
<1>2. CASE r.failed
  <2>1. Becomes(Drained(r)) /\ pc' = "failed" /\ agenda' = <<>>
    BY <1>2 DEF Ran
  <2>2. Owned(Drained(r), posted')
    BY DrainedAlike, AlikePath
  <2> QED
    BY <1>1, <1>2, <2>1, <2>2, PathNext
<1>3. CASE ~r.failed
  <2>1. Becomes(r) /\ pc' = "loop" /\ agenda' = agenda
    BY <1>3 DEF Ran
  <2>2. \A k \in DOMAIN agenda' : Meant(wanted', {agenda'[k].c})
    BY <2>1 DEF Path, Meant
  <2> QED
    BY <1>1, <1>3, <2>1, <2>2, PathNext
<1>4. QED
  BY <1>2, <1>3

(* The solver without the entry it takes.                                     *)
LEMMA PoppedAlike ==
  ASSUME Good(Solver), queue[Turn] # <<>>
  PROVE  Alike(Solver, Popped) /\ Entries(Popped) \subseteq Waiting /\ Taken \in Waiting
<1> DEFINE q == queue[Turn]
           u == [queue EXCEPT ![Turn] = Tail(q)]
           f == [scheduled EXCEPT ![Taken] = FALSE]
<1>1. Turn \in {CLOW, CHIGH} /\ queue \in [{CLOW, CHIGH} -> Seq(Ids)]
  <2>1. Solver.queue \in [{CLOW, CHIGH} -> Seq(Ids)] /\ Solver.queue = queue
    BY GoodFields DEF Solver
  <2> QED
    BY <2>1 DEF Turn
<1>2. q \in Seq(Ids) /\ q # <<>> /\ Taken = Head(q)
  BY <1>1 DEF Taken
<1>3. 1 \in DOMAIN q /\ Taken = q[1]
  BY <1>2
<1>4. Taken \in Waiting
  BY <1>1, <1>3 DEF Waiting
<1>5. \A k \in DOMAIN Tail(q) : k + 1 \in DOMAIN q /\ Tail(q)[k] = q[k + 1]
  BY <1>2
<1>6. /\ Popped.dom = dom /\ Popped.listen = listen /\ Popped.active = active
      /\ Popped.queue = u
  BY DEF Popped, Solver
<1>7. \A p \in {CLOW, CHIGH} : u[p] = IF p = Turn THEN Tail(q) ELSE queue[p]
  BY <1>1
<1> HIDE DEF u
<1>8. ASSUME NEW p \in {CLOW, CHIGH}, NEW k \in DOMAIN u[p]
      PROVE  u[p][k] \in Waiting
  <2>1. CASE p = Turn
    <3>1. k + 1 \in DOMAIN q /\ u[p][k] = q[k + 1]
      BY <1>5, <1>7, <1>8, <2>1
    <3> QED
      BY <1>1, <3>1 DEF Waiting
  <2>2. CASE p # Turn
    BY <1>7, <1>8, <2>2 DEF Waiting
  <2> QED
    BY <2>1, <2>2
<1>9. Entries(Popped) \subseteq Waiting
  BY <1>6, <1>8 DEF Entries
<1>10. QED
  BY <1>4, <1>6, <1>9 DEF Alike, Solver

LEMMA StepPath ==
  ASSUME IInv, Path, OnlyNarrows, OnlyInfers, Step
  PROVE  Path'
<1> DEFINE r == IF active[Taken] THEN propagate(Popped, Taken) ELSE Popped
<1>1. /\ pc = "loop" /\ queue[Turn] # <<>> /\ Ran(r)
      /\ program' = program /\ posted' = posted /\ wanted' = wanted
  BY DEF Step
<1>2. Good(Solver) /\ Good(Popped) /\ Waiting = Entries(Solver) /\ Popped.failed = FALSE
  BY <1>1, GoodPopped, InvariantTypes DEF IInv, Popped, Solver
<1>3. Alike(Solver, Popped) /\ Entries(Popped) \subseteq Entries(Solver) /\ Taken \in Waiting
  BY <1>1, <1>2, PoppedAlike
<1>4. PICK c \in posted : Taken \in Parts(c)
  BY <1>2, <1>3 DEF Path, Owned, IdsOf
<1>5. Taken[1] = c /\ c \in Cons /\ posted \subseteq Cons /\ program \in Programs
  BY <1>4 DEF Parts, IInv, Control
<1>6. Owned(Popped, posted) /\ Sure(Popped, posted) /\ Keeping(wanted, Popped)
  BY <1>1, <1>3, AlikePath DEF Path, Alive
<1>7. CASE active[Taken]
  <2>1. /\ Modest(Popped, r)
        /\ KeepsToItself(c, Popped, r) /\ Infers(c, Popped, r)
    BY <1>1, <1>3, <1>5, <1>7 DEF OnlyNarrows, OnlyInfers
  <2> HIDE DEF r
  <2>2. Good(r) /\ Shrinks(Popped, r)
    BY <1>2, <2>1, GoodModest DEF Modest, Narrows
  <2>3. Sure(Popped, posted \ {c}) /\ posted \cup {c} = posted
    BY <1>4, <1>6 DEF Sure
  <2>4. Meant(wanted, posted) /\ Meant(wanted, {c})
    BY <1>4 DEF Path, Meant
  <2>5. posted \in SUBSET Cons
    BY <1>5
  <2>6. /\ Owned(r, posted) /\ (r.failed => wanted = {})
        /\ ~r.failed => Keeping(wanted, r) /\ Sure(r, posted)
    BY <1>2, <1>5, <1>6, <2>1, <2>2, <2>3, <2>4, <2>5, CallOn
  <2> QED
    BY <1>1, <2>2, <2>6, RanPath
<1>8. CASE ~active[Taken]
  <2>1. r = Popped
    BY <1>8
  <2> QED
    BY <1>1, <1>2, <1>6, <2>1, RanPath
<1>9. QED
  BY <1>7, <1>8

(* Branching, and the hook, ask for some of the values of a variable.         *)
LEMMA CutKeeps ==
  ASSUME program \in Programs, NEW r, Good(r), ~r.failed, NEW s, Good(s), Shrinks(r, s),
         NEW x \in Vars, NEW K, Cuts(r, s, x, K),
         NEW P \in SUBSET Cons, Owned(r, P), Sure(r, P),
         NEW W, Keeping(W, r), \A a \in W : a[x] \in Int => a[x] \in K
  PROVE  /\ Owned(s, P)
         /\ s.failed => W = {}
         /\ ~s.failed => Keeping(W, s) /\ Sure(s, P)
<1>1. Wakes(r, s) /\ r.dom \in [Vars -> Domains] /\ r.dom[x] \subseteq Int
  <2>1. r.dom \in [Vars -> Domains]
    BY GoodFields
  <2>2. r.dom[x] \in Domains
    BY <2>1
  <2> QED
    BY <2>1, <2>2 DEF Cuts, Domains
<1>2. Owned(s, P)
  BY <1>1, OwnedWakes
<1>3. Sure(s, P)
  <2>1. \A d \in P : LeavesAlone(d, r, s)
    BY <1>1, WakesApart
  <2> QED
    BY <2>1, SureOn
<1>4. \A a \in W : Fits(a, r.dom) /\ a[x] \in r.dom[x] \cap K
  BY <1>1 DEF Keeping, Fits
<1>5. s.failed => W = {}
  BY <1>4 DEF Cuts
<1>6. ASSUME ~s.failed, NEW a \in W
      PROVE  Fits(a, s.dom)
  <2>1. s.dom = [r.dom EXCEPT ![x] = r.dom[x] \cap K]
    BY <1>4, <1>6 DEF Cuts
  <2>2. \A y \in Vars : a[y] \in s.dom[y]
    BY <1>1, <1>4, <1>6, <2>1 DEF Fits
  <2> QED
    BY <2>2 DEF Fits
<1>7. QED
  BY <1>2, <1>3, <1>5, <1>6 DEF Keeping

LEMMA SolverNow ==
  ASSUME IInv, Path, Alive
  PROVE  /\ program \in Programs /\ Good(Solver) /\ ~Solver.failed /\ posted \in SUBSET Cons
         /\ Owned(Solver, posted) /\ Sure(Solver, posted) /\ Keeping(wanted, Solver)
         /\ Identifiers(Ids) /\ Solver \in States(Vars, Ids, {Solver.mem}, {Solver.aux})
<1>1. ~Solver.failed
  BY DEF Solver
<1>2. Good(Solver) /\ program \in Programs /\ posted \subseteq Cons
  BY DEF IInv, Control
<1>3. Identifiers(Ids) /\ Solver \in States(Vars, Ids, {Solver.mem}, {Solver.aux})
  BY <1>2, TheIdentifiers DEF Good
<1>4. QED
  BY <1>1, <1>2, <1>3 DEF Path, Alive

LEMMA BranchPath ==
  ASSUME IInv, Path, Idle, NEW x \in Vars, NEW K, NEW s, Cuts(Solver, s, x, K), Good(s),
         Shrinks(Solver, s), Narrowed(s), UNCHANGED <<program, agenda, posted>>,
         wanted' \subseteq wanted, \A a \in wanted' : a[x] \in Int => a[x] \in K
  PROVE  Path'
<1>1. Becomes(s) /\ pc' = IF s.failed THEN "failed" ELSE "hooks"
  BY DEF Narrowed, Done
<1>2. Alive /\ agenda = <<>>
  BY DEF Idle, IInv, Control, Alive
<1>3. Keeping(wanted', Solver)
  BY <1>2, SolverNow DEF Keeping
<1>4. /\ Owned(s, posted)
      /\ s.failed => wanted' = {}
      /\ ~s.failed => Keeping(wanted', s) /\ Sure(s, posted)
  BY <1>2, <1>3, SolverNow, CutKeeps
<1>5. Meant(wanted', posted')
  BY DEF Path, Meant
<1>6. \A k \in DOMAIN agenda' : Meant(wanted', {agenda'[k].c})
  BY DEF Path, Meant
<1>7. QED
  BY <1>1, <1>4, <1>5, <1>6, PathNext

LEMMA DecidePath ==
  ASSUME IInv, Path, NEW m \in program.moves, Decide(m[1], m[2]) \/ Refute(m[1], m[2])
  PROVE  Path'
<1> DEFINE x == m[1]
           v == m[2]
           s == DomAssign(Solver, x, v)
           t == DomRemove(Solver, x, v)
<1>1. x \in Vars /\ v \in Int /\ Idle /\ Alive
  BY ProgramsAssumption DEF IInv, Vars, Decide, Refute, Idle, Alive
<1>2. Good(s) /\ Good(t)
  BY <1>1, GoodOperations DEF IInv
<1>3. /\ Narrows(States(Vars, Ids, {Solver.mem}, {Solver.aux}), Solver, s) /\ Cuts(Solver, s, x, {v})
      /\ Narrows(States(Vars, Ids, {Solver.mem}, {Solver.aux}), Solver, t) /\ Cuts(Solver, t, x, Int \ {v})
  <2> HIDE DEF x, v
  <2>1. /\ Narrows(States(Vars, Ids, {Solver.mem}, {Solver.aux}), Solver, s)
        /\ Cuts(Solver, s, x, {v})
    BY <1>1, SolverNow, AssignCuts
  <2>2. /\ Narrows(States(Vars, Ids, {Solver.mem}, {Solver.aux}), Solver, t)
        /\ Cuts(Solver, t, x, Int \ {v})
    BY <1>1, SolverNow, RemoveCuts
  <2> QED
    BY <2>1, <2>2
<1>4. Shrinks(Solver, s) /\ Shrinks(Solver, t)
  BY <1>3 DEF Narrows
<1>5. CASE Decide(x, v)
  <2>1. Narrowed(s) /\ wanted' = {a \in wanted : a[x] = v} /\ UNCHANGED <<program, agenda, posted>>
    BY <1>5 DEF Decide
  <2> HIDE DEF s, x, v
  <2>2. wanted' \subseteq wanted /\ \A a \in wanted' : a[x] \in Int => a[x] \in {v}
    BY <2>1
  <2> QED
    BY <1>1, <1>2, <1>3, <1>4, <2>1, <2>2, BranchPath
<1>6. CASE Refute(x, v)
  <2>1. Narrowed(t) /\ wanted' = {a \in wanted : a[x] # v} /\ UNCHANGED <<program, agenda, posted>>
    BY <1>6 DEF Refute
  <2> HIDE DEF t, x, v
  <2>2. wanted' \subseteq wanted /\ \A a \in wanted' : a[x] \in Int => a[x] \in Int \ {v}
    BY <2>1
  <2> QED
    BY <1>1, <1>2, <1>3, <1>4, <2>1, <2>2, BranchPath
<1>7. QED
  BY <1>5, <1>6

LEMMA HooksPath ==
  ASSUME IInv, Path, Hooks
  PROVE  Path'
<1>1. pc = "hooks" /\ Alive /\ program' = program /\ posted' = posted
  BY DEF Hooks, Alive
<1>2. CASE Unbeaten
  <2>1. Ran(Solver) /\ wanted' = wanted
    BY <1>2 DEF Hooks
  <2> QED
    BY <1>1, <2>1, SolverNow, RanPath
<1>3. CASE ~Unbeaten
  <2> DEFINE v == program.obj[1]
             r == IF program.obj[2] = "min" THEN RemoveAbove(Solver, v, primal - 1)
                  ELSE RemoveBelow(Solver, v, primal + 1)
             K == IF program.obj[2] = "min" THEN Seen(v, AtMost(primal - 1))
                  ELSE Seen(v, AtLeast(primal + 1))
  <2>1. Ran(r) /\ wanted' = {a \in wanted : Better(ValueOf(a), primal)}
    BY <1>3 DEF Hooks
  <2>2. primal \in Int /\ primal - 1 \in Int /\ primal + 1 \in Int
    BY DEF IInv, Control
  <2>3. v \in Views(Vars)
    BY <1>3, ProgramsAssumption DEF Unbeaten, Vars, IInv
  <2>4. v[1] \in Vars /\ v[2] \in Int /\ v[3] \in Int
    BY <2>3, ViewFields
  <2>5. Good(r)
    BY <1>3, <2>2, HookCuts DEF IInv
  <2> HIDE DEF v
  <2>6. Cuts(Solver, r, v[1], K) /\ Shrinks(Solver, r)
    <3>1. /\ Cuts(Solver, RemoveAbove(Solver, v, primal - 1), v[1], Seen(v, AtMost(primal - 1)))
          /\ Narrows(States(Vars, Ids, {Solver.mem}, {Solver.aux}), Solver,
                     RemoveAbove(Solver, v, primal - 1))
      BY <1>1, <2>2, <2>3, SolverNow, ViewRemoveAbove
    <3>2. /\ Cuts(Solver, RemoveBelow(Solver, v, primal + 1), v[1], Seen(v, AtLeast(primal + 1)))
          /\ Narrows(States(Vars, Ids, {Solver.mem}, {Solver.aux}), Solver,
                     RemoveBelow(Solver, v, primal + 1))
      BY <1>1, <2>2, <2>3, SolverNow, ViewRemoveBelow
    <3> QED
      BY <3>1, <3>2 DEF Narrows
  <2>7. ASSUME NEW a \in wanted', a[v[1]] \in Int
        PROVE  a[v[1]] \in K
    <3> DEFINE w == v[2] * a[v[1]] + v[3]
    <3>1. w \in Int /\ Better(w, primal)
      BY <2>1, <2>4, <2>7 DEF ValueOf, v
    <3> HIDE DEF w
    <3>2. program.obj[2] = "min" => w \in AtMost(primal - 1)
      BY <2>2, <3>1 DEF Better, AtMost
    <3>3. program.obj[2] # "min" => w \in AtLeast(primal + 1)
      BY <2>2, <3>1 DEF Better, AtLeast
    <3> QED
      BY <2>7, <3>2, <3>3 DEF Seen, w
  <2> HIDE DEF r, K
  <2>8. wanted' \subseteq wanted /\ Keeping(wanted', Solver)
    BY <1>1, <2>1, SolverNow DEF Keeping
  <2>9. /\ Owned(r, posted)
        /\ r.failed => wanted' = {}
        /\ ~r.failed => Keeping(wanted', r) /\ Sure(r, posted)
    BY <1>1, <2>4, <2>5, <2>6, <2>7, <2>8, SolverNow, CutKeeps
  <2> QED
    BY <1>1, <2>1, <2>5, <2>8, <2>9, RanPath
<1>4. QED
  BY <1>2, <1>3

(* A constraint that is new is on, the others are as they were.               *)
LEMMA FreshPath ==
  ASSUME IInv, Path, Alive, NEW call \in TypedCalls
  PROVE  LET f == Fresh(call)
         IN /\ Good(f) /\ f.dom = Solver.dom /\ Shrinks(Solver, f)
            /\ Owned(f, posted) /\ Keeping(wanted, f)
            /\ Sure(f, posted \ {call.c})
            /\ call.rest \/ f.active[<<call.c, 0>>]
<1> DEFINE f == Fresh(call)
           c == call.c
<1>1. c \in Cons /\ program \in Programs /\ Good(Solver)
  BY DEF TypedCalls, IInv
<1>2. CASE call.rest
  <2>1. f = Solver
    BY <1>2 DEF Fresh
  <2>2. Sure(f, posted \ {c})
    BY <2>1, SolverNow DEF Sure
  <2> QED
    BY <1>1, <1>2, <2>1, <2>2, SolverNow, GrowsSelf
<1>3. CASE ~call.rest
  <2> DEFINE on == [i \in DOMAIN active |-> active[i] \/ i[1] = c]
  <2>1. f = New(Solver, c)
    BY <1>3 DEF Fresh
  <2>2. /\ f.dom = dom /\ f.listen = listen /\ f.queue = queue /\ f.active = on
        /\ Solver.dom = dom /\ Solver.listen = listen /\ Solver.queue = queue /\ Solver.active = active
    BY <2>1 DEF New, Solver
  <2>3. Good(f)
    BY <1>1, <2>1, GoodNew
  <2>4. active \in [Ids -> BOOLEAN]
    BY <1>1, <2>2, GoodFields
  <2> HIDE DEF f
  <2>5. Shrinks(Solver, f)
    BY <2>2 DEF Shrinks
  <2>6. \A d \in posted \ {c} : LeavesAlone(d, Solver, f)
    <3> SUFFICES ASSUME NEW d \in posted \ {c}
                 PROVE  LeavesAlone(d, Solver, f)
      OBVIOUS
    <3>1. d \in Cons
      BY DEF IInv, Control
    <3>2. \A i \in Parts(d) : i \in Ids /\ i[1] # c
      BY <1>1, <3>1, PartsOf DEF Parts
    <3>3. \A i \in Parts(d) : f.active[i] = Solver.active[i]
      BY <2>2, <2>4, <3>2
    <3>4. Listening(f) = Listening(Solver)
      BY <2>2, HeardSame
    <3> QED
      BY <3>3, <3>4 DEF LeavesAlone
  <2>7. Sure(f, posted \ {c})
    <3>1. Sure(Solver, posted \ {c}) /\ posted \ {c} \in SUBSET Cons
      BY SolverNow DEF Sure
    <3> QED
      BY <1>1, <2>3, <2>5, <2>6, <3>1, SureOn
  <2>8. Owned(f, posted)
    <3>1. Heard(f) = Heard(Solver) /\ Entries(f) = Entries(Solver)
      BY <2>2, HeardSame DEF Entries
    <3> QED
      BY <3>1, SolverNow DEF Owned
  <2>9. Keeping(wanted, f)
    BY <2>2, SolverNow DEF Keeping
  <2>10. f.active[<<c, 0>>]
    <3>1. <<c, 0>> \in Ids
      BY <1>1, PartsOf, OwnParts
    <3> QED
      BY <2>2, <2>4, <3>1
  <2> QED
    BY <2>2, <2>3, <2>5, <2>7, <2>8, <2>9, <2>10 DEF f
<1>4. QED
  BY <1>2, <1>3

(* What the constraints that c posts mean follows from c.                     *)
LEMMA CallsMeant ==
  ASSUME program \in Programs, NEW c \in Cons, NEW fix, NEW W, Meant(W, {c})
  PROVE  \A k \in DOMAIN Calls(c, fix) : Meant(W, {Calls(c, fix)[k].c})
<1> DEFINE q == Body[c].inner
           inner == [k \in DOMAIN q |-> [c |-> q[k], fix |-> TRUE, rest |-> FALSE]]
           last == [c |-> c, fix |-> fix, rest |-> TRUE]
<1>1. q \in Seq(DOMAIN Body)
  BY PartsOf, BodyAssumption
<1>2. Len(q) \in Nat /\ DOMAIN q = 1..Len(q)
  BY <1>1
<1>3. ASSUME NEW k \in DOMAIN q
      PROVE  Meant(W, {q[k]})
  <2>1. \A a \in [Vars -> Values] : holds(a, c) => holds(a, q[k])
    BY <1>3, InnerAssumption DEF Cons, Vars, Values
  <2> QED
    BY <2>1 DEF Meant
<1> HIDE DEF q
<1>4. inner \in Seq({inner[k] : k \in 1..Len(q)}) /\ Len(inner) = Len(q)
  <2> DEFINE S == {inner[k] : k \in 1..Len(q)}
  <2>1. DOMAIN inner = 1..Len(q) /\ \A k \in 1..Len(q) : inner[k] \in S
    BY <1>2
  <2>2. inner = [k \in 1..Len(q) |-> inner[k]]
    BY <1>2
  <2> HIDE DEF inner, S
  <2>3. inner \in [1..Len(q) -> S]
    BY <2>1, <2>2
  <2>4. inner \in Seq(S)
    BY <1>2, <2>3, SeqDef
  <2> QED
    BY <1>2, <2>1, <2>4 DEF S
<1>5. Calls(c, fix) = inner \o <<last>>
  BY DEF Calls, q
<1>6. \A k \in 1..Len(q) : inner[k].c = q[k]
  BY <1>2
<1>7. last.c = c
  OBVIOUS
<1> HIDE DEF inner, last
<1>8. ASSUME NEW k \in DOMAIN (inner \o <<last>>)
      PROVE  (k \in 1..Len(q) /\ (inner \o <<last>>)[k] = inner[k]) \/ (inner \o <<last>>)[k] = last
  BY <1>2, <1>4, <1>8
<1>9. ASSUME NEW k \in DOMAIN Calls(c, fix)
      PROVE  Calls(c, fix)[k].c = c \/ \E j \in DOMAIN q : Calls(c, fix)[k].c = q[j]
  BY <1>2, <1>5, <1>6, <1>7, <1>8, <1>9
<1>10. QED
  BY <1>3, <1>9

LEMMA RunPath ==
  ASSUME IInv, Path, Alive, NEW call \in TypedCalls, NEW left \in Seq(TypedCalls),
         ~Nests(call) /\ ~aborts(Fresh(call), call.c) =>
            LET s == post(Fresh(call), call.c)
            IN /\ Modest(Fresh(call), s)
               /\ KeepsToItself(call.c, Fresh(call), s) /\ Infers(call.c, Fresh(call), s),
         Run(call, left), program' = program, posted' = posted \cup {call.c},
         wanted' \subseteq wanted, Meant(wanted', {call.c}),
         \A k \in DOMAIN left : Meant(wanted', {left[k].c})
  PROVE  Path'
<1> DEFINE f == Fresh(call)
           c == call.c
           s == post(f, c)
<1>1. c \in Cons /\ call.fix \in BOOLEAN /\ program \in Programs /\ posted \in SUBSET Cons
  BY DEF TypedCalls, IInv, Control
<1>2. /\ Good(f) /\ Owned(f, posted) /\ Keeping(wanted, f) /\ Sure(f, posted \ {c})
      /\ call.rest \/ f.active[<<c, 0>>]
  BY FreshPath
<1>3. Keeping(wanted', f)
  BY <1>2 DEF Keeping
<1>4. Meant(wanted', posted)
  BY DEF Path, Meant
<1>5. Meant(wanted', posted')
  BY <1>4 DEF Meant
<1>6. CASE Nests(call)
  <2> DEFINE q == Calls(c, call.fix)
  <2>1. Becomes(f) /\ pc' = "resume" /\ agenda' = q \o left
    BY <1>6 DEF Run
  <2>2. q \in Seq(TypedCalls)
    BY <1>1, CallsTyped
  <2>3. \A k \in DOMAIN q : Meant(wanted', {q[k].c})
    <3>1. PICK W : W = wanted'
      OBVIOUS
    <3>2. \A k \in DOMAIN Calls(c, call.fix) : Meant(W, {Calls(c, call.fix)[k].c})
      BY <1>1, <3>1, CallsMeant
    <3> QED
      BY <3>1, <3>2
  <2> HIDE DEF q
  <2>4. ASSUME NEW k \in DOMAIN (q \o left)
        PROVE  \/ k \in DOMAIN q /\ (q \o left)[k] = q[k]
               \/ k - Len(q) \in DOMAIN left /\ (q \o left)[k] = left[k - Len(q)]
    BY <2>2, <2>4
  <2>5. \A k \in DOMAIN (q \o left) : Meant(wanted', {(q \o left)[k].c})
    BY <2>3, <2>4
  <2>6. \A k \in DOMAIN agenda' : Meant(wanted', {agenda'[k].c})
    BY <2>1, <2>5
  <2>7. Owned(f, posted')
    BY <1>2 DEF Owned, IdsOf
  <2>8. Sure(f, posted')
    <3>1. ~SwitchedOff(f, c)
      BY <1>2, <1>6 DEF Nests, SwitchedOff
    <3> QED
      BY <1>2, <3>1 DEF Sure
  <2> QED
    BY <1>3, <1>5, <2>1, <2>6, <2>7, <2>8, PathNext
<1>7. CASE ~Nests(call) /\ aborts(f, c)
  <2>1. Becomes(f) /\ pc' = "aborted" /\ agenda' = <<>>
    BY <1>7 DEF Run
  <2>2. Owned(f, posted')
    BY <1>2 DEF Owned, IdsOf
  <2>3. \A k \in DOMAIN agenda' : Meant(wanted', {agenda'[k].c})
    BY <2>1
  <2> HIDE DEF f
  <2> QED
    BY <1>3, <1>5, <2>1, <2>2, <2>3, PathNext
<1>8. CASE ~Nests(call) /\ ~aborts(f, c)
  <2>1. /\ Becomes(s) /\ pc' = Done(s, call.fix \/ s.asked, left)
        /\ agenda' = IF s.failed THEN <<>> ELSE left
    BY <1>8 DEF Run
  <2>2. Modest(f, s) /\ KeepsToItself(c, f, s) /\ Infers(c, f, s)
    BY <1>8
  <2> HIDE DEF f, s
  <2>3. Good(s) /\ Shrinks(f, s)
    BY <1>2, <2>2, GoodModest DEF Modest, Narrows
  <2>4. PICK W : W = wanted'
    OBVIOUS
  <2>5. /\ Owned(s, posted \cup {c}) /\ Meant(W, posted \cup {c})
        /\ s.failed => W = {}
        /\ ~s.failed => Keeping(W, s) /\ Sure(s, posted \cup {c})
    BY <1>1, <1>2, <1>3, <1>4, <2>2, <2>3, <2>4, CallOn
  <2>6. \A k \in DOMAIN agenda' : Meant(wanted', {agenda'[k].c})
    BY <2>1
  <2>7. pc' = "failed" <=> s.failed
    BY <2>1 DEF Done
  <2> QED
    BY <1>5, <2>1, <2>4, <2>5, <2>6, <2>7, PathNext
<1>9. QED
  BY <1>6, <1>7, <1>8

LEMMA PostPath ==
  ASSUME IInv, Path, OnlyNarrows, OnlyInfers, NEW c \in program.cons, NEW fix \in BOOLEAN,
         PostConstraint(c, fix)
  PROVE  Path'
<1> DEFINE call == Call(c, fix)
<1>1. /\ Run(call, <<>>) /\ program' = program /\ posted' = posted \cup {c} /\ Idle
      /\ wanted' = {a \in wanted : holds(a, c)} /\ c \notin posted
  BY DEF PostConstraint
<1>2. call \in TypedCalls /\ call.c = c
  BY DEF Call, TypedCalls, Cons, ConsOf
<1>3. ~Nests(call) /\ ~aborts(Fresh(call), call.c) =>
         LET s == post(Fresh(call), call.c)
         IN /\ Modest(Fresh(call), s)
            /\ KeepsToItself(call.c, Fresh(call), s) /\ Infers(call.c, Fresh(call), s)
  <2>1. Fresh(call) = Fresh(Call(c, TRUE)) /\ (Nests(call) <=> Nests(Call(c, TRUE)))
        /\ Call(c, TRUE).c = c
    BY DEF Fresh, Nests, Call
  <2>2. ~Nests(Call(c, TRUE)) /\ ~aborts(Fresh(Call(c, TRUE)), c) => Call(c, TRUE) \in Posts
    BY <1>1, <2>1 DEF Posts
  <2> QED
    BY <1>2, <2>1, <2>2 DEF OnlyNarrows, OnlyInfers
<1>4. <<>> \in Seq(TypedCalls) /\ DOMAIN <<>> = {}
  OBVIOUS
<1>5. wanted' \subseteq wanted /\ Meant(wanted', {c})
  BY <1>1 DEF Path, Meant
<1>6. Alive
  BY <1>1 DEF Idle, Alive
<1> HIDE DEF call
<1>7. QED
  BY <1>1, <1>2, <1>3, <1>4, <1>5, <1>6, RunPath

LEMMA ResumePath ==
  ASSUME IInv, Path, OnlyNarrows, OnlyInfers, Resume
  PROVE  Path'
<1> DEFINE call == Head(agenda)
           left == Tail(agenda)
<1>1. /\ pc = "resume" /\ Run(call, left) /\ program' = program
      /\ posted' = posted \cup {call.c} /\ wanted' = wanted
  BY DEF Resume
<1>2. agenda \in Seq(TypedCalls) /\ agenda # <<>>
  BY <1>1 DEF IInv, Control, TypedCalls
<1>3. call \in TypedCalls /\ left \in Seq(TypedCalls)
  BY <1>2
<1>4. /\ 1 \in DOMAIN agenda /\ call = agenda[1]
      /\ \A k \in DOMAIN left : k + 1 \in DOMAIN agenda /\ left[k] = agenda[k + 1]
  BY <1>2
<1>5. ~Nests(call) /\ ~aborts(Fresh(call), call.c) =>
         LET s == post(Fresh(call), call.c)
         IN /\ Modest(Fresh(call), s)
            /\ KeepsToItself(call.c, Fresh(call), s) /\ Infers(call.c, Fresh(call), s)
  BY <1>1 DEF OnlyNarrows, OnlyInfers, Posts, Idle
<1> HIDE DEF call, left
<1>6. Meant(wanted', {call.c}) /\ \A k \in DOMAIN left : Meant(wanted', {left[k].c})
  BY <1>1, <1>4 DEF Path
<1>7. Alive
  BY <1>1 DEF Alive
<1>8. QED
  BY <1>1, <1>3, <1>5, <1>6, <1>7, RunPath

(* The steps that leave the solver as it is.                                  *)
LEMMA StillPath ==
  ASSUME Path, UNCHANGED <<program, solver, posted>>, wanted' \subseteq wanted,
         agenda' = agenda, pc' = "failed" => wanted' = {},
         pc \in {"failed", "aborted"} => pc' \in {"failed", pc}
  PROVE  Path'
<1>1. Becomes(Solver)
  BY DEF Becomes, Solver, solver
<1>2. Owned(Solver, posted') /\ Meant(wanted', posted')
  BY DEF Path, Meant
<1>3. \A k \in DOMAIN agenda' : Meant(wanted', {agenda'[k].c})
  BY DEF Path, Meant
<1>4. /\ pc' # "failed" => Keeping(wanted', Solver)
      /\ pc' \notin {"failed", "aborted"} => Sure(Solver, posted')
  BY DEF Path, Keeping, Alive
<1>5. QED
  BY <1>1, <1>2, <1>3, <1>4, PathNext

LEMMA RestorePath ==
  ASSUME SInv, RestoreState, Waiting = {}
  PROVE  Path'
<1> DEFINE n == Len(saved)
           top == saved[n]
           r == [dom |-> top.dom, listen |-> top.listen, queue |-> queue, scheduled |-> scheduled,
                 active |-> top.active, mem |-> top.mem, aux |-> aux, failed |-> FALSE, asked |-> FALSE]
<1>1. /\ pc \in {"open", "rest", "failed"} /\ saved # <<>> /\ pc' = "open"
      /\ dom' = top.dom /\ listen' = top.listen /\ active' = top.active /\ mem' = top.mem
      /\ posted' = top.posted /\ wanted' = top.wanted
      /\ UNCHANGED <<program, queue, scheduled, aux, agenda>>
  BY DEF RestoreState
<1>2. n \in DOMAIN saved
  <2>1. saved \in Seq({saved[k] : k \in DOMAIN saved})
    BY DEF SInv, IInv, Levels
  <2> QED
    BY <1>1, <2>1
<1>3. Sealed(top)
  BY <1>2 DEF SInv
<1>4. agenda' = <<>>
  BY <1>1 DEF SInv, IInv, Control
<1> HIDE DEF top
<1>5. r.dom = top.dom /\ r.listen = top.listen /\ r.active = top.active /\ r.queue = queue
  OBVIOUS
<1>6. Becomes(r)
  BY <1>1 DEF Becomes
<1> HIDE DEF r
<1>7. Alike(top, r)
  BY <1>5 DEF Alike
<1>8. Sure(r, top.posted) /\ Keeping(top.wanted, r)
  BY <1>3, <1>7, AlikePath DEF Sealed
<1>9. Owned(r, top.posted)
  <2>1. Entries(r) = {}
    BY <1>5 DEF Entries, Waiting
  <2>2. Heard(r) = Heard(top)
    BY <1>5, HeardSame
  <2> QED
    BY <1>3, <2>1, <2>2 DEF Owned, Sealed
<1>10. \A k \in DOMAIN agenda' : Meant(wanted', {agenda'[k].c})
  BY <1>4
<1>11. QED
  BY <1>1, <1>3, <1>6, <1>8, <1>9, <1>10, PathNext DEF Sealed

(* A level keeps what it was sealed with.                                     *)
LEMMA SealedStays ==
  ASSUME NEW f, Sealed(f), program' = program
  PROVE  Sealed(f)'
<1>1. Vars' = Vars /\ Values' = Values
  BY DEF Vars, Values
<1>2. Meant(f.wanted, f.posted)' /\ Keeping(f.wanted, f)'
  BY <1>1 DEF Sealed, Meant, Keeping, Fits
<1>3. LeftIn(f)' = LeftIn(f)
  BY <1>1 DEF LeftIn, Fits
<1>4. Sure(f, f.posted)'
  BY <1>3 DEF Sealed, Sure
<1>5. QED
  BY <1>2, <1>4 DEF Sealed

LEMMA LevelsSealed ==
  ASSUME SInv, program' = program,
         \A k \in DOMAIN saved' : (\E j \in DOMAIN saved : saved'[k] = saved[j]) \/ Sealed(saved'[k])
  PROVE  (\A k \in DOMAIN saved : Sealed(saved[k]))'
<1> SUFFICES ASSUME NEW k \in DOMAIN saved'
             PROVE  Sealed(saved[k])'
  OBVIOUS
<1>1. PICK f : f = saved'[k]
  OBVIOUS
<1>2. Sealed(f)
  BY <1>1 DEF SInv
<1>3. Sealed(f)'
  BY <1>2, SealedStays
<1>4. QED
  BY <1>1, <1>3 DEF Sealed, Keeping, Fits, Meant, Sure, LeftIn

LEMMA SaveSeals ==
  ASSUME SInv, SaveState
  PROVE  Path' /\ (\A k \in DOMAIN saved : Sealed(saved[k]))'
<1> DEFINE f == [dom |-> dom, listen |-> listen, active |-> active, mem |-> mem,
                 posted |-> posted, wanted |-> wanted]
           n == Len(saved)
<1>1. /\ Idle /\ saved' = Append(saved, f) /\ pc' = "open"
      /\ UNCHANGED <<program, solver, agenda, posted, primal, wanted>>
  BY DEF SaveState
<1>2. Alive
  BY <1>1 DEF Idle, Alive
<1>3. Path'
  BY <1>1, <1>2, StillPath DEF SInv, Alive
<1>4. Sealed(f)
  <2>1. /\ f.dom = dom /\ f.listen = listen /\ f.active = active
        /\ f.posted = posted /\ f.wanted = wanted
        /\ Solver.dom = dom /\ Solver.listen = listen /\ Solver.active = active
    BY DEF Solver
  <2> HIDE DEF f
  <2>2. Alike(Solver, f)
    BY <2>1 DEF Alike
  <2>3. Sure(f, posted) /\ Keeping(wanted, f)
    BY <1>2, <2>2, AlikePath DEF SInv, Path, Alive
  <2>4. Heard(f) \subseteq IdsOf(posted)
    <3>1. Heard(f) = Heard(Solver)
      BY <2>1, HeardSame
    <3> QED
      BY <3>1 DEF SInv, Path, Owned
  <2> QED
    BY <2>1, <2>3, <2>4 DEF Sealed, SInv, Path
<1> HIDE DEF f
<1>5. \A k \in DOMAIN saved' : (\E j \in DOMAIN saved : saved'[k] = saved[j]) \/ Sealed(saved'[k])
  <2>1. saved \in Seq({saved[k] : k \in DOMAIN saved})
    BY DEF SInv, IInv, Levels
  <2>2. DOMAIN saved' = 1..(n + 1) /\ saved'[n + 1] = f /\ n \in Nat
        /\ DOMAIN saved = 1..n /\ \A k \in 1..n : saved'[k] = saved[k]
    BY <1>1, <2>1
  <2> HIDE DEF n
  <2>3. ASSUME NEW k \in 1..(n + 1)
        PROVE  k \in 1..n \/ k = n + 1
    BY <2>2
  <2> QED
    BY <1>4, <2>2, <2>3
<1>6. (\A k \in DOMAIN saved : Sealed(saved[k]))'
  BY <1>1, <1>5, LevelsSealed
<1>7. QED
  BY <1>3, <1>6

LEMMA RestoreSeals ==
  ASSUME SInv, RestoreState
  PROVE  (\A k \in DOMAIN saved : Sealed(saved[k]))'
<1> DEFINE n == Len(saved)
<1>1. saved # <<>> /\ saved' = SubSeq(saved, 1, n - 1) /\ program' = program
  BY DEF RestoreState
<1>2. saved \in Seq({saved[k] : k \in DOMAIN saved})
  BY DEF SInv, IInv, Levels
<1>3. DOMAIN saved' = 1..(n - 1) /\ DOMAIN saved = 1..n /\ n \in Nat
      /\ \A k \in 1..(n - 1) : saved'[k] = saved[k]
  BY <1>1, <1>2
<1> HIDE DEF n
<1>4. \A k \in DOMAIN saved' : \E j \in DOMAIN saved : saved'[k] = saved[j]
  BY <1>3
<1>5. QED
  BY <1>1, <1>4, LevelsSealed

LEMMA PathInitially ==
  ASSUME Init
  PROVE  SInv
<1>1. IInv
  BY Initially
<1>2. dom = program.dom /\ \A a \in wanted : a \in [Vars -> Values] /\ Fits(a, program.dom)
  BY DEF Init
<1>3. Solver.dom = dom /\ Solver.listen = listen /\ Solver.queue = queue
  BY DEF Solver
<1>4. Heard(Solver) = {}
  <2>1. \A x \in DOMAIN listen, l \in Lists : listen[x][l] = <<>>
    BY DEF Init
  <2>2. \A x \in DOMAIN listen, l \in Lists : DOMAIN listen[x][l] = {}
    BY <2>1
  <2>3. Listening(Solver) = {}
    BY <1>3, <2>2 DEF Listening
  <2> QED
    BY <2>3 DEF Heard
<1>5. Entries(Solver) = {}
  <2>1. \A p \in {CLOW, CHIGH} : DOMAIN queue[p] = {}
    BY DEF Init
  <2> QED
    BY <1>3, <2>1 DEF Entries
<1>6. posted = {} /\ agenda = <<>> /\ saved = <<>> /\ pc = "open"
  BY DEF Init
<1>7. Owned(Solver, posted) /\ Sure(Solver, posted)
  BY <1>4, <1>5, <1>6 DEF Owned, Sure
<1>8. Meant(wanted, posted) /\ Keeping(wanted, Solver)
  BY <1>2, <1>3, <1>6 DEF Meant, Keeping
<1>9. DOMAIN agenda = {} /\ DOMAIN saved = {}
  BY <1>6
<1>10. QED
  BY <1>1, <1>6, <1>7, <1>8, <1>9 DEF SInv, Path

LEMMA SearchInductive ==
  ASSUME SInv, OnlyNarrows, OnlyInfers, [TidyNext]_vars
  PROVE  SInv'
<1>1. IInv'
  BY AnySpec, Inductive DEF SInv
<1>2. ASSUME UNCHANGED <<program, saved>>
      PROVE  (\A k \in DOMAIN saved : Sealed(saved[k]))'
  BY <1>2, LevelsSealed
<1>3. CASE Fixpoint
  <2>1. CASE Hooks
    BY <1>1, <1>2, <2>1, HooksPath DEF SInv, Hooks
  <2>2. CASE Step
    BY <1>1, <1>2, <2>2, StepPath DEF SInv, Step
  <2>3. CASE Finish
    <3>1. Path'
      BY <2>3, StillPath DEF SInv, Finish
    <3> QED
      BY <1>1, <1>2, <2>3, <3>1 DEF SInv, Finish
  <2>4. CASE Resume
    BY <1>1, <1>2, <2>4, ResumePath DEF SInv, Resume
  <2> QED
    BY <1>3, <2>1, <2>2, <2>3, <2>4 DEF Fixpoint
<1>4. CASE Branch
  <2>1. CASE Tighten
    <3>1. Path'
      BY <2>1, StillPath DEF SInv, Tighten
    <3> QED
      BY <1>1, <1>2, <2>1, <3>1 DEF SInv, Tighten
  <2>2. CASE \E m \in program.moves : Decide(m[1], m[2]) \/ Refute(m[1], m[2])
    BY <1>1, <1>2, <2>2, DecidePath DEF SInv, Decide, Refute
  <2> QED
    BY <1>4, <2>1, <2>2 DEF Branch
<1>5. CASE \E c \in program.cons, fix \in BOOLEAN : PostConstraint(c, fix)
  BY <1>1, <1>2, <1>5, PostPath DEF SInv, PostConstraint
<1>6. CASE SaveState
  BY <1>1, <1>6, SaveSeals DEF SInv
<1>7. CASE Waiting = {} /\ RestoreState
  BY <1>1, <1>7, RestorePath, RestoreSeals DEF SInv
<1>8. CASE UNCHANGED vars
  <2>1. Path'
    BY <1>8, StillPath DEF SInv, Path, vars
  <2> QED
    BY <1>1, <1>2, <1>8, <2>1 DEF SInv, vars
<1>9. QED
  BY <1>3, <1>4, <1>5, <1>6, <1>7, <1>8 DEF TidyNext

LEMMA SearchEverywhere == TidySpec /\ []OnlyNarrows /\ []OnlyInfers => []SInv
<1>1. Init => SInv
  BY PathInitially
<1>2. SInv /\ OnlyNarrows /\ OnlyInfers /\ [TidyNext]_vars => SInv'
  BY SearchInductive
<1>3. QED
  BY <1>1, <1>2, PTL DEF TidySpec

(* Propagation loses no solution.  As long as each method of a constraint     *)
(* infers only what that constraint says (OnlyInfers), no order of posts,     *)
(* wake-ups, failures, levels opened and restored, and no bound put back by   *)
(* the objective's hook ever removes an assignment that meets everything      *)
(* asked on the path, and a failure means that there is none.                 *)
THEOREM NoSolutionLostHolds == TidySpec /\ []OnlyNarrows /\ []OnlyInfers => []NoSolutionLost
<1>1. SInv => NoSolutionLost
  BY DEF SInv, Path, Keeping, NoSolutionLost, Solver
<1>2. QED
  BY <1>1, SearchEverywhere, PTL

(* A constraint that is switched off is entailed, not only when it switches   *)
(* itself off but for as long as it stays so, whatever other constraints and  *)
(* restored levels make of the domains meanwhile.                             *)
THEOREM InactiveIsEntailedHolds == TidySpec /\ []OnlyNarrows /\ []OnlyInfers => []InactiveIsEntailed
<1>1. SInv => InactiveIsEntailed
  BY DEF SInv, Path, Sure, InactiveIsEntailed, Left, Alive
<1>2. QED
  BY <1>1, SearchEverywhere, PTL
================================================================================
