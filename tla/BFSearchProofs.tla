----------------------------- MODULE BFSearchProofs -----------------------------
(* Proofs about BFSearch and its Tracer, for every tree, every pool, every    *)
(* order of the frontier's equals and any number of calls of solve() unless a *)
(* theorem says otherwise.  Three invariants, each on top of the one before:  *)
(*    Base      the lists are counted, frozen and recycled as the command     *)
(*              stack, the checkpoints and the frontier need them             *)
(*    Told      the constraints in force are those recorded for the node      *)
(*    Reckoned  nodes and solutions add up to the tree                        *)
(* and beside them Levelled and Numbered, for the levels of the Trailer in the  *)
(* first call.                                                                *)
EXTENDS BFSearch, IntervalLemmas, SequenceTheorems

(* The states of a tracer.                                                    *)
Constraints == [at : Seq(Nat), k : Nat, low : Costs]
Stores == {S \in SUBSET Constraints : IsFiniteSet(S)}
ListSet == [head : Seq(Constraints), node : Int, refs : Nat, frozen : BOOLEAN]
LevelSet == [id : Int, store : Stores]
Tracers == [lists : Seq(ListSet), pool : Seq(Nat), stack : Seq(Nat), nodes : Int,
            level : Int, frames : Seq(LevelSet), pushes : Nat, store : Stores]

Once(p) == \A i, j \in 1..Len(p) : p[i] = p[j] => i = j

On(p, l) == IF \E i \in 1..Len(p) : p[i] = l THEN 1 ELSE 0

(* The claims on the lists: how many checkpoints refer to each.               *)
Claims == [Nat -> Nat]

Less(m, p) == [l \in Nat |-> m[l] - On(p, l)]
More(m, p) == [l \in Nat |-> m[l] + On(p, l)]

StackOK(s) == /\ \A i \in 1..Len(s.stack) : s.stack[i] \in 1..Len(s.lists)
              /\ Once(s.stack)

PoolOK(s) == /\ \A i \in 1..Len(s.pool) : /\ s.pool[i] \in 1..Len(s.lists)
                                          /\ s.lists[s.pool[i]].refs = 0
                                          /\ s.lists[s.pool[i]].head = <<>>
             /\ Once(s.pool) /\ Len(s.pool) <= PoolSize

(* Every reference is counted, and a list that is referred to has a node      *)
(* below N, the next one handed out.                                          *)
RefsOK(s, m, N) == /\ \A l \in 1..Len(s.lists) : On(s.stack, l) + m[l] <= s.lists[l].refs
                   /\ \A l \in Nat : m[l] > 0 => l \in 1..Len(s.lists)
                   /\ \A l \in 1..Len(s.lists) : s.lists[l].refs > 0 => s.lists[l].node < N

Counted(s, m, N) == StackOK(s) /\ PoolOK(s) /\ RefsOK(s, m, N)

(* What is claimed is frozen. *)
Iced(s, m) == \A l \in Nat : m[l] > 0 => s.lists[l].frozen

(* From r to s the list l keeps its commands and its node, and stays frozen.  *)
Kept(r, s, l) == /\ l \in 1..Len(s.lists)
                 /\ s.lists[l].head = r.lists[l].head
                 /\ s.lists[l].node = r.lists[l].node
                 /\ r.lists[l].frozen => s.lists[l].frozen

(* Nothing but lists and the pool changes.                                    *)
Aside(r, s) == /\ s.stack = r.stack /\ s.nodes = r.nodes /\ s.level = r.level
               /\ s.frames = r.frames /\ s.pushes = r.pushes /\ s.store = r.store
--------------------------------------------------------------------------------

(* What the sets of records say.                                              *)
LEMMA TracerFields ==
  ASSUME NEW s \in Tracers
  PROVE  /\ s.lists \in Seq(ListSet) /\ s.pool \in Seq(Nat) /\ s.stack \in Seq(Nat)
         /\ s.nodes \in Int /\ s.level \in Int /\ s.frames \in Seq(LevelSet)
         /\ s.pushes \in Nat /\ s.store \in Stores
  BY DEF Tracers

LEMMA ListFields ==
  ASSUME NEW r \in ListSet
  PROVE  r.head \in Seq(Constraints) /\ r.node \in Int /\ r.refs \in Nat /\ r.frozen \in BOOLEAN
  BY DEF ListSet

LEMMA ListOf ==
  ASSUME NEW s \in Tracers, NEW l \in 1..Len(s.lists)
  PROVE  /\ s.lists[l] \in ListSet /\ s.lists[l].head \in Seq(Constraints) /\ s.lists[l].node \in Int
         /\ s.lists[l].refs \in Nat /\ s.lists[l].frozen \in BOOLEAN
<1>1. s.lists[l] \in ListSet
  BY TracerFields, ElementOfSeq
<1>2. QED
  BY <1>1, ListFields

LEMMA Lengths ==
  ASSUME NEW s \in Tracers
  PROVE  /\ Len(s.lists) \in Nat /\ Len(s.pool) \in Nat /\ Len(s.stack) \in Nat /\ Len(s.frames) \in Nat
         /\ DOMAIN s.lists = 1..Len(s.lists)
  BY TracerFields, LenProperties

(* What is left of a list once a reference is dropped.                        *)
Dropped(r) == IF r.refs > 1 THEN [r EXCEPT !.refs = @ - 1]
              ELSE [r EXCEPT !.refs = 0, !.head = <<>>, !.node = -1]

LEMMA DroppedIs ==
  ASSUME NEW r \in ListSet
  PROVE  /\ Dropped(r) \in ListSet
         /\ Dropped(r).frozen = r.frozen
         /\ r.refs > 1 => /\ Dropped(r).refs = r.refs - 1
                          /\ Dropped(r).head = r.head /\ Dropped(r).node = r.node
         /\ ~(r.refs > 1) => Dropped(r).refs = 0 /\ Dropped(r).head = <<>> /\ Dropped(r).node = -1
<1>1. CASE r.refs > 1
  <2>1. Dropped(r) = [r EXCEPT !.refs = r.refs - 1]
    BY <1>1 DEF Dropped
  <2>2. r.refs - 1 \in Nat
    BY <1>1, ListFields
  <2>3. [r EXCEPT !.refs = r.refs - 1] \in ListSet
    BY <2>2 DEF ListSet
  <2>4. /\ Dropped(r).refs = r.refs - 1 /\ Dropped(r).frozen = r.frozen
        /\ Dropped(r).head = r.head /\ Dropped(r).node = r.node
    BY <2>1 DEF ListSet
  <2> QED
    BY <1>1, <2>1, <2>3, <2>4
<1>2. CASE ~(r.refs > 1)
  <2>1. Dropped(r) = [r EXCEPT !.refs = 0, !.head = <<>>, !.node = -1]
    BY <1>2 DEF Dropped
  <2>2. <<>> \in Seq(Constraints)
    BY EmptySeq
  <2>3. [r EXCEPT !.refs = 0, !.head = <<>>, !.node = -1] \in ListSet
    <3> DEFINE e == <<>>
    <3>1. e \in Seq(Constraints)
      BY <2>2
    <3> HIDE DEF e
    <3>2. -1 \in Int /\ 0 \in Nat /\ r.frozen \in BOOLEAN
      BY ListFields
    <3>3. ASSUME NEW H, NEW I, NEW N, NEW B, NEW q \in [head : H, node : I, refs : N, frozen : B],
                 NEW h \in H, NEW i \in I, NEW n \in N
          PROVE  [q EXCEPT !.refs = n, !.head = h, !.node = i] \in [head : H, node : I, refs : N, frozen : B]
      OBVIOUS
    <3>4. [r EXCEPT !.refs = 0, !.head = e, !.node = -1] \in ListSet
      BY <3>1, <3>2, <3>3, Zenon DEF ListSet
    <3> QED
      BY <3>4 DEF e
  <2>4. Dropped(r).refs = 0 /\ Dropped(r).frozen = r.frozen /\ Dropped(r).head = <<>> /\ Dropped(r).node = -1
    BY <2>1 DEF ListSet
  <2> QED
    BY <1>2, <2>1, <2>3, <2>4
<1>3. QED
  BY <1>1, <1>2

(* letgo, field by field (commandList.cpp:20-36).                             *)
LEMMA LetgoFields ==
  ASSUME NEW s \in Tracers, NEW l \in 1..Len(s.lists)
  PROVE  /\ letgo(s, l) \in Tracers /\ Aside(s, letgo(s, l))
         /\ letgo(s, l).lists = [s.lists EXCEPT ![l] = Dropped(s.lists[l])]
         /\ letgo(s, l).pool = IF s.lists[l].refs > 1 \/ ~(Len(s.pool) < PoolSize) THEN s.pool
                               ELSE Append(s.pool, l)
<1> DEFINE L == [s.lists EXCEPT ![l] = Dropped(s.lists[l])]
           P == IF s.lists[l].refs > 1 \/ ~(Len(s.pool) < PoolSize) THEN s.pool ELSE Append(s.pool, l)
           u == [s EXCEPT !.lists = L, !.pool = P]
<1>1. L \in Seq(ListSet)
  BY ListOf, DroppedIs, TracerFields, ExceptSeq
<1>2. P \in Seq(Nat)
  <2>1. l \in Nat /\ s.pool \in Seq(Nat)
    BY TracerFields
  <2> QED
    BY <2>1, AppendProperties
<1>3. letgo(s, l) = u
  <2>1. CASE s.lists[l].refs > 1
    BY <2>1 DEF letgo, Dropped, Tracers
  <2>2. CASE ~(s.lists[l].refs > 1)
    BY <2>2 DEF letgo, Dropped, Tracers
  <2> QED
    BY <2>1, <2>2
<1> HIDE DEF L, P
<1>4. u \in Tracers
  BY <1>1, <1>2 DEF Tracers
<1>5. Aside(s, u) /\ u.lists = L /\ u.pool = P
  BY DEF Tracers, Aside
<1>6. QED
  BY <1>3, <1>4, <1>5 DEF L, P

--------------------------------------------------------------------------------
LEMMA OnIs ==
  ASSUME NEW p, NEW l
  PROVE  /\ On(p, l) \in {0, 1} /\ On(p, l) \in Nat
         /\ On(p, l) = 1 <=> \E i \in 1..Len(p) : p[i] = l
         /\ On(p, l) = 0 <=> \A i \in 1..Len(p) : p[i] # l
  BY DEF On

(* The lists somebody refers to.                                              *)
Live(s, m) == {k \in 1..Len(s.lists) : On(s.stack, k) + m[k] > 0}

Keeps(r, s, A) == \A k \in A : Kept(r, s, k)

LEMMA LiveHasRefs ==
  ASSUME NEW s \in Tracers, NEW m \in Claims, NEW N \in Int, Counted(s, m, N), NEW k \in Live(s, m)
  PROVE  s.lists[k].refs > 0 /\ s.lists[k].node < N
<1>1. /\ k \in 1..Len(s.lists) /\ On(s.stack, k) + m[k] > 0
      /\ On(s.stack, k) + m[k] <= s.lists[k].refs
  BY DEF Live, Counted, RefsOK
<1>2. s.lists[k].refs \in Nat /\ On(s.stack, k) \in Nat /\ m[k] \in Nat
  <2>1. k \in Nat
    BY <1>1
  <2> QED
    BY <1>1, <2>1, ListOf, OnIs DEF Claims
<1>3. s.lists[k].refs > 0
  BY <1>1, <1>2
<1>4. QED
  BY <1>1, <1>3 DEF Counted, RefsOK

(* A reference is dropped: what others refer to stays, and an object nobody   *)
(* refers to any more is given back clean.                                    *)
LEMMA LetgoCounts ==
  ASSUME NEW s \in Tracers, NEW m \in Claims, NEW N \in Int, NEW l \in Nat, Counted(s, m, N), m[l] > 0
  PROVE  /\ letgo(s, l) \in Tracers /\ Aside(s, letgo(s, l))
         /\ [m EXCEPT ![l] = @ - 1] \in Claims
         /\ Counted(letgo(s, l), [m EXCEPT ![l] = @ - 1], N)
         /\ Len(letgo(s, l).lists) = Len(s.lists)
         /\ Keeps(s, letgo(s, l), Live(letgo(s, l), [m EXCEPT ![l] = @ - 1]))
         /\ \A k \in 1..Len(s.lists) : letgo(s, l).lists[k].frozen = s.lists[k].frozen
<1> DEFINE u == letgo(s, l)
           d == [m EXCEPT ![l] = @ - 1]
           r == s.lists[l]
<1>1. l \in 1..Len(s.lists) /\ m[l] \in Nat
  BY DEF Counted, RefsOK, Claims
<1>2. /\ u \in Tracers /\ Aside(s, u)
      /\ u.lists = [s.lists EXCEPT ![l] = Dropped(r)]
      /\ u.pool = IF r.refs > 1 \/ ~(Len(s.pool) < PoolSize) THEN s.pool ELSE Append(s.pool, l)
  BY <1>1, LetgoFields
<1>3. r \in ListSet /\ r.refs \in Nat /\ Dropped(r) \in ListSet
  BY <1>1, ListOf, DroppedIs
<1>4. /\ Len(u.lists) = Len(s.lists) /\ Len(s.lists) \in Nat
      /\ \A k \in 1..Len(s.lists) : u.lists[k] = IF k = l THEN Dropped(r) ELSE s.lists[k]
  BY <1>1, <1>2, <1>3, TracerFields, ExceptSeq, Lengths
<1>5. /\ d \in Claims /\ d[l] = m[l] - 1 /\ d[l] \in Nat
      /\ \A k \in Nat : k # l => d[k] = m[k]
      /\ \A k \in Nat : m[k] \in Nat
  <2>1. m[l] - 1 \in Nat
    BY <1>1
  <2>2. \A k \in Nat : m[k] \in Nat /\ d[k] = IF k = l THEN m[l] - 1 ELSE m[k]
    BY DEF Claims
  <2>3. d \in Claims
    BY <2>1 DEF Claims
  <2> QED
    BY <2>1, <2>2, <2>3
<1>6. On(s.stack, l) + m[l] <= r.refs /\ On(s.stack, l) \in Nat /\ u.stack = s.stack
  BY <1>1, <1>2, OnIs DEF Counted, RefsOK, Aside
<1> HIDE DEF u, d, r
<1>7. RefsOK(u, d, N)
  <2>1. ASSUME NEW k \in 1..Len(u.lists) PROVE On(u.stack, k) + d[k] <= u.lists[k].refs
    <3>1. CASE k # l
      <4>1. u.lists[k] = s.lists[k] /\ d[k] = m[k] /\ k \in 1..Len(s.lists)
        BY <1>4, <1>5, <3>1
      <4> QED
        BY <1>6, <4>1 DEF Counted, RefsOK
    <3>2. CASE k = l /\ r.refs > 1
      <4>1. u.lists[k].refs = r.refs - 1
        BY <1>3, <1>4, <3>2, DroppedIs
      <4> QED
        BY <1>3, <1>5, <1>6, <3>2, <4>1
    <3>3. CASE k = l /\ ~(r.refs > 1)
      <4>1. u.lists[k].refs = 0
        BY <1>3, <1>4, <3>3, DroppedIs
      <4>2. On(s.stack, l) + d[l] = 0
        BY <1>1, <1>3, <1>5, <1>6, <3>3
      <4> QED
        BY <1>6, <3>3, <4>1, <4>2
    <3> QED
      BY <3>1, <3>2, <3>3
  <2>2. ASSUME NEW k \in Nat, d[k] > 0 PROVE k \in 1..Len(u.lists)
    <3>1. m[k] > 0
      BY <1>1, <1>5, <2>2
    <3> QED
      BY <1>4, <3>1 DEF Counted, RefsOK
  <2>3. ASSUME NEW k \in 1..Len(u.lists), u.lists[k].refs > 0 PROVE u.lists[k].node < N
    <3>1. CASE k # l
      BY <1>4, <1>6, <2>3, <3>1 DEF Counted, RefsOK
    <3>2. CASE k = l
      <4>1. r.refs > 1
        BY <1>3, <1>4, <2>3, <3>2, DroppedIs
      <4>2. u.lists[k].node = r.node
        BY <1>3, <1>4, <3>2, <4>1, DroppedIs
      <4>3. r.node < N
        BY <1>1, <1>3, <4>1 DEF Counted, RefsOK, r
      <4> QED
        BY <1>6, <4>2, <4>3
    <3> QED
      BY <3>1, <3>2
  <2> QED
    BY <2>1, <2>2, <2>3 DEF RefsOK
<1>8. PoolOK(u)
  <2>1. \A i \in 1..Len(s.pool) : /\ s.pool[i] \in 1..Len(u.lists) /\ s.pool[i] # l
                                  /\ u.lists[s.pool[i]].refs = 0
                                  /\ u.lists[s.pool[i]].head = <<>>
    <3> TAKE i \in 1..Len(s.pool)
    <3>1. /\ s.pool[i] \in 1..Len(s.lists) /\ s.lists[s.pool[i]].refs = 0
          /\ s.lists[s.pool[i]].head = <<>>
      BY DEF Counted, PoolOK
    <3>2. s.pool[i] # l
      BY <1>1, <1>3, <1>6, <3>1 DEF r
    <3> QED
      BY <1>4, <3>1, <3>2
  <2>2. CASE r.refs > 1 \/ ~(Len(s.pool) < PoolSize)
    BY <1>2, <2>1, <2>2 DEF Counted, PoolOK
  <2>3. CASE ~(r.refs > 1) /\ Len(s.pool) < PoolSize
    <3>1. /\ s.pool \in Seq(Nat) /\ Len(s.pool) \in Nat /\ PoolSize \in Nat
      BY TracerFields, Lengths, BFSearchAssumption
    <3>2. u.pool = Append(s.pool, l)
      BY <1>2, <2>3
    <3>3. /\ Len(u.pool) = Len(s.pool) + 1 /\ u.pool[Len(s.pool) + 1] = l
          /\ \A i \in 1..Len(s.pool) : u.pool[i] = s.pool[i]
      BY <3>1, <3>2, AppendProperties
    <3>4. u.lists[l].refs = 0 /\ u.lists[l].head = <<>>
      BY <1>1, <1>3, <1>4, <2>3, DroppedIs
    <3>5. \A i \in 1..Len(u.pool) : i \in 1..Len(s.pool) \/ i = Len(s.pool) + 1
      BY <3>1, <3>3
    <3>6. \A i \in 1..Len(u.pool) : /\ u.pool[i] \in 1..Len(u.lists)
                                    /\ u.lists[u.pool[i]].refs = 0
                                    /\ u.lists[u.pool[i]].head = <<>>
      BY <1>1, <1>4, <2>1, <3>3, <3>4, <3>5
    <3>7. Once(u.pool)
      <4>1. Once(s.pool)
        BY DEF Counted, PoolOK
      <4> QED
        BY <2>1, <3>3, <3>5, <4>1 DEF Once
    <3>8. Len(u.pool) <= PoolSize
      BY <2>3, <3>1, <3>3
    <3> QED
      BY <3>6, <3>7, <3>8 DEF PoolOK
  <2> QED
    BY <2>2, <2>3
<1>9. StackOK(u)
  BY <1>4, <1>6 DEF Counted, StackOK
<1>10. Keeps(s, u, Live(u, d))
  <2> SUFFICES ASSUME NEW k \in Live(u, d) PROVE Kept(s, u, k)
    BY DEF Keeps
  <2>0. k \in 1..Len(s.lists)
    BY <1>4 DEF Live
  <2>1. CASE k # l
    BY <1>4, <2>0, <2>1 DEF Kept
  <2>2. CASE k = l
    <3>1. r.refs > 1
      <4>1. On(s.stack, l) + d[l] > 0
        BY <1>6, <2>2 DEF Live
      <4> QED
        BY <1>3, <1>5, <1>6, <4>1
    <3> QED
      BY <1>3, <1>4, <2>0, <2>2, <3>1, DroppedIs DEF Kept, r
  <2> QED
    BY <2>1, <2>2
<1>11. \A k \in 1..Len(s.lists) : u.lists[k].frozen = s.lists[k].frozen
  BY <1>3, <1>4, DroppedIs DEF r
<1>12. Counted(u, d, N)
  BY <1>7, <1>8, <1>9 DEF Counted
<1>13. QED
  BY <1>2, <1>4, <1>5, <1>10, <1>11, <1>12 DEF u, d

--------------------------------------------------------------------------------
(* A path is dealt with one list after the other.                             *)
Close(s, l) == letgo(popList(Pop(s)), l)

Stepped(kind, x, y) == CASE kind = "letgo" -> letgo(x, y) [] kind = "freeze" -> Freeze(x, y)
                         [] kind = "close" -> Close(x, y) [] kind = "post" -> post(x, y)
                         [] kind = "release" -> Release(x, y)

Turning(kind, s, q, g) ==
    [T \in SUBSET (1..Len(q)) |-> IF T = {} THEN s ELSE Stepped(kind, g[T \ {Max(T)}], q[Max(T)])]

(* The recursive function that turns over q exists: how a fold is reached     *)
(* without its operator.                                                      *)
LEMMA Folding ==
  ASSUME NEW kind, NEW s, NEW q, Len(q) \in Nat
  PROVE  \E g : g = Turning(kind, s, q, g)
<1> DEFINE n == Len(q)
           step(g, T) == IF T = {} THEN s ELSE Stepped(kind, g[T \ {Max(T)}], q[Max(T)])
           P == {i \in 0..n : \E g : g = [T \in SUBSET (1..i) |-> step(g, T)]}
<1>0. n \in Nat
  OBVIOUS
<1>1. /\ n \in Int /\ 1..0 = {}
      /\ \A i \in 1..n : /\ 1..i \in SUBSET (1..n) /\ 1..i # {} /\ Max(1..i) = i
                         /\ (1..i) \ {i} = 1..(i - 1) /\ i - 1 \in 0..n
  <2>1. n \in Int
    BY <1>0
  <2> HIDE DEF n
  <2> QED
    BY <1>0, <2>1, Initial
<1>2. 0 \in P
  <2>1. \E g : g = [T \in SUBSET (1..0) |-> step(g, T)]
    <3>1. [T \in SUBSET (1..0) |-> s] = [T \in SUBSET (1..0) |-> step([S \in SUBSET (1..0) |-> s], T)]
      BY <1>1
    <3> HIDE DEF step
    <3> QED
      BY <3>1
  <2> HIDE DEF step
  <2> QED
    BY <1>1, <2>1
<1>3. ASSUME NEW i \in 0..(n - 1), i \in P PROVE i + 1 \in P
  <2>1. PICK g : g = [T \in SUBSET (1..i) |-> step(g, T)]
    BY <1>3
  <2> DEFINE f == [T \in SUBSET (1..(i + 1)) |-> IF i + 1 \in T THEN step(g, T) ELSE g[T]]
  <2>2. ASSUME NEW T \in SUBSET (1..(i + 1)), T # {} PROVE T \ {Max(T)} \in SUBSET (1..i)
    <3>0. i \in Int /\ i + 1 \in Int /\ T \in SUBSET Int /\ \A y \in T : y <= i + 1
      BY <1>0
    <3>1. Max(T) \in T /\ \A y \in T : Max(T) >= y
      BY <2>2, <3>0, GreatestInt
    <3> DEFINE m == Max(T)
    <3>2. m \in T /\ \A y \in T : m >= y
      BY <3>1
    <3> HIDE DEF m
    <3>3. \A y \in T : y # m => y \in 1..i
      BY <3>0, <3>2
    <3>4. T \ {m} \in SUBSET (1..i)
      BY <3>3
    <3> QED
      BY <3>4 DEF m
  <2>3. \A T \in SUBSET (1..i) : f[T] = g[T] /\ T \in SUBSET (1..(i + 1))
    OBVIOUS
  <2>4. ASSUME NEW T \in SUBSET (1..(i + 1)) PROVE step(f, T) = step(g, T)
    <3>1. CASE T = {}
      BY <3>1
    <3>2. CASE T # {}
      <4>1. f[T \ {Max(T)}] = g[T \ {Max(T)}]
        BY <2>2, <2>3, <3>2
      <4> HIDE DEF f
      <4> QED
        BY <3>2, <4>1
    <3> HIDE DEF step, f
    <3> QED
      BY <3>1, <3>2
  <2> HIDE DEF step
  <2>5. ASSUME NEW T \in SUBSET (1..(i + 1)) PROVE f[T] = step(f, T)
    <3>1. CASE i + 1 \in T
      <4>1. f[T] = step(g, T)
        BY <3>1
      <4> HIDE DEF f
      <4> QED
        BY <2>4, <4>1
    <3>2. CASE i + 1 \notin T
      <4>1. T \in SUBSET (1..i)
        BY <3>2
      <4>2. f[T] = g[T]
        BY <2>3, <4>1
      <4>3. g[T] = step(g, T)
        BY <2>1, <4>1
      <4> HIDE DEF f
      <4> QED
        BY <2>4, <4>2, <4>3
    <3> HIDE DEF f
    <3> QED
      BY <3>1, <3>2
  <2>6. f = [T \in SUBSET (1..(i + 1)) |-> f[T]]
    OBVIOUS
  <2> HIDE DEF f
  <2>7. f = [T \in SUBSET (1..(i + 1)) |-> step(f, T)]
    BY <2>5, <2>6
  <2>8. i + 1 \in 0..n
    BY <1>0
  <2> QED
    BY <2>7, <2>8
<1>4. \E g : g = [T \in SUBSET (1..n) |-> step(g, T)]
  <2>1. 0 \in Int /\ n \in 0..n
    BY <1>1
  <2>2. \A i \in 0..(n - 1) : i \in P => i + 1 \in P
    BY <1>3
  <2> HIDE DEF P
  <2>3. n \in P
    BY <1>1, <1>2, <2>1, <2>2, Upwards
  <2> HIDE DEF step
  <2> QED
    BY <2>3 DEF P
<1> QED
  BY <1>4 DEF Turning

(* Its values, one element after the other.                                   *)
LEMMA Unfolding ==
  ASSUME NEW kind, NEW s, NEW q, Len(q) \in Nat, NEW g, g = Turning(kind, s, q, g)
  PROVE  \E h : /\ h[0] = s
                /\ \A i \in 1..Len(q) : h[i] = Stepped(kind, h[i - 1], q[i])
                /\ g[1..Len(q)] = h[Len(q)]
<1> DEFINE n == Len(q)
           h == [i \in 0..n |-> g[1..i]]
<1>1. n \in Nat /\ n \in Int
  OBVIOUS
<1>2. g = [T \in SUBSET (1..n) |-> IF T = {} THEN s
                                  ELSE Stepped(kind, g[T \ {Max(T)}], q[Max(T)])]
  BY DEF Turning
<1> HIDE DEF n
<1>3. /\ 1..0 = {}
      /\ \A i \in 1..n : /\ 1..i \in SUBSET (1..n) /\ 1..i # {} /\ Max(1..i) = i
                         /\ (1..i) \ {i} = 1..(i - 1) /\ i - 1 \in 0..n
  BY <1>1, Initial
<1>4. g[{}] = s
  BY <1>2
<1>5. ASSUME NEW i \in 1..n PROVE h[i] = Stepped(kind, h[i - 1], q[i])
  <2>1. g[1..i] = Stepped(kind, g[(1..i) \ {Max(1..i)}], q[Max(1..i)])
    BY <1>2, <1>3
  <2>2. h[i] = g[1..i] /\ h[i - 1] = g[1..(i - 1)]
    BY <1>1, <1>3
  <2> HIDE DEF h
  <2> QED
    BY <1>3, <2>1, <2>2
<1>6. h[0] = s /\ h[n] = g[1..n]
  BY <1>1, <1>3, <1>4
<1> HIDE DEF h
<1> QED
  BY <1>5, <1>6 DEF n

LEMMA LetgoFold ==
  ASSUME NEW s, NEW q, Len(q) \in Nat, DOMAIN q = 1..Len(q)
  PROVE  \E h : /\ h[0] = s
                /\ \A i \in 1..Len(q) : h[i] = letgo(h[i - 1], q[i])
                /\ FoldLeft(letgo, s, q) = h[Len(q)]
<1> DEFINE G(g) == [T \in SUBSET (1..Len(q)) |-> IF T = {} THEN s ELSE letgo(g[T \ {Max(T)}], q[Max(T)])]
           iter == CHOOSE g : g = G(g)
<1>1. \A x, y : Stepped("letgo", x, y) = letgo(x, y)
  BY DEF Stepped
<1>2. \A g : G(g) = Turning("letgo", s, q, g)
  BY <1>1, Zenon DEF Turning
<1>3. \E g : g = G(g)
  <2> HIDE DEF G
  <2> QED
    BY <1>2, Folding
<1>4. FoldLeft(letgo, s, q) = iter[1..Len(q)]
  BY DEF FoldLeft, MapThenFoldSet
<1> HIDE DEF G
<1>5. iter = G(iter)
  BY <1>3
<1> HIDE DEF iter
<1>6. PICK h : /\ h[0] = s
               /\ \A i \in 1..Len(q) : h[i] = Stepped("letgo", h[i - 1], q[i])
               /\ iter[1..Len(q)] = h[Len(q)]
  BY <1>2, <1>5, Unfolding
<1> QED
  BY <1>1, <1>4, <1>6

(* The folds of the code over the lists of a path, as operators of their own. *)
AllFrozen(s, q) == FoldLeft(Freeze, s, q)
AllClosed(s, q) == FoldLeft(Close, s, q)
AllPosted(s, q) == FoldLeft(post, s, q)
AllReleased(s, q) == FoldLeft(Release, s, q)

LEMMA FreezeFold ==
  ASSUME NEW s, NEW q, Len(q) \in Nat, DOMAIN q = 1..Len(q)
  PROVE  \E h : /\ h[0] = s
                /\ \A i \in 1..Len(q) : h[i] = Freeze(h[i - 1], q[i])
                /\ AllFrozen(s, q) = h[Len(q)]
<1> DEFINE G(g) == [T \in SUBSET (1..Len(q)) |-> IF T = {} THEN s ELSE Freeze(g[T \ {Max(T)}], q[Max(T)])]
           iter == CHOOSE g : g = G(g)
<1>1. \A x, y : Stepped("freeze", x, y) = Freeze(x, y)
  BY DEF Stepped
<1>2. \A g : G(g) = Turning("freeze", s, q, g)
  BY <1>1, Zenon DEF Turning
<1>3. \E g : g = G(g)
  <2> HIDE DEF G
  <2> QED
    BY <1>2, Folding
<1>4. AllFrozen(s, q) = iter[1..Len(q)]
  BY DEF AllFrozen, FoldLeft, MapThenFoldSet
<1> HIDE DEF G
<1>5. iter = G(iter)
  BY <1>3
<1> HIDE DEF iter
<1>6. PICK h : /\ h[0] = s
               /\ \A i \in 1..Len(q) : h[i] = Stepped("freeze", h[i - 1], q[i])
               /\ iter[1..Len(q)] = h[Len(q)]
  BY <1>2, <1>5, Unfolding
<1> QED
  BY <1>1, <1>4, <1>6

LEMMA CloseFold ==
  ASSUME NEW s, NEW q, Len(q) \in Nat, DOMAIN q = 1..Len(q)
  PROVE  \E h : /\ h[0] = s
                /\ \A i \in 1..Len(q) : h[i] = Close(h[i - 1], q[i])
                /\ AllClosed(s, q) = h[Len(q)]
<1> DEFINE G(g) == [T \in SUBSET (1..Len(q)) |-> IF T = {} THEN s ELSE Close(g[T \ {Max(T)}], q[Max(T)])]
           iter == CHOOSE g : g = G(g)
<1>1. \A x, y : Stepped("close", x, y) = Close(x, y)
  BY DEF Stepped
<1>2. \A g : G(g) = Turning("close", s, q, g)
  BY <1>1, Zenon DEF Turning
<1>3. \E g : g = G(g)
  <2> HIDE DEF G
  <2> QED
    BY <1>2, Folding
<1>4. AllClosed(s, q) = iter[1..Len(q)]
  BY DEF AllClosed, FoldLeft, MapThenFoldSet
<1> HIDE DEF G
<1>5. iter = G(iter)
  BY <1>3
<1> HIDE DEF iter
<1>6. PICK h : /\ h[0] = s
               /\ \A i \in 1..Len(q) : h[i] = Stepped("close", h[i - 1], q[i])
               /\ iter[1..Len(q)] = h[Len(q)]
  BY <1>2, <1>5, Unfolding
<1> QED
  BY <1>1, <1>4, <1>6

LEMMA PostFold ==
  ASSUME NEW s, NEW q, Len(q) \in Nat, DOMAIN q = 1..Len(q)
  PROVE  \E h : /\ h[0] = s
                /\ \A i \in 1..Len(q) : h[i] = post(h[i - 1], q[i])
                /\ AllPosted(s, q) = h[Len(q)]
<1> DEFINE G(g) == [T \in SUBSET (1..Len(q)) |-> IF T = {} THEN s ELSE post(g[T \ {Max(T)}], q[Max(T)])]
           iter == CHOOSE g : g = G(g)
<1>1. \A x, y : Stepped("post", x, y) = post(x, y)
  BY DEF Stepped
<1>2. \A g : G(g) = Turning("post", s, q, g)
  BY <1>1, Zenon DEF Turning
<1>3. \E g : g = G(g)
  <2> HIDE DEF G
  <2> QED
    BY <1>2, Folding
<1>4. AllPosted(s, q) = iter[1..Len(q)]
  BY DEF AllPosted, FoldLeft, MapThenFoldSet
<1> HIDE DEF G
<1>5. iter = G(iter)
  BY <1>3
<1> HIDE DEF iter
<1>6. PICK h : /\ h[0] = s
               /\ \A i \in 1..Len(q) : h[i] = Stepped("post", h[i - 1], q[i])
               /\ iter[1..Len(q)] = h[Len(q)]
  BY <1>2, <1>5, Unfolding
<1> QED
  BY <1>1, <1>4, <1>6

LEMMA ReleaseFold ==
  ASSUME NEW s, NEW q, Len(q) \in Nat, DOMAIN q = 1..Len(q)
  PROVE  \E h : /\ h[0] = s
                /\ \A i \in 1..Len(q) : h[i] = Release(h[i - 1], q[i])
                /\ AllReleased(s, q) = h[Len(q)]
<1> DEFINE G(g) == [T \in SUBSET (1..Len(q)) |-> IF T = {} THEN s ELSE Release(g[T \ {Max(T)}], q[Max(T)])]
           iter == CHOOSE g : g = G(g)
<1>1. \A x, y : Stepped("release", x, y) = Release(x, y)
  BY DEF Stepped
<1>2. \A g : G(g) = Turning("release", s, q, g)
  BY <1>1, Zenon DEF Turning
<1>3. \E g : g = G(g)
  <2> HIDE DEF G
  <2> QED
    BY <1>2, Folding
<1>4. AllReleased(s, q) = iter[1..Len(q)]
  BY DEF AllReleased, FoldLeft, MapThenFoldSet
<1> HIDE DEF G
<1>5. iter = G(iter)
  BY <1>3
<1> HIDE DEF iter
<1>6. PICK h : /\ h[0] = s
               /\ \A i \in 1..Len(q) : h[i] = Stepped("release", h[i - 1], q[i])
               /\ iter[1..Len(q)] = h[Len(q)]
  BY <1>2, <1>5, Unfolding
<1> QED
  BY <1>1, <1>4, <1>6

(* What a path has claimed on the lists it has passed.                        *)
Passed(m, p, i) == [l \in Nat |-> m[l] - (IF \E j \in 1..i : p[j] = l THEN 1 ELSE 0)]

(* Fewer claims, fewer lists to look after.                                   *)
LEMMA LiveStays ==
  ASSUME NEW s, NEW u, NEW m \in Claims, NEW d \in Claims, u.stack = s.stack,
         Len(u.lists) = Len(s.lists), \A l \in Nat : d[l] <= m[l], Len(s.lists) \in Nat
  PROVE  Live(u, d) \subseteq Live(s, m)
<1> SUFFICES ASSUME NEW k \in Live(u, d) PROVE k \in Live(s, m)
  OBVIOUS
<1>1. k \in 1..Len(s.lists) /\ On(s.stack, k) + d[k] > 0 /\ k \in Nat
  BY DEF Live
<1>2. On(s.stack, k) \in Nat /\ d[k] \in Nat /\ m[k] \in Nat /\ d[k] <= m[k]
  BY <1>1, OnIs DEF Claims
<1>3. On(s.stack, k) + m[k] > 0
  BY <1>1, <1>2
<1> QED
  BY <1>1, <1>3 DEF Live

(* ~Checkpoint: every list of the path loses one reference.                   *)
LEMMA ReleaseCounts ==
  ASSUME NEW s \in Tracers, NEW m \in Claims, NEW N \in Int, Counted(s, m, N),
         NEW p \in Seq(Nat), Once(p), \A l \in Nat : On(p, l) <= m[l]
  PROVE  /\ Release(s, p) \in Tracers /\ Aside(s, Release(s, p))
         /\ Less(m, p) \in Claims /\ Counted(Release(s, p), Less(m, p), N)
         /\ Len(Release(s, p).lists) = Len(s.lists)
         /\ Keeps(s, Release(s, p), Live(Release(s, p), Less(m, p)))
<1> DEFINE n == Len(p)
           M(i) == Passed(m, p, i)
           Rest(x, d) == /\ x \in Tracers /\ Aside(s, x) /\ d \in Claims /\ Counted(x, d, N)
                         /\ Len(x.lists) = Len(s.lists) /\ Keeps(s, x, Live(x, d))
<1>1. n \in Nat /\ DOMAIN p = 1..n /\ \A i \in 1..n : p[i] \in Nat
  BY LenProperties
<1>2. PICK h : /\ h[0] = s
               /\ \A i \in 1..n : h[i] = letgo(h[i - 1], p[i])
               /\ FoldLeft(letgo, s, p) = h[n]
  BY ZenonT(30), <1>1, LetgoFold
<1>3. M(0) = m
  <2>1. \A l \in Nat : m[l] \in Nat /\ m[l] - 0 = m[l]
    BY DEF Claims
  <2> QED
    BY <2>1 DEF Passed, Claims
<1>4. M(n) = Less(m, p)
  BY DEF Passed, Less, On
<1>5. ASSUME NEW i \in 1..n
      PROVE  M(i) = [M(i - 1) EXCEPT ![p[i]] = @ - 1] /\ M(i - 1)[p[i]] = m[p[i]] /\ m[p[i]] > 0
  <2>1. p[i] \in Nat /\ m[p[i]] \in Nat /\ On(p, p[i]) = 1
    BY <1>1 DEF On, Claims
  <2>2. m[p[i]] > 0
    BY <2>1
  <2>3. \A j \in 1..(i - 1) : p[j] # p[i]
    BY <1>1 DEF Once
  <2>4. M(i - 1)[p[i]] = m[p[i]]
    BY <2>1, <2>3 DEF Passed
  <2>5. ASSUME NEW l \in Nat, l # p[i] PROVE M(i)[l] = M(i - 1)[l]
    <3>1. (\E j \in 1..i : p[j] = l) <=> (\E j \in 1..(i - 1) : p[j] = l)
      BY <1>1, <2>5
    <3> QED
      BY <3>1 DEF Passed
  <2>6. M(i)[p[i]] = m[p[i]] - 1
    BY <1>1, <2>1 DEF Passed
  <2>7. M(i) \in [Nat -> {M(i)[l] : l \in Nat}] /\ DOMAIN M(i - 1) = Nat /\ DOMAIN M(i) = Nat
    BY DEF Passed
  <2> HIDE DEF M
  <2>8. M(i) = [M(i - 1) EXCEPT ![p[i]] = @ - 1]
    BY <2>1, <2>4, <2>5, <2>6, <2>7
  <2> QED
    BY <2>2, <2>4, <2>8
<1> HIDE DEF M
<1> DEFINE P == {i \in 0..n : Rest(h[i], M(i))}
<1>6. 0 \in P
  <2>1. Keeps(s, s, Live(s, m))
    BY DEF Keeps, Kept, Live
  <2> QED
    BY <1>1, <1>2, <1>3, <2>1 DEF Aside
<1>7. ASSUME NEW i \in 0..(n - 1), i \in P PROVE i + 1 \in P
  <2> DEFINE j == i + 1
             x == h[i]
             u == h[j]
             l == p[j]
  <2>1. j \in 1..n /\ j \in 0..n /\ j - 1 = i /\ l \in Nat
    BY <1>1
  <2>2. u = letgo(x, l) /\ M(j) = [M(i) EXCEPT ![l] = @ - 1] /\ M(i)[l] > 0
    BY <1>2, <1>5, <2>1
  <2>3. /\ x \in Tracers /\ Aside(s, x) /\ M(i) \in Claims /\ Counted(x, M(i), N)
        /\ Len(x.lists) = Len(s.lists) /\ Keeps(s, x, Live(x, M(i)))
    BY <1>7
  <2> DEFINE d == [M(i) EXCEPT ![l] = @ - 1]
  <2> HIDE DEF u, x, l, j
  <2>9. /\ u \in Tracers /\ Aside(x, u) /\ d \in Claims /\ Counted(u, d, N)
        /\ Len(u.lists) = Len(x.lists) /\ Keeps(x, u, Live(u, d))
    <3> DEFINE a == M(i)
    <3>1. /\ x \in Tracers /\ a \in Claims /\ Counted(x, a, N) /\ l \in Nat /\ a[l] > 0
      BY <2>1, <2>2, <2>3
    <3>2. u = letgo(x, l) /\ d = [a EXCEPT ![l] = @ - 1]
      BY <2>2
    <3> HIDE DEF a, d
    <3>3. /\ letgo(x, l) \in Tracers /\ Aside(x, letgo(x, l))
          /\ [a EXCEPT ![l] = @ - 1] \in Claims
          /\ Counted(letgo(x, l), [a EXCEPT ![l] = @ - 1], N)
          /\ Len(letgo(x, l).lists) = Len(x.lists)
          /\ Keeps(x, letgo(x, l), Live(letgo(x, l), [a EXCEPT ![l] = @ - 1]))
      BY <3>1, LetgoCounts
    <3> QED
      BY <3>2, <3>3
  <2>10. M(j) = d
    BY <2>2
  <2>4. /\ u \in Tracers /\ Aside(x, u) /\ M(j) \in Claims /\ Counted(u, M(j), N)
        /\ Len(u.lists) = Len(x.lists) /\ Keeps(x, u, Live(u, M(j)))
    BY <2>9, <2>10
  <2>5. Aside(s, u)
    BY <2>3, <2>4 DEF Aside
  <2>6. Live(u, M(j)) \subseteq Live(x, M(i))
    <3>1. \A k \in Nat : M(j)[k] <= M(i)[k]
      <4>1. ASSUME NEW k \in Nat PROVE d[k] <= M(i)[k]
        <5>1. M(i)[k] \in Nat /\ d[k] = IF k = l THEN M(i)[l] - 1 ELSE M(i)[k]
          BY <2>1, <2>3 DEF Claims
        <5> HIDE DEF d
        <5> QED
          BY <5>1
      <4> HIDE DEF d
      <4> QED
        BY <2>10, <4>1
    <3>2. u.stack = x.stack /\ Len(x.lists) \in Nat
      BY <2>3, <2>4, Lengths DEF Aside
    <3> HIDE DEF j
    <3> QED
      BY <2>3, <2>4, <3>1, <3>2, LiveStays
  <2>7. Keeps(s, u, Live(u, M(j)))
    BY <2>3, <2>4, <2>6 DEF Keeps, Kept
  <2>8. Rest(h[j], M(j))
    BY <2>3, <2>4, <2>5, <2>7 DEF u
  <2> QED
    BY <2>1, <2>8
<1>8. n \in P
  <2>1. 0 \in Int /\ n \in Int /\ n \in 0..n
    BY <1>1
  <2>2. \A i \in 0..(n - 1) : i \in P => i + 1 \in P
    BY <1>7
  <2> HIDE DEF P
  <2> QED
    BY <1>6, <2>1, <2>2, Upwards
<1>9. Rest(h[n], M(n))
  BY <1>8
<1>10. Release(s, p) = h[n]
  BY <1>2 DEF Release
<1> HIDE DEF n
<1> QED
  BY <1>4, <1>9, <1>10

--------------------------------------------------------------------------------
(* Freezing a list.                                                           *)
Frozen(r) == [r EXCEPT !.refs = @ + 1, !.frozen = TRUE]

LEMMA FrozenIs ==
  ASSUME NEW r \in ListSet
  PROVE  /\ Frozen(r) \in ListSet /\ Frozen(r).refs = r.refs + 1 /\ Frozen(r).frozen
         /\ Frozen(r).head = r.head /\ Frozen(r).node = r.node
<1>1. r.refs + 1 \in Nat /\ TRUE \in BOOLEAN
  BY ListFields
<1>2. ASSUME NEW H, NEW I, NEW N, NEW B, NEW q \in [head : H, node : I, refs : N, frozen : B],
             NEW n \in N, NEW b \in B
      PROVE  /\ [q EXCEPT !.refs = n, !.frozen = b] \in [head : H, node : I, refs : N, frozen : B]
             /\ [q EXCEPT !.refs = n, !.frozen = b].refs = n
             /\ [q EXCEPT !.refs = n, !.frozen = b].frozen = b
             /\ [q EXCEPT !.refs = n, !.frozen = b].head = q.head
             /\ [q EXCEPT !.refs = n, !.frozen = b].node = q.node
  OBVIOUS
<1>3. Frozen(r) = [r EXCEPT !.refs = r.refs + 1, !.frozen = TRUE]
  BY DEF Frozen
<1> DEFINE n == r.refs + 1
           b == TRUE
           v == [r EXCEPT !.refs = n, !.frozen = b]
<1>4. n \in Nat /\ b \in BOOLEAN /\ b /\ Frozen(r) = v
  BY <1>1, <1>3
<1> HIDE DEF n, b
<1>5. v \in ListSet /\ v.refs = n /\ v.frozen = b /\ v.head = r.head /\ v.node = r.node
  BY <1>2, <1>4, Zenon DEF ListSet
<1> HIDE DEF v
<1> QED
  BY <1>4, <1>5 DEF n

LEMMA FreezeFields ==
  ASSUME NEW s \in Tracers, NEW l \in 1..Len(s.lists)
  PROVE  /\ Freeze(s, l) \in Tracers /\ Aside(s, Freeze(s, l)) /\ Freeze(s, l).pool = s.pool
         /\ Freeze(s, l).lists = [s.lists EXCEPT ![l] = Frozen(s.lists[l])]
<1> DEFINE r == s.lists[l]
           L == [s.lists EXCEPT ![l] = Frozen(r)]
           u == [s EXCEPT !.lists = L]
<1>1. r \in ListSet /\ Frozen(r) \in ListSet
  BY ListOf, FrozenIs
<1>2. L \in Seq(ListSet)
  BY <1>1, TracerFields, ExceptSeq
<1>3. Freeze(s, l) = u
  <2>1. s.lists \in [1..Len(s.lists) -> ListSet]
    BY TracerFields, LenProperties, ListOf
  <2> QED
    BY <2>1 DEF Freeze, grab, Frozen, Tracers, ListSet
<1> HIDE DEF L
<1>4. u \in Tracers /\ Aside(s, u) /\ u.lists = L /\ u.pool = s.pool
  BY <1>2 DEF Tracers, Aside
<1>5. QED
  BY <1>3, <1>4 DEF L

(* Checkpoint(_commands): every list of the stack is claimed once more and    *)
(* frozen.                                                                    *)
Chilled(s, x, i) ==
    /\ x \in Tracers /\ Aside(s, x) /\ x.pool = s.pool /\ Len(x.lists) = Len(s.lists)
    /\ \A k \in 1..Len(s.lists) :
          x.lists[k] = IF \E j \in 1..i : s.stack[j] = k THEN Frozen(s.lists[k]) ELSE s.lists[k]

(* Capturing freezes every list of the stack and no other                     *)
(* (tracer.cpp:60-65).                                                        *)
LEMMA FreezeAll ==
  ASSUME NEW s \in Tracers, StackOK(s)
  PROVE  Chilled(s, AllFrozen(s, s.stack), Len(s.stack))
<1> DEFINE p == s.stack
           n == Len(p)
<1>1. n \in Nat /\ DOMAIN p = 1..n /\ \A i \in 1..n : p[i] \in 1..Len(s.lists)
  BY TracerFields, LenProperties DEF StackOK
<1>2. PICK h : /\ h[0] = s
               /\ \A i \in 1..n : h[i] = Freeze(h[i - 1], p[i])
               /\ AllFrozen(s, p) = h[n]
  <2>1. Len(p) \in Nat /\ DOMAIN p = 1..Len(p)
    BY <1>1
  <2> HIDE DEF p
  <2> QED
    BY ZenonT(30), <2>1, FreezeFold
<1> DEFINE P == {i \in 0..n : Chilled(s, h[i], i)}
<1>3. 0 \in P
  <2>1. Chilled(s, s, 0)
    BY DEF Chilled, Aside
  <2> QED
    BY <1>1, <1>2, <2>1
<1>4. ASSUME NEW i \in 0..(n - 1), i \in P PROVE i + 1 \in P
  <2> DEFINE j == i + 1
             x == h[i]
             u == h[j]
             l == p[j]
  <2>1. j \in 1..n /\ j \in 0..n /\ j - 1 = i /\ l \in 1..Len(s.lists)
    BY <1>1
  <2>2. u = Freeze(x, l)
    BY <1>2, <2>1
  <2>3. Chilled(s, x, i)
    BY <1>4
  <2>4. \A k \in 1..i : p[k] # l
    BY <1>1, <2>1 DEF StackOK, Once
  <2> HIDE DEF u, x, l
  <2>5. x \in Tracers /\ l \in 1..Len(x.lists) /\ Len(x.lists) = Len(s.lists)
    BY <2>1, <2>3 DEF Chilled
  <2>6. /\ u \in Tracers /\ Aside(x, u) /\ u.pool = x.pool
        /\ u.lists = [x.lists EXCEPT ![l] = Frozen(x.lists[l])]
    BY <2>2, <2>5, FreezeFields
  <2>7. x.lists[l] = s.lists[l]
    BY <2>1, <2>3, <2>4 DEF Chilled
  <2>8. /\ Len(u.lists) = Len(x.lists)
        /\ \A k \in 1..Len(x.lists) : u.lists[k] = IF k = l THEN Frozen(s.lists[l]) ELSE x.lists[k]
    <3>1. x.lists \in Seq(ListSet) /\ Frozen(x.lists[l]) \in ListSet
      BY <2>5, TracerFields, ListOf, FrozenIs
    <3> QED
      BY <2>5, <2>6, <2>7, <3>1, ExceptSeq
  <2>9. ASSUME NEW k \in 1..Len(s.lists)
        PROVE  u.lists[k] = IF \E a \in 1..j : p[a] = k THEN Frozen(s.lists[k]) ELSE s.lists[k]
    <3>1. CASE k = l
      <4>1. \E a \in 1..j : p[a] = k
        BY <2>1, <3>1 DEF l
      <4> QED
        BY <2>5, <2>8, <3>1, <4>1
    <3>2. CASE k # l
      <4>1. (\E a \in 1..j : p[a] = k) <=> (\E a \in 1..i : p[a] = k)
        <5>1. \A a \in 1..j : a \in 1..i \/ a = j
          BY <2>1
        <5>2. \A a \in 1..i : a \in 1..j
          BY <2>1
        <5> HIDE DEF j
        <5> QED
          BY <3>2, <5>1, <5>2 DEF l
      <4>2. u.lists[k] = x.lists[k]
        BY <2>5, <2>8, <3>2
      <4> QED
        BY <2>3, <4>1, <4>2 DEF Chilled
    <3> QED
      BY <3>1, <3>2
  <2>10. Aside(s, u) /\ u.pool = s.pool
    BY <2>3, <2>6 DEF Chilled, Aside
  <2>11. Chilled(s, u, j)
    BY <2>5, <2>6, <2>8, <2>9, <2>10 DEF Chilled
  <2> QED
    BY <2>1, <2>11 DEF u
<1>5. n \in P
  <2>1. 0 \in Int /\ n \in Int /\ n \in 0..n
    BY <1>1
  <2>2. \A i \in 0..(n - 1) : i \in P => i + 1 \in P
    BY <1>4
  <2> HIDE DEF P
  <2> QED
    BY <1>3, <2>1, <2>2, Upwards
<1> QED
  BY <1>2, <1>5

(* A capture counts the claims it makes, and changes no list but for that.    *)
LEMMA FreezeCounts ==
  ASSUME NEW s \in Tracers, NEW m \in Claims, NEW N \in Int, Counted(s, m, N),
         NEW u, u = AllFrozen(s, s.stack)
  PROVE  /\ u \in Tracers /\ Aside(s, u)
         /\ More(m, s.stack) \in Claims /\ Counted(u, More(m, s.stack), N)
         /\ Len(u.lists) = Len(s.lists) /\ Keeps(s, u, 1..Len(s.lists))
         /\ Iced(s, m) => Iced(u, More(m, s.stack))
<1> DEFINE d == More(m, s.stack)
<1>1. Chilled(s, u, Len(s.stack))
  BY FreezeAll DEF Counted
<1>2. /\ u \in Tracers /\ Aside(s, u) /\ u.pool = s.pool /\ Len(u.lists) = Len(s.lists)
      /\ u.stack = s.stack
  BY <1>1 DEF Chilled, Aside
<1>3. d \in Claims /\ \A l \in Nat : m[l] \in Nat /\ On(s.stack, l) \in {0, 1}
                                     /\ d[l] = m[l] + On(s.stack, l)
  <2>1. \A l \in Nat : m[l] \in Nat /\ On(s.stack, l) \in {0, 1} /\ m[l] + On(s.stack, l) \in Nat
    BY OnIs DEF Claims
  <2> QED
    BY <2>1 DEF Claims, More
<1> HIDE DEF d
<1>4. ASSUME NEW k \in 1..Len(s.lists)
      PROVE  /\ k \in Nat /\ s.lists[k].refs \in Nat
             /\ u.lists[k].head = s.lists[k].head /\ u.lists[k].node = s.lists[k].node
             /\ u.lists[k].refs = s.lists[k].refs + On(s.stack, k)
             /\ On(s.stack, k) = 1 => u.lists[k].frozen
             /\ On(s.stack, k) = 0 => u.lists[k] = s.lists[k]
  <2>1. s.lists[k] \in ListSet /\ s.lists[k].refs \in Nat /\ k \in Nat
    BY ListOf
  <2>2. CASE On(s.stack, k) = 1
    <3>1. u.lists[k] = Frozen(s.lists[k])
      BY <1>1, <2>2, OnIs DEF Chilled
    <3> QED
      BY <2>1, <2>2, <3>1, FrozenIs
  <2>3. CASE On(s.stack, k) = 0
    <3>1. u.lists[k] = s.lists[k]
      BY <1>1, <2>3, OnIs DEF Chilled
    <3> QED
      BY <2>1, <2>3, <3>1
  <2> QED
    BY <1>3, <2>1, <2>2, <2>3
<1>5. RefsOK(u, d, N)
  <2>1. ASSUME NEW k \in 1..Len(u.lists)
        PROVE  /\ On(u.stack, k) + d[k] <= u.lists[k].refs
               /\ u.lists[k].refs > 0 => u.lists[k].node < N
    <3>1. k \in 1..Len(s.lists)
      BY <1>2
    <3>2. On(s.stack, k) + m[k] <= s.lists[k].refs
      BY <3>1 DEF Counted, RefsOK
    <3>3. On(s.stack, k) \in {0, 1} /\ m[k] \in Nat /\ d[k] = m[k] + On(s.stack, k) /\ s.lists[k].refs \in Nat
          /\ u.lists[k].refs = s.lists[k].refs + On(s.stack, k)
      BY <1>3, <1>4, <3>1
    <3>4. u.lists[k].refs > 0 => s.lists[k].refs > 0
      BY <3>2, <3>3
    <3>5. s.lists[k].refs > 0 => s.lists[k].node < N
      BY <3>1 DEF Counted, RefsOK
    <3> QED
      BY <1>2, <1>4, <3>1, <3>2, <3>3, <3>4, <3>5
  <2>2. ASSUME NEW k \in Nat, d[k] > 0
        PROVE  k \in 1..Len(u.lists)
    <3>1. CASE On(s.stack, k) = 1
      <4>1. k \in 1..Len(s.lists)
        BY <3>1, OnIs DEF Counted, StackOK
      <4> QED
        BY <1>2, <4>1
    <3>2. CASE On(s.stack, k) = 0
      <4>1. m[k] > 0
        BY <1>3, <2>2, <3>2
      <4>2. k \in 1..Len(s.lists)
        BY <4>1 DEF Counted, RefsOK
      <4> QED
        BY <1>2, <4>2
    <3> QED
      BY <1>3, <3>1, <3>2
  <2> QED
    BY <2>1, <2>2 DEF RefsOK
<1>10. Iced(s, m) => Iced(u, d)
  <2> SUFFICES ASSUME Iced(s, m), NEW k \in Nat, d[k] > 0 PROVE u.lists[k].frozen
    BY DEF Iced
  <2>1. CASE On(s.stack, k) = 1
    <3>1. k \in 1..Len(s.lists)
      BY <2>1, OnIs DEF Counted, StackOK
    <3> QED
      BY <1>4, <2>1, <3>1
  <2>2. CASE On(s.stack, k) = 0
    <3>1. m[k] > 0
      BY <1>3, <2>2
    <3>2. k \in 1..Len(s.lists) /\ s.lists[k].frozen
      BY <3>1 DEF Counted, RefsOK, Iced
    <3> QED
      BY <1>4, <2>2, <3>2
  <2> QED
    BY <1>3, <2>1, <2>2
<1>6. PoolOK(u)
  <2>1. ASSUME NEW i \in 1..Len(s.pool)
        PROVE  /\ s.pool[i] \in 1..Len(u.lists) /\ u.lists[s.pool[i]].refs = 0
               /\ u.lists[s.pool[i]].head = <<>>
    <3> DEFINE k == s.pool[i]
    <3>1. k \in 1..Len(s.lists) /\ s.lists[k].refs = 0 /\ s.lists[k].head = <<>>
      BY DEF Counted, PoolOK
    <3> HIDE DEF k
    <3>2. On(s.stack, k) = 0
      <4>1. On(s.stack, k) + m[k] <= 0
        BY <3>1 DEF Counted, RefsOK
      <4> QED
        BY <1>3, <1>4, <3>1, <4>1
    <3>3. u.lists[k].refs = 0 /\ u.lists[k].head = <<>>
      BY <1>4, <3>1, <3>2
    <3> QED
      BY <1>2, <3>1, <3>3 DEF k
  <2> QED
    BY <1>2, <2>1 DEF Counted, PoolOK
<1>7. StackOK(u)
  BY <1>2 DEF Counted, StackOK
<1>8. Keeps(s, u, 1..Len(s.lists))
  <2>1. \A k \in 1..Len(s.lists) : On(s.stack, k) \in {0, 1}
    BY OnIs
  <2> QED
    BY <1>2, <1>4, <2>1 DEF Keeps, Kept
<1>9. Counted(u, d, N)
  BY <1>5, <1>6, <1>7 DEF Counted
<1> QED
  BY <1>2, <1>3, <1>8, <1>9, <1>10 DEF d

--------------------------------------------------------------------------------
(* What is not on the stack or in the lists.                                  *)
Calm(r, s) == /\ s.nodes = r.nodes /\ s.level = r.level /\ s.frames = r.frames
              /\ s.pushes = r.pushes /\ s.store = r.store

(* What is claimed stays frozen while lists are let go.                       *)
LEMMA IcedKeeps ==
  ASSUME NEW s, NEW u, NEW m \in Claims, NEW d \in Claims, NEW N, Iced(s, m), Counted(u, d, N),
         Keeps(s, u, Live(u, d)), \A l \in Nat : d[l] <= m[l]
  PROVE  Iced(u, d)
<1> SUFFICES ASSUME NEW l \in Nat, d[l] > 0 PROVE u.lists[l].frozen
  BY DEF Iced
<1>1. l \in 1..Len(u.lists) /\ On(u.stack, l) \in Nat /\ d[l] \in Nat /\ m[l] \in Nat
  BY OnIs DEF Counted, RefsOK, Claims
<1>2. l \in Live(u, d) /\ m[l] > 0
  BY <1>1 DEF Live
<1> QED
  BY <1>2 DEF Iced, Keeps, Kept

(* One more list.                                                             *)
LEMMA AddList ==
  ASSUME NEW s \in Tracers, NEW x \in ListSet, NEW L, NEW a, a = Cardinality(DOMAIN s.lists) + 1,
         L = [k \in DOMAIN s.lists \cup {a} |-> IF k = a THEN x ELSE s.lists[k]]
  PROVE  /\ a = Len(s.lists) + 1 /\ L \in Seq(ListSet) /\ Len(L) = a /\ L[a] = x
         /\ \A k \in 1..Len(s.lists) : L[k] = s.lists[k]
<1>1. DOMAIN s.lists = 1..Len(s.lists) /\ Len(s.lists) \in Nat
  BY Lengths
<1>2. Cardinality(1..Len(s.lists)) = Len(s.lists)
  <2> DEFINE n == Len(s.lists)
  <2>1. n \in Nat
    BY <1>1
  <2> HIDE DEF n
  <2>2. 1 \in Int /\ n \in Int
    BY <2>1
  <2>3. Cardinality(1..n) = IF 1 > n THEN 0 ELSE n - 1 + 1
    BY <2>2, FS_Interval
  <2>4. Cardinality(1..n) = n
    BY <2>1, <2>3
  <2> QED
    BY <2>4 DEF n
<1>3. a = Len(s.lists) + 1 /\ a \in Nat /\ 1..a = 1..Len(s.lists) \cup {a}
  BY <1>1, <1>2
<1>4. \A k \in 1..Len(s.lists) : s.lists[k] \in ListSet
  BY ListOf
<1>5. L \in [1..a -> ListSet]
  BY <1>1, <1>3, <1>4
<1>6. L \in Seq(ListSet) /\ Len(L) = a
  BY <1>3, <1>5
<1>7. L[a] = x /\ \A k \in 1..Len(s.lists) : L[k] = s.lists[k]
  BY <1>1, <1>3
<1> QED
  BY <1>3, <1>6, <1>7

LEMMA CommandListIs ==
  ASSUME NEW id \in Int
  PROVE  /\ CommandList(id) \in ListSet /\ CommandList(id).head = <<>> /\ CommandList(id).node = id
         /\ CommandList(id).refs = 1 /\ CommandList(id).frozen = FALSE
<1> DEFINE e == <<>>
           b == FALSE
           n == 1
           r == [head |-> e, node |-> id, refs |-> n, frozen |-> b]
<1>1. e \in Seq(Constraints) /\ b \in BOOLEAN /\ n \in Nat
  BY EmptySeq
<1>2. CommandList(id) = r
  BY DEF CommandList
<1> HIDE DEF e, b, n
<1>3. r \in ListSet /\ r.head = e /\ r.node = id /\ r.refs = n /\ r.frozen = b
  BY <1>1 DEF ListSet
<1> QED
  BY <1>2, <1>3 DEF e, b, n

(* A list l nobody refers to becomes x, which has as many references as l has *)
(* claims and places on the stack.                                            *)
Renewed(s, u, l, x) ==
    /\ u \in Tracers /\ l \in 1..Len(u.lists) /\ Len(s.lists) <= Len(u.lists)
    /\ u.lists[l] = x
    /\ \A k \in 1..Len(u.lists) : k # l => k \in 1..Len(s.lists) /\ u.lists[k] = s.lists[k]
    /\ l \in 1..Len(s.lists) => s.lists[l].refs = 0
    /\ PoolOK(u)

(* A new list comes from the pool or from the heap, and nobody else holds it  *)
(* (commandList.cpp).                                                         *)
LEMMA PushList ==
  ASSUME NEW s \in Tracers, PoolOK(s), NEW id \in Int, NEW u, u = pushList(s, id)
  PROVE  \E l \in Nat : /\ Renewed(s, u, l, CommandList(id)) /\ Calm(s, u)
                        /\ u.stack = Append(s.stack, l)
<1> DEFINE x == CommandList(id)
<1>1. x \in ListSet /\ x.head = <<>>
  BY CommandListIs
<1>2. /\ s.lists \in Seq(ListSet) /\ s.pool \in Seq(Nat) /\ s.stack \in Seq(Nat)
      /\ Len(s.lists) \in Nat /\ Len(s.pool) \in Nat /\ Len(s.stack) \in Nat
  BY TracerFields, Lengths
<1> HIDE DEF x
<1>3. CASE s.pool = <<>>
  <2> DEFINE l == Cardinality(DOMAIN s.lists) + 1
             L == [k \in DOMAIN s.lists \cup {l} |-> IF k = l THEN x ELSE s.lists[k]]
             S == Append(s.stack, l)
             v == [s EXCEPT !.lists = L, !.stack = S]
  <2>1. u = v
    BY <1>3 DEF pushList, Tracers, x
  <2>2. /\ l = Len(s.lists) + 1 /\ L \in Seq(ListSet) /\ Len(L) = l /\ L[l] = x
        /\ \A k \in 1..Len(s.lists) : L[k] = s.lists[k]
    BY <1>1, AddList
  <2> HIDE DEF l, L
  <2>3. l \in Nat /\ S \in Seq(Nat)
    BY <1>2, <2>2, AppendProperties
  <2> HIDE DEF S
  <2>4. v \in Tracers /\ v.lists = L /\ v.stack = S /\ v.pool = s.pool /\ Calm(s, v)
    BY <2>2, <2>3 DEF Tracers, Calm
  <2> HIDE DEF v
  <2>5. PoolOK(v)
    <3>1. v.pool = <<>>
      BY <1>3, <2>4
    <3> QED
      BY <3>1, BFSearchAssumption DEF PoolOK, Once
  <2>6. Renewed(s, v, l, x)
    <3>1. \A k \in 1..Len(v.lists) : k # l => k \in 1..Len(s.lists)
      BY <1>2, <2>2, <2>4
    <3>2. l \in 1..Len(v.lists) /\ Len(s.lists) <= Len(v.lists) /\ l \notin 1..Len(s.lists)
      BY <1>2, <2>2, <2>4
    <3> QED
      BY <2>2, <2>4, <2>5, <3>1, <3>2 DEF Renewed
  <2> QED
    BY <2>1, <2>3, <2>4, <2>6 DEF S, x
<1>4. CASE s.pool # <<>>
  <2> DEFINE l == Head(s.pool)
             L == [s.lists EXCEPT ![l] = x]
             S == Append(s.stack, l)
             P == Tail(s.pool)
             v == [s EXCEPT !.lists = L, !.pool = P, !.stack = S]
  <2>1. /\ l = s.pool[1] /\ 1 \in 1..Len(s.pool) /\ P \in Seq(Nat) /\ Len(P) = Len(s.pool) - 1
        /\ \A i \in 1..Len(P) : P[i] = s.pool[i + 1]
    BY <1>2, <1>4, HeadTailProperties
  <2>2. l \in 1..Len(s.lists) /\ s.lists[l].refs = 0 /\ s.lists[l].head = <<>>
    BY <2>1 DEF PoolOK
  <2>3. x = [CommandList(id) EXCEPT !.head = s.lists[l].head]
    <3>1. ASSUME NEW q \in ListSet, NEW e, q.head = e PROVE q = [q EXCEPT !.head = e]
      BY <3>1 DEF ListSet
    <3>2. x.head = s.lists[l].head
      BY <1>1, <2>2
    <3>3. x = [x EXCEPT !.head = s.lists[l].head]
      BY <1>1, <3>1, <3>2
    <3> QED
      BY <3>3 DEF x
  <2>4. u = v
    BY <1>4, <2>3 DEF pushList, Tracers
  <2> HIDE DEF l, P
  <2>5. /\ L \in Seq(ListSet) /\ Len(L) = Len(s.lists)
        /\ \A k \in 1..Len(s.lists) : L[k] = IF k = l THEN x ELSE s.lists[k]
    BY <1>1, <1>2, <2>2, ExceptSeq
  <2>6. l \in Nat /\ S \in Seq(Nat)
    BY <1>2, <2>2, AppendProperties
  <2> HIDE DEF L, S
  <2>7. v \in Tracers /\ v.lists = L /\ v.stack = S /\ v.pool = P /\ Calm(s, v)
    BY <2>1, <2>5, <2>6 DEF Tracers, Calm
  <2> HIDE DEF v
  <2>8. PoolOK(v)
    <3>0. Len(P) \in Nat /\ Len(s.pool) = Len(P) + 1
      BY <1>2, <2>1, LenProperties
    <3>1. ASSUME NEW i \in 1..Len(P)
          PROVE  i + 1 \in 1..Len(s.pool) /\ i + 1 # 1 /\ P[i] = s.pool[i + 1]
      <4>1. i + 1 \in 1..(Len(P) + 1) /\ i + 1 # 1
        BY <3>0
      <4> QED
        BY <2>1, <3>0, <4>1
    <3>2. \A i \in 1..Len(P) : P[i] # l
      BY <2>1, <3>1 DEF PoolOK, Once
    <3>3. ASSUME NEW i \in 1..Len(P)
          PROVE  P[i] \in 1..Len(L) /\ L[P[i]].refs = 0 /\ L[P[i]].head = <<>>
      <4>1. /\ P[i] \in 1..Len(s.lists) /\ P[i] # l
            /\ s.lists[P[i]].refs = 0 /\ s.lists[P[i]].head = <<>>
        BY <3>1, <3>2 DEF PoolOK
      <4> QED
        BY <2>5, <4>1
    <3>4. Once(P)
      <4>1. \A i, j \in 1..Len(P) : i + 1 = j + 1 => i = j
        BY <1>2, <2>1
      <4> QED
        BY <3>1, <4>1 DEF PoolOK, Once
    <3>5. Len(P) <= PoolSize
      BY <1>2, <2>1, BFSearchAssumption DEF PoolOK
    <3> QED
      BY <2>7, <3>3, <3>4, <3>5 DEF PoolOK
  <2>9. Renewed(s, v, l, x)
    BY <1>2, <2>2, <2>5, <2>7, <2>8 DEF Renewed
  <2> QED
    BY <2>4, <2>6, <2>7, <2>9 DEF S, x
<1> QED
  BY <1>3, <1>4

--------------------------------------------------------------------------------
(* A tracer whose counts are right and whose claimed lists are frozen.        *)
Sane(s, m, N) == s \in Tracers /\ Counted(s, m, N) /\ Iced(s, m)

(* From s to u the claimed lists keep what they hold, and the k lowest lists  *)
(* of the stack stay on it and do too.                                        *)
Holds(s, u, m, k) ==
    /\ \A l \in Nat : m[l] > 0 => Kept(s, u, l)
    /\ k <= Len(s.stack) /\ k <= Len(u.stack)
    /\ \A i \in 1..k : u.stack[i] = s.stack[i] /\ Kept(s, u, s.stack[i])

(* Holding is transitive, for the lists below both levels.                    *)
LEMMA HoldsOn ==
  ASSUME NEW s, NEW u, NEW v, NEW m, NEW i \in Nat, NEW j \in Nat, NEW k \in Nat,
         Holds(s, u, m, i), Holds(u, v, m, j), k <= i, k <= j,
         Len(s.stack) \in Nat, Len(u.stack) \in Nat, Len(v.stack) \in Nat
  PROVE  Holds(s, v, m, k)
<1>1. k <= Len(s.stack) /\ k <= Len(v.stack) /\ \A a \in 1..k : a \in 1..i /\ a \in 1..j
  BY DEF Holds
<1>2. \A l \in Nat : m[l] > 0 => Kept(s, v, l)
  BY DEF Holds, Kept
<1>3. ASSUME NEW a \in 1..k PROVE v.stack[a] = s.stack[a] /\ Kept(s, v, s.stack[a])
  <2>1. u.stack[a] = s.stack[a] /\ Kept(s, u, s.stack[a])
    BY <1>1 DEF Holds
  <2>2. v.stack[a] = u.stack[a] /\ Kept(u, v, u.stack[a])
    BY <1>1 DEF Holds
  <2> QED
    BY <2>1, <2>2 DEF Kept
<1> QED
  BY <1>1, <1>2, <1>3 DEF Holds

(* Fewer claims are held all the more.                                        *)
LEMMA HoldsLess ==
  ASSUME NEW s, NEW u, NEW m \in Claims, NEW d \in Claims, NEW k, Holds(s, u, m, k),
         \A l \in Nat : d[l] <= m[l]
  PROVE  Holds(s, u, d, k)
<1>1. \A l \in Nat : d[l] \in Nat /\ m[l] \in Nat
  BY DEF Claims
<1> QED
  BY <1>1 DEF Holds

LEMMA HoldsSelf ==
  ASSUME NEW s, NEW m, NEW N, Sane(s, m, N), NEW k \in Nat, k <= Len(s.stack)
  PROVE  Holds(s, s, m, k)
<1>1. Len(s.stack) \in Nat /\ \A i \in 1..k : i \in 1..Len(s.stack)
  BY Lengths DEF Sane
<1> QED
  BY <1>1 DEF Holds, Kept, Sane, Counted, RefsOK, StackOK

(* When nobody's list changes.                                                *)
LEMMA KeepsHolds ==
  ASSUME NEW s, NEW u, NEW d \in Claims, NEW N, Counted(u, d, N), Keeps(s, u, Live(u, d)),
         NEW k \in Nat, k <= Len(u.stack), k <= Len(s.stack), Len(u.stack) \in Nat,
         \A i \in 1..k : u.stack[i] = s.stack[i]
  PROVE  Holds(s, u, d, k)
<1>1. ASSUME NEW l \in Nat, d[l] > 0 PROVE Kept(s, u, l)
  <2>1. l \in 1..Len(u.lists) /\ On(u.stack, l) \in Nat /\ d[l] \in Nat
    BY <1>1, OnIs DEF Counted, RefsOK, Claims
  <2>2. l \in Live(u, d)
    BY <1>1, <2>1 DEF Live
  <2> QED
    BY <2>2 DEF Keeps
<1>2. ASSUME NEW i \in 1..k PROVE Kept(s, u, s.stack[i])
  <2> DEFINE l == u.stack[i]
  <2>0. i \in 1..Len(u.stack) /\ l = s.stack[i]
    OBVIOUS
  <2>1. l \in 1..Len(u.lists)
    BY <2>0 DEF Counted, StackOK
  <2>2. On(u.stack, l) = 1
    BY <2>0 DEF On
  <2>3. d[l] \in Nat
    <3>1. l \in Nat
      BY <2>1
    <3> HIDE DEF l
    <3> QED
      BY <3>1 DEF Claims
  <2> HIDE DEF l
  <2>4. l \in Live(u, d)
    BY <2>1, <2>2, <2>3 DEF Live
  <2> QED
    BY <2>0, <2>4 DEF Keeps
<1> QED
  BY <1>1, <1>2 DEF Holds

(* Fewer claims, or a later node to hand out.                                 *)
LEMMA CountedLess ==
  ASSUME NEW s \in Tracers, NEW m \in Claims, NEW d \in Claims, NEW N \in Int, NEW M \in Int,
         Counted(s, m, N), \A l \in Nat : d[l] <= m[l], N <= M
  PROVE  Counted(s, d, M)
<1>1. ASSUME NEW l \in 1..Len(s.lists)
      PROVE  /\ On(s.stack, l) + d[l] <= s.lists[l].refs
             /\ s.lists[l].refs > 0 => s.lists[l].node < M
  <2>0. l \in Nat /\ s.lists[l].refs \in Nat /\ s.lists[l].node \in Int
    BY ListOf
  <2>1. m[l] \in Nat /\ d[l] \in Nat /\ d[l] <= m[l] /\ On(s.stack, l) \in Nat
    BY <2>0, OnIs DEF Claims
  <2>2. /\ On(s.stack, l) + m[l] <= s.lists[l].refs
        /\ s.lists[l].refs > 0 => s.lists[l].node < N
    BY DEF Counted, RefsOK
  <2> DEFINE x == m[l]
             y == d[l]
             o == On(s.stack, l)
             w == s.lists[l].refs
             v == s.lists[l].node
  <2>3. x \in Nat /\ y \in Nat /\ y <= x /\ o \in Nat /\ w \in Nat /\ v \in Int
    BY <2>0, <2>1
  <2>4. o + x <= w /\ (w > 0 => v < N)
    BY <2>2
  <2> HIDE DEF x, y, o, w, v
  <2>5. o + y <= w /\ (w > 0 => v < M)
    BY <2>3, <2>4
  <2> QED
    BY <2>5 DEF y, o, w, v
<1>2. ASSUME NEW l \in Nat, d[l] > 0 PROVE l \in 1..Len(s.lists)
  <2> DEFINE x == m[l]
             y == d[l]
  <2>2. x \in Nat /\ y \in Nat /\ y <= x /\ y > 0
    BY <1>2 DEF Claims
  <2> HIDE DEF x, y
  <2>3. x > 0
    BY <2>2
  <2>1. m[l] > 0
    BY <2>3 DEF x
  <2> QED
    BY <2>1 DEF Counted, RefsOK
<1> QED
  BY <1>1, <1>2 DEF Counted, RefsOK

(* Fewer claims are counted all the more, and nodes may be handed out         *)
(* meanwhile.                                                                 *)
LEMMA SaneLess ==
  ASSUME NEW s, NEW m \in Claims, NEW d \in Claims, NEW N \in Int, NEW M \in Int,
         Sane(s, m, N), \A l \in Nat : d[l] <= m[l], N <= M
  PROVE  Sane(s, d, M)
<1>1. \A l \in Nat : d[l] \in Nat /\ m[l] \in Nat
  BY DEF Claims
<1>2. s \in Tracers /\ Counted(s, m, N) /\ Iced(s, m)
  BY DEF Sane
<1>3. Counted(s, d, M)
  BY <1>2, CountedLess
<1>4. ASSUME NEW l \in Nat, d[l] > 0 PROVE s.lists[l].frozen
  <2> DEFINE x == m[l]
             y == d[l]
  <2>1. x \in Nat /\ y \in Nat /\ y <= x /\ y > 0
    BY <1>1, <1>4
  <2> HIDE DEF x, y
  <2>2. x > 0
    BY <2>1
  <2> QED
    BY <1>2, <2>2 DEF Iced, x
<1>5. Iced(s, d)
  BY <1>4 DEF Iced
<1> QED
  BY <1>2, <1>3, <1>5 DEF Sane

(* What is said of the lists does not depend on the levels.                   *)
LEMMA SaneBeside ==
  ASSUME NEW s, NEW u \in Tracers, NEW m, NEW N, Sane(s, m, N),
         u.lists = s.lists, u.pool = s.pool, u.stack = s.stack
  PROVE  Sane(u, m, N)
  BY DEF Sane, Counted, StackOK, PoolOK, RefsOK, Iced

LEMMA HoldsBeside ==
  ASSUME NEW s, NEW u, NEW v, NEW w, NEW m, NEW k, Holds(s, u, m, k),
         v.lists = s.lists, v.stack = s.stack, w.lists = u.lists, w.stack = u.stack
  PROVE  Holds(v, w, m, k)
  BY DEF Holds, Kept

LEMMA OnAppend ==
  ASSUME NEW p \in Seq(Nat), NEW l \in Nat, NEW k
  PROVE  /\ On(Append(p, l), k) = IF k = l THEN 1 ELSE On(p, k)
         /\ Once(p) /\ On(p, l) = 0 => Once(Append(p, l))
<1> DEFINE q == Append(p, l)
           n == Len(p)
<1>1. /\ n \in Nat /\ Len(q) = n + 1 /\ q[n + 1] = l
      /\ \A i \in 1..n : q[i] = p[i]
  BY AppendProperties, LenProperties
<1>2. \A i \in 1..Len(q) : i \in 1..n \/ i = n + 1
  BY <1>1
<1>3. n + 1 \in 1..Len(q) /\ \A i \in 1..n : i \in 1..Len(q)
  BY <1>1
<1> HIDE DEF q
<1>4. On(q, k) = IF k = l THEN 1 ELSE On(p, k)
  <2>1. (\E i \in 1..Len(q) : q[i] = k) <=> k = l \/ \E i \in 1..n : p[i] = k
    BY <1>1, <1>2, <1>3
  <2> QED
    BY <2>1 DEF On
<1>5. ASSUME Once(p), On(p, l) = 0 PROVE Once(q)
  <2>1. \A i \in 1..n : p[i] # l
    BY <1>5, OnIs
  <2> QED
    BY <1>1, <1>2, <1>5, <2>1 DEF Once
<1> QED
  BY <1>4, <1>5 DEF q

LEMMA FrontIs ==
  ASSUME NEW S, NEW p \in Seq(S), Len(p) > 0
  PROVE  /\ Front(p) \in Seq(S) /\ Len(Front(p)) = Len(p) - 1 /\ Last(p) = p[Len(p)] /\ Last(p) \in S
         /\ \A i \in 1..(Len(p) - 1) : Front(p)[i] = p[i]
<1> DEFINE n == Len(p) - 1
<1>1. Len(p) \in Nat /\ n \in Nat /\ 1 \in Int /\ n \in Int /\ n + 1 = Len(p)
  BY LenProperties
<1>2. \A i \in 1..Len(p) : p[i] \in S
  BY ElementOfSeq
<1>3. \A i \in 1..n : p[i] \in S
  BY <1>1, <1>2
<1>4. p[Len(p)] \in S
  BY <1>1, <1>2
<1> HIDE DEF n
<1>5. /\ SubSeq(p, 1, n) \in Seq(S)
      /\ Len(SubSeq(p, 1, n)) = IF 1 <= n THEN n - 1 + 1 ELSE 0
      /\ \A i \in 1..(n - 1 + 1) : SubSeq(p, 1, n)[i] = p[1 + i - 1]
  BY <1>1, <1>3, SubSeqProperties
<1>6. /\ Len(SubSeq(p, 1, n)) = n
      /\ \A i \in 1..n : SubSeq(p, 1, n)[i] = p[i]
  BY <1>1, <1>5
<1> QED
  BY <1>4, <1>5, <1>6 DEF Front, Last, n

LEMMA OnFront ==
  ASSUME NEW p \in Seq(Nat), Len(p) > 0, Once(p), NEW k
  PROVE  /\ On(Front(p), k) = IF k = Last(p) THEN 0 ELSE On(p, k)
         /\ Once(Front(p)) /\ On(p, Last(p)) = 1
<1>1. /\ Len(Front(p)) = Len(p) - 1 /\ Last(p) = p[Len(p)] /\ Len(p) \in Nat
      /\ \A i \in 1..(Len(p) - 1) : Front(p)[i] = p[i]
  BY FrontIs, LenProperties
<1>2. \A i \in 1..Len(p) : i \in 1..(Len(p) - 1) \/ i = Len(p)
  BY <1>1
<1>3. Len(p) \in 1..Len(p) /\ \A i \in 1..(Len(p) - 1) : i \in 1..Len(p) /\ i # Len(p)
  BY <1>1
<1>4. (\E i \in 1..(Len(p) - 1) : Front(p)[i] = k) <=> k # Last(p) /\ \E i \in 1..Len(p) : p[i] = k
  BY <1>1, <1>2, <1>3 DEF Once
<1>5. Once(Front(p))
  BY <1>1, <1>3 DEF Once
<1> QED
  BY <1>1, <1>3, <1>4, <1>5 DEF On

(* A list is pushed on the stack that nobody refers to.                       *)
LEMMA PushListSane ==
  ASSUME NEW s, NEW m \in Claims, NEW N \in Int, Sane(s, m, N),
         NEW id \in Int, NEW M \in Int, N <= M, id < M, NEW u, u = pushList(s, id)
  PROVE  /\ Sane(u, m, M) /\ Calm(s, u) /\ Len(u.stack) = Len(s.stack) + 1
         /\ Holds(s, u, m, Len(s.stack))
         /\ u.lists[u.stack[Len(s.stack) + 1]] = CommandList(id)
<1> DEFINE x == CommandList(id)
           n == Len(s.stack)
<1>1. PICK l \in Nat : Renewed(s, u, l, x) /\ Calm(s, u) /\ u.stack = Append(s.stack, l)
  BY ZenonT(30), PushList DEF Sane, Counted
<1>2. x \in ListSet /\ x.head = <<>> /\ x.node = id /\ x.refs = 1 /\ x.frozen = FALSE
  BY CommandListIs
<1> HIDE DEF x
<1>3. /\ s \in Tracers /\ u \in Tracers /\ s.stack \in Seq(Nat) /\ n \in Nat /\ StackOK(s)
      /\ Len(s.lists) \in Nat /\ Len(u.lists) \in Nat
  BY <1>1, TracerFields, Lengths DEF Sane, Renewed, Counted
<1>4. /\ Len(u.stack) = n + 1 /\ u.stack[n + 1] = l
      /\ \A i \in 1..n : u.stack[i] = s.stack[i]
  BY <1>1, <1>3, AppendProperties
<1>5. m[l] = 0 /\ On(s.stack, l) = 0
  <2>0. m[l] \in Nat /\ On(s.stack, l) \in Nat
    BY OnIs DEF Claims
  <2>1. CASE l \in 1..Len(s.lists)
    <3>1. s.lists[l].refs = 0 /\ On(s.stack, l) + m[l] <= s.lists[l].refs
      BY <1>1, <2>1 DEF Renewed, Sane, Counted, RefsOK
    <3> QED
      BY <2>0, <3>1
  <2>2. CASE l \notin 1..Len(s.lists)
    <3>1. ~(m[l] > 0)
      BY <2>2 DEF Sane, Counted, RefsOK
    <3>2. \A i \in 1..Len(s.stack) : s.stack[i] # l
      BY <1>3, <2>2 DEF StackOK
    <3>3. On(s.stack, l) = 0
      BY <3>2, OnIs
    <3> QED
      BY <2>0, <3>1, <3>3
  <2> QED
    BY <2>1, <2>2
<1>6. \A k : On(u.stack, k) = IF k = l THEN 1 ELSE On(s.stack, k)
  BY <1>1, <1>3, OnAppend
<1>7. StackOK(u)
  <2>1. Once(u.stack)
    BY <1>1, <1>3, <1>5, OnAppend DEF StackOK
  <2>2. ASSUME NEW i \in 1..Len(u.stack) PROVE u.stack[i] \in 1..Len(u.lists)
    <3>1. CASE i \in 1..n
      <4>1. s.stack[i] \in 1..Len(s.lists) /\ u.stack[i] = s.stack[i]
        BY <1>3, <1>4, <3>1 DEF StackOK
      <4>2. Len(s.lists) <= Len(u.lists)
        BY <1>1 DEF Renewed
      <4> QED
        BY <1>3, <4>1, <4>2
    <3>2. CASE i = n + 1
      BY <1>1, <1>4, <3>2 DEF Renewed
    <3> QED
      BY <1>3, <1>4, <3>1, <3>2
  <2> QED
    BY <2>1, <2>2 DEF StackOK
<1>8. RefsOK(u, m, M)
  <2>1. ASSUME NEW k \in 1..Len(u.lists)
        PROVE  /\ On(u.stack, k) + m[k] <= u.lists[k].refs
               /\ u.lists[k].refs > 0 => u.lists[k].node < M
    <3>1. CASE k = l
      <4>1. On(u.stack, k) = 1 /\ m[k] = 0 /\ u.lists[k].refs = 1 /\ u.lists[k].node = id
        BY <1>1, <1>2, <1>5, <1>6, <3>1 DEF Renewed
      <4> QED
        BY <4>1
    <3>2. CASE k # l
      <4>1. k \in 1..Len(s.lists) /\ u.lists[k] = s.lists[k]
        BY <1>1, <3>2 DEF Renewed
      <4>2. /\ On(s.stack, k) + m[k] <= s.lists[k].refs
            /\ s.lists[k].refs > 0 => s.lists[k].node < N
        BY <4>1 DEF Sane, Counted, RefsOK
      <4>3. s.lists[k].node \in Int
        BY <1>3, <4>1, ListOf
      <4> QED
        BY <1>6, <3>2, <4>1, <4>2, <4>3
    <3> QED
      BY <3>1, <3>2
  <2>2. ASSUME NEW k \in Nat, m[k] > 0 PROVE k \in 1..Len(u.lists)
    <3>1. k \in 1..Len(s.lists)
      BY <2>2 DEF Sane, Counted, RefsOK
    <3> QED
      BY <1>1, <1>3, <3>1 DEF Renewed
  <2> QED
    BY <2>1, <2>2 DEF RefsOK
<1>9. ASSUME NEW k \in 1..Len(s.lists), k # l PROVE Kept(s, u, k) /\ u.lists[k] = s.lists[k]
  <2>1. k \in 1..Len(u.lists)
    BY <1>1, <1>3 DEF Renewed
  <2>2. u.lists[k] = s.lists[k]
    BY <1>1, <1>9, <2>1 DEF Renewed
  <2> QED
    BY <2>1, <2>2 DEF Kept
<1>10. \A k \in Nat : m[k] > 0 => Kept(s, u, k) /\ u.lists[k] = s.lists[k]
  BY <1>5, <1>9 DEF Sane, Counted, RefsOK
<1>11. \A i \in 1..n : u.stack[i] = s.stack[i] /\ Kept(s, u, s.stack[i])
  <2>1. \A i \in 1..n : s.stack[i] \in 1..Len(s.lists) /\ s.stack[i] # l
    BY <1>3, <1>5, OnIs DEF StackOK
  <2> QED
    BY <1>4, <1>9, <2>1
<1>12. Holds(s, u, m, n)
  BY <1>3, <1>4, <1>10, <1>11 DEF Holds
<1>13. Sane(u, m, M)
  <2>1. Iced(u, m)
    BY <1>10 DEF Sane, Iced
  <2>2. PoolOK(u)
    BY <1>1 DEF Renewed
  <2> QED
    BY <1>3, <1>7, <1>8, <2>1, <2>2 DEF Sane, Counted
<1> QED
  BY <1>1, <1>4, <1>12, <1>13 DEF Renewed, x

(* A level of the Trailer.                                                    *)
LEMMA PushIs ==
  ASSUME NEW s \in Tracers, NEW id \in Int
  PROVE  /\ Push(s, id) \in Tracers
         /\ Push(s, id).lists = s.lists /\ Push(s, id).pool = s.pool /\ Push(s, id).stack = s.stack
         /\ Push(s, id).nodes = s.nodes /\ Push(s, id).level = s.level
         /\ Push(s, id).pushes = s.pushes /\ Push(s, id).store = s.store
         /\ Push(s, id).frames = Append(s.frames, [id |-> id, store |-> s.store])
<1> DEFINE f == [id |-> id, store |-> s.store]
           F == Append(s.frames, f)
<1>1. f \in LevelSet
  BY TracerFields DEF LevelSet
<1> HIDE DEF f
<1>2. F \in Seq(LevelSet)
  BY <1>1, TracerFields, AppendProperties
<1>3. Push(s, id) = [s EXCEPT !.frames = F]
  BY DEF Push, Tracers, f
<1> HIDE DEF F
<1> QED
  BY <1>2, <1>3 DEF Tracers, F, f

LEMMA PushOwnIs ==
  ASSUME NEW s \in Tracers
  PROVE  /\ PushOwn(s) \in Tracers
         /\ PushOwn(s).lists = s.lists /\ PushOwn(s).pool = s.pool /\ PushOwn(s).stack = s.stack
         /\ PushOwn(s).nodes = s.nodes /\ PushOwn(s).level = s.level
         /\ PushOwn(s).pushes = s.pushes + 1 /\ PushOwn(s).store = s.store
         /\ PushOwn(s).frames = Append(s.frames, [id |-> s.pushes + 1, store |-> s.store])
<1> DEFINE n == s.pushes + 1
           r == [s EXCEPT !.pushes = n]
<1>1. n \in Nat /\ n \in Int
  BY TracerFields
<1>2. PushOwn(s) = Push(r, n)
  BY DEF PushOwn, Tracers
<1> HIDE DEF n
<1>3. /\ r \in Tracers /\ r.lists = s.lists /\ r.pool = s.pool /\ r.stack = s.stack
      /\ r.nodes = s.nodes /\ r.level = s.level /\ r.pushes = n /\ r.store = s.store
      /\ r.frames = s.frames
  BY <1>1 DEF Tracers
<1> HIDE DEF r
<1> QED
  BY <1>1, <1>2, <1>3, PushIs DEF n

(* A node is opened: a list and a level, with numbers of their own.           *)
LEMMA PushNodeSane ==
  ASSUME NEW s, NEW m \in Claims, Sane(s, m, s.nodes), NEW u, u = pushNode(s)
  PROVE  /\ Sane(u, m, u.nodes) /\ Len(u.stack) = Len(s.stack) + 1
         /\ Holds(s, u, m, Len(s.stack))
         /\ u.lists[u.stack[Len(s.stack) + 1]] = CommandList(s.nodes)
         /\ u.nodes = s.nodes + 1 /\ u.level = s.level + 1 /\ u.pushes = s.pushes + 1
         /\ u.store = s.store
         /\ u.frames = Append(s.frames, [id |-> s.pushes + 1, store |-> s.store])
<1> DEFINE id == s.nodes
           M == id + 1
           a == pushList(s, id)
           b == PushOwn(a)
           v == [b EXCEPT !.nodes = M, !.level = b.level + 1]
<1>1. s \in Tracers /\ id \in Int /\ M \in Int /\ id <= M /\ id < M
  BY TracerFields DEF Sane
<1>2. /\ Sane(a, m, M) /\ Calm(s, a) /\ Len(a.stack) = Len(s.stack) + 1
      /\ Holds(s, a, m, Len(s.stack))
      /\ a.lists[a.stack[Len(s.stack) + 1]] = CommandList(id)
  <2> HIDE DEF a, M
  <2>1. id \in Int /\ a = pushList(s, id)
    BY <1>1 DEF a
  <2> HIDE DEF id
  <2> QED
    BY <1>1, <2>1, PushListSane DEF id
<1>3. a \in Tracers
  BY <1>2 DEF Sane
<1> HIDE DEF a
<1>4. /\ b \in Tracers /\ b.lists = a.lists /\ b.pool = a.pool /\ b.stack = a.stack
      /\ b.nodes = s.nodes /\ b.level = s.level /\ b.pushes = s.pushes + 1 /\ b.store = s.store
      /\ b.frames = Append(s.frames, [id |-> s.pushes + 1, store |-> s.store])
  BY <1>2, <1>3, PushOwnIs DEF Calm
<1>5. u = v
  <2>1. u = [b EXCEPT !.nodes = @ + 1, !.level = @ + 1]
    BY DEF pushNode, a
  <2> HIDE DEF b
  <2> QED
    BY <1>4, <2>1 DEF Tracers
<1> HIDE DEF b
<1>6. b.level + 1 \in Int
  BY <1>4, TracerFields
<1>7. /\ v \in Tracers /\ v.lists = b.lists /\ v.pool = b.pool /\ v.stack = b.stack
      /\ v.nodes = M /\ v.level = b.level + 1 /\ v.pushes = b.pushes /\ v.store = b.store
      /\ v.frames = b.frames
  BY <1>1, <1>4, <1>6 DEF Tracers
<1> HIDE DEF v, M
<1>8. Sane(v, m, M)
  BY <1>2, <1>4, <1>7, SaneBeside
<1>9. Holds(s, v, m, Len(s.stack))
  BY <1>2, <1>4, <1>7, HoldsBeside
<1> QED
  BY <1>2, <1>4, <1>5, <1>7, <1>8, <1>9 DEF M

(* A checkpoint is captured: the stack is claimed once more.                  *)
LEMMA CaptureSane ==
  ASSUME NEW s, NEW m \in Claims, Sane(s, m, s.nodes), NEW u, u = captureCheckpoint(s)
  PROVE  /\ More(m, s.stack) \in Claims /\ Sane(u, More(m, s.stack), u.nodes)
         /\ Len(u.stack) = Len(s.stack) + 1
         /\ Holds(s, u, More(m, s.stack), Len(s.stack))
         /\ u.lists[u.stack[Len(s.stack) + 1]] = CommandList(s.nodes)
         /\ u.nodes = s.nodes + 1 /\ u.level = s.level + 1 /\ u.pushes = s.pushes + 1
         /\ u.store = s.store
         /\ u.frames = Append(s.frames, [id |-> s.pushes + 1, store |-> s.store])
<1> DEFINE f == AllFrozen(s, s.stack)
           d == More(m, s.stack)
           n == Len(s.stack)
<1>1. s \in Tracers /\ s.nodes \in Int /\ n \in Nat /\ Counted(s, m, s.nodes) /\ Iced(s, m)
  BY TracerFields, Lengths DEF Sane
<1>2. /\ f \in Tracers /\ Aside(s, f)
      /\ d \in Claims /\ Counted(f, d, s.nodes)
      /\ Len(f.lists) = Len(s.lists) /\ Keeps(s, f, 1..Len(s.lists))
      /\ Iced(f, d)
  <2> DEFINE N == s.nodes
  <2>1. N \in Int /\ Counted(s, m, N)
    BY <1>1
  <2> HIDE DEF N, f
  <2>2. f = AllFrozen(s, s.stack)
    BY DEF f
  <2> HIDE DEF d
  <2>3. /\ f \in Tracers /\ Aside(s, f)
        /\ More(m, s.stack) \in Claims /\ Counted(f, More(m, s.stack), N)
        /\ Len(f.lists) = Len(s.lists) /\ Keeps(s, f, 1..Len(s.lists))
        /\ Iced(f, More(m, s.stack))
    BY <1>1, <2>1, <2>2, FreezeCounts
  <2> QED
    BY <2>3 DEF N, d
<1> HIDE DEF f, d
<1>3. Sane(f, d, f.nodes) /\ f.stack = s.stack
  BY <1>2 DEF Sane, Aside
<1>4. u = pushNode(f)
  BY DEF captureCheckpoint, AllFrozen, f
<1>5. /\ Sane(u, d, u.nodes) /\ Len(u.stack) = Len(f.stack) + 1
      /\ Holds(f, u, d, Len(f.stack))
      /\ u.lists[u.stack[Len(f.stack) + 1]] = CommandList(f.nodes)
      /\ u.nodes = f.nodes + 1 /\ u.level = f.level + 1 /\ u.pushes = f.pushes + 1
      /\ u.store = f.store
      /\ u.frames = Append(f.frames, [id |-> f.pushes + 1, store |-> f.store])
  BY <1>2, <1>3, <1>4, PushNodeSane
<1>6. Holds(s, f, d, n)
  <2>1. Keeps(s, f, Live(f, d))
    BY <1>2 DEF Keeps, Live
  <2>2. \A i \in 1..n : f.stack[i] = s.stack[i]
    BY <1>3
  <2> QED
    BY <1>1, <1>2, <1>3, <2>1, <2>2, KeepsHolds
<1>7. Holds(s, u, d, n)
  <2>1. Len(u.stack) \in Nat
    BY <1>5, Lengths DEF Sane
  <2> QED
    BY <1>1, <1>3, <1>5, <1>6, <2>1, HoldsOn
<1> QED
  BY <1>2, <1>3, <1>5, <1>7 DEF Aside, d

--------------------------------------------------------------------------------
(* The last level goes, and the last list with it.                            *)
LEMMA AbandonIs ==
  ASSUME NEW s \in Tracers, Len(s.frames) > 0, Len(s.stack) > 0
  PROVE  /\ Abandon(s) \in Tracers
         /\ Abandon(s).lists = s.lists /\ Abandon(s).pool = s.pool /\ Abandon(s).nodes = s.nodes
         /\ Abandon(s).level = s.level /\ Abandon(s).pushes = s.pushes
         /\ Abandon(s).stack = Front(s.stack) /\ Abandon(s).frames = Front(s.frames)
         /\ Abandon(s).store = Last(s.frames).store
<1> DEFINE S == Front(s.stack)
           F == Front(s.frames)
           w == Last(s.frames).store
           v == [s EXCEPT !.store = w, !.frames = F, !.stack = S]
<1>1. S \in Seq(Nat) /\ F \in Seq(LevelSet) /\ Last(s.frames) \in LevelSet
  BY TracerFields, FrontIs
<1>2. w \in Stores
  BY <1>1 DEF LevelSet
<1>3. Abandon(s) = v
  BY DEF Abandon, popList, Pop, Tracers
<1> HIDE DEF S, F, w
<1>4. /\ v \in Tracers /\ v.lists = s.lists /\ v.pool = s.pool /\ v.nodes = s.nodes
      /\ v.level = s.level /\ v.pushes = s.pushes /\ v.stack = S /\ v.frames = F /\ v.store = w
  BY <1>1, <1>2 DEF Tracers
<1> QED
  BY <1>3, <1>4 DEF S, F, w

(* A list taken off the stack leaves a reference to be dropped.               *)
Owed(m, l) == [k \in Nat |-> m[k] + IF k = l THEN 1 ELSE 0]

LEMMA OwedIs ==
  ASSUME NEW m \in Claims, NEW l \in Nat
  PROVE  /\ Owed(m, l) \in Claims
         /\ \A k \in Nat : m[k] \in Nat /\ Owed(m, l)[k] = IF k = l THEN m[k] + 1 ELSE m[k]
         /\ Owed(m, l)[l] > 0
         /\ [Owed(m, l) EXCEPT ![l] = @ - 1] = m
<1> DEFINE d == Owed(m, l)
           e == [d EXCEPT ![l] = @ - 1]
<1>1. \A k \in Nat : m[k] \in Nat
  BY DEF Claims
<1>2. \A k \in Nat : d[k] = IF k = l THEN m[k] + 1 ELSE m[k]
  <2> TAKE k \in Nat
  <2>1. m[k] + 0 = m[k] /\ d[k] = m[k] + IF k = l THEN 1 ELSE 0
    BY <1>1 DEF Owed
  <2> HIDE DEF d
  <2> QED
    BY <2>1
<1>3. d = [k \in Nat |-> d[k]]
  BY DEF Owed
<1> HIDE DEF d
<1>4. \A k \in Nat : d[k] \in Nat
  BY <1>1, <1>2
<1>5. d \in Claims
  BY <1>3, <1>4 DEF Claims
<1>6. \A k \in Nat : e[k] = m[k]
  <2> TAKE k \in Nat
  <2>1. e[k] = IF k = l THEN d[l] - 1 ELSE d[k]
    BY <1>5 DEF Claims
  <2> HIDE DEF e
  <2> QED
    BY <1>1, <1>2, <2>1
<1>7. e \in Claims
  <2>1. DOMAIN e = Nat /\ e = [k \in Nat |-> e[k]]
    BY <1>5 DEF Claims
  <2> HIDE DEF e
  <2> QED
    BY <1>1, <1>6, <2>1 DEF Claims
<1>8. e = m
  <2> HIDE DEF e
  <2>1. \A f, g \in Claims : (\A k \in Nat : f[k] = g[k]) => f = g
    BY DEF Claims
  <2> QED
    BY <1>6, <1>7, <2>1
<1>9. d[l] > 0
  BY <1>1, <1>2
<1> QED
  BY <1>1, <1>2, <1>5, <1>8, <1>9 DEF d

(* A replay that fails closes its level and takes its list off the stack      *)
(* (tracer.cpp:92-98).                                                        *)
LEMMA AbandonSane ==
  ASSUME NEW s, NEW m \in Claims, NEW N \in Int, Sane(s, m, N), Len(s.frames) > 0, Len(s.stack) > 0,
         NEW u, u = Abandon(s)
  PROVE  /\ Sane(u, m, N) /\ Counted(u, Owed(m, Last(s.stack)), N)
         /\ Owed(m, Last(s.stack)) \in Claims /\ Last(s.stack) \in Nat
         /\ Len(u.stack) = Len(s.stack) - 1
         /\ \A i \in 1..(Len(s.stack) - 1) : u.stack[i] = s.stack[i]
         /\ Holds(s, u, m, Len(s.stack) - 1)
<1> DEFINE l == Last(s.stack)
           d == Owed(m, l)
           n == Len(s.stack) - 1
<1>1. /\ s \in Tracers /\ s.stack \in Seq(Nat) /\ n \in Nat /\ StackOK(s)
      /\ Len(s.stack) \in Nat /\ Len(s.stack) \in 1..Len(s.stack)
      /\ Counted(s, m, N) /\ Iced(s, m)
  BY TracerFields, Lengths DEF Sane, Counted
<1>2. /\ u \in Tracers /\ u.lists = s.lists /\ u.pool = s.pool /\ u.stack = Front(s.stack)
  BY <1>1, AbandonIs
<1>3. /\ Len(u.stack) = n /\ \A i \in 1..n : u.stack[i] = s.stack[i] /\ i \in 1..Len(s.stack)
      /\ l = s.stack[Len(s.stack)]
  <2>1. /\ Len(u.stack) = n /\ \A i \in 1..n : u.stack[i] = s.stack[i]
        /\ l = s.stack[Len(s.stack)]
    <3>1. s.stack \in Seq(Nat) /\ Len(s.stack) > 0
      BY <1>1
    <3>2. /\ Len(Front(s.stack)) = Len(s.stack) - 1 /\ Last(s.stack) = s.stack[Len(s.stack)]
          /\ \A i \in 1..(Len(s.stack) - 1) : Front(s.stack)[i] = s.stack[i]
      BY <3>1, FrontIs
    <3> QED
      BY <1>2, <3>2
  <2>2. \A i \in 1..n : i \in 1..Len(s.stack)
    BY <1>1
  <2> QED
    BY <2>1, <2>2
<1>4. l \in 1..Len(s.lists) /\ l \in Nat
  BY <1>1, <1>3 DEF StackOK
<1>5. /\ \A k : On(u.stack, k) = IF k = l THEN 0 ELSE On(s.stack, k)
      /\ Once(u.stack) /\ On(s.stack, l) = 1
  BY <1>1, <1>2, OnFront DEF StackOK
<1> HIDE DEF l, n
<1>6. d \in Claims /\ \A k \in Nat : m[k] \in Nat /\ d[k] = IF k = l THEN m[k] + 1 ELSE m[k]
  BY <1>4, OwedIs
<1> HIDE DEF d
<1>7. StackOK(u)
  BY <1>1, <1>2, <1>3, <1>5 DEF StackOK
<1>8. RefsOK(u, d, N)
  <2>1. ASSUME NEW k \in 1..Len(u.lists)
        PROVE  /\ On(u.stack, k) + d[k] <= u.lists[k].refs
               /\ u.lists[k].refs > 0 => u.lists[k].node < N
    <3>1. /\ On(s.stack, k) + m[k] <= s.lists[k].refs
          /\ s.lists[k].refs > 0 => s.lists[k].node < N
      BY <1>1, <1>2 DEF Counted, RefsOK
    <3>2. On(u.stack, k) + d[k] = On(s.stack, k) + m[k]
      <4>1. k \in Nat
        OBVIOUS
      <4>2. On(s.stack, k) \in Nat /\ m[k] \in Nat
        BY <4>1, <1>6, OnIs
      <4> QED
        BY <4>1, <4>2, <1>5, <1>6
    <3> QED
      BY <1>2, <3>1, <3>2
  <2>2. ASSUME NEW k \in Nat, d[k] > 0 PROVE k \in 1..Len(u.lists)
    BY <1>1, <1>2, <1>4, <1>6, <2>2 DEF Counted, RefsOK
  <2> QED
    BY <2>1, <2>2 DEF RefsOK
<1>9. PoolOK(u)
  BY <1>1, <1>2 DEF Counted, PoolOK
<1>10. Counted(u, d, N)
  BY <1>7, <1>8, <1>9 DEF Counted
<1>11. Sane(u, m, N)
  <2>1. \A k \in Nat : m[k] <= d[k]
    BY <1>6
  <2>2. N <= N
    OBVIOUS
  <2>3. Counted(u, m, N)
    BY <1>2, <1>6, <1>10, <2>1, <2>2, CountedLess
  <2> QED
    BY <1>1, <1>2, <2>3 DEF Sane, Iced
<1>12. Holds(s, u, m, n)
  <2>1. \A k \in 1..Len(s.lists) : Kept(s, u, k)
    BY <1>2 DEF Kept
  <2>2. n <= Len(s.stack)
    BY <1>1 DEF n
  <2>3. \A k \in Nat : m[k] > 0 => k \in 1..Len(s.lists)
    BY <1>1 DEF Counted, RefsOK
  <2>4. \A i \in 1..n : s.stack[i] \in 1..Len(s.lists)
    BY <1>1, <1>3 DEF StackOK
  <2> QED
    BY <1>1, <1>3, <2>1, <2>2, <2>3, <2>4 DEF Holds
<1> QED
  BY <1>3, <1>4, <1>6, <1>10, <1>11, <1>12 DEF l, d, n

(* Closing a level lets its list go; claims on it stay counted.               *)
LEMMA CloseSane ==
  ASSUME NEW s, NEW m \in Claims, NEW N \in Int, Sane(s, m, N), Len(s.frames) > 0, Len(s.stack) > 0,
         NEW u, u = Close(s, Last(s.stack))
  PROVE  /\ Sane(u, m, N) /\ u.stack = Front(s.stack) /\ u.frames = Front(s.frames)
         /\ u.store = Last(s.frames).store
         /\ u.nodes = s.nodes /\ u.level = s.level /\ u.pushes = s.pushes
         /\ Holds(s, u, m, Len(s.stack) - 1)
<1> DEFINE l == Last(s.stack)
           d == Owed(m, l)
           n == Len(s.stack) - 1
           a == Abandon(s)
           e == [d EXCEPT ![l] = @ - 1]
<1>1. s \in Tracers /\ n \in Nat /\ Len(s.stack) \in Nat
  BY Lengths DEF Sane
<1>2. /\ Sane(a, m, N) /\ Counted(a, d, N)
      /\ d \in Claims /\ l \in Nat
      /\ Len(a.stack) = n
      /\ \A i \in 1..n : a.stack[i] = s.stack[i]
      /\ Holds(s, a, m, n)
  <2> HIDE DEF a, d, l, n
  <2>1. a = Abandon(s)
    BY DEF a
  <2> QED
    BY <2>1, AbandonSane DEF d, l, n
<1>3. /\ a \in Tracers
      /\ a.lists = s.lists /\ a.pool = s.pool /\ a.nodes = s.nodes
      /\ a.level = s.level /\ a.pushes = s.pushes
      /\ a.stack = Front(s.stack) /\ a.frames = Front(s.frames)
      /\ a.store = Last(s.frames).store
  BY <1>1, AbandonIs
<1>4. u = letgo(a, l)
  BY DEF Close, Abandon
<1> HIDE DEF a, n, l
<1>5. d[l] > 0 /\ e = m
  BY <1>2, OwedIs
<1> HIDE DEF d
<1>7. /\ letgo(a, l) \in Tracers /\ Aside(a, letgo(a, l))
      /\ Counted(letgo(a, l), e, N)
      /\ Keeps(a, letgo(a, l), Live(letgo(a, l), e))
  BY <1>2, <1>3, <1>5, LetgoCounts
<1> HIDE DEF e
<1>8. /\ u \in Tracers /\ Aside(a, u) /\ Counted(u, m, N) /\ Keeps(a, u, Live(u, m))
  BY <1>4, <1>5, <1>7
<1>9. u.stack = a.stack /\ Len(u.stack) \in Nat
  BY <1>8, Lengths DEF Aside
<1>10. Holds(a, u, m, n)
  <2>1. \A i \in 1..n : u.stack[i] = a.stack[i]
    BY <1>9
  <2>2. n \in Nat /\ n <= Len(u.stack) /\ n <= Len(a.stack)
    BY <1>1, <1>2, <1>9
  <2> QED
    BY <1>8, <1>9, <2>1, <2>2, KeepsHolds
<1>11. Holds(s, u, m, n)
  BY <1>1, <1>2, <1>9, <1>10, HoldsOn
<1>12. Iced(u, m)
  BY <1>2, <1>10 DEF Sane, Iced, Holds, Kept
<1> QED
  BY <1>3, <1>8, <1>11, <1>12 DEF Aside, Sane, n

(* The levels above the n lowest lists are closed, the last one first.        *)
Unwound(s, u, m, N, n) ==
    /\ Sane(u, m, N) /\ Len(u.stack) = n /\ Holds(s, u, m, n)
    /\ u.nodes = s.nodes /\ u.level = s.level /\ u.pushes = s.pushes
    /\ Len(u.frames) = Len(s.frames) - (Len(s.stack) - n)
    /\ \A k \in 1..Len(u.frames) : u.frames[k] = s.frames[k]
    /\ u.store = IF n = Len(s.stack) THEN s.store
                 ELSE s.frames[Len(s.frames) - (Len(s.stack) - n) + 1].store

(* Closing levels down to a shared prefix restores the store of the lowest    *)
(* of them.                                                                   *)
LEMMA UnwindSane ==
  ASSUME NEW s, NEW m \in Claims, NEW N \in Int, Sane(s, m, N), NEW n \in Nat, n <= Len(s.stack),
         Len(s.stack) - n <= Len(s.frames), NEW u, u = Unwind(s, n)
  PROVE  Unwound(s, u, m, N, n)
<1> DEFINE L == Len(s.stack)
           F == Len(s.frames)
           q == Reverse(SubSeq(s.stack, n + 1, L))
           z == L - n
<1>1. s \in Tracers /\ L \in Nat /\ F \in Nat /\ z \in Nat /\ s.stack \in Seq(Nat)
  BY Lengths, TracerFields DEF Sane
<1>2. /\ Len(q) = z /\ DOMAIN q = 1..Len(q)
      /\ \A i \in 1..z : q[i] = s.stack[L - i + 1]
  <2> DEFINE p == SubSeq(s.stack, n + 1, L)
  <2>1. \A i \in (n + 1)..L : s.stack[i] \in Nat
    BY <1>1, ElementOfSeq
  <2>2. n + 1 \in Int /\ L \in Int
    BY <1>1
  <2>3. /\ p \in Seq(Nat) /\ Len(p) = (IF n + 1 <= L THEN L - (n + 1) + 1 ELSE 0)
        /\ \A i \in 1..(L - (n + 1) + 1) : p[i] = s.stack[n + 1 + i - 1]
    BY <2>1, <2>2, SubSeqProperties
  <2>4. Len(p) = z /\ \A i \in 1..z : p[i] = s.stack[n + i]
    BY <1>1, <2>3
  <2> HIDE DEF p
  <2>5. q = [i \in 1..Len(p) |-> p[(Len(p) - i) + 1]]
    BY DEF Reverse, p
  <2>6. Len(q) = z /\ DOMAIN q = 1..z
    <3> DEFINE g == [i \in 1..z |-> p[(z - i) + 1]]
    <3>1. q = g
      BY <2>4, <2>5
    <3>2. g \in [1..z -> {g[i] : i \in 1..z}]
      OBVIOUS
    <3>3. DOMAIN g = 1..z
      OBVIOUS
    <3> HIDE DEF g, z
    <3>4. Len(g) = z
      BY <1>1, <3>2
    <3> QED
      BY <3>1, <3>3, <3>4
  <2>7. ASSUME NEW i \in 1..z PROVE q[i] = s.stack[L - i + 1]
    <3>1. q[i] = p[(z - i) + 1] /\ (z - i) + 1 \in 1..z
      BY <1>1, <2>4, <2>5
    <3>2. n + ((z - i) + 1) = L - i + 1
      BY <1>1
    <3> DEFINE j == (z - i) + 1
    <3>3. j \in 1..z /\ q[i] = p[j] /\ n + j = L - i + 1
      BY <3>1, <3>2
    <3> HIDE DEF j, z, L, q
    <3>4. p[j] = s.stack[n + j]
      BY <2>4, <3>3
    <3> QED
      BY <3>3, <3>4
  <2> QED
    BY <2>6, <2>7
<1>3. u = AllClosed(s, q)
  BY DEF Unwind, AllClosed, FoldLeft, MapThenFoldSet, Close
<1> HIDE DEF q
<1>4. PICK h : /\ h[0] = s
               /\ \A i \in 1..z : h[i] = Close(h[i - 1], q[i])
               /\ AllClosed(s, q) = h[z]
  <2>1. Len(q) \in Nat /\ DOMAIN q = 1..Len(q) /\ Len(q) = z
    BY <1>1, <1>2
  <2> HIDE DEF z
  <2>2. \E h : /\ h[0] = s
               /\ \A i \in 1..Len(q) : h[i] = Close(h[i - 1], q[i])
               /\ AllClosed(s, q) = h[Len(q)]
    BY <2>1, CloseFold
  <2> QED
    BY <2>1, <2>2
<1> DEFINE P == {i \in 0..z : Unwound(s, h[i], m, N, L - i)}
<1>5. 0 \in P
  <2>1. Holds(s, s, m, L)
    BY <1>1, HoldsSelf
  <2>2. Unwound(s, s, m, N, L)
    BY <1>1, <2>1 DEF Unwound
  <2>3. L - 0 = L
    BY <1>1
  <2> QED
    BY <1>1, <1>4, <2>2, <2>3
<1>6. ASSUME NEW i \in 0..(z - 1), i \in P PROVE i + 1 \in P
  <2> DEFINE j == i + 1
             x == h[i]
             y == h[j]
             a == L - i
             b == L - j
  <2>1. j \in 1..z /\ j \in 0..z /\ j - 1 = i /\ a \in 1..L /\ b = a - 1 /\ b \in Nat /\ a \in Nat
    BY <1>1
  <2>2. Unwound(s, x, m, N, a)
    BY <1>6
  <2>12a. L - j + 1 = a
    BY <1>1, <2>1
  <2>12b. y = Close(x, q[j])
    BY <1>4, <2>1
  <2>12c. q[j] = s.stack[L - j + 1]
    BY <1>2, <2>1
  <2>3. y = Close(x, q[j]) /\ q[j] = s.stack[L - j + 1] /\ L - j + 1 = a
    BY <2>12a, <2>12b, <2>12c
  <2>0. F - (L - a) > 0 /\ F - (L - b) = F - (L - a) - 1
    BY <1>1
  <2> HIDE DEF x, y, j, a, b
  <2>3a. /\ Sane(x, m, N) /\ Len(x.stack) = a /\ Holds(s, x, m, a) /\ x \in Tracers
        /\ Len(x.frames) = F - (L - a)
        /\ \A k \in 1..Len(x.frames) : x.frames[k] = s.frames[k]
    BY <2>2 DEF Unwound, Sane
  <2>4. /\ Sane(x, m, N) /\ Len(x.stack) = a /\ Holds(s, x, m, a) /\ x \in Tracers
        /\ Len(x.frames) = F - (L - a) /\ Len(x.frames) > 0 /\ Len(x.stack) > 0
        /\ \A k \in 1..Len(x.frames) : x.frames[k] = s.frames[k]
    <3>1. Len(x.frames) > 0
      BY <2>0, <2>3a
    <3>2. Len(x.stack) > 0
      BY <2>1, <2>3a
    <3> QED
      BY <2>3a, <3>1, <3>2
  <2>5. q[j] = Last(x.stack)
    <3>1. x.stack[a] = s.stack[a]
      BY <2>1, <2>4 DEF Holds
    <3> QED
      BY <2>3, <2>4, <3>1 DEF Last
  <2>6. /\ Sane(y, m, N) /\ y.stack = Front(x.stack) /\ y.frames = Front(x.frames)
        /\ y.store = Last(x.frames).store
        /\ y.nodes = x.nodes /\ y.level = x.level /\ y.pushes = x.pushes
        /\ Holds(x, y, m, Len(x.stack) - 1)
    BY <2>3, <2>4, <2>5, CloseSane
  <2>7. /\ x.stack \in Seq(Nat) /\ x.frames \in Seq(LevelSet)
        /\ Len(x.frames) \in Nat
    BY <2>4, TracerFields, Lengths
  <2>8. Len(y.stack) = b
    BY <2>1, <2>4, <2>6, <2>7, FrontIs
  <2>9. /\ Len(y.frames) = Len(x.frames) - 1 /\ Last(x.frames) = x.frames[Len(x.frames)]
        /\ \A k \in 1..(Len(x.frames) - 1) : y.frames[k] = x.frames[k]
    <3> DEFINE f == x.frames
    <3>1. f \in Seq(LevelSet) /\ Len(f) > 0 /\ y.frames = Front(f)
      BY <2>4, <2>6, <2>7
    <3> HIDE DEF f
    <3>2. /\ Len(Front(f)) = Len(f) - 1 /\ Last(f) = f[Len(f)]
          /\ \A k \in 1..(Len(f) - 1) : Front(f)[k] = f[k]
      BY <3>1, FrontIs
    <3> QED
      BY <3>1, <3>2 DEF f
  <2>10. Len(y.frames) = F - (L - b)
    BY <2>0, <2>4, <2>9
  <2>11. \A k \in 1..Len(y.frames) : y.frames[k] = s.frames[k]
    <3>1. \A k \in 1..Len(y.frames) : k \in 1..(Len(x.frames) - 1) /\ k \in 1..Len(x.frames)
      BY <2>7, <2>9
    <3> QED
      BY <2>4, <2>9, <3>1
  <2>12. y.store = s.frames[F - (L - b) + 1].store /\ b # L
    <3>1. Len(x.frames) \in 1..Len(x.frames) /\ Len(x.frames) = F - (L - b) + 1
      BY <2>0, <2>4, <2>7, <1>1
    <3>2. b # L
      BY <1>1, <2>1
    <3> QED
      BY <2>4, <2>6, <2>9, <3>1, <3>2
  <2>13. Holds(s, y, m, b)
    <3>1. Len(x.stack) - 1 = b /\ b <= a
      BY <2>1, <2>4
    <3>2. Len(s.stack) \in Nat /\ Len(x.stack) \in Nat /\ Len(y.stack) \in Nat
      BY <1>1, <2>1, <2>4, <2>8
    <3> QED
      BY <2>1, <2>4, <2>6, <3>1, <3>2, HoldsOn
  <2>14. Unwound(s, y, m, N, b)
    BY <2>2, <2>6, <2>8, <2>10, <2>11, <2>12, <2>13 DEF Unwound
  <2> QED
    BY <2>1, <2>14 DEF y, b, j
<1>7. z \in P
  <2>1. 0 \in Int /\ z \in Int /\ z \in 0..z
    BY <1>1
  <2>2. \A i \in 0..(z - 1) : i \in P => i + 1 \in P
    BY <1>6
  <2> HIDE DEF P, z
  <2> QED
    BY <1>5, <2>1, <2>2, Upwards
<1>8. L - z = n
  BY <1>1
<1> QED
  BY <1>3, <1>4, <1>7, <1>8

--------------------------------------------------------------------------------
TopOf(s) == s.lists[Last(s.stack)]

LEMMA TopIs ==
  ASSUME NEW s \in Tracers, StackOK(s), Len(s.stack) > 0
  PROVE  /\ Last(s.stack) = s.stack[Len(s.stack)] /\ Last(s.stack) \in 1..Len(s.lists)
         /\ Last(s.stack) \in Nat /\ TopOf(s) \in ListSet /\ On(s.stack, Last(s.stack)) = 1
<1>1. Len(s.stack) \in 1..Len(s.stack)
  BY Lengths
<1>2. Last(s.stack) = s.stack[Len(s.stack)]
  BY DEF Last
<1>3. Last(s.stack) \in 1..Len(s.lists)
  BY <1>1, <1>2 DEF StackOK
<1>4. TopOf(s) \in ListSet
  BY <1>3, ListOf DEF TopOf
<1>5. On(s.stack, Last(s.stack)) = 1
  BY <1>1, <1>2 DEF On
<1> QED
  BY <1>2, <1>3, <1>4, <1>5

(* The list on top of the stack is written by nobody else: it is not frozen,  *)
(* or it is replaced by a copy that is not.                                   *)
Thawed(s, u, m, N) ==
    /\ Sane(u, m, N) /\ Calm(s, u) /\ Len(u.stack) = Len(s.stack)
    /\ Holds(s, u, m, Len(s.stack) - 1)
    /\ TopOf(u).head = TopOf(s).head /\ TopOf(u).node = TopOf(s).node /\ ~TopOf(u).frozen
    /\ ~TopOf(s).frozen => u.stack = s.stack

(* The copy, before the original is let go.                                   *)
Copied(s, u, a) ==
    /\ s \in Tracers /\ u \in Tracers /\ u.pool = s.pool /\ Calm(s, u)
    /\ a = Len(s.lists) + 1 /\ Len(u.lists) = a
    /\ \A k \in 1..Len(s.lists) : u.lists[k] = s.lists[k]
    /\ u.lists[a].head = TopOf(s).head /\ u.lists[a].node = TopOf(s).node
    /\ u.lists[a].refs = TopOf(s).refs /\ ~u.lists[a].frozen
    /\ u.stack = Append(Front(s.stack), a)

LEMMA CopyIs ==
  ASSUME NEW s \in Tracers, StackOK(s), Len(s.stack) > 0,
         NEW a, a = Cardinality(DOMAIN s.lists) + 1,
         NEW b \in BOOLEAN, ~b, NEW x, x = [TopOf(s) EXCEPT !.frozen = b],
         NEW u, u = [s EXCEPT !.lists = [k \in DOMAIN s.lists \cup {a} |->
                                            IF k = a THEN x ELSE s.lists[k]],
                              !.stack = Append(Front(s.stack), a)]
  PROVE  Copied(s, u, a)
<1> DEFINE L == [k \in DOMAIN s.lists \cup {a} |-> IF k = a THEN x ELSE s.lists[k]]
           p == Front(s.stack)
           S == Append(p, a)
<1>1. s.stack \in Seq(Nat) /\ Len(s.lists) \in Nat
  BY TracerFields, Lengths
<1>2. TopOf(s) \in ListSet
  BY TopIs
<1>3. x \in ListSet /\ x.head = TopOf(s).head /\ x.node = TopOf(s).node /\ x.refs = TopOf(s).refs /\ ~x.frozen
  <2>1. x \in ListSet /\ x.frozen = b /\ x.head = TopOf(s).head /\ x.node = TopOf(s).node /\ x.refs = TopOf(s).refs
    BY <1>2 DEF ListSet
  <2> QED
    BY <2>1
<1>4. /\ a = Len(s.lists) + 1 /\ L \in Seq(ListSet) /\ Len(L) = a /\ L[a] = x
      /\ \A k \in 1..Len(s.lists) : L[k] = s.lists[k]
  <2> HIDE DEF L
  <2>1. L = [k \in DOMAIN s.lists \cup {a} |-> IF k = a THEN x ELSE s.lists[k]]
    BY DEF L
  <2> QED
    BY <1>3, <2>1, AddList
<1>5. p \in Seq(Nat) /\ a \in Nat
  <2>1. a \in Nat
    BY <1>1, <1>4
  <2> HIDE DEF L
  <2>2. Front(s.stack) \in Seq(Nat)
    BY <1>1, FrontIs
  <2> QED
    BY <2>1, <2>2
<1> HIDE DEF L, p
<1>6. S \in Seq(Nat)
  BY <1>5, AppendProperties
<1>7. u = [s EXCEPT !.lists = L, !.stack = S]
  BY DEF L, p
<1> HIDE DEF S
<1>8. u \in Tracers /\ u.lists = L /\ u.stack = S /\ u.pool = s.pool /\ Calm(s, u)
  BY <1>4, <1>6, <1>7 DEF Tracers, Calm
<1> QED
  BY <1>3, <1>4, <1>8 DEF Copied, S, p

(* A frozen list is copied before it changes, and the copy is on nobody       *)
(* else's path.                                                               *)
LEMMA CopySane ==
  ASSUME NEW s, NEW m \in Claims, NEW N \in Int, Sane(s, m, N), Len(s.stack) > 0,
         NEW u, NEW a, Copied(s, u, a)
  PROVE  /\ u \in Tracers /\ Calm(s, u) /\ Counted(u, Owed(m, Last(s.stack)), N)
         /\ Owed(m, Last(s.stack)) \in Claims /\ Last(s.stack) \in Nat
         /\ Len(u.stack) = Len(s.stack) /\ Last(u.stack) = a /\ a \in 1..Len(u.lists)
         /\ \A i \in 1..(Len(s.stack) - 1) : u.stack[i] = s.stack[i]
         /\ a \notin 1..Len(s.lists)
         /\ \A k \in 1..Len(s.lists) : Kept(s, u, k)
         /\ TopOf(u).head = TopOf(s).head /\ TopOf(u).node = TopOf(s).node /\ ~TopOf(u).frozen
<1> DEFINE l == Last(s.stack)
           d == Owed(m, l)
           n == Len(s.stack)
           p == Front(s.stack)
           S == u.stack
           L == u.lists
<1>1. /\ s \in Tracers /\ s.stack \in Seq(Nat) /\ n \in Nat /\ n > 0 /\ StackOK(s) /\ Counted(s, m, N)
      /\ Len(s.lists) \in Nat
  BY TracerFields, Lengths DEF Sane, Counted
<1>2. l = s.stack[n] /\ l \in 1..Len(s.lists) /\ l \in Nat /\ TopOf(s) \in ListSet /\ On(s.stack, l) = 1
  BY <1>1, TopIs
<1> HIDE DEF l, n
<1>4. /\ a = Len(s.lists) + 1 /\ Len(L) = a /\ \A k \in 1..Len(s.lists) : L[k] = s.lists[k]
      /\ S = Append(p, a) /\ u \in Tracers /\ u.pool = s.pool /\ Calm(s, u)
      /\ L[a].refs = s.lists[l].refs /\ L[a].node = s.lists[l].node
  BY DEF Copied, TopOf, l
<1>5. /\ p \in Seq(Nat) /\ Len(p) = n - 1 /\ \A i \in 1..(n - 1) : p[i] = s.stack[i]
  BY <1>1, FrontIs DEF n
<1>6. /\ \A k : On(p, k) = IF k = l THEN 0 ELSE On(s.stack, k)
      /\ Once(p)
  BY <1>1, OnFront DEF n, l, StackOK
<1>7. a \in Nat /\ a \notin 1..Len(s.lists) /\ On(p, a) = 0 /\ a # l
  <2>1. a \in Nat /\ a \notin 1..Len(s.lists)
    BY <1>1, <1>4
  <2>2. \A i \in 1..n : s.stack[i] # a
    BY <1>1, <2>1 DEF StackOK, n
  <2>3. On(s.stack, a) = 0
    BY <2>2, OnIs DEF n
  <2> QED
    BY <1>2, <1>6, <2>1, <2>3
<1> HIDE DEF p
<1>8. /\ S \in Seq(Nat) /\ Len(S) = n /\ S[n] = a
      /\ \A i \in 1..(n - 1) : S[i] = s.stack[i]
  <2>1. /\ S \in Seq(Nat) /\ Len(S) = Len(p) + 1 /\ S[Len(p) + 1] = a
        /\ \A i \in 1..Len(p) : S[i] = p[i]
    BY <1>4, <1>5, <1>7, AppendProperties
  <2>2. Len(p) + 1 = n
    BY <1>1, <1>5
  <2>3. Len(p) = n - 1
    BY <1>5
  <2> QED
    BY <1>5, <2>1, <2>2, <2>3
<1>9. /\ \A k : On(S, k) = IF k = a THEN 1 ELSE IF k = l THEN 0 ELSE On(s.stack, k)
      /\ Once(S)
  BY <1>4, <1>5, <1>6, <1>7, OnAppend
<1>12. d \in Claims /\ \A k \in Nat : m[k] \in Nat /\ d[k] = IF k = l THEN m[k] + 1 ELSE m[k]
  BY <1>2, OwedIs
<1> HIDE DEF d
<1>13. StackOK(u)
  <2>1. ASSUME NEW i \in 1..n PROVE S[i] \in 1..Len(L)
    <3>1. CASE i = n
      BY <1>4, <1>7, <1>8, <3>1
    <3>2. CASE i # n
      <4>1. i \in 1..(n - 1)
        BY <1>1, <3>2
      <4>2. s.stack[i] \in 1..Len(s.lists) /\ S[i] = s.stack[i]
        BY <1>1, <1>8, <4>1 DEF StackOK, n
      <4>3. Len(L) = Len(s.lists) + 1
        BY <1>4
      <4> HIDE DEF S, L
      <4> QED
        BY <1>1, <4>2, <4>3
    <3> QED
      BY <3>1, <3>2
  <2> QED
    BY <1>8, <1>9, <1>4, <2>1 DEF StackOK
<1>14. On(s.stack, l) + m[l] <= s.lists[l].refs /\ s.lists[l].refs \in Nat /\ m[l] \in Nat
  BY <1>1, <1>2, <1>12, ListOf DEF Counted, RefsOK
<1>15. RefsOK(u, d, N)
  <2>1. ASSUME NEW k \in 1..Len(u.lists)
        PROVE  /\ On(u.stack, k) + d[k] <= u.lists[k].refs
               /\ u.lists[k].refs > 0 => u.lists[k].node < N
    <3>1. CASE k = a
      <4>1. ~(m[a] > 0) /\ m[a] \in Nat
        BY <1>1, <1>7, <1>12 DEF Counted, RefsOK
      <4>2. d[k] = 0 /\ On(u.stack, k) = 1
        BY <1>7, <1>4, <1>9, <1>12, <3>1, <4>1
      <4>3. s.lists[l].refs >= 1
        BY <1>2, <1>14
      <4>4. s.lists[l].node < N
        <5>1. s.lists[l].refs > 0
          BY <1>14, <4>3
        <5> QED
          BY <1>1, <1>2, <5>1 DEF Counted, RefsOK
      <4>5. u.lists[k].refs = s.lists[l].refs /\ u.lists[k].node = s.lists[l].node
        BY <1>4, <3>1
      <4> QED
        BY <4>2, <4>3, <4>4, <4>5
    <3>2. CASE k # a
      <4>1. k \in 1..Len(s.lists) /\ u.lists[k] = s.lists[k] /\ k \in Nat
        BY <1>1, <1>4, <3>2
      <4>2. /\ On(s.stack, k) + m[k] <= s.lists[k].refs
            /\ s.lists[k].refs > 0 => s.lists[k].node < N
        BY <1>1, <4>1 DEF Counted, RefsOK
      <4>3. On(s.stack, k) \in Nat /\ m[k] \in Nat
        BY <1>12, <4>1, OnIs
      <4>4. On(u.stack, k) + d[k] = On(s.stack, k) + m[k]
        <5>1. CASE k = l
          <6>1. On(u.stack, k) = 0 /\ d[k] = m[k] + 1
            BY <1>4, <1>9, <1>12, <3>2, <4>1, <5>1
          <6>2. On(s.stack, k) = 1
            BY <1>2, <5>1
          <6> QED
            BY <4>3, <6>1, <6>2
        <5>2. CASE k # l
          <6>1. On(u.stack, k) = On(s.stack, k) /\ d[k] = m[k]
            BY <1>4, <1>9, <1>12, <3>2, <4>1, <5>2
          <6> QED
            BY <4>3, <6>1
        <5> QED
          BY <5>1, <5>2
      <4> QED
        BY <4>1, <4>2, <4>4
    <3> QED
      BY <3>1, <3>2
  <2>2. ASSUME NEW k \in Nat, d[k] > 0 PROVE k \in 1..Len(u.lists)
    <3>1. k \in 1..Len(s.lists)
      BY <1>1, <1>2, <1>12, <2>2 DEF Counted, RefsOK
    <3> QED
      BY <1>1, <1>4, <3>1
  <2> QED
    BY <2>1, <2>2 DEF RefsOK
<1>16. PoolOK(u)
  <2>1. \A k \in 1..Len(s.lists) : k \in 1..Len(L)
    BY <1>1, <1>4
  <2> QED
    BY <1>1, <1>4, <2>1 DEF Counted, PoolOK
<1>17. Counted(u, d, N)
  BY <1>13, <1>15, <1>16 DEF Counted
<1>18. \A k \in 1..Len(s.lists) : Kept(s, u, k)
  <2>1. \A k \in 1..Len(s.lists) : k \in 1..Len(L)
    BY <1>1, <1>4
  <2> QED
    BY <1>4, <2>1 DEF Kept
<1>19. Last(u.stack) = a
  BY <1>8 DEF Last
<1>20. /\ a \in 1..Len(u.lists)
       /\ TopOf(u).head = TopOf(s).head /\ TopOf(u).node = TopOf(s).node /\ ~TopOf(u).frozen
  BY <1>4, <1>7, <1>19 DEF Copied, TopOf
<1> QED
  BY <1>2, <1>4, <1>7, <1>8, <1>12, <1>17, <1>18, <1>19, <1>20 DEF l, d, n

(* After thaw the list on top of the stack is the stack's own.                *)
LEMMA ThawSane ==
  ASSUME NEW s, NEW m \in Claims, NEW N \in Int, Sane(s, m, N), Len(s.stack) > 0,
         NEW u, u = thaw(s)
  PROVE  Thawed(s, u, m, N)
<1> DEFINE n == Len(s.stack)
<1>1. s \in Tracers /\ n \in Nat /\ n - 1 \in Nat /\ n - 1 <= n
  BY Lengths DEF Sane
<1>2. CASE ~TopOf(s).frozen
  <2>1. u = s
    BY <1>2 DEF thaw, TopOf
  <2>2. Holds(s, s, m, n - 1)
    BY <1>1, HoldsSelf
  <2> QED
    BY <1>2, <2>1, <2>2 DEF Thawed, Calm
<1>3. CASE TopOf(s).frozen
  <2> DEFINE a == Cardinality(DOMAIN s.lists) + 1
             b == FALSE
             x == [TopOf(s) EXCEPT !.frozen = b]
             c == [s EXCEPT !.lists = [k \in DOMAIN s.lists \cup {a} |->
                                            IF k = a THEN x ELSE s.lists[k]],
                              !.stack = Append(Front(s.stack), a)]
             l == Last(s.stack)
             d == Owed(m, l)
             e == [d EXCEPT ![l] = @ - 1]
  <2>1. u = letgo(c, l)
    BY <1>3 DEF thaw, TopOf
  <2>2. /\ c \in Tracers /\ Calm(s, c) /\ Counted(c, d, N)
        /\ d \in Claims /\ l \in Nat
        /\ Len(c.stack) = n /\ Last(c.stack) = a /\ a \in 1..Len(c.lists)
        /\ \A i \in 1..(n - 1) : c.stack[i] = s.stack[i]
        /\ a \notin 1..Len(s.lists)
        /\ \A k \in 1..Len(s.lists) : Kept(s, c, k)
        /\ TopOf(c).head = TopOf(s).head /\ TopOf(c).node = TopOf(s).node /\ ~TopOf(c).frozen
    <3> HIDE DEF a, b, x, c, l, d, n
    <3>1. c = [s EXCEPT !.lists = [k \in DOMAIN s.lists \cup {a} |->
                                            IF k = a THEN x ELSE s.lists[k]],
                              !.stack = Append(Front(s.stack), a)]
      BY DEF c
    <3>2. a = Cardinality(DOMAIN s.lists) + 1 /\ x = [TopOf(s) EXCEPT !.frozen = b]
      BY DEF a, x
    <3>3. b \in BOOLEAN /\ ~b
      BY DEF b
    <3> HIDE DEF b, x
    <3>4. Copied(s, c, a)
      BY <1>1, <3>1, <3>2, <3>3, CopyIs DEF Sane, Counted, n
    <3> QED
      BY <3>4, CopySane DEF l, d, n
  <2> HIDE DEF a, b, x, c, l
  <2>3. d[l] > 0 /\ e = m
    BY <2>2, OwedIs
  <2> HIDE DEF d, l
  <2>4. /\ letgo(c, l) \in Tracers /\ Aside(c, letgo(c, l))
        /\ Counted(letgo(c, l), e, N)
        /\ Keeps(c, letgo(c, l), Live(letgo(c, l), e))
        /\ \A k \in 1..Len(c.lists) : letgo(c, l).lists[k].frozen = c.lists[k].frozen
    BY <2>2, <2>3, LetgoCounts
  <2> HIDE DEF e
  <2>5. /\ u \in Tracers /\ Aside(c, u) /\ Counted(u, m, N) /\ Keeps(c, u, Live(u, m))
        /\ \A k \in 1..Len(c.lists) : u.lists[k].frozen = c.lists[k].frozen
    BY <2>1, <2>3, <2>4
  <2>6. u.stack = c.stack /\ Len(u.stack) = n /\ Last(u.stack) = a
    BY <2>2, <2>5 DEF Aside
  <2>7. Holds(c, u, m, n)
    <3>1. \A i \in 1..n : u.stack[i] = c.stack[i]
      BY <2>6
    <3>2. n \in Nat /\ n <= Len(u.stack) /\ n <= Len(c.stack) /\ Len(u.stack) \in Nat
      BY <1>1, <2>2, <2>6
    <3> HIDE DEF n
    <3> QED
      BY <2>5, <3>1, <3>2, KeepsHolds
  <2>8. Holds(s, c, m, n - 1)
    <3>1. \A k \in Nat : m[k] > 0 => k \in 1..Len(s.lists)
      BY DEF Sane, Counted, RefsOK
    <3>2. \A i \in 1..(n - 1) : s.stack[i] \in 1..Len(s.lists)
      BY <1>1 DEF Sane, Counted, StackOK
    <3> QED
      BY <1>1, <2>2, <3>1, <3>2 DEF Holds
  <2>9. Holds(s, u, m, n - 1)
    <3>1. Len(u.stack) \in Nat /\ Len(c.stack) \in Nat
      BY <1>1, <2>2, <2>6
    <3> QED
      BY <1>1, <2>7, <2>8, <3>1, HoldsOn
  <2>10. Iced(u, m)
    BY <2>9 DEF Sane, Iced, Holds, Kept
  <2>11. Kept(c, u, a)
    <3>1. n \in 1..n /\ c.stack[n] = a
      BY <1>1, <2>2 DEF Last
    <3> QED
      BY <2>7, <3>1 DEF Holds
  <2>12. TopOf(u).head = TopOf(s).head /\ TopOf(u).node = TopOf(s).node /\ ~TopOf(u).frozen
    BY <2>2, <2>5, <2>6, <2>11 DEF TopOf, Kept
  <2>13. Calm(s, u)
    BY <2>2, <2>5 DEF Calm, Aside
  <2> QED
    BY <1>3, <2>5, <2>6, <2>9, <2>10, <2>12, <2>13 DEF Thawed, Sane
<1> QED
  BY <1>2, <1>3

(* A constraint is posted: recorded in the list on top, then in force.        *)
Posted(s, u, m, N, c) ==
    /\ Sane(u, m, N) /\ Len(u.stack) = Len(s.stack) /\ Holds(s, u, m, Len(s.stack) - 1)
    /\ TopOf(u).head = <<c>> \o TopOf(s).head /\ TopOf(u).node = TopOf(s).node /\ ~TopOf(u).frozen
    /\ ~TopOf(s).frozen => u.stack = s.stack
    /\ u.nodes = s.nodes /\ u.level = s.level /\ u.frames = s.frames /\ u.pushes = s.pushes
    /\ u.store = s.store \cup {c}

(* Posting records the constraint in the list on top and changes no list      *)
(* that is claimed.                                                           *)
LEMMA PostSane ==
  ASSUME NEW s, NEW m \in Claims, NEW N \in Int, Sane(s, m, N), Len(s.stack) > 0,
         NEW c \in Constraints, NEW u, u = post(s, c)
  PROVE  Posted(s, u, m, N, c)
<1> DEFINE n == Len(s.stack)
           v == thaw(s)
           l == Last(v.stack)
           g == <<c>> \o v.lists[l].head
           y == [v.lists[l] EXCEPT !.head = g]
           L == [v.lists EXCEPT ![l] = y]
           W == s.store \cup {c}
           w == [v EXCEPT !.lists = L, !.store = W]
<1>1. Thawed(s, v, m, N)
  <2> HIDE DEF v
  <2>1. v = thaw(s)
    BY DEF v
  <2> QED
    BY <2>1, ThawSane
<1> HIDE DEF v
<1>2. /\ s \in Tracers /\ n \in Nat /\ v \in Tracers /\ Sane(v, m, N) /\ Calm(s, v) /\ Len(v.stack) = n
      /\ Holds(s, v, m, n - 1) /\ StackOK(v) /\ n - 1 \in Nat /\ Len(v.lists) \in Nat
      /\ Counted(v, m, N) /\ Iced(v, m)
  BY <1>1, Lengths DEF Thawed, Sane, Counted
<1>3. /\ l = v.stack[n] /\ l \in 1..Len(v.lists) /\ l \in Nat /\ v.lists[l] \in ListSet
      /\ On(v.stack, l) = 1 /\ ~v.lists[l].frozen
      /\ v.lists[l].head = TopOf(s).head /\ v.lists[l].node = TopOf(s).node
  BY <1>1, <1>2, TopIs DEF TopOf, Thawed
<1> HIDE DEF l
<1>4. g \in Seq(Constraints)
  <2>1. v.lists[l].head \in Seq(Constraints)
    BY <1>3, ListFields
  <2>2. <<c>> \in Seq(Constraints)
    OBVIOUS
  <2> QED
    BY <2>1, <2>2, ConcatProperties
<1> HIDE DEF g
<1>5. /\ y \in ListSet /\ y.head = g /\ y.node = v.lists[l].node /\ y.refs = v.lists[l].refs
      /\ y.frozen = v.lists[l].frozen
  BY <1>3, <1>4 DEF ListSet
<1> HIDE DEF y
<1>6. /\ L \in Seq(ListSet) /\ Len(L) = Len(v.lists)
      /\ \A k \in 1..Len(v.lists) : L[k] = IF k = l THEN y ELSE v.lists[k]
  BY <1>2, <1>3, <1>5, TracerFields, ExceptSeq
<1>7. W \in Stores
  <2>1. s.store \in SUBSET Constraints /\ IsFiniteSet(s.store)
    BY <1>2, TracerFields DEF Stores
  <2>2. IsFiniteSet(s.store \cup {c})
    BY <2>1, FS_AddElement
  <2> QED
    BY <2>1, <2>2 DEF Stores
<1>8. u = w
  <2>1. u = [addCommand(s, c) EXCEPT !.store = @ \cup {c}]
    BY DEF post
  <2>2. addCommand(s, c) = [v EXCEPT !.lists[l].head = <<c>> \o @]
    BY DEF addCommand, v, l
  <2>3. v.store = s.store /\ DOMAIN v.lists = 1..Len(v.lists) /\ v.lists \in Seq(ListSet)
    BY <1>2, Lengths, TracerFields DEF Calm
  <2>4. [v EXCEPT !.lists[l].head = <<c>> \o @] = [v EXCEPT !.lists = L]
    BY <1>2, <1>3, <2>3 DEF Tracers, ListSet, y, g
  <2>5. addCommand(s, c) = [v EXCEPT !.lists = L]
    BY <2>2, <2>4
  <2> HIDE DEF L, W
  <2> QED
    BY <1>2, <1>6, <2>1, <2>3, <2>5 DEF Tracers, W
<1> HIDE DEF L, W
<1>9. /\ w \in Tracers /\ w.lists = L /\ w.store = W /\ w.pool = v.pool /\ w.stack = v.stack
      /\ w.nodes = v.nodes /\ w.level = v.level /\ w.frames = v.frames /\ w.pushes = v.pushes
  BY <1>2, <1>6, <1>7 DEF Tracers
<1> HIDE DEF w
<1>10. m[l] = 0 /\ v.lists[l].refs > 0
  <2>1. ~(m[l] > 0) /\ m[l] \in Nat
    BY <1>2, <1>3 DEF Iced, Claims
  <2>2. On(v.stack, l) + m[l] <= v.lists[l].refs /\ v.lists[l].refs \in Nat
    BY <1>2, <1>3, ListFields DEF Counted, RefsOK
  <2> QED
    BY <1>3, <2>1, <2>2
<1>11. \A k \in 1..Len(v.lists) :
          /\ w.lists[k].refs = v.lists[k].refs /\ w.lists[k].node = v.lists[k].node
          /\ w.lists[k].frozen = v.lists[k].frozen
          /\ k # l => w.lists[k].head = v.lists[k].head
  BY <1>5, <1>6, <1>9
<1>12. Counted(w, m, N)
  <2>1. StackOK(w)
    BY <1>2, <1>6, <1>9 DEF StackOK
  <2>2. RefsOK(w, m, N)
    <3>1. \A k \in 1..Len(v.lists) : /\ On(v.stack, k) + m[k] <= v.lists[k].refs
                                     /\ v.lists[k].refs > 0 => v.lists[k].node < N
      BY <1>2 DEF Counted, RefsOK
    <3>2. \A k \in Nat : m[k] > 0 => k \in 1..Len(v.lists)
      BY <1>2 DEF Counted, RefsOK
    <3>3. Len(w.lists) = Len(v.lists) /\ w.stack = v.stack
      BY <1>6, <1>9
    <3> QED
      BY <1>11, <3>1, <3>2, <3>3 DEF RefsOK
  <2>3. PoolOK(w)
    <3>1. \A i \in 1..Len(v.pool) : v.pool[i] \in 1..Len(v.lists) /\ v.pool[i] # l
      <4> TAKE i \in 1..Len(v.pool)
      <4>1. v.pool[i] \in 1..Len(v.lists) /\ v.lists[v.pool[i]].refs = 0
        BY <1>2 DEF Counted, PoolOK
      <4> QED
        BY <1>10, <4>1
    <3>2. ASSUME NEW i \in 1..Len(v.pool)
          PROVE  /\ v.pool[i] \in 1..Len(w.lists) /\ w.lists[v.pool[i]].refs = 0
                 /\ w.lists[v.pool[i]].head = <<>>
      <4>1. /\ v.pool[i] \in 1..Len(v.lists) /\ v.pool[i] # l
            /\ v.lists[v.pool[i]].refs = 0 /\ v.lists[v.pool[i]].head = <<>>
        BY <1>2, <3>1 DEF Counted, PoolOK
      <4> QED
        BY <1>6, <1>9, <1>11, <4>1
    <3>3. Once(v.pool) /\ Len(v.pool) <= PoolSize
      BY <1>2 DEF Counted, PoolOK
    <3> QED
      BY <1>9, <3>2, <3>3 DEF PoolOK
  <2> QED
    BY <2>1, <2>2, <2>3 DEF Counted
<1>13. \A k \in 1..Len(v.lists) : k # l => Kept(v, w, k)
  BY <1>6, <1>9, <1>11 DEF Kept
<1>14. Holds(v, w, m, n - 1)
  <2>1. \A k \in Nat : m[k] > 0 => k \in 1..Len(v.lists) /\ k # l
    BY <1>2, <1>10 DEF Counted, RefsOK
  <2>2. \A i \in 1..(n - 1) : v.stack[i] \in 1..Len(v.lists) /\ v.stack[i] # l
    <3> TAKE i \in 1..(n - 1)
    <3>1. i \in 1..Len(v.stack) /\ n \in 1..Len(v.stack) /\ i # n
      BY <1>2
    <3> QED
      BY <1>2, <1>3, <3>1 DEF StackOK, Once
  <2> QED
    BY <1>2, <1>9, <1>13, <2>1, <2>2 DEF Holds
<1>15. Holds(s, w, m, n - 1)
  <2>1. Len(w.stack) \in Nat /\ n - 1 <= n - 1
    BY <1>2, <1>9
  <2> QED
    BY <1>2, <1>14, <2>1, HoldsOn
<1>16. Iced(w, m)
  <2>1. \A k \in Nat : m[k] > 0 => k \in 1..Len(v.lists) /\ v.lists[k].frozen
    BY <1>2 DEF Iced, Counted, RefsOK
  <2> QED
    BY <1>11, <2>1 DEF Iced
<1>17. TopOf(w) = y
  BY <1>3, <1>6, <1>9 DEF TopOf, l
<1>18. TopOf(w).head = <<c>> \o TopOf(s).head /\ TopOf(w).node = TopOf(s).node /\ ~TopOf(w).frozen
  BY <1>3, <1>5, <1>17 DEF g
<1> QED
  BY <1>1, <1>2, <1>8, <1>9, <1>12, <1>15, <1>16, <1>18 DEF Posted, Sane, Calm, Thawed, W

LEMMA RangeIs ==
  ASSUME NEW S, NEW q \in Seq(S)
  PROVE  /\ Range(q) = {q[j] : j \in 1..Len(q)} /\ Range(q) \subseteq S
         /\ q = <<>> => Range(q) = {}
<1>1. DOMAIN q = 1..Len(q) /\ \A j \in 1..Len(q) : q[j] \in S
  BY LenProperties, ElementOfSeq
<1>2. Range(q) = {q[j] : j \in 1..Len(q)}
  BY <1>1 DEF Range
<1> QED
  BY <1>1, <1>2

LEMMA RangeCons ==
  ASSUME NEW S, NEW q \in Seq(S), NEW c \in S
  PROVE  <<c>> \o q \in Seq(S) /\ Range(<<c>> \o q) = {c} \cup Range(q)
<1> DEFINE p == <<c>> \o q
           n == Len(q)
<1>1. n \in Nat /\ <<c>> \in Seq(S) /\ Len(<<c>>) = 1 /\ <<c>>[1] = c
  BY LenProperties
<1>2. /\ p \in Seq(S) /\ Len(p) = 1 + n
      /\ p[1] = c /\ \A i \in 1..n : p[i + 1] = q[i]
  <2>1. /\ p \in Seq(S) /\ Len(p) = Len(<<c>>) + n
        /\ \A i \in 1..(Len(<<c>>) + n) : p[i] = IF i <= Len(<<c>>) THEN <<c>>[i] ELSE q[i - Len(<<c>>)]
    BY <1>1, ConcatProperties
  <2>2. \A i \in 1..(1 + n) : p[i] = IF i <= 1 THEN <<c>>[i] ELSE q[i - 1]
    BY <1>1, <2>1
  <2>3. 1 \in 1..(1 + n) /\ \A i \in 1..n : i + 1 \in 1..(1 + n) /\ ~(i + 1 <= 1) /\ (i + 1) - 1 = i
    BY <1>1
  <2> HIDE DEF p
  <2> QED
    BY <1>1, <2>1, <2>2, <2>3
<1> HIDE DEF p
<1>3. \A i \in 1..(1 + n) : i = 1 \/ \E j \in 1..n : i = j + 1
  <2> TAKE i \in 1..(1 + n)
  <2>1. i # 1 => i - 1 \in 1..n /\ i = (i - 1) + 1
    BY <1>1
  <2> QED
    BY <2>1
<1>4. 1 \in 1..(1 + n) /\ \A i \in 1..n : i + 1 \in 1..(1 + n)
  BY <1>1
<1>5. {p[i] : i \in 1..(1 + n)} = {c} \cup {q[i] : i \in 1..n}
  BY <1>2, <1>3, <1>4
<1>6. Range(p) = {p[i] : i \in 1..(1 + n)} /\ Range(q) = {q[i] : i \in 1..n}
  BY <1>2, RangeIs
<1> QED
  BY <1>2, <1>5, <1>6 DEF p

(* restoreCheckpoint opens a level with the node of the list.                 *)
LevelOpened(s, u, m, N, id) ==
    /\ Sane(u, m, N) /\ Len(u.stack) = Len(s.stack) + 1 /\ Holds(s, u, m, Len(s.stack))
    /\ TopOf(u) = CommandList(id)
    /\ u.nodes = s.nodes /\ u.level = s.level /\ u.pushes = s.pushes /\ u.store = s.store
    /\ u.frames = Append(s.frames, [id |-> id, store |-> s.store])

(* Opening a level puts an empty list of the same id on the stack.            *)
LEMMA OpenedSane ==
  ASSUME NEW s, NEW m \in Claims, NEW N \in Int, Sane(s, m, N), NEW id \in Int, id < N,
         NEW u, u = pushList(Push(s, id), id)
  PROVE  LevelOpened(s, u, m, N, id)
<1> DEFINE a == Push(s, id)
<1>1. s \in Tracers /\ N <= N
  BY DEF Sane
<1>2. /\ a \in Tracers
      /\ a.lists = s.lists /\ a.pool = s.pool /\ a.stack = s.stack
      /\ a.nodes = s.nodes /\ a.level = s.level
      /\ a.pushes = s.pushes /\ a.store = s.store
      /\ a.frames = Append(s.frames, [id |-> id, store |-> s.store])
  BY <1>1, PushIs
<1>3. u = pushList(a, id)
  OBVIOUS
<1> HIDE DEF a
<1>4. Sane(a, m, N)
  BY <1>2, SaneBeside
<1>5. /\ Sane(u, m, N) /\ Calm(a, u) /\ Len(u.stack) = Len(a.stack) + 1
      /\ Holds(a, u, m, Len(a.stack))
      /\ u.lists[u.stack[Len(a.stack) + 1]] = CommandList(id)
  BY <1>1, <1>3, <1>4, PushListSane
<1>6. Holds(s, u, m, Len(s.stack))
  BY <1>2, <1>5, HoldsBeside
<1> QED
  BY <1>2, <1>5, <1>6 DEF Calm, TopOf, Last, LevelOpened

(* ... and posts its constraints again.                                       *)
Replayed(s, u, m, N, r) ==
    /\ Sane(u, m, N) /\ Len(u.stack) = Len(s.stack) + 1 /\ Holds(s, u, m, Len(s.stack))
    /\ TopOf(u).node = r.node /\ Range(TopOf(u).head) = Range(r.head) /\ ~TopOf(u).frozen
    /\ u.nodes = s.nodes /\ u.level = s.level /\ u.pushes = s.pushes
    /\ u.frames = Append(s.frames, [id |-> r.node, store |-> s.store])
    /\ u.store = s.store \cup Range(r.head)

(* Replaying a list opens a level and posts its constraints.                  *)
LEMMA ReplaySane ==
  ASSUME NEW s, NEW m \in Claims, NEW N \in Int, Sane(s, m, N), NEW r \in ListSet, r.node < N,
         NEW u, u = AllPosted(pushList(Push(s, r.node), r.node), r.head)
  PROVE  Replayed(s, u, m, N, r)
<1> DEFINE id == r.node
           q == r.head
           z == Len(q)
           n == Len(s.stack)
           o == pushList(Push(s, id), id)
<1>1. s \in Tracers /\ n \in Nat /\ id \in Int /\ id < N /\ q \in Seq(Constraints)
  BY Lengths, ListFields DEF Sane
<1>2. z \in Nat /\ DOMAIN q = 1..z /\ \A i \in 1..z : q[i] \in Constraints
  BY <1>1, LenProperties, ElementOfSeq
<1>3. /\ Sane(o, m, N) /\ Len(o.stack) = n + 1 /\ Holds(s, o, m, n)
      /\ TopOf(o) = CommandList(id)
      /\ o.nodes = s.nodes /\ o.level = s.level /\ o.pushes = s.pushes /\ o.store = s.store
      /\ o.frames = Append(s.frames, [id |-> id, store |-> s.store])
  <2> HIDE DEF o, id, n
  <2>1. o = pushList(Push(s, id), id)
    BY DEF o
  <2> QED
    <3> HIDE DEF z
    <3>1. id \in Int /\ id < N
      BY <1>1
    <3>2. LevelOpened(s, o, m, N, id)
      BY <2>1, <3>1, OpenedSane
    <3> QED
      BY <3>2 DEF n, LevelOpened
<1>4. u = AllPosted(o, q)
  OBVIOUS
<1> HIDE DEF o
<1>5. PICK h : /\ h[0] = o
               /\ \A i \in 1..z : h[i] = post(h[i - 1], q[i])
               /\ AllPosted(o, q) = h[z]
  <2>1. Len(q) \in Nat /\ DOMAIN q = 1..Len(q)
    BY <1>2
  <2> HIDE DEF q
  <2> QED
    BY ZenonT(30), <2>1, PostFold
<1> DEFINE Upto(i) == {q[j] : j \in 1..i}
           Mid(x, i) == /\ Sane(x, m, N) /\ Len(x.stack) = n + 1 /\ Holds(s, x, m, n)
                        /\ TopOf(x).node = id /\ ~TopOf(x).frozen
                        /\ Range(TopOf(x).head) = Upto(i) /\ x.store = s.store \cup Upto(i)
                        /\ x.nodes = s.nodes /\ x.level = s.level /\ x.pushes = s.pushes
                        /\ x.frames = o.frames
           P == {i \in 0..z : Mid(h[i], i)}
<1> HIDE DEF id, q
<1>6. 0 \in P
  <2>1. TopOf(o).node = id /\ ~TopOf(o).frozen /\ TopOf(o).head = <<>>
    BY <1>1, <1>3, CommandListIs
  <2>2. Range(TopOf(o).head) = {} /\ Upto(0) = {}
    <3> DEFINE e == <<>>
    <3>1. e \in Seq(Constraints) /\ e = <<>>
      BY EmptySeq
    <3> HIDE DEF e
    <3>2. Range(e) = {}
      BY <3>1, RangeIs
    <3>3. Upto(0) = {}
      OBVIOUS
    <3> QED
      BY <2>1, <3>1, <3>2, <3>3
  <2>3. Mid(o, 0)
    BY <1>3, <2>1, <2>2
  <2> QED
    BY <1>2, <1>5, <2>3
<1>7. ASSUME NEW i \in 0..(z - 1), i \in P PROVE i + 1 \in P
  <2> DEFINE j == i + 1
             x == h[i]
             y == h[j]
             c == q[j]
  <2>1. j \in 1..z /\ j \in 0..z /\ j - 1 = i
    BY <1>2
  <2>2. Mid(x, i)
    BY <1>7
  <2>3. y = post(x, c) /\ c \in Constraints
    BY <1>2, <1>5, <2>1
  <2>4. Upto(j) = Upto(i) \cup {c}
    <3>1. 1..j = 1..i \cup {j}
      BY <2>1
    <3> HIDE DEF j
    <3> QED
      BY <3>1
  <2> HIDE DEF x, y, c, Upto, j
  <2>5. Sane(x, m, N) /\ Len(x.stack) > 0
    BY <1>1, <2>2
  <2>6. Posted(x, y, m, N, c)
    BY <2>3, <2>5, PostSane
  <2>7. TopOf(x) \in ListSet /\ TopOf(x).head \in Seq(Constraints)
    BY <2>5, TopIs, ListFields DEF Sane, Counted
  <2>8. Range(TopOf(y).head) = Upto(j)
    <3>1. TopOf(y).head = <<c>> \o TopOf(x).head
      BY <2>6 DEF Posted
    <3>2. Range(<<c>> \o TopOf(x).head) = {c} \cup Range(TopOf(x).head)
      BY <2>3, <2>7, RangeCons
    <3> QED
      BY <2>2, <2>4, <3>1, <3>2
  <2>9. y.store = s.store \cup Upto(j)
    BY <2>2, <2>4, <2>6 DEF Posted
  <2>10. Holds(s, y, m, n)
    <3>1. Len(x.stack) - 1 = n /\ Len(s.stack) \in Nat /\ Len(x.stack) \in Nat /\ Len(y.stack) \in Nat /\ n <= n
      BY <1>1, <2>2, <2>6 DEF Posted
    <3>2. Holds(x, y, m, n) /\ Holds(s, x, m, n)
      BY <2>2, <2>6, <3>1 DEF Posted
    <3> QED
      BY <1>1, <3>1, <3>2, HoldsOn
  <2>11. Mid(y, j)
    BY <2>2, <2>6, <2>8, <2>9, <2>10 DEF Posted
  <2> QED
    BY <2>1, <2>11 DEF y, j
<1>8. z \in P
  <2>1. 0 \in Int /\ z \in Int /\ z \in 0..z
    BY <1>2
  <2>2. \A i \in 0..(z - 1) : i \in P => i + 1 \in P
    BY <1>7
  <2> HIDE DEF P, z
  <2> QED
    BY <1>6, <2>1, <2>2, Upwards
<1>9. Mid(u, z)
  BY <1>4, <1>5, <1>8
<1>10. Upto(z) = Range(q)
  BY <1>1, RangeIs DEF q
<1> QED
  BY <1>3, <1>9, <1>10 DEF Replayed, id, q

--------------------------------------------------------------------------------
(* How much of a path the stack shares (tracer.cpp:66-78).                    *)
LEMMA SharedIs ==
  ASSUME NEW s, NEW p, Len(s.stack) \in Nat, Len(p) \in Nat, NEW n, n = sharedPrefixSize(s, p)
  PROVE  /\ n \in Nat /\ n <= Len(s.stack) /\ n <= Len(p)
         /\ \A i \in 1..n : SameList(s, i, p)
         /\ n < Len(s.stack) /\ n < Len(p) => ~SameList(s, n + 1, p)
<1> DEFINE a == Len(s.stack)
           b == Len(p)
           k == IF a <= b THEN a ELSE b
           S == {i \in 0..k : i = k \/ ~SameList(s, i + 1, p)}
           Is(x) == /\ x <= b /\ \A i \in 1..x : SameList(s, i, p)
                    /\ x < a /\ x < b => ~SameList(s, x + 1, p)
<1>1. a \in Nat /\ b \in Nat /\ k \in Nat /\ k <= a /\ k <= b /\ (k = a \/ k = b)
  OBVIOUS
<1> HIDE DEF a, b, k
<1>2. S \in SUBSET Nat /\ S # {}
  <2>1. k \in S
    BY <1>1
  <2> QED
    BY <2>1
<1>3. Min(S) \in S /\ \A y \in S : Min(S) <= y
  BY <1>2, MinNat
<1> DEFINE x == Min(S)
<1>4. x \in 0..k /\ (x = k \/ ~SameList(s, x + 1, p)) /\ \A y \in S : x <= y
  BY <1>3
<1> HIDE DEF x
<1>5. ASSUME NEW i \in 1..x PROVE SameList(s, i, p)
  <2>1. i - 1 \in 0..k /\ ~(x <= i - 1) /\ i - 1 # k /\ (i - 1) + 1 = i
    BY <1>1, <1>4
  <2>2. i - 1 \notin S
    BY <1>4, <2>1
  <2> DEFINE j == i - 1
  <2>3. j \in 0..k /\ j \notin S /\ j # k /\ j + 1 = i
    BY <2>1, <2>2
  <2> HIDE DEF j
  <2> QED
    BY <2>3
<1>6. Is(x) /\ x \in 0..a
  <2>1. x <= b /\ x \in 0..a
    BY <1>1, <1>4
  <2>2. x < a /\ x < b => x # k
    BY <1>1
  <2> QED
    BY <1>4, <1>5, <2>1, <2>2
<1>7. n = CHOOSE y \in 0..a : Is(y)
  BY DEF sharedPrefixSize, a, b
<1> HIDE DEF Is
<1>8. n \in 0..a /\ Is(n)
  BY <1>6, <1>7
<1> QED
  BY <1>1, <1>8 DEF Is, a, b

(* The bound that the constraints in force give is one of the costs.          *)
LEMMA ValueIs ==
  ASSUME NEW S \in SUBSET Constraints
  PROVE  value(S) \in Costs /\ value(S) \in Nat /\ \A c \in S : c.low <= value(S)
<1> DEFINE V == {0} \cup {c.low : c \in S}
<1>1. V \subseteq Costs
  BY BFSearchAssumption DEF Constraints
<1>2. V \in SUBSET Int /\ V # {} /\ NoPrimal \in Int /\ \A y \in V : y <= NoPrimal
  <2>1. 0 \in V
    OBVIOUS
  <2> HIDE DEF V
  <2>2. \A y \in V : y \in Nat /\ y < NoPrimal
    BY <1>1, BFSearchAssumption
  <2>3. NoPrimal \in Nat
    BY BFSearchAssumption
  <2> QED
    BY <2>1, <2>2, <2>3
<1>3. \A c \in S : c.low \in V
  OBVIOUS
<1>4. value(S) = Max(V)
  BY DEF value
<1> HIDE DEF V
<1>5. Max(V) \in V /\ \A y \in V : Max(V) >= y
  BY <1>2, GreatestInt
<1>6. Max(V) \in Costs /\ Max(V) \in Nat /\ V \subseteq Nat
  BY <1>1, <1>5, BFSearchAssumption
<1> QED
  BY <1>3, <1>4, <1>5, <1>6

--------------------------------------------------------------------------------
(* The frontier claims its lists.                                             *)
Nodes == [path : Seq(Nat), depth : Int, at : Seq(Nat), value : Costs]

(* How many of the paths of Q a list is on. *)
Paths(Q, l) == Cardinality({p \in Q : On(p, l) = 1})
Waiting(F, l) == Cardinality({n \in F : On(n.path, l) = 1})

LEMMA PathsLess ==
  ASSUME NEW Q, IsFiniteSet(Q), NEW p \in Q, NEW l
  PROVE  Paths(Q, l) \in Nat /\ Paths(Q \ {p}, l) = Paths(Q, l) - On(p, l)
<1> DEFINE A == {q \in Q : On(q, l) = 1}
<1>1. IsFiniteSet(A) /\ Cardinality(A) \in Nat
  BY FS_Subset, FS_CardinalityType
<1>2. {q \in Q \ {p} : On(q, l) = 1} = A \ {p}
  OBVIOUS
<1>3. Cardinality(A \ {p}) = IF p \in A THEN Cardinality(A) - 1 ELSE Cardinality(A)
  BY <1>1, FS_RemoveElement
<1>4. On(p, l) = IF p \in A THEN 1 ELSE 0
  BY OnIs
<1> QED
  BY <1>1, <1>2, <1>3, <1>4 DEF Paths

LEMMA WaitingLess ==
  ASSUME NEW F, IsFiniteSet(F), NEW n \in F, NEW l
  PROVE  Waiting(F, l) \in Nat /\ Waiting(F \ {n}, l) = Waiting(F, l) - On(n.path, l)
<1> DEFINE A == {q \in F : On(q.path, l) = 1}
<1>1. IsFiniteSet(A) /\ Cardinality(A) \in Nat
  BY FS_Subset, FS_CardinalityType
<1>2. {q \in F \ {n} : On(q.path, l) = 1} = A \ {n}
  OBVIOUS
<1>3. Cardinality(A \ {n}) = IF n \in A THEN Cardinality(A) - 1 ELSE Cardinality(A)
  BY <1>1, FS_RemoveElement
<1>4. On(n.path, l) = IF n \in A THEN 1 ELSE 0
  BY OnIs
<1>5. Waiting(F, l) = Cardinality(A) /\ Waiting(F \ {n}, l) = Cardinality(A \ {n})
  BY <1>2 DEF Waiting
<1> HIDE DEF A
<1> QED
  BY <1>1, <1>3, <1>4, <1>5

LEMMA WaitingMore ==
  ASSUME NEW F, IsFiniteSet(F), NEW n, NEW l
  PROVE  /\ Waiting(F, l) \in Nat /\ Waiting(F \cup {n}, l) \in Nat
         /\ Waiting(F \cup {n}, l) <= Waiting(F, l) + On(n.path, l)
<1> DEFINE A == {q \in F : On(q.path, l) = 1}
           B == {q \in F \cup {n} : On(q.path, l) = 1}
<1>1. IsFiniteSet(A) /\ Cardinality(A) \in Nat
  BY FS_Subset, FS_CardinalityType
<1>0. Waiting(F, l) = Cardinality(A) /\ Waiting(F \cup {n}, l) = Cardinality(B)
  BY DEF Waiting
<1>2. CASE On(n.path, l) = 1
  <2>1. B = A \cup {n}
    BY <1>2
  <2>2. Cardinality(A \cup {n}) = IF n \in A THEN Cardinality(A) ELSE Cardinality(A) + 1
    BY <1>1, FS_AddElement
  <2> HIDE DEF A, B
  <2> QED
    BY <1>0, <1>1, <1>2, <2>1, <2>2
<1>3. CASE On(n.path, l) # 1
  <2>1. B = A /\ On(n.path, l) = 0
    BY <1>3, OnIs
  <2> HIDE DEF A, B
  <2> QED
    BY <1>0, <1>1, <2>1
<1> QED
  BY <1>2, <1>3

LEMMA PathsOfFrontier ==
  ASSUME NEW F, IsFiniteSet(F), NEW l
  PROVE  /\ IsFiniteSet({n.path : n \in F})
         /\ Paths({n.path : n \in F}, l) <= Waiting(F, l)
<1> DEFINE Q == {n.path : n \in F}
           A == {n \in F : On(n.path, l) = 1}
           B == {p \in Q : On(p, l) = 1}
           f == [n \in A |-> n.path]
           g == [n \in F |-> n.path]
<1>1. IsFiniteSet(A)
  BY FS_Subset
<1>2. f \in Surjection(A, B) /\ g \in Surjection(F, Q)
  BY DEF Surjection
<1>3. IsFiniteSet(Q)
  BY <1>2, FS_Surjection
<1>4. Cardinality(B) <= Cardinality(A)
  BY <1>1, <1>2, FS_Surjection
<1> QED
  BY <1>3, <1>4 DEF Paths, Waiting

LEMMA ListedOnce ==
  ASSUME NEW S, IsFiniteSet(S), NEW q, q = SetToSeq(S)
  PROVE  /\ Len(q) \in Nat /\ DOMAIN q = 1..Len(q)
         /\ \A i \in 1..Len(q) : q[i] \in S
         /\ \A i, j \in 1..Len(q) : q[i] = q[j] => i = j
<1> DEFINE z == Cardinality(S)
<1>1. z \in Nat /\ ExistsBijection(1..z, S)
  BY FS_CardinalityType
<1>2. q = CHOOSE f \in [1..z -> S] : IsInjective(f)
  BY DEF SetToSeq
<1> HIDE DEF z
<1>3. \E f \in [1..z -> S] : IsInjective(f)
  BY <1>1 DEF ExistsBijection, Bijection, Injection, IsInjective
<1>4. q \in [1..z -> S] /\ IsInjective(q)
  BY <1>2, <1>3
<1>5. Len(q) = z /\ DOMAIN q = 1..z
  BY <1>1, <1>4
<1> QED
  BY <1>1, <1>4, <1>5 DEF IsInjective

LEMMA LessIs ==
  ASSUME NEW m \in Claims, NEW p, \A l \in Nat : On(p, l) <= m[l]
  PROVE  /\ Less(m, p) \in Claims
         /\ \A l \in Nat : Less(m, p)[l] = m[l] - On(p, l) /\ Less(m, p)[l] <= m[l]
<1>1. \A l \in Nat : m[l] \in Nat /\ On(p, l) \in Nat
  BY OnIs DEF Claims
<1>2. \A l \in Nat : m[l] - On(p, l) \in Nat /\ m[l] - On(p, l) <= m[l]
  BY <1>1
<1> QED
  BY <1>2 DEF Less, Claims

(* ~Checkpoint once more, with what it keeps.                                 *)
Released(s, u, m, N) == Sane(u, m, N) /\ Aside(s, u) /\ Holds(s, u, m, Len(s.stack))

(* Dropping a checkpoint takes its claims away.                               *)
LEMMA ReleaseSane ==
  ASSUME NEW s, NEW m \in Claims, NEW N \in Int, Sane(s, m, N), NEW p \in Seq(Nat), Once(p),
         \A l \in Nat : On(p, l) <= m[l], NEW u, u = Release(s, p)
  PROVE  Less(m, p) \in Claims /\ Released(s, u, Less(m, p), N)
<1> DEFINE d == Less(m, p)
<1>1. /\ u \in Tracers /\ Aside(s, u) /\ d \in Claims /\ Counted(u, d, N)
      /\ Len(u.lists) = Len(s.lists) /\ Keeps(s, u, Live(u, d))
  BY ReleaseCounts DEF Sane
<1>2. \A l \in Nat : d[l] <= m[l]
  BY LessIs
<1> HIDE DEF d
<1>3. s \in Tracers /\ Len(s.stack) \in Nat /\ u.stack = s.stack
  BY <1>1, Lengths DEF Sane, Aside
<1> DEFINE n == Len(s.stack)
<1>6. n \in Nat /\ n <= Len(u.stack) /\ n <= Len(s.stack) /\ Len(u.stack) \in Nat
  BY <1>3
<1>7. \A i \in 1..n : u.stack[i] = s.stack[i]
  BY <1>3
<1> HIDE DEF n
<1>8. Holds(s, u, d, n)
  BY <1>1, <1>6, <1>7, KeepsHolds
<1>4. Holds(s, u, d, Len(s.stack))
  BY <1>8 DEF n
<1>5. Iced(u, d)
  BY <1>1, <1>2, IcedKeeps DEF Sane
<1> QED
  BY <1>1, <1>4, <1>5 DEF Released, Sane, d

(* The whole frontier is dropped.                                             *)
Cleared(s, F) == AllReleased(s, SetToSeq({n.path : n \in F}))

Goes(s, q, u) == \E h : /\ h[0] = s
                        /\ \A i \in 1..Len(q) : h[i] = Release(h[i - 1], q[i])
                        /\ u = h[Len(q)]

LEMMA Dropping ==
  ASSUME NEW s, NEW F, IsFiniteSet({n.path : n \in F})
  PROVE  Goes(s, SetToSeq({n.path : n \in F}), Cleared(s, F))
<1> DEFINE q == SetToSeq({n.path : n \in F})
<1>1. Len(q) \in Nat /\ DOMAIN q = 1..Len(q)
  BY ListedOnce
<1> HIDE DEF q
<1>2. PICK h : /\ h[0] = s
               /\ \A i \in 1..Len(q) : h[i] = Release(h[i - 1], q[i])
               /\ AllReleased(s, q) = h[Len(q)]
  BY <1>1, ReleaseFold
<1>3. Goes(s, q, AllReleased(s, q))
  BY <1>2 DEF Goes
<1> QED
  BY <1>3 DEF Cleared, q

(* Clearing a frontier takes the claims of all its checkpoints away.          *)
LEMMA ReleaseAll ==
  ASSUME NEW s, NEW m \in Claims, NEW N \in Int, Sane(s, m, N), NEW base \in Claims,
         NEW F, IsFiniteSet(F), \A n \in F : n.path \in Seq(Nat) /\ Once(n.path),
         \A l \in Nat : m[l] = base[l] + Waiting(F, l),
         NEW u, u = Cleared(s, F)
  PROVE  Released(s, u, base, N)
<1> DEFINE Q == {n.path : n \in F}
           q == SetToSeq(Q)
           z == Len(q)
<1>1. IsFiniteSet(Q) /\ \A l : Paths(Q, l) <= Waiting(F, l) /\ Waiting(F, l) \in Nat
  <2>1. IsFiniteSet(Q) /\ \A l : Paths(Q, l) <= Waiting(F, l)
    BY PathsOfFrontier
  <2>2. ASSUME NEW l PROVE Waiting(F, l) \in Nat
    <3> DEFINE A == {n \in F : On(n.path, l) = 1}
    <3>1. IsFiniteSet(A)
      BY FS_Subset
    <3>2. Cardinality(A) \in Nat
      BY <3>1, FS_CardinalityType
    <3> QED
      BY <3>2 DEF Waiting
  <2> QED
    BY <2>1, <2>2
<1>2. \A p \in Q : p \in Seq(Nat) /\ Once(p)
  OBVIOUS
<1>3. Goes(s, q, u)
  BY <1>1, Dropping
<1> HIDE DEF Q
<1>4. /\ z \in Nat /\ DOMAIN q = 1..z /\ \A i \in 1..z : q[i] \in Q
      /\ \A i, j \in 1..z : q[i] = q[j] => i = j
  BY <1>1, ListedOnce
<1> HIDE DEF q
<1>5. PICK h : /\ h[0] = s
               /\ \A i \in 1..z : h[i] = Release(h[i - 1], q[i])
               /\ u = h[z]
  <2>1. \E h : /\ h[0] = s
               /\ \A i \in 1..Len(q) : h[i] = Release(h[i - 1], q[i])
               /\ u = h[Len(q)]
    BY <1>3, Zenon DEF Goes
  <2> QED
    BY <2>1
<1> DEFINE R(i) == Q \ {q[j] : j \in 1..i}
           M(i) == [l \in Nat |-> base[l] + Paths(R(i), l)]
<1>6. ASSUME NEW i \in 0..z, NEW l
      PROVE  IsFiniteSet(R(i)) /\ Paths(R(i), l) \in Nat
  <2>1. IsFiniteSet(R(i))
    BY <1>1, FS_Subset
  <2> DEFINE A == {p \in R(i) : On(p, l) = 1}
  <2>2. IsFiniteSet(A)
    BY <2>1, FS_Subset
  <2>3. Cardinality(A) \in Nat
    BY <2>2, FS_CardinalityType
  <2> QED
    BY <2>1, <2>3 DEF Paths
<1>7. ASSUME NEW i \in 0..z PROVE M(i) \in Claims /\ \A l \in Nat : base[l] \in Nat /\ base[l] <= M(i)[l]
  <2>1. ASSUME NEW l \in Nat
        PROVE  base[l] \in Nat /\ M(i)[l] = base[l] + Paths(R(i), l) /\ Paths(R(i), l) \in Nat
    <3>1. base[l] \in Nat
      BY DEF Claims
    <3>2. Paths(R(i), l) \in Nat
      BY <1>6
    <3> QED
      BY <3>1, <3>2
  <2>2. M(i) = [l \in Nat |-> M(i)[l]]
    OBVIOUS
  <2> HIDE DEF R, M
  <2>3. ASSUME NEW l \in Nat PROVE base[l] \in Nat /\ base[l] <= M(i)[l] /\ M(i)[l] \in Nat
    <3> DEFINE a == Paths(R(i), l)
    <3>1. base[l] \in Nat /\ M(i)[l] = base[l] + a /\ a \in Nat
      BY <2>1
    <3> HIDE DEF a
    <3> QED
      BY <3>1
  <2> QED
    BY <2>2, <2>3 DEF Claims
<1>8. M(0) \in Claims /\ \A l \in Nat : M(0)[l] <= m[l]
  <2>1. R(0) = Q /\ 0 \in 0..z
    BY <1>4
  <2>2. ASSUME NEW l \in Nat PROVE M(0)[l] <= m[l]
    <3> DEFINE a == Paths(Q, l)
               b == Waiting(F, l)
    <3>1. base[l] \in Nat
      BY DEF Claims
    <3>2. M(0)[l] = base[l] + Paths(R(0), l)
      OBVIOUS
    <3>3. Paths(R(0), l) \in Nat
      BY <1>6, <2>1
    <3>4. a \in Nat /\ a <= b /\ b \in Nat
      BY <1>1, <2>1, <3>3
    <3>5. M(0)[l] = base[l] + a /\ m[l] = base[l] + b
      BY <2>1, <3>2
    <3> HIDE DEF a, b, M
    <3> QED
      BY <3>1, <3>4, <3>5
  <2>3. M(0) \in Claims
    BY <1>7, <2>1
  <2> HIDE DEF M
  <2> QED
    BY <2>2, <2>3
<1>9. ASSUME NEW i \in 0..(z - 1)
      PROVE  /\ M(i + 1) = Less(M(i), q[i + 1])
             /\ \A l \in Nat : On(q[i + 1], l) <= M(i)[l]
  <2> DEFINE j == i + 1
             p == q[j]
  <2>1. j \in 1..z /\ i \in 0..z /\ \A k \in 1..i : k \in 1..z /\ k # j
    BY <1>4
  <2>2. p \in R(i)
    <3>1. p \in Q /\ \A k \in 1..i : q[k] # p
      BY <1>4, <2>1
    <3> QED
      BY <3>1
  <2>3. R(j) = R(i) \ {p}
    <3>1. 1..j = 1..i \cup {j}
      BY <1>4
    <3> HIDE DEF j
    <3> QED
      BY <3>1
  <2>0. IsFiniteSet(R(i))
    BY <1>6, <2>1
  <2>4. ASSUME NEW l \in Nat
        PROVE  /\ Paths(R(j), l) = Paths(R(i), l) - On(p, l)
               /\ Paths(R(i), l) \in Nat /\ On(p, l) \in Nat
    <3> DEFINE X == R(i)
    <3>1. IsFiniteSet(X) /\ p \in X /\ R(j) = X \ {p}
      BY <2>0, <2>2, <2>3
    <3> HIDE DEF X, R, p, j
    <3>2. Paths(X, l) \in Nat /\ Paths(X \ {p}, l) = Paths(X, l) - On(p, l)
      BY <3>1, PathsLess
    <3> QED
      BY <3>1, <3>2, OnIs DEF X
  <2>5. ASSUME NEW l \in Nat PROVE On(p, l) <= M(i)[l] /\ M(j)[l] = M(i)[l] - On(p, l)
    <3>1. base[l] \in Nat
      BY DEF Claims
    <3>3. M(i)[l] = base[l] + Paths(R(i), l) /\ M(j)[l] = base[l] + Paths(R(j), l)
      OBVIOUS
    <3> DEFINE a == Paths(R(i), l)
               b == On(p, l)
               c == Paths(R(j), l)
    <3>4. c = a - b /\ a \in Nat /\ b \in Nat
      BY <2>4
    <3>6. c \in Nat
      <4>1. j \in 0..z
        BY <2>1, <1>4
      <4> HIDE DEF j, R
      <4>2. Paths(R(j), l) \in Nat
        BY <1>6, <4>1
      <4> QED
        BY <4>2
    <3>5. M(i)[l] = base[l] + a /\ M(j)[l] = base[l] + c
      BY <3>3
    <3>7. On(p, l) = b
      OBVIOUS
    <3> HIDE DEF M, R, p, j, a, b, c
    <3> QED
      BY <3>1, <3>4, <3>5, <3>6, <3>7
  <2>6. M(j) = Less(M(i), p)
    <3>1. M(j) \in Claims
      BY <1>7, <2>1
    <3> HIDE DEF M, p, j
    <3>2. M(j) = [l \in Nat |-> M(j)[l]]
      BY <3>1 DEF Claims
    <3> QED
      BY <2>5, <3>2 DEF Less
  <2> HIDE DEF M
  <2> QED
    BY <2>5, <2>6
<1> HIDE DEF M, R
<1> DEFINE P == {i \in 0..z : Released(s, h[i], M(i), N)}
<1>10. 0 \in P
  <2> DEFINE d == M(0)
  <2>1. d \in Claims /\ (\A l \in Nat : d[l] <= m[l]) /\ N <= N
    BY <1>8
  <2> HIDE DEF d
  <2>2. Sane(s, d, N)
    BY <2>1, SaneLess
  <2>3. Len(s.stack) \in Nat
    BY Lengths DEF Sane
  <2>4. Holds(s, s, d, Len(s.stack))
    BY <2>2, <2>3, HoldsSelf
  <2>5. Released(s, s, d, N)
    BY <2>2, <2>4 DEF Released, Aside
  <2> QED
    BY <1>4, <1>5, <2>5 DEF d
<1>11. ASSUME NEW i \in 0..(z - 1), i \in P PROVE i + 1 \in P
  <2> DEFINE j == i + 1
             x == h[i]
             y == h[j]
             p == q[j]
             d == M(i)
  <2>1. j \in 1..z /\ j \in 0..z /\ j - 1 = i
    BY <1>4
  <2>2. Released(s, x, d, N) /\ d \in Claims
    BY <1>7, <1>11
  <2>3. y = Release(x, p) /\ p \in Seq(Nat) /\ Once(p)
    BY <1>2, <1>4, <1>5, <2>1
  <2>4. M(j) = Less(d, p) /\ \A l \in Nat : On(p, l) <= d[l]
    BY <1>9
  <2> HIDE DEF x, y, p, d, j
  <2>5. Sane(x, d, N)
    BY <2>2 DEF Released
  <2>6. Less(d, p) \in Claims /\ Released(x, y, Less(d, p), N)
    BY <2>2, <2>3, <2>4, <2>5, ReleaseSane
  <2>7. \A l \in Nat : Less(d, p)[l] <= d[l]
    BY <2>2, <2>4, LessIs
  <2> DEFINE e == Less(d, p)
             n == Len(s.stack)
  <2>8. Holds(s, x, d, n) /\ Holds(x, y, e, Len(x.stack)) /\ x.stack = s.stack /\ y.stack = s.stack
    BY <2>2, <2>6 DEF Released, Aside
  <2>9. n \in Nat /\ n <= n
    BY Lengths DEF Sane
  <2>10. e \in Claims /\ \A l \in Nat : e[l] <= d[l]
    BY <2>6, <2>7
  <2> HIDE DEF e, n
  <2>11. Holds(s, x, e, n)
    BY <2>2, <2>8, <2>10, HoldsLess
  <2>12. Len(s.stack) = n /\ Len(x.stack) = n /\ Len(y.stack) = n
    BY <2>8 DEF n
  <2>13. Holds(s, y, e, n)
    BY <2>8, <2>9, <2>11, <2>12, HoldsOn
  <2>14. Aside(s, y)
    BY <2>2, <2>6 DEF Released, Aside
  <2>15. Released(s, y, e, N)
    BY <2>6, <2>13, <2>14 DEF Released, e, n
  <2> QED
    BY <2>1, <2>4, <2>15 DEF y, j, e
<1>12. z \in P
  <2>1. 0 \in Int /\ z \in Int /\ z \in 0..z
    BY <1>4
  <2>2. \A i \in 0..(z - 1) : i \in P => i + 1 \in P
    BY <1>11
  <2> HIDE DEF P, z
  <2> QED
    BY <1>10, <2>1, <2>2, Upwards
<1>13. Released(s, u, M(z), N)
  BY <1>3, <1>5, <1>12
<1>14. M(z) \in Claims /\ (\A l \in Nat : base[l] <= M(z)[l]) /\ N <= N
  BY <1>4, <1>7
<1> DEFINE d == M(z)
<1> HIDE DEF d
<1>15. d \in Claims /\ (\A l \in Nat : base[l] <= d[l]) /\ Released(s, u, d, N)
  BY <1>13, <1>14 DEF d
<1>16. Sane(u, base, N) /\ Holds(s, u, base, Len(s.stack))
  BY <1>14, <1>15, SaneLess, HoldsLess DEF Released
<1> QED
  BY <1>15, <1>16 DEF Released

--------------------------------------------------------------------------------

(* All the claims of a search.                                                *)
Total(r, b, q, F) == [l \in Nat |-> On(r, l) + On(b, l) + On(q, l) + Waiting(F, l)]
Refs == Total(root, before, node, frontier)

Claimed(m, p) == \A i \in 1..Len(p) : m[p[i]] > 0

LEMMA WaitingIs ==
  ASSUME NEW F, IsFiniteSet(F), NEW l
  PROVE  /\ Waiting(F, l) \in Nat
         /\ \A n \in F : On(n.path, l) = 1 => Waiting(F, l) > 0
<1>1. Waiting(F, l) \in Nat
  BY WaitingMore
<1>2. ASSUME NEW n \in F, On(n.path, l) = 1 PROVE Waiting(F, l) > 0
  <2>1. IsFiniteSet(F \ {n})
    BY FS_RemoveElement
  <2>2. Waiting(F \ {n}, l) \in Nat
    BY <2>1, WaitingMore
  <2>3. Waiting(F \ {n}, l) = Waiting(F, l) - On(n.path, l)
    BY WaitingLess
  <2> QED
    BY <1>1, <1>2, <2>2, <2>3
<1> QED
  BY <1>1, <1>2

LEMMA TotalIs ==
  ASSUME NEW r, NEW b, NEW q, NEW F, IsFiniteSet(F)
  PROVE  /\ Total(r, b, q, F) \in Claims
         /\ \A l \in Nat : /\ Total(r, b, q, F)[l] = On(r, l) + On(b, l) + On(q, l) + Waiting(F, l)
                           /\ On(r, l) \in Nat /\ On(b, l) \in Nat /\ On(q, l) \in Nat
                           /\ Waiting(F, l) \in Nat /\ Total(r, b, q, F)[l] \in Nat
<1>1. \A l \in Nat : /\ On(r, l) \in Nat /\ On(b, l) \in Nat /\ On(q, l) \in Nat
                     /\ Waiting(F, l) \in Nat
  BY OnIs, WaitingIs
<1>2. \A l \in Nat : Total(r, b, q, F)[l] = On(r, l) + On(b, l) + On(q, l) + Waiting(F, l)
  BY DEF Total
<1>3. \A l \in Nat : Total(r, b, q, F)[l] \in Nat
  BY <1>1, <1>2
<1>4. Total(r, b, q, F) \in Claims
  BY <1>3 DEF Total, Claims
<1> QED
  BY <1>1, <1>2, <1>3, <1>4

LEMMA TotalClaims ==
  ASSUME NEW r \in Seq(Nat), NEW b \in Seq(Nat), NEW q \in Seq(Nat), NEW F, IsFiniteSet(F),
         \A n \in F : n.path \in Seq(Nat)
  PROVE  /\ Claimed(Total(r, b, q, F), r) /\ Claimed(Total(r, b, q, F), b)
         /\ Claimed(Total(r, b, q, F), q)
         /\ \A n \in F : Claimed(Total(r, b, q, F), n.path)
<1> DEFINE m == Total(r, b, q, F)
<1>1. ASSUME NEW l \in Nat,
             On(r, l) = 1 \/ On(b, l) = 1 \/ On(q, l) = 1 \/ \E n \in F : On(n.path, l) = 1
      PROVE  m[l] > 0
  <2> DEFINE w == Waiting(F, l)
             x == On(r, l)
             y == On(b, l)
             z == On(q, l)
  <2>1. m[l] = x + y + z + w /\ x \in Nat /\ y \in Nat /\ z \in Nat /\ w \in Nat
    <3>1. IsFiniteSet(F)
      OBVIOUS
    <3>2. Total(r, b, q, F)[l] = On(r, l) + On(b, l) + On(q, l) + Waiting(F, l)
      BY <3>1, TotalIs
    <3>3. On(r, l) \in Nat /\ On(b, l) \in Nat /\ On(q, l) \in Nat
      BY OnIs
    <3>4. Waiting(F, l) \in Nat
      BY <3>1, WaitingIs
    <3> QED
      BY <3>2, <3>3, <3>4
  <2>2. x = 1 \/ y = 1 \/ z = 1 \/ w > 0
    BY <1>1, WaitingIs
  <2> HIDE DEF w, x, y, z, m
  <2> QED
    BY <2>1, <2>2
<1>2. \A p \in Seq(Nat) : \A i \in 1..Len(p) : p[i] \in Nat /\ On(p, p[i]) = 1
  <2> TAKE p \in Seq(Nat)
  <2> TAKE i \in 1..Len(p)
  <2>1. p[i] \in Nat
    BY ElementOfSeq
  <2> QED
    BY <2>1, OnIs
<1> HIDE DEF m
<1>4. Claimed(m, r)
  BY <1>1, <1>2 DEF Claimed
<1>5. Claimed(m, b)
  BY <1>1, <1>2 DEF Claimed
<1>6. Claimed(m, q)
  BY <1>1, <1>2 DEF Claimed
<1>7. ASSUME NEW n \in F PROVE Claimed(m, n.path)
  BY <1>1, <1>2 DEF Claimed
<1> QED
  BY <1>4, <1>5, <1>6, <1>7 DEF m

(* A path is let go.                                                          *)
LEMMA ReleaseTo ==
  ASSUME NEW s, NEW m \in Claims, NEW N \in Int, Sane(s, m, N), NEW p \in Seq(Nat), Once(p),
         NEW e \in Claims, \A l \in Nat : e[l] + On(p, l) <= m[l], NEW u, u = Release(s, p)
  PROVE  Released(s, u, e, N)
<1>1. \A l \in Nat : On(p, l) \in Nat /\ e[l] \in Nat /\ m[l] \in Nat
  BY OnIs DEF Claims
<1>2. ASSUME NEW l \in Nat PROVE On(p, l) <= m[l]
  <2> DEFINE o == On(p, l)
  <2>1. o \in Nat /\ e[l] \in Nat /\ m[l] \in Nat /\ e[l] + o <= m[l]
    BY <1>1
  <2> HIDE DEF o
  <2>2. o <= m[l]
    BY <2>1
  <2> QED
    BY <2>2 DEF o
<1> DEFINE d == Less(m, p)
<1>3. d \in Claims /\ Released(s, u, d, N)
  BY <1>2, ReleaseSane
<1>4. \A l \in Nat : d[l] = m[l] - On(p, l)
  BY <1>2, LessIs
<1> HIDE DEF d
<1>5. ASSUME NEW l \in Nat PROVE e[l] <= d[l]
  <2> DEFINE o == On(p, l)
  <2>1. o \in Nat /\ e[l] \in Nat /\ m[l] \in Nat /\ e[l] + o <= m[l] /\ d[l] = m[l] - o
    BY <1>1, <1>4
  <2> HIDE DEF o
  <2> QED
    BY <2>1
<1>6. N <= N
  OBVIOUS
<1>7. Sane(u, d, N) /\ Holds(s, u, d, Len(s.stack)) /\ Aside(s, u)
  BY <1>3 DEF Released
<1>8. Sane(u, e, N)
  BY <1>3, <1>5, <1>6, <1>7, SaneLess
<1>9. Holds(s, u, e, Len(s.stack))
  BY <1>3, <1>5, <1>7, HoldsLess
<1> QED
  BY <1>7, <1>8, <1>9 DEF Released

(* A path starts with the nodes of the path r.                                *)
Rooted(s, r, p) == /\ Len(r) <= Len(p)
                   /\ \A i \in 1..Len(r) : s.lists[p[i]].node = s.lists[r[i]].node

LEMMA RootedKeeps ==
  ASSUME NEW s, NEW u, NEW m \in Claims, NEW k, Holds(s, u, m, k),
         NEW r \in Seq(Nat), NEW p \in Seq(Nat), Claimed(m, r), Claimed(m, p), Rooted(s, r, p)
  PROVE  Rooted(u, r, p)
<1>1. Len(r) \in Nat /\ Len(p) \in Nat /\ Len(r) <= Len(p)
  BY LenProperties DEF Rooted
<1>2. ASSUME NEW i \in 1..Len(r)
      PROVE u.lists[p[i]].node = s.lists[p[i]].node /\ u.lists[r[i]].node = s.lists[r[i]].node
  <2>1. i \in 1..Len(p)
    BY <1>1
  <2>2. p[i] \in Nat /\ r[i] \in Nat
    BY <2>1, ElementOfSeq
  <2> QED
    BY <2>1, <2>2 DEF Claimed, Holds, Kept
<1> QED
  BY <1>1, <1>2 DEF Rooted

LEMMA StackRooted ==
  ASSUME NEW s \in Tracers, NEW u \in Tracers, NEW m \in Claims, NEW k \in Int, Holds(s, u, m, k),
         NEW r \in Seq(Nat), Claimed(m, r), Rooted(s, r, s.stack), Len(r) <= k
  PROVE  Rooted(u, r, u.stack)
<1>1. Len(r) \in Nat /\ Len(s.stack) \in Nat /\ Len(u.stack) \in Nat
  BY LenProperties, Lengths
<1>2. k <= Len(u.stack) /\ k <= Len(s.stack)
  BY DEF Holds
<1>3. Len(r) <= Len(u.stack)
  BY <1>1, <1>2
<1>4. ASSUME NEW i \in 1..Len(r)
      PROVE u.lists[u.stack[i]].node = u.lists[r[i]].node
  <2>1. i \in 1..k
    BY <1>1
  <2>2. r[i] \in Nat
    BY ElementOfSeq
  <2>3. u.lists[r[i]].node = s.lists[r[i]].node
    BY <2>2 DEF Claimed, Holds, Kept
  <2>4. u.lists[u.stack[i]].node = s.lists[s.stack[i]].node
    BY <2>1 DEF Holds, Kept
  <2> QED
    BY <2>3, <2>4 DEF Rooted
<1> QED
  BY <1>3, <1>4 DEF Rooted

(* The same when the top of the stack is another list with the same node.     *)
LEMMA TopRooted ==
  ASSUME NEW s \in Tracers, NEW u \in Tracers, NEW m \in Claims, NEW k \in Int, k = Len(s.stack) - 1,
         Holds(s, u, m, k), Len(s.stack) > 0, Len(u.stack) = Len(s.stack), TopOf(u).node = TopOf(s).node,
         NEW r \in Seq(Nat), Claimed(m, r), Rooted(s, r, s.stack)
  PROVE  Rooted(u, r, u.stack)
<1>1. Len(r) \in Nat /\ Len(s.stack) \in Nat /\ Len(u.stack) \in Nat /\ Len(r) <= Len(s.stack)
  BY LenProperties, Lengths DEF Rooted
<1>2. Last(u.stack) = u.stack[Len(s.stack)] /\ Last(s.stack) = s.stack[Len(s.stack)]
  BY DEF Last
<1>4. ASSUME NEW i \in 1..Len(r)
      PROVE u.lists[u.stack[i]].node = u.lists[r[i]].node
  <2>2. r[i] \in Nat
    BY ElementOfSeq
  <2>3. u.lists[r[i]].node = s.lists[r[i]].node
    BY <2>2 DEF Claimed, Holds, Kept
  <2>4. CASE i = Len(s.stack)
    <3>1. u.lists[u.stack[i]].node = s.lists[s.stack[i]].node
      BY <1>2, <2>4 DEF TopOf
    <3> QED
      BY <2>3, <3>1 DEF Rooted
  <2>5. CASE i # Len(s.stack)
    <3>1. i \in 1..k
      BY <1>1, <2>5
    <3>2. u.lists[u.stack[i]].node = s.lists[s.stack[i]].node
      BY <3>1 DEF Holds, Kept
    <3> QED
      BY <2>3, <3>2 DEF Rooted
  <2> QED
    BY <2>4, <2>5
<1> QED
  BY <1>1, <1>4 DEF Rooted

--------------------------------------------------------------------------------
(* What the steps of the search ask of the tracer, several calls at a time.   *)
LEMMA SharedAtLeast ==
  ASSUME NEW s, NEW p, Len(s.stack) \in Nat, Len(p) \in Nat, NEW n, n = sharedPrefixSize(s, p),
         NEW k \in Nat, k <= Len(s.stack), k <= Len(p), \A i \in 1..k : SameList(s, i, p)
  PROVE  n \in Nat /\ k <= n /\ n <= Len(s.stack) /\ n <= Len(p)
<1>1. /\ n \in Nat /\ n <= Len(s.stack) /\ n <= Len(p)
      /\ n < Len(s.stack) /\ n < Len(p) => ~SameList(s, n + 1, p)
  BY SharedIs
<1>2. k <= n
  <2> SUFFICES ASSUME n < k PROVE FALSE
    BY <1>1
  <2>1. n + 1 \in 1..k
    BY <1>1
  <2>2. n < Len(s.stack) /\ n < Len(p)
    BY <1>1
  <2> QED
    BY <1>1, <2>1, <2>2
<1> QED
  BY <1>1, <1>2

(* A checkpoint, and the path p is let go (search.cpp:228-232).               *)
Entered(s, u, e) ==
    /\ Sane(u, e, u.nodes) /\ Len(u.stack) = Len(s.stack) + 1 /\ Holds(s, u, e, Len(s.stack))
    /\ TopOf(u).head = <<>> /\ TopOf(u).node = s.nodes
    /\ u.nodes = s.nodes + 1 /\ u.level = s.level + 1 /\ u.pushes = s.pushes + 1
    /\ u.store = s.store
    /\ u.frames = Append(s.frames, [id |-> s.pushes + 1, store |-> s.store])

LEMMA MoreIs ==
  ASSUME NEW m \in Claims, NEW p
  PROVE  \A l \in Nat : More(m, p)[l] = m[l] + On(p, l) /\ m[l] \in Nat /\ On(p, l) \in Nat
  BY OnIs DEF More, Claims

(* The checkpoint of a node replaces the one captured before.                 *)
LEMMA EnterSane ==
  ASSUME NEW s, NEW m \in Claims, Sane(s, m, s.nodes), NEW p \in Seq(Nat), Once(p),
         NEW e \in Claims, \A l \in Nat : e[l] + On(p, l) <= m[l] + On(s.stack, l),
         \A l \in Nat : e[l] <= m[l] + On(s.stack, l),
         NEW u, u = Release(captureCheckpoint(s), p)
  PROVE  Entered(s, u, e)
<1> DEFINE a == captureCheckpoint(s)
           d == More(m, s.stack)
           N == a.nodes
           n == Len(s.stack)
           k == n + 1
<1>0. n \in Nat /\ s.nodes \in Int
  BY Lengths, TracerFields DEF Sane
<1>1. /\ d \in Claims /\ Sane(a, d, N) /\ Len(a.stack) = n + 1 /\ Holds(s, a, d, n)
      /\ a.lists[a.stack[n + 1]] = CommandList(s.nodes)
      /\ N = s.nodes + 1 /\ a.level = s.level + 1 /\ a.pushes = s.pushes + 1
      /\ a.store = s.store
      /\ a.frames = Append(s.frames, [id |-> s.pushes + 1, store |-> s.store])
  BY CaptureSane
<1>2. u = Release(a, p)
  OBVIOUS
<1>3. \A l \in Nat : d[l] = m[l] + On(s.stack, l)
  BY MoreIs
<1>4. (\A l \in Nat : e[l] + On(p, l) <= d[l]) /\ (\A l \in Nat : e[l] <= d[l])
  BY <1>3
<1>5. N \in Int
  BY <1>0, <1>1
<1> HIDE DEF a, d, N
<1>6. Released(a, u, e, N)
  BY <1>1, <1>2, <1>4, <1>5, ReleaseTo
<1>7. Sane(u, e, N) /\ Aside(a, u) /\ Holds(a, u, e, n + 1)
  BY <1>1, <1>6 DEF Released
<1>8. u.stack = a.stack /\ u.nodes = N /\ Len(u.stack) = n + 1
  BY <1>1, <1>7 DEF Aside, N
<1>9. Holds(s, a, e, n)
  BY <1>1, <1>4, HoldsLess
<1>10. k \in Nat /\ n <= n /\ n <= k
  BY <1>0
<1>11. Len(s.stack) \in Nat /\ Len(a.stack) \in Nat /\ Len(u.stack) \in Nat /\ Holds(a, u, e, k)
  BY <1>0, <1>1, <1>7, <1>8
<1> HIDE DEF k
<1>12. Holds(s, u, e, n)
  BY <1>0, <1>9, <1>10, <1>11, HoldsOn
<1>13. /\ CommandList(s.nodes).head = <<>> /\ CommandList(s.nodes).node = s.nodes
  BY DEF CommandList
<1>14. TopOf(u).head = <<>> /\ TopOf(u).node = s.nodes
  <2>1. Last(u.stack) = u.stack[n + 1] /\ n + 1 \in 1..(n + 1)
    BY <1>0, <1>8 DEF Last
  <2>2. u.stack[n + 1] = a.stack[n + 1]
    BY <1>8
  <2>3. /\ u.lists[a.stack[n + 1]].head = a.lists[a.stack[n + 1]].head
        /\ u.lists[a.stack[n + 1]].node = a.lists[a.stack[n + 1]].node
    BY <1>7, <2>1 DEF Holds, Kept
  <2>4. a.lists[a.stack[n + 1]].head = <<>> /\ a.lists[a.stack[n + 1]].node = s.nodes
    BY <1>1, <1>13
  <2> QED
    BY <2>1, <2>2, <2>3, <2>4 DEF TopOf
<1> QED
  BY <1>1, <1>7, <1>8, <1>12, <1>14 DEF Entered, Aside, n

(* A checkpoint, and the way back to its n lowest levels.                     *)
Captured(s, u, e, n) ==
    /\ Sane(u, e, u.nodes) /\ Len(u.stack) = n /\ Holds(s, u, e, n)
    /\ u.nodes = s.nodes + 1 /\ u.pushes = s.pushes + 1
    /\ Len(u.frames) = Len(s.frames) - (Len(s.stack) - n)
    /\ \A k \in 1..Len(u.frames) : u.frames[k] = s.frames[k]
    /\ u.store = IF n = Len(s.stack) THEN s.store
                 ELSE s.frames[Len(s.frames) - (Len(s.stack) - n) + 1].store

(* A capture, then levels closed down to n: what the capture holds is         *)
(* untouched.                                                                 *)
LEMMA CaptureUnwind ==
  ASSUME NEW s, NEW m \in Claims, Sane(s, m, s.nodes), NEW e \in Claims,
         \A l \in Nat : e[l] <= m[l] + On(s.stack, l),
         NEW n \in Nat, n <= Len(s.stack), Len(s.stack) - n <= Len(s.frames),
         NEW u, u = Unwind(captureCheckpoint(s), n)
  PROVE  Captured(s, u, e, n)
<1> DEFINE a == captureCheckpoint(s)
           d == More(m, s.stack)
           N == a.nodes
           z == Len(s.stack)
           f == Len(s.frames)
           r == [id |-> s.pushes + 1, store |-> s.store]
<1>0. z \in Nat /\ f \in Nat /\ s.nodes \in Int /\ s.frames \in Seq(LevelSet)
  BY Lengths, TracerFields DEF Sane
<1>1. /\ d \in Claims /\ Sane(a, d, N) /\ Len(a.stack) = z + 1 /\ Holds(s, a, d, z)
      /\ N = s.nodes + 1 /\ a.pushes = s.pushes + 1 /\ a.store = s.store
      /\ a.frames = Append(s.frames, r)
  BY CaptureSane
<1>2. u = Unwind(a, n)
  OBVIOUS
<1>3. \A l \in Nat : d[l] = m[l] + On(s.stack, l)
  BY MoreIs
<1>4. \A l \in Nat : e[l] <= d[l]
  BY <1>3
<1>5. N \in Int
  BY <1>0, <1>1
<1>6. r \in LevelSet
  BY TracerFields DEF Sane, LevelSet
<1>17. r.store = s.store
  OBVIOUS
<1> HIDE DEF a, d, N, r
<1>7. /\ Len(a.frames) = f + 1 /\ a.frames[f + 1] = r
      /\ \A k \in 1..f : a.frames[k] = s.frames[k]
  BY <1>0, <1>1, <1>6, AppendProperties
<1>8. n <= Len(a.stack) /\ Len(a.stack) - n <= Len(a.frames)
  BY <1>0, <1>1, <1>7
<1>9. Unwound(a, u, d, N, n)
  BY <1>1, <1>2, <1>5, <1>8, UnwindSane
<1>10. /\ Sane(u, d, N) /\ Len(u.stack) = n /\ Holds(a, u, d, n)
       /\ u.nodes = N /\ u.pushes = a.pushes
       /\ Len(u.frames) = Len(a.frames) - (Len(a.stack) - n)
       /\ \A k \in 1..Len(u.frames) : u.frames[k] = a.frames[k]
       /\ n # Len(a.stack) => u.store = a.frames[Len(a.frames) - (Len(a.stack) - n) + 1].store
  BY <1>9 DEF Unwound, N
<1>11. Len(u.frames) = f - (z - n) /\ f - (z - n) \in Nat
  BY <1>0, <1>1, <1>7, <1>10
<1>12. \A k \in 1..Len(u.frames) : u.frames[k] = s.frames[k]
  <2>1. n <= z
    OBVIOUS
  <2> HIDE DEF f, z
  <2>2. \A k \in 1..(f - (z - n)) : k \in 1..f
    BY <1>0, <2>1
  <2> QED
    BY <1>7, <1>10, <1>11, <2>2
<1>13. u.store = IF n = z THEN s.store ELSE s.frames[f - (z - n) + 1].store
  <2>1. u.store = a.frames[f - (z - n) + 1].store
    <3> DEFINE S == Len(a.stack)
               A == Len(a.frames)
    <3>a. S = z + 1 /\ A = f + 1 /\ z \in Nat /\ f \in Nat /\ n <= z
      BY <1>0, <1>1, <1>7
    <3> HIDE DEF S, A, z, f
    <3>b. n # S /\ A - (S - n) = f - (z - n)
      BY <3>a
    <3>1. n # Len(a.stack) /\ Len(a.frames) - (Len(a.stack) - n) = f - (z - n)
      BY <3>b DEF S, A
    <3> QED
      BY <1>10, <3>1
  <2>2. CASE n = z
    <3>1. f - (z - n) + 1 = f + 1
      BY <1>0, <2>2
    <3> QED
      BY <1>7, <1>17, <2>1, <2>2, <3>1
  <2>3. CASE n # z
    <3>1. f - (z - n) + 1 \in 1..f
      <4>1. n <= z
        OBVIOUS
      <4> HIDE DEF f, z
      <4> QED
        BY <1>0, <1>11, <2>3, <4>1
    <3> QED
      BY <1>7, <2>1, <2>3, <3>1
  <2> QED
    BY <2>2, <2>3
<1>14. Holds(s, u, d, n)
  <2>1. Len(s.stack) \in Nat /\ Len(a.stack) \in Nat /\ Len(u.stack) \in Nat
    BY <1>0, <1>1, <1>10
  <2>2. n <= z /\ n <= n /\ z \in Nat
    BY <1>0
  <2>3. Holds(s, a, d, z)
    BY <1>1
  <2> HIDE DEF z
  <2> QED
    BY <1>10, <2>1, <2>2, <2>3, HoldsOn
<1>15. Holds(s, u, e, n)
  BY <1>1, <1>4, <1>14, HoldsLess
<1>16. Sane(u, e, N)
  <2>1. N <= N
    BY <1>5
  <2> QED
    BY <1>1, <1>4, <1>5, <1>10, <2>1, SaneLess
<1> QED
  BY <1>1, <1>10, <1>11, <1>12, <1>13, <1>15, <1>16 DEF Captured, z, f

LEMMA LevelIs ==
  ASSUME NEW s \in Tracers, NEW v \in Int, NEW u, u = [s EXCEPT !.level = v]
  PROVE  /\ u \in Tracers /\ u.lists = s.lists /\ u.pool = s.pool /\ u.stack = s.stack
         /\ u.nodes = s.nodes /\ u.level = v /\ u.frames = s.frames /\ u.pushes = s.pushes
         /\ u.store = s.store
  BY DEF Tracers

LEMMA SameStack ==
  ASSUME NEW s \in Tracers, NEW u \in Tracers, NEW m, NEW n, Holds(s, u, m, n),
         Len(s.stack) = n, Len(u.stack) = n
  PROVE  u.stack = s.stack
<1>1. s.stack \in Seq(Nat) /\ u.stack \in Seq(Nat)
  BY TracerFields
<1>2. \A i \in 1..n : u.stack[i] = s.stack[i]
  BY DEF Holds
<1> QED
  BY <1>1, <1>2, SeqEqual

(* ~Checkpoint, then the levels above n are closed.                           *)
LEMMA ReleaseUnwind ==
  ASSUME NEW s, NEW m \in Claims, NEW N \in Int, Sane(s, m, N), NEW p \in Seq(Nat), Once(p),
         NEW e \in Claims, \A l \in Nat : e[l] + On(p, l) <= m[l],
         NEW n \in Nat, n <= Len(s.stack), Len(s.stack) - n <= Len(s.frames),
         NEW u, u = Unwind(Release(s, p), n)
  PROVE  Unwound(s, u, e, N, n)
<1> DEFINE a == Release(s, p)
           z == Len(s.stack)
<1>1. u = Unwind(a, n)
  OBVIOUS
<1>2. Released(s, a, e, N)
  BY ReleaseTo
<1> HIDE DEF a
<1>3. /\ Sane(a, e, N) /\ Holds(s, a, e, z) /\ a.stack = s.stack /\ a.frames = s.frames
      /\ a.nodes = s.nodes /\ a.level = s.level /\ a.pushes = s.pushes /\ a.store = s.store
  BY <1>2 DEF Released, Aside
<1>4. n <= Len(a.stack) /\ Len(a.stack) - n <= Len(a.frames)
  BY <1>3
<1>5. Unwound(a, u, e, N, n)
  BY <1>1, <1>3, <1>4, UnwindSane
<1>6. z \in Nat /\ n <= z /\ n <= n
  BY Lengths DEF Sane
<1>7. Len(s.stack) \in Nat /\ Len(a.stack) \in Nat /\ Len(u.stack) \in Nat /\ Holds(a, u, e, n)
  BY <1>3, <1>5, <1>6 DEF Unwound
<1>8. Holds(s, a, e, z)
  BY <1>3
<1> HIDE DEF z
<1>9. Holds(s, u, e, n)
  BY <1>6, <1>7, <1>8, HoldsOn
<1> QED
  BY <1>3, <1>5, <1>9 DEF Unwound

(* startSearch and the level of withNewState (search.cpp:150-157).            *)
Started(s, u, e) ==
    /\ Sane(u, e, u.nodes) /\ u.stack = s.stack /\ Holds(s, u, e, Len(s.stack))
    /\ u.nodes = s.nodes + 1 /\ u.pushes = s.pushes + 2 /\ u.store = s.store
    /\ Len(u.frames) = Len(s.frames) + 1
    /\ \A k \in 1..Len(s.frames) : u.frames[k] = s.frames[k]
    /\ u.frames[Len(s.frames) + 1].id = u.pushes /\ u.frames[Len(s.frames) + 1].store = s.store

(* What solve() does to a tracer: a capture, the levels above it closed, the  *)
(* old claim dropped, a level opened.                                         *)
LEMMA StartSane ==
  ASSUME NEW s, NEW m \in Claims, Sane(s, m, s.nodes), NEW p \in Seq(Nat), Once(p),
         NEW e \in Claims, \A l \in Nat : e[l] + On(p, l) <= m[l] + On(s.stack, l),
         NEW a, a = captureCheckpoint(s), NEW u,
         u = PushOwn([Release(Unwind(a, sharedPrefixSize(a, s.stack)), p) EXCEPT !.level = s.level])
  PROVE  Started(s, u, e)
<1> DEFINE d == More(m, s.stack)
           z == Len(s.stack)
           n == sharedPrefixSize(a, s.stack)
           c == Unwind(a, n)
           y == Release(c, p)
           x == [y EXCEPT !.level = s.level]
           N == s.nodes + 1
<1>0. z \in Nat /\ N \in Int /\ Len(s.frames) \in Nat /\ s.level \in Int
  BY Lengths, TracerFields DEF Sane
<1>1. d \in Claims /\ Len(a.stack) = z + 1 /\ Holds(s, a, d, z)
  BY CaptureSane
<1>2. n = z
  <2>1. Len(a.stack) \in Nat /\ z <= Len(a.stack) /\ z <= z
    BY <1>0, <1>1
  <2>2. \A i \in 1..z : SameList(a, i, s.stack)
    BY <1>1 DEF Holds, SameList
  <2>3. n \in Nat /\ z <= n /\ n <= z
    <3> HIDE DEF n
    <3>1. n = sharedPrefixSize(a, s.stack)
      BY DEF n
    <3> QED
      BY <1>0, <2>1, <2>2, <3>1, SharedAtLeast
  <2> QED
    BY <1>0, <2>3
<1>3. u = PushOwn(x)
  OBVIOUS
<1> HIDE DEF n, d
<1>4. Captured(s, c, d, z)
  <2>1. \A l \in Nat : d[l] <= m[l] + On(s.stack, l)
    <3>1. \A l \in Nat : d[l] = m[l] + On(s.stack, l) /\ m[l] \in Nat /\ On(s.stack, l) \in Nat
      BY MoreIs DEF d
    <3> QED
      BY <3>1
  <2>2. z \in Nat /\ z <= Len(s.stack) /\ Len(s.stack) - z <= Len(s.frames)
    BY <1>0
  <2>3. c = Unwind(captureCheckpoint(s), z)
    BY <1>2
  <2> HIDE DEF z, c
  <2> QED
    BY <1>1, <2>1, <2>2, <2>3, CaptureUnwind
<1>5. /\ Sane(c, d, N) /\ Len(c.stack) = z /\ Holds(s, c, d, z)
      /\ c.nodes = N /\ c.pushes = s.pushes + 1 /\ Len(c.frames) = Len(s.frames)
      /\ (\A k \in 1..Len(s.frames) : c.frames[k] = s.frames[k]) /\ c.store = s.store
  <2>1. Len(s.frames) - (Len(s.stack) - z) = Len(s.frames)
    BY <1>0
  <2> HIDE DEF c
  <2> QED
    BY <1>4, <2>1 DEF Captured
<1>6. Released(c, y, e, N)
  <2>1. \A l \in Nat : e[l] + On(p, l) <= d[l]
    BY MoreIs DEF d
  <2> HIDE DEF c, N
  <2> QED
    BY <1>0, <1>1, <1>5, <2>1, ReleaseTo
<1> HIDE DEF c, y
<1>7. /\ Sane(y, e, N) /\ Holds(c, y, e, z) /\ y.stack = c.stack /\ y.frames = c.frames
      /\ y.nodes = N /\ y.pushes = c.pushes /\ y.store = c.store
  BY <1>5, <1>6 DEF Released, Aside
<1>8. /\ x \in Tracers /\ x.lists = y.lists /\ x.pool = y.pool /\ x.stack = y.stack
      /\ x.nodes = N /\ x.frames = y.frames /\ x.pushes = y.pushes /\ x.store = y.store
  BY <1>0, <1>7, LevelIs DEF Sane
<1> HIDE DEF x
<1>9. /\ u \in Tracers /\ u.lists = x.lists /\ u.pool = x.pool /\ u.stack = x.stack
      /\ u.nodes = x.nodes /\ u.pushes = x.pushes + 1 /\ u.store = x.store
      /\ u.frames = Append(x.frames, [id |-> x.pushes + 1, store |-> x.store])
  <2>1. x \in Tracers
    BY <1>8
  <2>2. /\ PushOwn(x) \in Tracers /\ PushOwn(x).lists = x.lists /\ PushOwn(x).pool = x.pool
        /\ PushOwn(x).stack = x.stack /\ PushOwn(x).nodes = x.nodes
        /\ PushOwn(x).pushes = x.pushes + 1 /\ PushOwn(x).store = x.store
        /\ PushOwn(x).frames = Append(x.frames, [id |-> x.pushes + 1, store |-> x.store])
    BY <2>1, PushOwnIs
  <2> QED
    BY <1>3, <2>2
<1>10. Sane(u, e, N)
  BY <1>7, <1>8, <1>9, SaneBeside
<1>11. Holds(s, u, e, z)
  <2>1. \A l \in Nat : e[l] <= d[l]
    <3> SUFFICES ASSUME NEW l \in Nat PROVE e[l] <= d[l]
      OBVIOUS
    <3> DEFINE o == On(p, l)
               q == On(s.stack, l)
    <3>1. d[l] = m[l] + q /\ m[l] \in Nat /\ q \in Nat
      BY MoreIs DEF d
    <3>2. e[l] + o <= m[l] + q
      OBVIOUS
    <3>3. o \in Nat
      BY OnIs
    <3>4. e[l] \in Nat
      BY DEF Claims
    <3> HIDE DEF o, q
    <3> QED
      BY <3>1, <3>2, <3>3, <3>4
  <2>2. Holds(s, c, e, z)
    BY <1>1, <1>5, <2>1, HoldsLess
  <2>3. Len(s.stack) \in Nat /\ Len(c.stack) \in Nat /\ Len(y.stack) \in Nat /\ z <= z
    BY <1>0, <1>5, <1>7
  <2>4. Holds(c, y, e, z)
    BY <1>7
  <2> HIDE DEF z
  <2>5. Holds(s, y, e, z)
    BY <1>0, <2>2, <2>3, <2>4, HoldsOn
  <2>6. u.lists = y.lists /\ u.stack = y.stack
    BY <1>8, <1>9
  <2> QED
    BY <2>5, <2>6, HoldsBeside
<1>12. u.stack = s.stack
  <2>1. Len(u.stack) = z
    BY <1>5, <1>7, <1>8, <1>9
  <2>2. s \in Tracers
    BY DEF Sane
  <2> QED
    BY <1>9, <1>11, <2>1, <2>2, SameStack
<1> DEFINE r == [id |-> x.pushes + 1, store |-> x.store]
<1>13. r \in LevelSet /\ r.id = x.pushes + 1 /\ r.store = x.store
  BY <1>8, TracerFields DEF LevelSet
<1> HIDE DEF r
<1>14. /\ Len(u.frames) = Len(s.frames) + 1 /\ u.frames[Len(s.frames) + 1] = r
       /\ \A k \in 1..Len(s.frames) : u.frames[k] = s.frames[k]
  <2>1. x.frames \in Seq(LevelSet) /\ Len(x.frames) = Len(s.frames) /\ u.frames = Append(x.frames, r)
    BY <1>5, <1>7, <1>8, <1>9, TracerFields DEF r
  <2>2. \A k \in 1..Len(s.frames) : x.frames[k] = s.frames[k]
    BY <1>5, <1>7, <1>8
  <2> DEFINE g == x.frames
             f == Len(s.frames)
  <2>3. g \in Seq(LevelSet) /\ Len(g) = f /\ f \in Nat /\ u.frames = Append(g, r)
    BY <1>0, <2>1
  <2>4. \A k \in 1..f : g[k] = s.frames[k]
    BY <2>2
  <2> HIDE DEF g, f
  <2>6. /\ Len(Append(g, r)) = Len(g) + 1 /\ Append(g, r)[Len(g) + 1] = r
        /\ \A k \in 1..Len(g) : Append(g, r)[k] = g[k]
    BY <1>13, <2>3, AppendProperties
  <2>5. /\ Len(u.frames) = f + 1 /\ u.frames[f + 1] = r
        /\ \A k \in 1..f : u.frames[k] = g[k]
    BY <2>3, <2>6
  <2> QED
    BY <2>4, <2>5 DEF f
<1>15. u.nodes = N /\ u.pushes = s.pushes + 2 /\ x.pushes + 1 = u.pushes /\ u.store = s.store /\ x.store = s.store
  <2>1. s.pushes \in Nat
    BY TracerFields DEF Sane
  <2> QED
    BY <2>1, <1>5, <1>7, <1>8, <1>9
<1> QED
  BY <1>10, <1>11, <1>12, <1>13, <1>14, <1>15 DEF Started, N, z

--------------------------------------------------------------------------------
(* The state of the search.                                                   *)
Typed ==
    /\ pc \in {"idle", "branching", "loop", "alt", "fail", "check", "restoring", "pick",
               "leave", "done"}
    /\ t \in Tracers
    /\ root \in Seq(Nat) /\ Once(root)
    /\ before \in Seq(Nat) /\ Once(before)
    /\ node \in Seq(Nat) /\ Once(node)
    /\ IsFiniteSet(frontier) /\ \A n \in frontier : n \in Nodes /\ Once(n.path)
    /\ target \in [path : Seq(Nat), depth : Int, then : {"none", "loop", "branching"}]
    /\ turn \in [cur : Nat, total : Nat, posted : Nat]
    /\ objective \in BOOLEAN
    /\ primal \in Costs \cup {NoPrimal} /\ dual \in Costs \cup {NoPrimal}
    /\ here \in Seq(Nat)

Sound == Sane(t, Refs, t.nodes) /\ Len(t.stack) > 0

(* Where a restore goes, and what it starts from.                             *)
Aimed ==
    /\ pc \in {"alt", "fail"} =>
          /\ target.then = "loop" /\ target.path = before
          /\ Len(t.stack) = Len(before) + 1 /\ \A i \in 1..Len(before) : t.stack[i] = before[i]
    /\ pc = "restoring" =>
          \/ target.then = "loop" /\ target.path = before /\ t.stack = before
          \/ target.then = "branching" /\ target.path = node
    /\ pc \notin {"alt", "fail", "restoring"} => target.path = <<>>

(* The level withNewState opened is still there, and nothing goes below the   *)
(* nodes of the root.                                                         *)
Anchor == Len(t.frames) - Len(t.stack) + Len(root)

Anchored ==
    /\ Running =>
          /\ Len(root) > 0
          /\ Rooted(t, root, t.stack) /\ \A n \in frontier : Rooted(t, root, n.path)
          /\ pc \in {"alt", "fail", "restoring"} => Rooted(t, root, target.path)
          /\ Anchor >= 1 /\ t.frames[Anchor].id = lvl
    /\ ~Running \/ pc = "leave" => frontier = {}

Base == Typed /\ Sound /\ Aimed /\ Anchored

(* What the checkpoints of the search claim.                                  *)
LEMMA RefsAre ==
  ASSUME Typed
  PROVE  /\ Refs \in Claims /\ Claimed(Refs, root) /\ Claimed(Refs, before) /\ Claimed(Refs, node)
         /\ \A n \in frontier : Claimed(Refs, n.path)
<1>1. /\ root \in Seq(Nat) /\ before \in Seq(Nat) /\ node \in Seq(Nat) /\ IsFiniteSet(frontier)
      /\ \A n \in frontier : n.path \in Seq(Nat)
  BY DEF Typed, Nodes
<1>2. Total(root, before, node, frontier) \in Claims
  BY <1>1, TotalIs
<1> QED
  BY <1>1, <1>2, TotalClaims DEF Refs

(* Replacing one of the checkpoints that are referred to trades its claims    *)
(* for the new ones.                                                          *)
LEMMA TotalTrades ==
  ASSUME NEW r, NEW b, NEW q, NEW F, IsFiniteSet(F), NEW x, NEW l \in Nat
  PROVE  /\ Total(x, b, q, F)[l] + On(r, l) = Total(r, b, q, F)[l] + On(x, l)
         /\ Total(r, x, q, F)[l] + On(b, l) = Total(r, b, q, F)[l] + On(x, l)
         /\ Total(r, b, x, F)[l] + On(q, l) = Total(r, b, q, F)[l] + On(x, l)
<1> DEFINE or == On(r, l)
           ob == On(b, l)
           oq == On(q, l)
           ox == On(x, l)
           w == Waiting(F, l)
<1>1. or \in Nat /\ ob \in Nat /\ oq \in Nat /\ ox \in Nat /\ w \in Nat
  BY OnIs, WaitingIs
<1>2. Total(r, b, q, F)[l] = or + ob + oq + w
  BY DEF Total
<1>3. Total(x, b, q, F)[l] = ox + ob + oq + w
  BY DEF Total
<1>4. Total(r, x, q, F)[l] = or + ox + oq + w
  BY DEF Total
<1>5. Total(r, b, x, F)[l] = or + ob + ox + w
  BY DEF Total
<1> HIDE DEF or, ob, oq, ox, w
<1>6. Total(x, b, q, F)[l] + or = Total(r, b, q, F)[l] + ox
  BY <1>1, <1>2, <1>3
<1>7. Total(r, x, q, F)[l] + ob = Total(r, b, q, F)[l] + ox
  BY <1>1, <1>2, <1>4
<1>8. Total(r, b, x, F)[l] + oq = Total(r, b, q, F)[l] + ox
  BY <1>1, <1>2, <1>5
<1> QED
  BY <1>6, <1>7, <1>8 DEF or, ob, oq, ox

(* The nodes of a claimed path were handed out already.                       *)
LEMMA ClaimedNode ==
  ASSUME NEW s, NEW m \in Claims, NEW N \in Int, Sane(s, m, N), NEW p \in Seq(Nat), Claimed(m, p),
         NEW i \in 1..Len(p)
  PROVE  /\ p[i] \in Nat /\ p[i] \in 1..Len(s.lists) /\ s.lists[p[i]] \in ListSet
         /\ s.lists[p[i]].node < N
<1> DEFINE l == p[i]
<1>1. l \in Nat /\ m[l] > 0 /\ m[l] \in Nat
  BY ElementOfSeq DEF Claimed, Claims
<1>2. s \in Tracers /\ l \in 1..Len(s.lists) /\ On(s.stack, l) + m[l] <= s.lists[l].refs
  BY <1>1 DEF Sane, Counted, RefsOK
<1>3. s.lists[l] \in ListSet /\ s.lists[l].refs \in Nat /\ On(s.stack, l) \in Nat
  BY <1>2, ListOf, OnIs
<1>4. s.lists[l].refs > 0
  <2> DEFINE o == On(s.stack, l)
             c == s.lists[l].refs
  <2>1. o + m[l] <= c /\ o \in Nat /\ c \in Nat
    BY <1>2, <1>3
  <2> HIDE DEF o, c, l
  <2> QED
    BY <1>1, <2>1 DEF c
<1>5. s.lists[l].node < N
  BY <1>2, <1>4 DEF Sane, Counted, RefsOK
<1> QED
  BY <1>1, <1>2, <1>3, <1>5

--------------------------------------------------------------------------------
(* What each action does to the tracer and to the claims.                     *)
Settled(s, u, e) ==
    /\ Sane(u, e, u.nodes) /\ Holds(s, u, e, Len(s.stack)) /\ u.stack = s.stack
    /\ u.nodes = s.nodes /\ u.frames = s.frames /\ u.pushes = s.pushes /\ u.store = s.store

(* What each action of the search does to the tracer and to the claims:       *)
(* solve() (search.cpp:146-162).                                              *)
LEMMA SolveMoves ==
  ASSUME Typed, Sound, Solve
  PROVE  Refs' \in Claims /\ Started(t, t', Refs')
<1> DEFINE m == Refs
           e == Refs'
           a == captureCheckpoint(t)
<1>1. m \in Claims /\ IsFiniteSet(frontier) /\ root \in Seq(Nat) /\ Once(root)
  BY RefsAre DEF Typed
<1>2. m = Total(root, before, node, frontier) /\ e = Total(t.stack, before, node, frontier)
  BY DEF Refs, Solve
<1>3. e \in Claims /\ \A l \in Nat : e[l] + On(root, l) = m[l] + On(t.stack, l)
  <2> DEFINE x == t.stack
  <2>1. IsFiniteSet(frontier)
    BY <1>1
  <2> HIDE DEF x
  <2>2. Total(x, before, node, frontier) \in Claims
    BY <2>1, TotalIs
  <2>3. ASSUME NEW l \in Nat
        PROVE  Total(x, before, node, frontier)[l] + On(root, l) = Total(root, before, node, frontier)[l] + On(x, l)
    BY <2>1, TotalTrades
  <2>4. e = Total(x, before, node, frontier)
    BY <1>2 DEF x
  <2> HIDE DEF m, e
  <2> QED
    BY <1>2, <2>2, <2>3, <2>4 DEF x
<1>4. t' = PushOwn([Release(Unwind(a, sharedPrefixSize(a, t.stack)), root) EXCEPT !.level = t.level])
  BY DEF Solve
<1>5. Sane(t, m, t.nodes)
  BY DEF Sound
<1>7. a = captureCheckpoint(t)
  OBVIOUS
<1> HIDE DEF m, e, a
<1>6. \A l \in Nat : e[l] + On(root, l) <= m[l] + On(t.stack, l)
  <2>1. \A l \in Nat : m[l] \in Nat /\ On(t.stack, l) \in Nat
    BY <1>1, OnIs DEF Claims
  <2> QED
    BY <1>3, <2>1
<1>8. Started(t, t', e)
  BY <1>1, <1>3, <1>4, <1>5, <1>6, <1>7, StartSane
<1> QED
  BY <1>3, <1>8 DEF e

(* A propagator that infers, in the branching of a node.                      *)
LEMMA InferMoves ==
  ASSUME Typed, Sound, Infer
  PROVE  /\ Refs' = Refs
         /\ \E c \in Constraints : c.at = here /\ c.low = value(t.store) /\ Posted(t, t', Refs, t.nodes, c)
<1> DEFINE c == [at |-> here, k |-> 0, low |-> value(t.store)]
<1>1. Refs' = Refs
  BY DEF Infer, search, Refs
<1>2. t' = post(t, c)
  BY DEF Infer
<1>3. value(t.store) \in Costs
  <2>1. t.store \in SUBSET Constraints
    BY TracerFields DEF Typed, Stores
  <2> QED
    BY <2>1, ValueIs
<1>4. c \in Constraints /\ c.at = here /\ c.low = value(t.store)
  BY <1>3 DEF Constraints, Typed
<1>5. Refs \in Claims /\ Sane(t, Refs, t.nodes) /\ Len(t.stack) > 0 /\ t.nodes \in Int
  BY RefsAre, TracerFields DEF Sound, Typed
<1> HIDE DEF c
<1>6. Posted(t, t', Refs, t.nodes, c)
  BY <1>2, <1>4, <1>5, PostSane
<1> QED
  BY <1>1, <1>4, <1>6

(* The checkpoint before the alternatives.                                    *)
LEMMA EnterMoves ==
  ASSUME Typed, Sound, Enter
  PROVE  Refs' \in Claims /\ Entered(t, t', Refs')
<1> DEFINE m == Refs
           e == Refs'
<1>1. m \in Claims /\ IsFiniteSet(frontier) /\ before \in Seq(Nat) /\ Once(before)
  BY RefsAre DEF Typed
<1>2. m = Total(root, before, node, frontier) /\ e = Total(root, t.stack, node, frontier)
  BY DEF Refs, Enter
<1>3. e \in Claims /\ \A l \in Nat : e[l] + On(before, l) = m[l] + On(t.stack, l)
  <2> DEFINE x == t.stack
  <2>1. IsFiniteSet(frontier)
    BY <1>1
  <2> HIDE DEF x
  <2>2. Total(root, x, node, frontier) \in Claims
    BY <2>1, TotalIs
  <2>3. ASSUME NEW l \in Nat
        PROVE  Total(root, x, node, frontier)[l] + On(before, l) = Total(root, before, node, frontier)[l] + On(x, l)
    BY <2>1, TotalTrades
  <2>4. e = Total(root, x, node, frontier)
    BY <1>2 DEF x
  <2> HIDE DEF m, e
  <2> QED
    BY <1>2, <2>2, <2>3, <2>4 DEF x
<1>4. t' = Release(captureCheckpoint(t), before)
  BY DEF Enter
<1>5. Sane(t, m, t.nodes)
  BY DEF Sound
<1> HIDE DEF m, e
<1>6. /\ \A l \in Nat : e[l] + On(before, l) <= m[l] + On(t.stack, l)
      /\ \A l \in Nat : e[l] <= m[l] + On(t.stack, l)
  <2> SUFFICES ASSUME NEW l \in Nat
               PROVE /\ e[l] + On(before, l) <= m[l] + On(t.stack, l)
                     /\ e[l] <= m[l] + On(t.stack, l)
    OBVIOUS
  <2> DEFINE x == On(before, l)
             y == On(t.stack, l)
  <2>1. m[l] \in Nat /\ e[l] \in Nat /\ x \in Nat /\ y \in Nat /\ e[l] + x = m[l] + y
    BY <1>1, <1>3, OnIs DEF Claims
  <2> HIDE DEF x, y
  <2>2. e[l] + x <= m[l] + y /\ e[l] <= m[l] + y
    BY <2>1
  <2> QED
    BY <2>2 DEF x, y
<1>8. Entered(t, t', e)
  BY <1>1, <1>3, <1>4, <1>5, <1>6, EnterSane
<1> QED
  BY <1>3, <1>8 DEF e

(* A constraint posted by an alternative.                                     *)
LEMMA PostMoves ==
  ASSUME Typed, Sound, NEW low \in Costs, Post(low)
  PROVE  /\ Refs' = Refs
         /\ \E c \in Constraints : c.at = Child /\ c.low = low /\ Posted(t, t', Refs, t.nodes, c)
<1> DEFINE c == [at |-> Child, k |-> turn.posted + 1, low |-> low]
<1>1. Refs' = Refs
  BY DEF Post, Refs
<1>2. t' = post(t, c)
  BY DEF Post
<1>3. Child \in Seq(Nat) /\ turn.posted + 1 \in Nat
  BY DEF Child, Typed
<1>4. c \in Constraints /\ c.at = Child /\ c.low = low
  BY <1>3 DEF Constraints
<1>5. Refs \in Claims /\ Sane(t, Refs, t.nodes) /\ Len(t.stack) > 0 /\ t.nodes \in Int
  BY RefsAre, TracerFields DEF Sound, Typed
<1> HIDE DEF c
<1>6. Posted(t, t', Refs, t.nodes, c)
  BY <1>2, <1>4, <1>5, PostSane
<1> QED
  BY <1>1, <1>4, <1>6

(* The way back to _before closes the level of the alternative and no other.  *)
LEMMA SharedBefore ==
  ASSUME NEW s \in Tracers, NEW p \in Seq(Nat), Len(p) <= Len(s.stack),
         \A i \in 1..Len(p) : s.lists[s.stack[i]].node = s.lists[p[i]].node
  PROVE  sharedPrefixSize(s, p) = Len(p)
<1> DEFINE n == sharedPrefixSize(s, p)
           k == Len(p)
<1>1. Len(s.stack) \in Nat /\ k \in Nat /\ k <= Len(s.stack) /\ k <= k
  BY Lengths, LenProperties
<1>2. \A i \in 1..k : SameList(s, i, p)
  BY DEF SameList
<1>3. n = sharedPrefixSize(s, p)
  OBVIOUS
<1> HIDE DEF n
<1>4. n \in Nat /\ k <= n /\ n <= Len(p)
  BY <1>1, <1>2, <1>3, SharedAtLeast
<1> QED
  BY <1>1, <1>3, <1>4

(* From the end of an alternative the way back is within what was opened.     *)
LEMMA BackIsOpen ==
  ASSUME Typed, Sound, Aimed, Anchored, pc \in {"alt", "fail"}
  PROVE  /\ Len(before) \in Nat /\ Len(before) <= Len(t.stack) /\ Len(root) <= Len(before)
         /\ Len(t.stack) - Len(before) <= Len(t.frames)
         /\ \A i \in 1..Len(before) : t.stack[i] = before[i]
<1>1. /\ Len(before) \in Nat /\ Len(t.stack) \in Nat /\ Len(t.frames) \in Nat /\ Len(root) \in Nat
  BY Lengths, LenProperties DEF Typed
<1>2. Len(t.stack) = Len(before) + 1 /\ target.path = before
  BY DEF Aimed
<1>3. Len(root) <= Len(before) /\ Len(t.frames) - Len(t.stack) + Len(root) >= 1
  BY <1>2 DEF Anchored, Running, Rooted, Anchor
<1>4. Len(t.stack) - Len(before) <= Len(t.frames)
  BY <1>1, <1>2, <1>3
<1> QED
  BY <1>1, <1>2, <1>3, <1>4 DEF Aimed

(* A failing alternative: the levels above the checkpoint are closed.         *)
LEMMA FailMoves ==
  ASSUME Typed, Sound, Aimed, Anchored, Fail
  PROVE  Refs' = Refs /\ Unwound(t, t', Refs, t.nodes, Len(before))
<1> DEFINE n == Len(before)
<1>1. Refs' = Refs
  BY DEF Fail, search, Refs
<1>2. t' = Unwind(t, sharedPrefixSize(t, before)) /\ pc \in {"alt", "fail"}
  BY DEF Fail, Return
<1>3. /\ n \in Nat /\ n <= Len(t.stack) /\ Len(t.stack) - n <= Len(t.frames)
      /\ \A i \in 1..n : t.stack[i] = before[i]
  BY <1>2, BackIsOpen
<1>4. t \in Tracers /\ before \in Seq(Nat) /\ t.nodes \in Int
  BY TracerFields DEF Typed
<1>5. sharedPrefixSize(t, before) = n
  BY <1>3, <1>4, SharedBefore
<1>6. Refs \in Claims /\ Sane(t, Refs, t.nodes)
  BY RefsAre DEF Sound
<1>7. t' = Unwind(t, n)
  BY <1>2, <1>5
<1> HIDE DEF n
<1>8. Unwound(t, t', Refs, t.nodes, n)
  BY <1>3, <1>4, <1>6, <1>7, UnwindSane
<1> QED
  BY <1>1, <1>8 DEF n

(* An alternative that ended: its node is captured, then the levels above     *)
(* the checkpoint are closed.                                                 *)
LEMMA KeepMoves ==
  ASSUME Typed, Sound, Aimed, Anchored, Keep
  PROVE  Refs' \in Claims /\ Captured(t, t', Refs', Len(before))
<1> DEFINE m == Refs
           e == Refs'
           a == captureCheckpoint(t)
           n == Len(before)
           q == [path |-> t.stack, depth |-> t.level + 1, at |-> Child,
                 value |-> IF objective THEN value(t.store) ELSE 0]
<1>1. m \in Claims /\ Sane(t, m, t.nodes) /\ IsFiniteSet(frontier)
  BY RefsAre DEF Typed, Sound
<1>2. t' = Unwind(a, sharedPrefixSize(a, before)) /\ pc \in {"alt", "fail"}
  BY DEF Keep, Return
<1>3. /\ n \in Nat /\ n <= Len(t.stack) /\ Len(t.stack) - n <= Len(t.frames)
      /\ \A i \in 1..n : t.stack[i] = before[i]
  BY <1>2, BackIsOpen
<1>4. /\ frontier' = frontier \cup {q} /\ root' = root /\ before' = before /\ node' = node
      /\ q.path = t.stack
  BY DEF Keep
<1>5. m = Total(root, before, node, frontier) /\ e = Total(root, before, node, frontier \cup {q})
  BY <1>4 DEF Refs
<1> HIDE DEF q
<1>6. IsFiniteSet(frontier \cup {q})
  BY <1>1, FS_AddElement
<1>7. e \in Claims
  <2>1. Total(root, before, node, frontier \cup {q}) \in Claims
    BY <1>6, TotalIs
  <2> QED
    BY <1>5, <2>1
<1>8. ASSUME NEW l \in Nat PROVE e[l] <= m[l] + On(t.stack, l)
  <2> DEFINE x == On(t.stack, l)
             w == Waiting(frontier, l)
             v == Waiting(frontier \cup {q}, l)
             c == On(root, l) + On(before, l) + On(node, l)
  <2>1. w \in Nat /\ v \in Nat /\ v <= w + x
    BY <1>1, <1>4, WaitingMore
  <2>2. x \in Nat /\ c \in Nat
    BY OnIs
  <2>3. m[l] = c + w /\ e[l] = c + v
    BY <1>5 DEF Total
  <2> HIDE DEF x, w, v, c, m, e
  <2>4. e[l] <= m[l] + x
    BY <2>1, <2>2, <2>3
  <2> QED
    BY <2>4 DEF x
<1> HIDE DEF m, e
<1>9. sharedPrefixSize(a, before) = n
  <2>1. /\ Sane(a, More(m, t.stack), a.nodes) /\ Holds(t, a, More(m, t.stack), Len(t.stack))
        /\ Len(a.stack) = Len(t.stack) + 1
    BY <1>1, CaptureSane
  <2>2. a \in Tracers /\ before \in Seq(Nat) /\ Len(t.stack) \in Nat
    BY <2>1, Lengths DEF Sane, Typed
  <2> HIDE DEF a
  <2>3. Len(before) <= Len(a.stack)
    BY <1>3, <2>1, <2>2
  <2>4. \A i \in 1..Len(before) : i \in 1..Len(t.stack)
    BY <1>3, <2>2
  <2>5. \A i \in 1..Len(before) : a.stack[i] = before[i]
    BY <1>3, <2>1, <2>4 DEF Holds
  <2> QED
    BY <2>2, <2>3, <2>5, SharedBefore
<1>10. t' = Unwind(captureCheckpoint(t), n)
  BY <1>2, <1>9
<1> HIDE DEF n, a
<1>11. Captured(t, t', e, n)
  BY <1>1, <1>3, <1>7, <1>8, <1>10, CaptureUnwind
<1> QED
  BY <1>7, <1>11 DEF n, e

(* One list of a checkpoint that is restored.                                 *)
LEMMA ReplayMoves ==
  ASSUME Typed, Sound, Aimed, Restoring, NEW r, r = t.lists[target.path[Len(t.stack) + 1]]
  PROVE  /\ r \in ListSet /\ r.node < t.nodes
         /\ Replayed(t, Replay(t, target.path), Refs, t.nodes, r)
         /\ Claimed(Refs, target.path) /\ Len(t.stack) + 1 \in 1..Len(target.path)
<1> DEFINE p == target.path
           i == Len(t.stack) + 1
<1>1. p \in Seq(Nat) /\ Claimed(Refs, p)
  BY RefsAre DEF Aimed, Restoring, Typed
<1>2. i \in 1..Len(p)
  BY <1>1, Lengths, LenProperties DEF Typed, Restoring
<1>3. Refs \in Claims /\ Sane(t, Refs, t.nodes) /\ t.nodes \in Int
  BY RefsAre, TracerFields DEF Sound, Typed
<1>4. r = t.lists[p[i]]
  OBVIOUS
<1>5. Replay(t, p) = AllPosted(pushList(Push(t, r.node), r.node), r.head)
  BY <1>4 DEF Replay, Opened, Commands, AllPosted
<1> HIDE DEF p, i
<1>6. r \in ListSet /\ r.node < t.nodes
  BY <1>1, <1>2, <1>3, <1>4, ClaimedNode
<1>7. Replayed(t, Replay(t, p), Refs, t.nodes, r)
  BY <1>3, <1>5, <1>6, ReplaySane
<1> QED
  BY <1>1, <1>2, <1>6, <1>7 DEF p, i

(* A replay that fails in the middle.                                         *)
LEMMA AbandonMoves ==
  ASSUME Typed, Sound, Aimed, FailRestore
  PROVE  Refs' = Refs /\ Settled(t, t', Refs)
<1> DEFINE r == t.lists[target.path[Len(t.stack) + 1]]
           s == Replay(t, target.path)
           n == Len(t.stack)
           x == [id |-> r.node, store |-> t.store]
<1>1. Refs' = Refs /\ t' = Abandon(s)
  BY DEF FailRestore, Refs
<1>2. r \in ListSet /\ Replayed(t, s, Refs, t.nodes, r)
  BY ReplayMoves DEF FailRestore
<1>3. /\ Refs \in Claims /\ t.nodes \in Int /\ n \in Nat /\ t \in Tracers
      /\ t.frames \in Seq(LevelSet) /\ Len(t.frames) \in Nat
  BY RefsAre, TracerFields, Lengths DEF Typed
<1> HIDE DEF s
<1>4. /\ Sane(s, Refs, t.nodes) /\ Len(s.stack) = n + 1 /\ Holds(t, s, Refs, n)
      /\ s.nodes = t.nodes /\ s.pushes = t.pushes /\ s.frames = Append(t.frames, x)
  BY <1>2 DEF Replayed
<1>5. x \in LevelSet /\ x.store = t.store
  BY <1>2, <1>3, TracerFields, ListFields DEF LevelSet
<1> HIDE DEF x, r
<1>6. Len(s.frames) = Len(t.frames) + 1 /\ Front(s.frames) = t.frames /\ Last(s.frames) = x
  <2>1. /\ s.frames \in Seq(LevelSet) /\ Len(s.frames) = Len(t.frames) + 1
        /\ s.frames[Len(t.frames) + 1] = x
        /\ \A k \in 1..Len(t.frames) : s.frames[k] = t.frames[k]
    BY <1>3, <1>4, <1>5, AppendProperties
  <2>2. Len(s.frames) > 0
    BY <1>3, <2>1
  <2>3. /\ Front(s.frames) \in Seq(LevelSet) /\ Len(Front(s.frames)) = Len(s.frames) - 1
        /\ Last(s.frames) = s.frames[Len(s.frames)]
        /\ \A k \in 1..(Len(s.frames) - 1) : Front(s.frames)[k] = s.frames[k]
    BY <2>1, <2>2, FrontIs
  <2>4. Len(Front(s.frames)) = Len(t.frames) /\ Last(s.frames) = x
    BY <1>3, <2>1, <2>3
  <2>5. \A k \in 1..Len(t.frames) : Front(s.frames)[k] = t.frames[k]
    BY <1>3, <2>1, <2>3
  <2>6. Front(s.frames) = t.frames
    BY <1>3, <2>3, <2>4, <2>5, SeqEqual
  <2> QED
    BY <2>1, <2>4, <2>6
<1>7. Len(s.frames) > 0 /\ Len(s.stack) > 0 /\ s \in Tracers
  BY <1>3, <1>4, <1>6 DEF Sane
<1>8. /\ Sane(t', Refs, t.nodes) /\ Len(t'.stack) = Len(s.stack) - 1
      /\ Holds(s, t', Refs, Len(s.stack) - 1)
  BY <1>1, <1>3, <1>4, <1>7, AbandonSane
<1>9. /\ t' \in Tracers /\ t'.nodes = s.nodes /\ t'.pushes = s.pushes
      /\ t'.frames = Front(s.frames) /\ t'.store = Last(s.frames).store
  BY <1>1, <1>7, AbandonIs
<1>10. Len(s.stack) - 1 = n
  BY <1>3, <1>4
<1>11. Holds(t, t', Refs, n)
  <2>1. Len(t.stack) \in Nat /\ Len(s.stack) \in Nat /\ Len(t'.stack) \in Nat /\ n <= n
    BY <1>3, <1>4, <1>8, <1>10
  <2>2. Holds(t, s, Refs, n) /\ Holds(s, t', Refs, n)
    BY <1>4, <1>8, <1>10
  <2> HIDE DEF n
  <2> QED
    BY <1>3, <2>1, <2>2, HoldsOn
<1>12. t'.stack = t.stack
  <2>1. Len(t'.stack) = n
    BY <1>8, <1>10
  <2> QED
    BY <1>3, <1>9, <1>11, <2>1, SameStack
<1> QED
  BY <1>1, <1>4, <1>5, <1>6, <1>8, <1>9, <1>11, <1>12 DEF Settled, n

LEMMA StillMoves ==
  ASSUME Typed, Sound
  PROVE  Settled(t, t, Refs)
<1>1. Len(t.stack) \in Nat /\ Len(t.stack) <= Len(t.stack) /\ Sane(t, Refs, t.nodes)
  BY Lengths DEF Typed, Sound
<1>2. Holds(t, t, Refs, Len(t.stack))
  BY <1>1, HoldsSelf
<1> QED
  BY <1>1, <1>2 DEF Settled

(* A checkpoint goes out of scope, and the level is set.                      *)
LEMMA ReleaseSettles ==
  ASSUME NEW s, NEW m \in Claims, Sane(s, m, s.nodes), NEW p \in Seq(Nat), Once(p),
         NEW e \in Claims, \A l \in Nat : e[l] + On(p, l) <= m[l],
         NEW v \in Int, NEW u, u = Release(s, p) \/ u = [Release(s, p) EXCEPT !.level = v]
  PROVE  Settled(s, u, e)
<1> DEFINE y == Release(s, p)
           N == s.nodes
<1>1. N \in Int
  BY TracerFields DEF Sane
<1>2. Released(s, y, e, N)
  BY <1>1, ReleaseTo
<1>5. u = y \/ u = [y EXCEPT !.level = v]
  OBVIOUS
<1> HIDE DEF y
<1>3. /\ Sane(y, e, N) /\ Holds(s, y, e, Len(s.stack)) /\ y.stack = s.stack /\ y.nodes = s.nodes
      /\ y.frames = s.frames /\ y.pushes = s.pushes /\ y.store = s.store
  BY <1>2 DEF Released, Aside
<1>4. /\ u \in Tracers /\ u.lists = y.lists /\ u.pool = y.pool /\ u.stack = y.stack
      /\ u.nodes = y.nodes /\ u.frames = y.frames /\ u.pushes = y.pushes /\ u.store = y.store
  <2>1. CASE u = y
    BY <1>3, <2>1 DEF Sane
  <2>2. CASE u = [y EXCEPT !.level = v]
    BY <1>3, <2>2, LevelIs DEF Sane
  <2> QED
    BY <1>5, <2>1, <2>2
<1>6. Sane(u, e, N)
  BY <1>3, <1>4, SaneBeside
<1>7. Holds(s, u, e, Len(s.stack))
  BY <1>3, <1>4, HoldsBeside
<1> QED
  BY <1>3, <1>4, <1>6, <1>7 DEF Settled

LEMMA DropNode ==
  ASSUME Typed, NEW e, e = Total(root, before, <<>>, frontier)
  PROVE  e \in Claims /\ \A l \in Nat : e[l] + On(node, l) <= Refs[l]
<1> DEFINE x == <<>>
           m == Refs
<1>1. IsFiniteSet(frontier) /\ m = Total(root, before, node, frontier)
  BY DEF Typed, Refs
<1>2. e = Total(root, before, x, frontier) /\ \A l : On(x, l) = 0
  BY DEF On
<1> HIDE DEF x, m
<1>3. e \in Claims /\ m \in Claims
  BY <1>1, <1>2, TotalIs
<1>4. ASSUME NEW l \in Nat PROVE e[l] + On(node, l) <= m[l]
  <2> DEFINE o == On(node, l)
             z == On(x, l)
  <2>1. e[l] + o = m[l] + z
    BY <1>1, <1>2, TotalTrades
  <2>2. m[l] \in Nat /\ z = 0
    BY <1>2, <1>3 DEF Claims
  <2>3. m[l] + z <= m[l]
    BY <2>2
  <2> QED
    BY <2>1, <2>3
<1> QED
  BY <1>3, <1>4 DEF m

(* A node restored: its checkpoint is dropped.                                *)
LEMMA EndMoves ==
  ASSUME Typed, Sound, EndRestore
  PROVE  Refs' \in Claims /\ Settled(t, t', Refs')
<1>0. /\ root' = root /\ before' = before /\ frontier' = frontier
      /\ Sane(t, Refs, t.nodes) /\ Refs \in Claims /\ target.depth \in Int /\ t \in Tracers
  BY RefsAre DEF EndRestore, Sound, Typed
<1>1. CASE target.then = "loop"
  <2>1. t' = [t EXCEPT !.level = target.depth] /\ node' = node
    BY <1>1 DEF EndRestore
  <2>2. Refs' = Refs
    BY <1>0, <2>1 DEF Refs
  <2>3. /\ t' \in Tracers /\ t'.lists = t.lists /\ t'.pool = t.pool /\ t'.stack = t.stack
        /\ t'.nodes = t.nodes /\ t'.frames = t.frames /\ t'.pushes = t.pushes /\ t'.store = t.store
    BY <1>0, <2>1, LevelIs
  <2>4. Settled(t, t, Refs)
    BY StillMoves
  <2>5. Sane(t', Refs, t.nodes)
    BY <1>0, <2>3, SaneBeside
  <2>6. Holds(t, t', Refs, Len(t.stack))
    BY <2>3, <2>4, HoldsBeside DEF Settled
  <2> QED
    BY <1>0, <2>2, <2>3, <2>5, <2>6 DEF Settled
<1>2. CASE target.then # "loop"
  <2> DEFINE e == Refs'
  <2>1. t' = [Release(t, node) EXCEPT !.level = target.depth] /\ node' = <<>>
    BY <1>2 DEF EndRestore
  <2>2. e = Total(root, before, <<>>, frontier)
    BY <1>0, <2>1 DEF Refs
  <2>3. node \in Seq(Nat) /\ Once(node)
    BY DEF Typed
  <2> HIDE DEF e
  <2>4. e \in Claims /\ \A l \in Nat : e[l] + On(node, l) <= Refs[l]
    BY <2>2, DropNode
  <2>5. Settled(t, t', e)
    BY <1>0, <2>1, <2>3, <2>4, ReleaseSettles
  <2> QED
    BY <2>4, <2>5 DEF e
<1> QED
  BY <1>1, <1>2

(* The last alternative is done.                                              *)
LEMMA ExhaustedMoves ==
  ASSUME Typed, Sound, Exhausted
  PROVE  Refs' \in Claims /\ Settled(t, t', Refs')
<1> DEFINE e == Refs'
<1>0. Sane(t, Refs, t.nodes) /\ Refs \in Claims /\ 0 \in Int
  BY RefsAre DEF Sound
<1>1. t' = Release(t, node) /\ node' = <<>> /\ root' = root /\ before' = before /\ frontier' = frontier
  BY DEF Exhausted
<1>2. e = Total(root, before, <<>>, frontier)
  BY <1>1 DEF Refs
<1>3. node \in Seq(Nat) /\ Once(node)
  BY DEF Typed
<1> HIDE DEF e
<1>4. e \in Claims /\ \A l \in Nat : e[l] + On(node, l) <= Refs[l]
  BY <1>2, DropNode
<1>5. Settled(t, t', e)
  BY <1>0, <1>1, <1>3, <1>4, ReleaseSettles
<1> QED
  BY <1>4, <1>5 DEF e

(* The search stops: the frontier is cleared.                                 *)
LEMMA StopMoves ==
  ASSUME Typed, Sound, Stop
  PROVE  Refs' \in Claims /\ Settled(t, t', Refs')
<1> DEFINE e == Refs'
           x == {}
           m == Refs
<1>1. t' = Cleared(t, frontier) /\ frontier' = x /\ root' = root /\ before' = before /\ node' = node
  BY DEF Stop, Cleared, AllReleased
<1>2. e = Total(root, before, node, x) /\ m = Total(root, before, node, frontier)
  BY <1>1 DEF Refs
<1>3. IsFiniteSet(x) /\ \A l : Waiting(x, l) = 0
  <2>1. IsFiniteSet(x) /\ Cardinality({}) = 0
    BY FS_EmptySet
  <2>2. \A l : {n \in x : On(n.path, l) = 1} = {}
    OBVIOUS
  <2> QED
    BY <2>1, <2>2 DEF Waiting
<1>4. /\ IsFiniteSet(frontier) /\ \A n \in frontier : n.path \in Seq(Nat) /\ Once(n.path)
  BY DEF Typed, Nodes
<1>5. Sane(t, m, t.nodes) /\ m \in Claims /\ t.nodes \in Int
  BY RefsAre, TracerFields DEF Sound, Typed
<1> HIDE DEF e, x, m
<1>6. e \in Claims
  BY <1>2, <1>3, TotalIs
<1>7. ASSUME NEW l \in Nat PROVE m[l] = e[l] + Waiting(frontier, l)
  <2> DEFINE c == On(root, l) + On(before, l) + On(node, l)
             w == Waiting(frontier, l)
             z == Waiting(x, l)
  <2>1. c \in Nat
    BY OnIs
  <2>2. w \in Nat /\ z = 0
    BY <1>3, <1>4, WaitingIs
  <2>3. m[l] = c + w /\ e[l] = c + z
    BY <1>2 DEF Total
  <2> HIDE DEF c, w, z
  <2>4. m[l] = e[l] + w
    BY <2>1, <2>2, <2>3
  <2> QED
    BY <2>4 DEF w
<1>8. Released(t, t', e, t.nodes)
  BY <1>1, <1>4, <1>5, <1>6, <1>7, ReleaseAll
<1> QED
  BY <1>6, <1>8 DEF Settled, Released, Aside, e

(* withNewState closes the level it opened.                                   *)
Ended(s, u, e, id) ==
    /\ Sane(u, e, u.nodes) /\ Holds(s, u, e, Len(s.stack)) /\ u.stack = s.stack
    /\ u.nodes = s.nodes /\ u.pushes = s.pushes
    /\ \E j \in 1..Len(s.frames) :
          /\ s.frames[j].id = id /\ \A k \in (j + 1)..Len(s.frames) : s.frames[k].id # id
          /\ u.store = s.frames[j].store /\ Len(u.frames) = j - 1
          /\ \A k \in 1..(j - 1) : u.frames[k] = s.frames[k]

LastWith(f, n, v, j) == f[j].id = v /\ \A k \in (j + 1)..n : f[k].id # v

LEMMA LastOne ==
  ASSUME NEW f, NEW n \in Nat, NEW i \in 1..n, NEW v, f[i].id = v
  PROVE  \E j \in 1..n : LastWith(f, n, v, j)
<1> DEFINE S == {j \in 1..n : f[j].id = v}
<1>1. S \in SUBSET Int /\ i \in S /\ \A j \in S : j <= n
  OBVIOUS
<1> HIDE DEF S
<1>2. PICK j \in S : \A k \in S : k <= j
  <2>1. n \in Int /\ S # {} /\ S \in SUBSET Int /\ \A k \in S : k <= n
    BY <1>1
  <2>2. Max(S) \in S /\ \A k \in S : Max(S) >= k
    BY <2>1, GreatestInt
  <2>3. \A k \in S : k <= Max(S)
    BY <2>1, <2>2
  <2> QED
    BY <2>2, <2>3
<1>3. j \in 1..n /\ f[j].id = v
  BY DEF S
<1>4. ASSUME NEW k \in (j + 1)..n PROVE f[k].id # v
  <2>1. k \in 1..n /\ k > j
    BY <1>3
  <2>2. k \notin S
    BY <1>1, <1>2, <1>3, <2>1
  <2> QED
    BY <2>1, <2>2 DEF S
<1> QED
  BY <1>3, <1>4 DEF LastWith

(* popToNode closes levels down to the last one with that id                  *)
(* (trail.cpp:73-84).                                                         *)
LEMMA PopSane ==
  ASSUME NEW s, NEW m \in Claims, Sane(s, m, s.nodes), NEW id, NEW i \in 1..Len(s.frames),
         s.frames[i].id = id, NEW u, u = PopToNode(s, id)
  PROVE  Ended(s, u, m, id)
<1>0. \E k \in 1..Len(s.frames) : /\ s.frames[k].id = id
                                 /\ \A d \in (k + 1)..Len(s.frames) : s.frames[d].id # id
  <2> DEFINE f == s.frames
             n == Len(f)
  <2>1. n \in Nat /\ i \in 1..n /\ f[i].id = id
    BY Lengths DEF Sane
  <2> HIDE DEF f, n
  <2>2. \E k \in 1..n : LastWith(f, n, id, k)
    BY <2>1, LastOne
  <2> QED
    BY <2>2 DEF LastWith, f, n
<1> DEFINE C(k) == /\ s.frames[k].id = id
                   /\ \A d \in (k + 1)..Len(s.frames) : s.frames[d].id # id
           j == CHOOSE k \in DOMAIN s.frames : C(k)
           S == s.frames[j].store
           F == SubSeq(s.frames, 1, j - 1)
<1>1. s \in Tracers /\ s.frames \in Seq(LevelSet) /\ Len(s.frames) \in Nat /\ DOMAIN s.frames = 1..Len(s.frames)
  BY TracerFields, LenProperties DEF Sane
<1>2. \E k \in DOMAIN s.frames : C(k)
  <2>1. \E k \in 1..Len(s.frames) : C(k)
    BY <1>0
  <2> QED
    BY <1>1, <2>1
<1>3. j \in DOMAIN s.frames /\ C(j)
  <2> HIDE DEF C
  <2> QED
    BY <1>2
<1>4. u = [s EXCEPT !.store = S, !.frames = F]
  BY DEF PopToNode
<1>5. j \in 1..Len(s.frames)
  BY <1>1, <1>3
<1> HIDE DEF j
<1>6. S \in Stores
  <2>1. s.frames[j] \in LevelSet
    BY <1>1, <1>5, ElementOfSeq
  <2> QED
    BY <2>1 DEF LevelSet
<1>7. /\ F \in Seq(LevelSet) /\ Len(F) = j - 1
      /\ \A k \in 1..(j - 1) : F[k] = s.frames[k]
  <2> DEFINE b == j - 1
             f == s.frames
  <2>1. b \in Nat /\ b <= Len(f) /\ f \in Seq(LevelSet) /\ 1 \in 1..(Len(f) + 1) /\ b \in 0..Len(f)
    BY <1>1, <1>5
  <2>2. F = SubSeq(f, 1, b)
    OBVIOUS
  <2> HIDE DEF b, f, F
  <2>3. /\ SubSeq(f, 1, b) \in Seq(LevelSet) /\ Len(SubSeq(f, 1, b)) = b
        /\ \A k \in 1..b : SubSeq(f, 1, b)[k] = f[k]
    <3>1. /\ Len(SubSeq(f, 1, b)) = IF 1 <= b THEN b - 1 + 1 ELSE 0
          /\ \A k \in 1..(b - 1 + 1) : SubSeq(f, 1, b)[k] = f[1 + k - 1]
          /\ SubSeq(f, 1, b) \in Seq(LevelSet)
      BY <2>1, SubSeqProperties
    <3>2. b - 1 + 1 = b /\ (\A k \in 1..b : 1 + k - 1 = k) /\ (IF 1 <= b THEN b - 1 + 1 ELSE 0) = b
      BY <2>1
    <3> QED
      BY <3>1, <3>2
  <2> QED
    BY <2>2, <2>3 DEF b, f
<1> HIDE DEF S, F
<1>8. /\ u \in Tracers /\ u.lists = s.lists /\ u.pool = s.pool /\ u.stack = s.stack
      /\ u.nodes = s.nodes /\ u.pushes = s.pushes /\ u.frames = F /\ u.store = S
  BY <1>1, <1>4, <1>6, <1>7 DEF Tracers
<1>9. Sane(u, m, s.nodes)
  BY <1>8, SaneBeside
<1>10. Holds(s, u, m, Len(s.stack))
  <2>1. Len(s.stack) \in Nat /\ Len(s.stack) <= Len(s.stack)
    BY <1>1, Lengths
  <2>2. Holds(s, s, m, Len(s.stack))
    BY <2>1, HoldsSelf
  <2> QED
    BY <1>8, <2>2, HoldsBeside
<1> QED
  BY <1>3, <1>5, <1>7, <1>8, <1>9, <1>10 DEF Ended, S

(* The level solve() opened is there while it runs.                           *)
LEMMA AnchorIs ==
  ASSUME Typed, Anchored, Running
  PROVE  /\ Len(root) \in Nat /\ Len(t.stack) \in Nat /\ Len(t.frames) \in Nat
         /\ Len(root) > 0 /\ Len(root) <= Len(t.stack) /\ Anchor \in 1..Len(t.frames)
         /\ t.frames[Anchor].id = lvl
<1>1. Len(root) \in Nat /\ Len(t.stack) \in Nat /\ Len(t.frames) \in Nat
  BY Lengths, LenProperties DEF Typed
<1>2. Len(root) > 0 /\ Len(root) <= Len(t.stack) /\ Anchor >= 1 /\ t.frames[Anchor].id = lvl
  BY DEF Anchored, Rooted
<1>3. Anchor \in 1..Len(t.frames)
  <2> DEFINE a == Len(t.frames)
             b == Len(t.stack)
             c == Len(root)
  <2>1. Anchor = a - b + c /\ a \in Nat /\ b \in Nat /\ c \in Nat /\ c <= b /\ Anchor >= 1
    BY <1>1, <1>2 DEF Anchor
  <2> HIDE DEF a, b, c
  <2>2. Anchor \in 1..a
    BY <2>1
  <2> QED
    BY <2>2 DEF a
<1> QED
  BY <1>1, <1>2, <1>3

(* The end: every level down to that of the search is closed.                 *)
LEMMA PopMoves ==
  ASSUME Typed, Sound, Anchored, End
  PROVE  Refs' = Refs /\ Ended(t, t', Refs, lvl)
<1>1. Refs' = Refs /\ t' = PopToNode(t, lvl)
  BY DEF End, search, Refs
<1>2. Anchor \in 1..Len(t.frames) /\ t.frames[Anchor].id = lvl
  BY AnchorIs DEF End, Running
<1>3. Refs \in Claims /\ Sane(t, Refs, t.nodes)
  BY RefsAre DEF Sound
<1> DEFINE i == Anchor
<1> HIDE DEF i
<1>4. i \in 1..Len(t.frames) /\ t.frames[i].id = lvl
  BY <1>2 DEF i
<1>5. Ended(t, t', Refs, lvl)
  BY <1>1, <1>3, <1>4, PopSane
<1> QED
  BY <1>1, <1>5

(* Two paths that start with the nodes of r agree as far as r goes.           *)
LEMMA BothRooted ==
  ASSUME NEW s, NEW r, NEW p, NEW q, Rooted(s, r, p), Rooted(s, r, q), Len(r) \in Nat,
         NEW i \in 1..Len(r)
  PROVE  s.lists[p[i]].node = s.lists[q[i]].node
  BY DEF Rooted

(* The way to a node closes the levels its path does not share.               *)
Left(s, u, e, p, k, c) ==
    /\ Unwound(s, u, e, s.nodes, k)
    /\ k \in Nat /\ c <= k /\ k <= Len(s.stack) /\ k <= Len(p)
    /\ \A i \in 1..k : s.lists[s.stack[i]].node = s.lists[p[i]].node

(* The next node: it leaves the frontier, and what its path does not share    *)
(* with the stack is closed.                                                  *)
LEMMA PickMoves ==
  ASSUME Typed, Sound, Anchored, Pick
  PROVE  /\ Refs' \in Claims
         /\ \E n \in frontier :
               /\ n \in Tops /\ frontier' = frontier \ {n} /\ node' = n.path
               /\ \/ /\ betterThanPrimal(n.value)
                     /\ target' = [path |-> n.path, depth |-> n.depth - 1, then |-> "branching"]
                     /\ here' = n.at /\ pc' = "restoring"
                     /\ \E k \in Nat : Left(t, t', Refs', n.path, k, Len(root))
                  \/ /\ ~betterThanPrimal(n.value)
                     /\ UNCHANGED <<pc, target, here>> /\ Settled(t, t', Refs')
<1> DEFINE m == Refs
           e == Refs'
           a == Release(t, node)
<1>1. PICK n \in Tops :
         /\ frontier' = frontier \ {n} /\ node' = n.path
         /\ \/ /\ betterThanPrimal(n.value)
               /\ target' = [path |-> n.path, depth |-> n.depth - 1, then |-> "branching"]
               /\ t' = Unwind(a, sharedPrefixSize(a, n.path))
               /\ here' = n.at /\ pc' = "restoring"
            \/ /\ ~betterThanPrimal(n.value)
               /\ t' = a /\ UNCHANGED <<pc, target, here>>
  BY DEF Pick
<1> DEFINE p == n.path
<1>2. n \in frontier /\ p \in Seq(Nat) /\ Len(p) \in Nat
  BY LenProperties DEF Tops, Typed, Nodes
<1>3. /\ m \in Claims /\ Sane(t, m, t.nodes) /\ IsFiniteSet(frontier) /\ t.nodes \in Int
      /\ node \in Seq(Nat) /\ Once(node) /\ t \in Tracers /\ root \in Seq(Nat) /\ 0 \in Int
  BY RefsAre, TracerFields DEF Typed, Sound
<1>4. root' = root /\ before' = before
  BY DEF Pick
<1>5. m = Total(root, before, node, frontier) /\ e = Total(root, before, p, frontier \ {n})
  BY <1>1, <1>4 DEF Refs
<1>6. IsFiniteSet(frontier \ {n})
  BY <1>3, FS_RemoveElement
<1>7. e \in Claims
  <2>1. Total(root, before, p, frontier \ {n}) \in Claims
    BY <1>6, TotalIs
  <2> QED
    BY <1>5, <2>1
<1>8. ASSUME NEW l \in Nat PROVE e[l] + On(node, l) <= m[l]
  <2> DEFINE c == On(root, l) + On(before, l)
             o == On(node, l)
             w == Waiting(frontier, l)
             v == Waiting(frontier \ {n}, l)
             x == On(p, l)
  <2>1. c \in Nat /\ o \in Nat /\ x \in Nat
    BY OnIs
  <2>2. w \in Nat /\ v = w - x /\ v \in Nat
    BY <1>2, <1>3, <1>6, WaitingLess, WaitingIs
  <2>3. m[l] = c + o + w /\ e[l] = c + x + v
    BY <1>5 DEF Total
  <2> HIDE DEF c, o, w, v, x, m, e
  <2>4. e[l] + o <= m[l]
    BY <2>1, <2>2, <2>3
  <2> QED
    BY <2>4 DEF o
<1> HIDE DEF m, e
<1>9. CASE ~betterThanPrimal(n.value)
  <2>1. t' = a /\ UNCHANGED <<pc, target, here>>
    BY <1>1, <1>9
  <2>2. Settled(t, t', e)
    BY <1>3, <1>7, <1>8, <2>1, ReleaseSettles
  <2> QED
    BY <1>1, <1>2, <1>7, <1>9, <2>1, <2>2 DEF e
<1>10. CASE betterThanPrimal(n.value)
  <2> DEFINE k == sharedPrefixSize(a, p)
             b == Len(root)
  <2>1. t' = Unwind(a, k)
    BY <1>1, <1>10
  <2>2. Released(t, a, e, t.nodes)
    BY <1>3, <1>7, <1>8, ReleaseTo
  <2>3. /\ Sane(a, e, t.nodes) /\ Holds(t, a, e, Len(t.stack)) /\ a.stack = t.stack
    BY <2>2 DEF Released, Aside
  <2>4. Claimed(e, p) /\ Claimed(e, root)
    <3>1. /\ before \in Seq(Nat) /\ \A q \in frontier \ {n} : q.path \in Seq(Nat)
      BY DEF Typed, Nodes
    <3> DEFINE G == frontier \ {n}
    <3>2. IsFiniteSet(G) /\ \A q \in G : q.path \in Seq(Nat)
      BY <1>6, <3>1
    <3>3. e = Total(root, before, p, G)
      BY <1>5
    <3> HIDE DEF G, p
    <3>4. Claimed(Total(root, before, p, G), p) /\ Claimed(Total(root, before, p, G), root)
      BY <1>2, <1>3, <3>1, <3>2, TotalClaims
    <3> QED
      BY <3>3, <3>4
  <2>5. /\ b \in Nat /\ Len(t.stack) \in Nat /\ b <= Len(t.stack) /\ Len(t.frames) \in Nat
        /\ Anchor >= 1
    BY AnchorIs DEF Pick, Running
  <2>6. Rooted(t, root, t.stack) /\ Rooted(t, root, p) /\ b <= Len(p)
    BY <1>2 DEF Anchored, Pick, Running, Rooted
  <2>13. \A i \in 1..Len(p) : a.lists[p[i]].node = t.lists[p[i]].node
    <3> TAKE i \in 1..Len(p)
    <3>1. p[i] \in Nat /\ e[p[i]] > 0
      BY <1>2, <2>4, ElementOfSeq DEF Claimed
    <3> QED
      BY <2>3, <3>1 DEF Holds, Kept
  <2>14. \A i \in 1..Len(t.stack) : a.lists[a.stack[i]].node = t.lists[t.stack[i]].node
    BY <2>3 DEF Holds, Kept
  <2>7. \A i \in 1..b : SameList(a, i, p)
    <3> TAKE i \in 1..b
    <3>1. t.lists[t.stack[i]].node = t.lists[p[i]].node
      BY <2>5, <2>6, BothRooted
    <3>2. i \in 1..Len(p) /\ i \in 1..Len(t.stack)
      BY <1>2, <2>5, <2>6
    <3> QED
      BY <2>13, <2>14, <3>1, <3>2 DEF SameList
  <2>15. k = sharedPrefixSize(a, p) /\ Len(a.stack) \in Nat /\ b <= Len(a.stack)
    BY <2>3, <2>5
  <2> HIDE DEF a, k, p, b
  <2>8. k \in Nat /\ b <= k /\ k <= Len(a.stack) /\ k <= Len(p)
    BY <1>2, <2>5, <2>6, <2>7, <2>15, SharedAtLeast
  <2>16. \A i \in 1..k : SameList(a, i, p)
    BY <1>2, <2>15, SharedIs
  <2>9. k <= Len(t.stack) /\ Len(t.stack) - k <= Len(t.frames)
    <3> DEFINE f == Len(t.frames)
               z == Len(t.stack)
    <3>1. f - z + b >= 1 /\ f \in Nat /\ z \in Nat /\ k <= z /\ b <= k /\ b \in Nat /\ k \in Nat
      BY <2>3, <2>5, <2>8 DEF Anchor, b
    <3> HIDE DEF f, z
    <3>2. k <= z /\ z - k <= f
      BY <3>1
    <3> QED
      BY <3>2 DEF f, z
  <2>10. t' = Unwind(Release(t, node), k)
    BY <2>1 DEF a
  <2>11. Unwound(t, t', e, t.nodes, k)
    BY <1>3, <1>7, <1>8, <2>8, <2>9, <2>10, ReleaseUnwind
  <2>12. \A i \in 1..k : t.lists[t.stack[i]].node = t.lists[p[i]].node
    <3> TAKE i \in 1..k
    <3>1. i \in 1..Len(p) /\ i \in 1..Len(t.stack)
      BY <1>2, <2>5, <2>8, <2>9
    <3>2. SameList(a, i, p)
      BY <2>16
    <3> QED
      BY <2>13, <2>14, <3>1, <3>2 DEF SameList
  <2>17. Left(t, t', e, p, k, b)
    BY <2>8, <2>9, <2>11, <2>12 DEF Left
  <2> QED
    BY <1>1, <1>2, <1>7, <1>10, <2>8, <2>17 DEF e, p, b
<1> QED
  BY <1>9, <1>10

--------------------------------------------------------------------------------
(* The counts cover the claims in every state.                                *)
LEMMA SoundStep ==
  ASSUME Base, Next
  PROVE  Refs' \in Claims /\ Sound'
<1>0. Typed /\ Sound /\ Aimed /\ Anchored /\ Refs \in Claims
  BY RefsAre DEF Base
<1>1. Len(t.stack) \in Nat /\ Len(t.stack) > 0 /\ Len(before) \in Nat
  BY <1>0, Lengths, LenProperties DEF Typed, Sound
<1>s. \A e : Settled(t, t', e) => Sane(t', e, t'.nodes) /\ Len(t'.stack) > 0
  BY <1>1 DEF Settled
<1>p. \A m, c : Posted(t, t', m, t.nodes, c) => Sane(t', m, t'.nodes) /\ Len(t'.stack) > 0
  BY <1>1 DEF Posted
<1>2. CASE Solve
  <2>1. Refs' \in Claims /\ Started(t, t', Refs')
    BY <1>0, <1>2, SolveMoves
  <2> QED
    BY <1>1, <2>1 DEF Sound, Started
<1>3. CASE Infer
  <2>1. Refs' = Refs /\ \E c \in Constraints : Posted(t, t', Refs, t.nodes, c)
    BY <1>0, <1>3, InferMoves
  <2> QED
    BY <1>0, <1>p, <2>1 DEF Sound
<1>4. CASE Enter
  <2>1. Refs' \in Claims /\ Entered(t, t', Refs')
    BY <1>0, <1>4, EnterMoves
  <2> QED
    BY <1>1, <2>1 DEF Sound, Entered
<1>5. ASSUME NEW low \in Costs, Post(low) PROVE Refs' \in Claims /\ Sound'
  <2>1. Refs' = Refs /\ \E c \in Constraints : Posted(t, t', Refs, t.nodes, c)
    BY <1>0, <1>5, PostMoves
  <2> QED
    BY <1>0, <1>p, <2>1 DEF Sound
<1>6. CASE Keep
  <2>1. Refs' \in Claims /\ Captured(t, t', Refs', Len(before))
    BY <1>0, <1>6, KeepMoves
  <2>2. Len(before) > 0
    <3>1. Len(root) <= Len(before)
      BY <1>0, <1>6, BackIsOpen DEF Keep
    <3>2. Len(root) > 0 /\ Len(root) \in Nat
      BY <1>0, <1>6, AnchorIs DEF Keep, Running
    <3> QED
      BY <1>1, <3>1, <3>2
  <2> QED
    BY <2>1, <2>2 DEF Sound, Captured
<1>7. CASE Fail
  <2>1. Refs' = Refs /\ Unwound(t, t', Refs, t.nodes, Len(before))
    BY <1>0, <1>7, FailMoves
  <2>2. Len(before) > 0
    <3>1. Len(root) <= Len(before)
      BY <1>0, <1>7, BackIsOpen DEF Fail
    <3>2. Len(root) > 0 /\ Len(root) \in Nat
      BY <1>0, <1>7, AnchorIs DEF Fail, Running
    <3> QED
      BY <1>1, <3>1, <3>2
  <2> QED
    BY <1>0, <2>1, <2>2 DEF Sound, Unwound
<1>8. CASE ReplayList
  <2> DEFINE r == t.lists[target.path[Len(t.stack) + 1]]
  <2>1. t' = Replay(t, target.path) /\ Refs' = Refs /\ Restoring
    BY <1>8 DEF ReplayList, search, Refs
  <2>2. Replayed(t, Replay(t, target.path), Refs, t.nodes, r)
    BY <1>0, <2>1, ReplayMoves
  <2> HIDE DEF r
  <2> QED
    BY <1>0, <1>1, <2>1, <2>2 DEF Sound, Replayed
<1>9. CASE FailRestore
  <2>1. Refs' = Refs /\ Settled(t, t', Refs)
    BY <1>0, <1>9, AbandonMoves
  <2> QED
    BY <1>0, <1>s, <2>1 DEF Sound
<1>10. CASE EndRestore
  <2>1. Refs' \in Claims /\ Settled(t, t', Refs')
    BY <1>0, <1>10, EndMoves
  <2> QED
    BY <1>s, <2>1 DEF Sound
<1>11. CASE Stop
  <2>1. Refs' \in Claims /\ Settled(t, t', Refs')
    BY <1>0, <1>11, StopMoves
  <2> QED
    BY <1>s, <2>1 DEF Sound
<1>12. CASE Exhausted
  <2>1. Refs' \in Claims /\ Settled(t, t', Refs')
    BY <1>0, <1>12, ExhaustedMoves
  <2> QED
    BY <1>s, <2>1 DEF Sound
<1>13. CASE Pick
  <2>1. Refs' \in Claims
    BY <1>0, <1>13, PickMoves
  <2>2. Settled(t, t', Refs') \/ \E p : \E k \in Nat : Left(t, t', Refs', p, k, Len(root))
    BY <1>0, <1>13, PickMoves
  <2>3. Len(root) > 0 /\ Len(root) \in Nat
    BY <1>0, <1>13, AnchorIs DEF Pick, Running
  <2>4. ASSUME NEW p, NEW k \in Nat, Left(t, t', Refs', p, k, Len(root))
        PROVE  Sane(t', Refs', t'.nodes) /\ Len(t'.stack) > 0
    BY <2>3, <2>4 DEF Left, Unwound
  <2> QED
    BY <1>s, <2>1, <2>2, <2>4 DEF Sound
<1>14. CASE End
  <2>1. Refs' = Refs /\ Ended(t, t', Refs, lvl)
    BY <1>0, <1>14, PopMoves
  <2> QED
    BY <1>0, <1>1, <2>1 DEF Sound, Ended
<1>15. ASSUME t' = t, root' = root, before' = before, node' = node, frontier' = frontier
       PROVE  Refs' \in Claims /\ Sound'
  BY <1>0, <1>15 DEF Sound, Refs
<1>16. CASE Leaf \/ ReachLimit \/ Leave \/ Continue
  BY <1>15, <1>16 DEF Leaf, ReachLimit, Leave, Continue, search
<1>17. ASSUME NEW n \in 1..MaxBranches, Branch(n) PROVE Refs' \in Claims /\ Sound'
  BY <1>15, <1>17 DEF Branch
<1> QED
  BY <1>2, <1>3, <1>4, <1>5, <1>6, <1>7, <1>8, <1>9, <1>10, <1>11, <1>12, <1>13, <1>14, <1>16, <1>17
     DEF Next

Targets == [path : Seq(Nat), depth : Int, then : {"none", "loop", "branching"}]
Loops == [cur : Nat, total : Nat, posted : Nat]

LEMMA NoTargetIs ==
  NoTarget \in Targets /\ NoTarget.path = <<>> /\ NoTarget.then = "none"
<1> DEFINE e == <<>>
<1>1. e \in Seq(Nat)
  BY EmptySeq
<1>2. NoTarget = [path |-> e, depth |-> 0, then |-> "none"]
  BY DEF NoTarget
<1> HIDE DEF e
<1>3. NoTarget \in Targets /\ NoTarget.path = e /\ NoTarget.then = "none"
  BY <1>1, <1>2 DEF Targets
<1> QED
  BY <1>3 DEF e

LEMMA LoopsAre ==
  /\ NoTurn \in Loops
  /\ \A n \in Nat : [NoTurn EXCEPT !.total = n] \in Loops
  /\ \A x \in Loops : /\ [x EXCEPT !.posted = 0] \in Loops
                      /\ [x EXCEPT !.posted = @ + 1] \in Loops
                      /\ [x EXCEPT !.cur = @ + 1] \in Loops
                      /\ x.cur \in Nat /\ x.total \in Nat /\ x.posted \in Nat
  BY DEF NoTurn, Loops

LEMMA ChildIs ==
  ASSUME Typed
  PROVE  Child \in Seq(Nat) /\ Len(Child) = Len(here) + 1
  BY DEF Typed, Child

LEMMA StackIs ==
  ASSUME Sound
  PROVE  t.stack \in Seq(Nat) /\ Once(t.stack)
  BY TracerFields DEF Sound, Sane, Counted, StackOK

(* The queue of nodes.                                                        *)
LEMMA KeptNode ==
  ASSUME Typed, Sound, NEW q,
         q = [path |-> t.stack, depth |-> t.level + 1, at |-> Child,
              value |-> IF objective THEN value(t.store) ELSE 0]
  PROVE  /\ q \in Nodes /\ Once(q.path) /\ q.path = t.stack /\ q.at = Child
         /\ q.value = IF objective THEN value(t.store) ELSE 0
<1>1. t.stack \in Seq(Nat) /\ Once(t.stack)
  BY StackIs
<1>2. t.level + 1 \in Int /\ t.store \in SUBSET Constraints
  BY TracerFields DEF Typed, Stores
<1>3. Child \in Seq(Nat)
  BY ChildIs
<1> DEFINE v == IF objective THEN value(t.store) ELSE 0
<1>4. v \in Costs
  BY <1>2, ValueIs, BFSearchAssumption
<1> HIDE DEF v
<1>5. q = [path |-> t.stack, depth |-> t.level + 1, at |-> Child, value |-> v]
  BY DEF v
<1>6. q \in Nodes /\ q.path = t.stack /\ q.at = Child /\ q.value = v
  BY <1>1, <1>2, <1>3, <1>4, <1>5 DEF Nodes
<1> QED
  BY <1>1, <1>6 DEF v

(* Each action keeps the parts of Base.                                       *)
LEMMA TypedStep ==
  ASSUME Base, Next
  PROVE  Typed'
<1>0. Typed /\ Sound
  BY DEF Base
<1>1. t' \in Tracers
  BY SoundStep DEF Sound, Sane
<1>2. t.stack \in Seq(Nat) /\ Once(t.stack) /\ t.level \in Int /\ t.store \in SUBSET Constraints
  BY <1>0, StackIs, TracerFields DEF Typed, Stores
<1>e. <<>> \in Seq(Nat) /\ Once(<<>>)
  BY EmptySeq DEF Once
<1>t. /\ NoTarget \in [path : Seq(Nat), depth : Int, then : {"none", "loop", "branching"}]
      /\ NoTurn \in [cur : Nat, total : Nat, posted : Nat]
  BY NoTargetIs, LoopsAre DEF Targets, Loops
<1>3. CASE Solve
  <2> DEFINE e == <<>>
  <2>1. e \in Seq(Nat) /\ here' = e
    BY <1>3, EmptySeq DEF Solve
  <2>2. /\ root' = t.stack /\ pc' = "branching"
        /\ UNCHANGED <<before, frontier, node, target, turn, objective, primal, dual>>
    BY <1>3 DEF Solve, options, bounds
  <2> HIDE DEF e
  <2> QED
    BY <1>0, <1>1, <1>2, <2>1, <2>2 DEF Typed
<1>4. CASE Infer \/ ReachLimit \/ Continue \/ ReplayList \/ End
  <2>1. /\ UNCHANGED <<root, before, frontier, node, target, turn, objective, primal, dual, here>>
        /\ pc' \in {pc, "pick", "done"}
    BY <1>4 DEF Infer, ReachLimit, Continue, ReplayList, End, search, options, bounds, ghosts
  <2> QED
    BY <1>0, <1>1, <2>1 DEF Typed
<1>5. CASE Leaf
  <2>1. /\ UNCHANGED <<root, before, frontier, node, target, turn, objective, dual, here>>
        /\ pc' = "check" /\ primal' \in Costs \cup {primal}
    BY <1>5 DEF Leaf, search, options
  <2> QED
    BY <1>0, <1>1, <2>1 DEF Typed
<1>6. ASSUME NEW n \in 1..MaxBranches, Branch(n) PROVE Typed'
  <2>1. /\ UNCHANGED <<root, before, frontier, node, target, objective, primal, dual, here>>
        /\ pc' = "loop" /\ turn' = [NoTurn EXCEPT !.total = n] /\ n \in Nat
    BY <1>6 DEF Branch, options, bounds
  <2>2. turn' \in [cur : Nat, total : Nat, posted : Nat]
    BY <2>1, LoopsAre DEF Loops
  <2> QED
    BY <1>0, <1>1, <2>1, <2>2 DEF Typed
<1>7. CASE Enter
  <2>1. /\ UNCHANGED <<root, frontier, node, objective, primal, dual, here>>
        /\ pc' = "alt" /\ turn' = [turn EXCEPT !.posted = 0] /\ before' = t.stack
        /\ target' = [path |-> t.stack, depth |-> t.level, then |-> "loop"]
    BY <1>7 DEF Enter, options, bounds, ghosts
  <2>2. turn' \in [cur : Nat, total : Nat, posted : Nat]
    BY <1>0, <2>1, LoopsAre DEF Loops, Typed
  <2>3. target' \in [path : Seq(Nat), depth : Int, then : {"none", "loop", "branching"}]
    BY <1>2, <2>1
  <2> QED
    BY <1>0, <1>1, <1>2, <2>1, <2>2, <2>3 DEF Typed
<1>8. ASSUME NEW low \in Costs, Post(low) PROVE Typed'
  <2>1. /\ UNCHANGED <<root, before, frontier, node, target, objective, primal, dual, here>>
        /\ pc' \in {"fail", "alt"} /\ turn' = [turn EXCEPT !.posted = @ + 1]
    BY <1>8 DEF Post, options, bounds, ghosts
  <2>2. turn' \in [cur : Nat, total : Nat, posted : Nat]
    BY <1>0, <2>1, LoopsAre DEF Loops, Typed
  <2> QED
    BY <1>0, <1>1, <2>1, <2>2 DEF Typed
<1>9. CASE Keep
  <2> DEFINE q == [path |-> t.stack, depth |-> t.level + 1, at |-> Child,
                   value |-> IF objective THEN value(t.store) ELSE 0]
  <2>1. /\ UNCHANGED <<root, before, node, target, turn, objective, primal, dual, here>>
        /\ pc' = "restoring" /\ frontier' = frontier \cup {q}
    BY <1>9 DEF Keep, Return, options, bounds
  <2>2. q \in Nodes /\ Once(q.path)
    BY <1>0, KeptNode
  <2> HIDE DEF q
  <2>3. IsFiniteSet(frontier') /\ \A n \in frontier' : n \in Nodes /\ Once(n.path)
    <3>1. IsFiniteSet(frontier) /\ \A n \in frontier : n \in Nodes /\ Once(n.path)
      BY <1>0 DEF Typed
    <3>2. IsFiniteSet(frontier \cup {q})
      BY <3>1, FS_AddElement
    <3> QED
      BY <2>1, <2>2, <3>1, <3>2
  <2> QED
    BY <1>0, <1>1, <2>1, <2>3 DEF Typed
<1>10. CASE Fail
  <2>1. /\ UNCHANGED <<root, before, frontier, node, target, turn, objective, primal, dual, here>>
        /\ pc' = "restoring"
    BY <1>10 DEF Fail, Return, search, options, bounds, ghosts
  <2> QED
    BY <1>0, <1>1, <2>1 DEF Typed
<1>11. CASE Leave
  <2>1. /\ UNCHANGED <<root, before, frontier, node, target, objective, primal, dual, here>>
        /\ pc' = "check" /\ turn' = NoTurn
    BY <1>11 DEF Leave, options, bounds, ghosts
  <2> QED
    BY <1>0, <1>1, <1>t, <2>1 DEF Typed
<1>12. CASE FailRestore
  <2>1. /\ UNCHANGED <<root, before, frontier, node, objective, primal, dual, here>>
        /\ pc' \in {"loop", "pick"} /\ turn' \in {turn, [turn EXCEPT !.cur = @ + 1]}
        /\ target' = NoTarget
    BY <1>12 DEF FailRestore, options, bounds
  <2>2. turn' \in [cur : Nat, total : Nat, posted : Nat]
    BY <1>0, <2>1, LoopsAre DEF Loops, Typed
  <2> QED
    BY <1>0, <1>1, <1>t, <2>1, <2>2 DEF Typed
<1>13. CASE EndRestore
  <2>1. /\ UNCHANGED <<root, before, frontier, objective, primal, dual, here>>
        /\ pc' = target.then /\ turn' \in {turn, [turn EXCEPT !.cur = @ + 1]}
        /\ target' = NoTarget /\ node' \in {node, <<>>}
    BY <1>13 DEF EndRestore, options, bounds, ghosts
  <2>2. turn' \in [cur : Nat, total : Nat, posted : Nat]
    BY <1>0, <2>1, LoopsAre DEF Loops, Typed
  <2>3. target.then \in {"loop", "branching"}
    BY <1>13 DEF EndRestore, Base, Aimed
  <2>4. node' \in Seq(Nat) /\ Once(node')
    BY <1>0, <1>e, <2>1 DEF Typed
  <2> QED
    BY <1>0, <1>1, <1>t, <2>1, <2>2, <2>3, <2>4 DEF Typed
<1>14. CASE Stop
  <2>1. /\ UNCHANGED <<root, before, node, target, turn, objective, primal, here>>
        /\ pc' = "leave" /\ frontier' = {}
        /\ dual' \in IF ~objective THEN {dual}
                     ELSE IF frontier = {} THEN Costs ELSE {n.value : n \in Tops}
    BY <1>14 DEF Stop, options, ghosts
  <2>2. dual' \in Costs \cup {NoPrimal}
    BY <1>0, <2>1 DEF Typed, Tops, Nodes
  <2>3. IsFiniteSet({})
    BY FS_EmptySet
  <2> QED
    BY <1>0, <1>1, <2>1, <2>2, <2>3 DEF Typed
<1>15. CASE Pick
  <2>1. PICK n \in frontier :
           /\ frontier' = frontier \ {n} /\ node' = n.path
           /\ \/ /\ target' = [path |-> n.path, depth |-> n.depth - 1, then |-> "branching"]
                 /\ here' = n.at /\ pc' = "restoring"
              \/ UNCHANGED <<pc, target, here>>
    BY <1>15 DEF Pick, Tops
  <2>2. UNCHANGED <<root, before, turn, objective, primal, dual>>
    BY <1>15 DEF Pick, options, bounds
  <2>3. /\ n \in Nodes /\ Once(n.path) /\ n.path \in Seq(Nat) /\ n.depth - 1 \in Int /\ n.at \in Seq(Nat)
    BY <1>0 DEF Typed, Nodes
  <2>4. /\ target' \in [path : Seq(Nat), depth : Int, then : {"none", "loop", "branching"}]
        /\ here' \in Seq(Nat)
        /\ pc' \in {"idle", "branching", "loop", "alt", "fail", "check", "restoring", "pick",
                    "leave", "done"}
    BY <1>0, <2>1, <2>3 DEF Typed
  <2>5. IsFiniteSet(frontier')
    BY <1>0, <2>1, FS_RemoveElement DEF Typed
  <2> QED
    BY <1>0, <1>1, <2>1, <2>2, <2>3, <2>4, <2>5 DEF Typed
<1>16. CASE Exhausted
  <2>1. /\ UNCHANGED <<root, before, frontier, target, turn, objective, primal, here>>
        /\ pc' = "leave" /\ dual' \in {primal, dual} /\ node' = <<>>
    BY <1>16 DEF Exhausted, options, ghosts
  <2> QED
    BY <1>0, <1>1, <1>e, <2>1 DEF Typed
<1> QED
  BY <1>3, <1>4, <1>5, <1>6, <1>7, <1>8, <1>9, <1>10, <1>11, <1>12, <1>13, <1>14, <1>15, <1>16
     DEF Next

(* Closing an alternative leads back to the stack it started with.            *)
LEMMA SameAsBefore ==
  ASSUME Typed, Sound, Aimed, Anchored, pc \in {"alt", "fail"}, t' \in Tracers, NEW m,
         Holds(t, t', m, Len(before)), Len(t'.stack) = Len(before)
  PROVE  t'.stack = before
<1>1. t'.stack \in Seq(Nat) /\ before \in Seq(Nat)
  BY TracerFields DEF Typed
<1>2. \A i \in 1..Len(before) : t.stack[i] = before[i]
  BY BackIsOpen
<1>3. \A i \in 1..Len(before) : t'.stack[i] = t.stack[i]
  BY DEF Holds
<1>4. \A i \in 1..Len(before) : t'.stack[i] = before[i]
  BY <1>2, <1>3
<1> QED
  BY <1>1, <1>4, SeqEqual

LEMMA AimedStep ==
  ASSUME Base, Next
  PROVE  Aimed'
<1>0. Typed /\ Sound /\ Aimed /\ Anchored
  BY DEF Base
<1>1. t' \in Tracers /\ Len(t.stack) \in Nat /\ Len(before) \in Nat
  BY <1>0, SoundStep, Lengths, LenProperties DEF Sound, Sane, Typed
<1>2. CASE Solve
  <2>1. pc' = "branching" /\ target' = target /\ pc \notin {"alt", "fail", "restoring"}
    BY <1>2 DEF Solve
  <2> QED
    BY <1>0, <2>1 DEF Aimed
<1>3. CASE Infer \/ Leaf \/ Leave \/ Continue \/ Stop \/ Exhausted \/ End
  <2>1. /\ pc' \in {"branching", "check", "pick", "leave", "done"} /\ target' = target
        /\ pc \notin {"alt", "fail", "restoring"}
    BY <1>3 DEF Infer, Leaf, Leave, Continue, Stop, Exhausted, End
  <2> QED
    BY <1>0, <2>1 DEF Aimed
<1>4. ASSUME NEW n \in 1..MaxBranches, Branch(n) PROVE Aimed'
  <2>1. pc' = "loop" /\ target' = target /\ pc = "branching"
    BY <1>4 DEF Branch
  <2> QED
    BY <1>0, <2>1 DEF Aimed
<1>5. CASE ReachLimit
  BY <1>0, <1>5 DEF Aimed, ReachLimit, search
<1>6. CASE Enter
  <2>1. /\ pc' = "alt" /\ before' = t.stack
        /\ target' = [path |-> t.stack, depth |-> t.level, then |-> "loop"]
    BY <1>6 DEF Enter
  <2>2. Entered(t, t', Refs')
    BY <1>0, <1>6, EnterMoves
  <2>3. Len(t'.stack) = Len(t.stack) + 1 /\ \A i \in 1..Len(t.stack) : t'.stack[i] = t.stack[i]
    BY <2>2 DEF Entered, Holds
  <2> QED
    BY <2>1, <2>3 DEF Aimed
<1>7. ASSUME NEW low \in Costs, Post(low) PROVE Aimed'
  <2>1. pc' \in {"alt", "fail"} /\ pc = "alt" /\ UNCHANGED <<before, target>>
    BY <1>7 DEF Post
  <2>2. PICK c \in Constraints : Posted(t, t', Refs, t.nodes, c)
    BY <1>0, <1>7, PostMoves
  <2>3. /\ Len(t'.stack) = Len(t.stack)
        /\ \A i \in 1..(Len(t.stack) - 1) : t'.stack[i] = t.stack[i]
    BY <2>2 DEF Posted, Holds
  <2>4. Len(t.stack) - 1 = Len(before)
    BY <1>0, <1>1, <2>1 DEF Aimed
  <2> QED
    BY <1>0, <2>1, <2>3, <2>4 DEF Aimed
<1>8. CASE Keep
  <2>1. pc' = "restoring" /\ pc = "alt" /\ UNCHANGED <<before, target>>
    BY <1>8 DEF Keep, Return
  <2>2. Len(t'.stack) = Len(before) /\ Holds(t, t', Refs', Len(before))
    BY <1>0, <1>8, KeepMoves DEF Captured
  <2>3. t'.stack = before
    BY <1>0, <1>1, <2>1, <2>2, SameAsBefore
  <2> QED
    BY <1>0, <2>1, <2>3 DEF Aimed
<1>9. CASE Fail
  <2>1. pc' = "restoring" /\ pc = "fail" /\ UNCHANGED <<before, target>>
    BY <1>9 DEF Fail, Return, search
  <2>2. Len(t'.stack) = Len(before) /\ Holds(t, t', Refs, Len(before))
    BY <1>0, <1>9, FailMoves DEF Unwound
  <2>3. t'.stack = before
    BY <1>0, <1>1, <2>1, <2>2, SameAsBefore
  <2> QED
    BY <1>0, <2>1, <2>3 DEF Aimed
<1>10. CASE ReplayList
  <2>1. pc' = pc /\ pc = "restoring" /\ Len(t.stack) < Len(target.path) /\ UNCHANGED <<before, node, target>>
    BY <1>10 DEF ReplayList, Restoring, search
  <2>2. ~(target.path = before /\ t.stack = before)
    BY <1>1, <2>1
  <2> QED
    BY <1>0, <2>1, <2>2 DEF Aimed
<1>11. CASE FailRestore
  <2>1. pc' \in {"loop", "pick"} /\ target' = NoTarget
    BY <1>11 DEF FailRestore
  <2> QED
    BY <2>1, NoTargetIs DEF Aimed
<1>12. CASE EndRestore
  <2>1. pc' \in {"loop", "branching"} /\ target' = NoTarget
    BY <1>0, <1>12 DEF EndRestore, Aimed
  <2> QED
    BY <2>1, NoTargetIs DEF Aimed
<1>13. CASE Pick
  <2>1. PICK n \in frontier :
           /\ node' = n.path
           /\ \/ /\ target' = [path |-> n.path, depth |-> n.depth - 1, then |-> "branching"]
                 /\ pc' = "restoring"
              \/ UNCHANGED <<pc, target>>
    BY <1>13 DEF Pick, Tops
  <2>2. pc = "pick" /\ target.path = <<>>
    BY <1>0, <1>13 DEF Pick, Aimed
  <2> QED
    BY <2>1, <2>2 DEF Aimed
<1> QED
  BY <1>2, <1>3, <1>4, <1>5, <1>6, <1>7, <1>8, <1>9, <1>10, <1>11, <1>12, <1>13 DEF Next

(* What is claimed after a step.                                              *)
LEMMA RefsNext ==
  ASSUME Typed'
  PROVE  /\ Refs' \in Claims /\ Claimed(Refs', root') /\ Claimed(Refs', before') /\ Claimed(Refs', node')
         /\ \A n \in frontier' : n.path \in Seq(Nat) /\ Claimed(Refs', n.path)
         /\ t' \in Tracers /\ root' \in Seq(Nat) /\ before' \in Seq(Nat) /\ node' \in Seq(Nat)
<1>1. /\ t' \in Tracers /\ root' \in Seq(Nat) /\ before' \in Seq(Nat) /\ node' \in Seq(Nat)
      /\ IsFiniteSet(frontier') /\ \A n \in frontier' : n.path \in Seq(Nat)
  BY DEF Typed, Nodes
<1>2. Total(root', before', node', frontier') \in Claims
  BY <1>1, TotalIs
<1>3. Refs' = Total(root', before', node', frontier')
  BY DEF Refs
<1>4. /\ Claimed(Total(root', before', node', frontier'), root')
      /\ Claimed(Total(root', before', node', frontier'), before')
      /\ Claimed(Total(root', before', node', frontier'), node')
      /\ \A n \in frontier' : Claimed(Total(root', before', node', frontier'), n.path)
  BY <1>1, TotalClaims
<1> QED
  BY <1>1, <1>2, <1>3, <1>4

(* The level of the search stays where it is.                                 *)
LEMMA AnchorStays ==
  ASSUME Typed, Typed', Aimed', Anchored, Running, root' = root, lvl' = lvl,
         NEW k, Holds(t, t', Refs', k), Rooted(t', root, t'.stack),
         Len(t'.frames) - Len(t'.stack) = Len(t.frames) - Len(t.stack),
         \A j \in 1..Anchor : t'.frames[j] = t.frames[j],
         \A n \in frontier' : Rooted(t, root, n.path),
         pc' \in {"alt", "fail", "restoring"} => Rooted(t, root, target'.path),
         pc' = "done" \/ pc' = "leave" => frontier' = {},
         pc' # "idle"
  PROVE  Anchored'
<1>1. /\ Refs' \in Claims /\ Claimed(Refs', root) /\ Claimed(Refs', before') /\ Claimed(Refs', node')
      /\ \A n \in frontier' : n.path \in Seq(Nat) /\ Claimed(Refs', n.path)
      /\ root \in Seq(Nat) /\ before' \in Seq(Nat) /\ node' \in Seq(Nat)
  BY RefsNext
<1>2. \A p \in Seq(Nat) : Claimed(Refs', p) => (Rooted(t, root, p) => Rooted(t', root, p))
  BY <1>1, RootedKeeps
<1>3. Len(root) > 0 /\ Anchor \in 1..Len(t.frames) /\ t.frames[Anchor].id = lvl
  BY AnchorIs
<1>4. Anchor' = Anchor
  <2>1. Anchor' = Len(t'.frames) - Len(t'.stack) + Len(root)
    BY DEF Anchor
  <2>2. Anchor = Len(t.frames) - Len(t.stack) + Len(root)
    BY DEF Anchor
  <2> QED
    BY <2>1, <2>2
<1>5. Anchor' >= 1 /\ t'.frames[Anchor'].id = lvl'
  <2>1. Anchor \in 1..Anchor /\ Anchor >= 1
    BY <1>3
  <2> QED
    BY <1>3, <1>4, <2>1
<1>6. \A n \in frontier' : Rooted(t', root, n.path)
  BY <1>1, <1>2
<1>7. pc' \in {"alt", "fail", "restoring"} => Rooted(t', root, target'.path)
  <2>1. pc' \in {"alt", "fail", "restoring"} => target'.path = before' \/ target'.path = node'
    BY DEF Aimed
  <2> QED
    BY <1>1, <1>2, <2>1
<1> QED
  BY <1>3, <1>5, <1>6, <1>7 DEF Anchored, Running

(* The frames below the level of the search survive when only levels of the   *)
(* search are closed.                                                         *)
LEMMA FramesStay ==
  ASSUME NEW s \in Tracers, NEW u \in Tracers, NEW n \in Int, NEW c \in Int, c <= n,
         Len(u.stack) = n, Len(u.frames) = Len(s.frames) - (Len(s.stack) - n),
         \A k \in 1..Len(u.frames) : u.frames[k] = s.frames[k]
  PROVE  /\ Len(u.frames) - Len(u.stack) = Len(s.frames) - Len(s.stack)
         /\ \A j \in 1..(Len(s.frames) - Len(s.stack) + c) : u.frames[j] = s.frames[j]
<1>1. Len(s.stack) \in Nat /\ Len(s.frames) \in Nat /\ Len(u.frames) \in Nat
  BY Lengths
<1> DEFINE a == Len(s.frames)
           b == Len(s.stack)
           d == Len(u.frames)
<1>2. d = a - (b - n) /\ a \in Nat /\ b \in Nat /\ d \in Nat
  BY <1>1
<1>3. \A j \in 1..d : u.frames[j] = s.frames[j]
  OBVIOUS
<1> HIDE DEF a, b, d
<1>4. d - n = a - b
  BY <1>2
<1>5. \A j \in 1..(a - b + c) : j \in 1..d
  BY <1>2
<1> QED
  BY <1>3, <1>4, <1>5 DEF a, b, d

(* They survive when a level is opened.                                       *)
LEMMA FramesGrow ==
  ASSUME NEW s \in Tracers, NEW u \in Tracers, NEW r \in LevelSet, NEW c \in Int, c <= Len(s.stack),
         Len(u.stack) = Len(s.stack) + 1, u.frames = Append(s.frames, r)
  PROVE  /\ Len(u.frames) - Len(u.stack) = Len(s.frames) - Len(s.stack)
         /\ \A j \in 1..(Len(s.frames) - Len(s.stack) + c) : u.frames[j] = s.frames[j]
<1>1. Len(s.stack) \in Nat /\ Len(s.frames) \in Nat /\ s.frames \in Seq(LevelSet)
  BY Lengths, TracerFields
<1>2. /\ Len(u.frames) = Len(s.frames) + 1
      /\ \A k \in 1..Len(s.frames) : u.frames[k] = s.frames[k]
  BY <1>1, AppendProperties
<1> DEFINE a == Len(s.frames)
           b == Len(s.stack)
<1>3. a \in Nat /\ b \in Nat /\ c <= b
  BY <1>1
<1>4. Len(u.frames) - Len(u.stack) = (a + 1) - (b + 1)
  BY <1>2
<1>5. \A j \in 1..a : u.frames[j] = s.frames[j]
  BY <1>2
<1> HIDE DEF a, b
<1>6. (a + 1) - (b + 1) = a - b
  BY <1>3
<1>7. \A j \in 1..(a - b + c) : j \in 1..a
  BY <1>3
<1> QED
  BY <1>4, <1>5, <1>6, <1>7 DEF a, b

LEMMA AnchoredStep ==
  ASSUME Base, Next
  PROVE  Anchored'
<1>0. Typed /\ Sound /\ Aimed /\ Anchored /\ Typed' /\ Aimed' /\ t \in Tracers /\ t' \in Tracers
  <2>1. Typed' /\ Aimed' /\ Typed
    BY TypedStep, AimedStep DEF Base
  <2>2. t \in Tracers /\ t' \in Tracers
    BY <2>1, RefsNext DEF Typed
  <2> QED
    BY <2>1, <2>2 DEF Base
<1>1. /\ Refs' \in Claims /\ Claimed(Refs', root') /\ root' \in Seq(Nat)
      /\ Len(t.stack) \in Nat /\ Len(root) \in Nat /\ Len(before) \in Nat /\ Len(t.frames) \in Nat
  BY <1>0, RefsNext, Lengths, LenProperties DEF Typed
<1>2. CASE Running
  <2>a. /\ Rooted(t, root, t.stack) /\ Len(root) <= Len(t.stack)
        /\ \A n \in frontier : Rooted(t, root, n.path)
        /\ pc \in {"alt", "fail", "restoring"} => Rooted(t, root, target.path)
    BY <1>0, <1>2, AnchorIs DEF Anchored
  <2>r. ASSUME NEW k \in Int, Holds(t, t', Refs', k), Len(root) <= k, root' = root
        PROVE  Rooted(t', root, t'.stack)
    BY <1>0, <1>1, <2>a, <2>r, StackRooted
  <2>1. ASSUME Settled(t, t', Refs'), root' = root, lvl' = lvl, frontier' \subseteq frontier,
               pc' \in {"alt", "fail", "restoring"} => Rooted(t, root, target'.path),
               pc' = "done" \/ pc' = "leave" => frontier' = {}, pc' # "idle"
        PROVE  Anchored'
    <3>1. Holds(t, t', Refs', Len(t.stack)) /\ t'.stack = t.stack /\ t'.frames = t.frames
      BY <2>1 DEF Settled
    <3>2. Rooted(t', root, t'.stack)
      BY <1>1, <2>1, <2>a, <2>r, <3>1
    <3>3. \A n \in frontier' : Rooted(t, root, n.path)
      BY <2>1, <2>a
    <3> QED
      BY <1>0, <1>2, <2>1, <3>1, <3>2, <3>3, AnchorStays
  <2>2. ASSUME NEW m, NEW c, Posted(t, t', m, t.nodes, c), Refs' = m, root' = root, lvl' = lvl,
               frontier' = frontier, pc' \in {"branching", "alt", "fail"},
               pc' \in {"alt", "fail", "restoring"} => Rooted(t, root, target'.path)
        PROVE  Anchored'
    <3> DEFINE k == Len(t.stack) - 1
    <3>1. /\ Holds(t, t', Refs', k) /\ Len(t'.stack) = Len(t.stack) /\ t'.frames = t.frames
          /\ TopOf(t').node = TopOf(t).node
      BY <2>2 DEF Posted
    <3>2. Rooted(t', root, t'.stack)
      <4>1. k \in Int /\ k = Len(t.stack) - 1 /\ Len(t.stack) > 0 /\ root \in Seq(Nat) /\ Claimed(Refs', root)
        BY <1>0, <1>1, <2>2 DEF Sound
      <4> HIDE DEF k
      <4> QED
        BY <1>0, <1>1, <2>a, <3>1, <4>1, TopRooted
    <3> HIDE DEF k
    <3>3. \A n \in frontier' : Rooted(t, root, n.path)
      BY <2>2, <2>a
    <3> QED
      BY <1>0, <1>2, <2>2, <3>1, <3>2, <3>3, AnchorStays
  <2>3. ASSUME NEW n \in Nat, Len(root) <= n, Holds(t, t', Refs', n), Len(t'.stack) = n,
               Len(t'.frames) = Len(t.frames) - (Len(t.stack) - n),
               \A k \in 1..Len(t'.frames) : t'.frames[k] = t.frames[k],
               root' = root, lvl' = lvl, \A x \in frontier' : Rooted(t, root, x.path),
               pc' = "restoring", Rooted(t, root, target'.path)
        PROVE  Anchored'
    <3>1. /\ Len(t'.frames) - Len(t'.stack) = Len(t.frames) - Len(t.stack)
          /\ \A j \in 1..Anchor : t'.frames[j] = t.frames[j]
      BY <1>0, <1>1, <2>3, FramesStay DEF Anchor
    <3>2. Rooted(t', root, t'.stack)
      BY <2>3, <2>r
    <3> QED
      BY <1>0, <1>2, <2>3, <3>1, <3>2, AnchorStays
  <2>4. ASSUME NEW r \in LevelSet, Holds(t, t', Refs', Len(t.stack)), Len(t'.stack) = Len(t.stack) + 1,
               t'.frames = Append(t.frames, r), root' = root, lvl' = lvl, frontier' = frontier,
               pc' \in {"alt", "restoring"}, Rooted(t, root, target'.path)
        PROVE  Anchored'
    <3>1. /\ Len(t'.frames) - Len(t'.stack) = Len(t.frames) - Len(t.stack)
          /\ \A j \in 1..Anchor : t'.frames[j] = t.frames[j]
      BY <1>0, <1>1, <2>4, <2>a, FramesGrow DEF Anchor
    <3>2. Rooted(t', root, t'.stack)
      BY <1>1, <2>4, <2>a, <2>r
    <3>3. \A n \in frontier' : Rooted(t, root, n.path)
      BY <2>4, <2>a
    <3> QED
      BY <1>0, <1>2, <2>4, <3>1, <3>2, <3>3, AnchorStays
  <2>5. CASE Infer
    <3>1. /\ root' = root /\ lvl' = lvl /\ frontier' = frontier /\ pc' = "branching"
      BY <2>5 DEF Infer, search
    <3>2. Refs' = Refs /\ \E c : Posted(t, t', Refs, t.nodes, c)
      BY <1>0, <2>5, InferMoves
    <3> QED
      BY <2>2, <3>1, <3>2
  <2>6. ASSUME NEW low \in Costs, Post(low) PROVE Anchored'
    <3>1. /\ root' = root /\ lvl' = lvl /\ frontier' = frontier /\ pc = "alt" /\ pc' \in {"alt", "fail"}
          /\ target' = target
      BY <2>6 DEF Post
    <3>2. Refs' = Refs /\ \E c : Posted(t, t', Refs, t.nodes, c)
      BY <1>0, <2>6, PostMoves
    <3> QED
      BY <2>2, <2>a, <3>1, <3>2
  <2>7. CASE Keep
    <3>1. /\ root' = root /\ lvl' = lvl /\ pc' = "restoring" /\ pc = "alt" /\ target' = target
          /\ frontier' = frontier \cup {[path |-> t.stack, depth |-> t.level + 1, at |-> Child,
                                         value |-> IF objective THEN value(t.store) ELSE 0]}
      BY <2>7 DEF Keep, Return
    <3>2. \A x \in frontier' : x \in frontier \/ x.path = t.stack
      BY <3>1
    <3>3. \A x \in frontier' : Rooted(t, root, x.path)
      BY <2>a, <3>2
    <3>4. Captured(t, t', Refs', Len(before)) /\ Len(root) <= Len(before)
      BY <1>0, <2>7, <3>1, KeepMoves, BackIsOpen
    <3> QED
      BY <1>1, <2>3, <2>a, <3>1, <3>3, <3>4 DEF Captured
  <2>8. CASE Fail
    <3>1. /\ root' = root /\ lvl' = lvl /\ pc' = "restoring" /\ pc = "fail" /\ target' = target
          /\ frontier' = frontier
      BY <2>8 DEF Fail, Return, search
    <3>2. Refs' = Refs /\ Unwound(t, t', Refs, t.nodes, Len(before)) /\ Len(root) <= Len(before)
      BY <1>0, <2>8, <3>1, FailMoves, BackIsOpen
    <3> QED
      BY <1>1, <2>3, <2>a, <3>1, <3>2 DEF Unwound
  <2>9. CASE Pick
    <3>1. root' = root /\ lvl' = lvl /\ pc = "pick"
      BY <2>9 DEF Pick
    <3>2. PICK n \in frontier :
             /\ frontier' = frontier \ {n} /\ node' = n.path
             /\ \/ /\ target'.path = n.path /\ pc' = "restoring"
                   /\ \E k \in Nat : Left(t, t', Refs', n.path, k, Len(root))
                \/ UNCHANGED <<pc, target>> /\ Settled(t, t', Refs')
      <4>1. PICK n \in frontier :
               /\ frontier' = frontier \ {n} /\ node' = n.path
               /\ \/ /\ target' = [path |-> n.path, depth |-> n.depth - 1, then |-> "branching"]
                     /\ pc' = "restoring"
                     /\ \E k \in Nat : Left(t, t', Refs', n.path, k, Len(root))
                  \/ UNCHANGED <<pc, target, here>> /\ Settled(t, t', Refs')
        BY <1>0, <2>9, PickMoves
      <4> QED
        BY <4>1
    <3>3. \A x \in frontier' : Rooted(t, root, x.path)
      BY <2>a, <3>2
    <3>4. ASSUME NEW k \in Nat, Left(t, t', Refs', n.path, k, Len(root)), target'.path = n.path, pc' = "restoring"
          PROVE  Anchored'
      <4>1. Rooted(t, root, target'.path)
        BY <2>a, <3>4
      <4>2. /\ Len(root) <= k /\ Holds(t, t', Refs', k) /\ Len(t'.stack) = k
            /\ Len(t'.frames) = Len(t.frames) - (Len(t.stack) - k)
            /\ \A j \in 1..Len(t'.frames) : t'.frames[j] = t.frames[j]
        BY <3>4 DEF Left, Unwound
      <4> QED
        BY <2>3, <3>1, <3>3, <3>4, <4>1, <4>2
    <3>5. ASSUME Settled(t, t', Refs'), UNCHANGED <<pc, target>> PROVE Anchored'
      BY <2>1, <3>1, <3>2, <3>5
    <3> QED
      BY <3>2, <3>4, <3>5
  <2>10. CASE Enter
    <3>1. /\ root' = root /\ lvl' = lvl /\ frontier' = frontier /\ pc' = "alt"
          /\ target' = [path |-> t.stack, depth |-> t.level, then |-> "loop"]
      BY <2>10 DEF Enter
    <3>2. Entered(t, t', Refs')
      BY <1>0, <2>10, EnterMoves
    <3> DEFINE r == [id |-> t.pushes + 1, store |-> t.store]
    <3>3. r \in LevelSet /\ t'.frames = Append(t.frames, r)
      BY <1>0, <3>2, TracerFields DEF Entered, LevelSet
    <3>4. Holds(t, t', Refs', Len(t.stack)) /\ Len(t'.stack) = Len(t.stack) + 1
      BY <3>2 DEF Entered
    <3>5. target'.path = t.stack
      BY <3>1
    <3> HIDE DEF r
    <3> QED
      BY <2>4, <2>a, <3>1, <3>3, <3>4, <3>5
  <2>11. CASE ReplayList
    <3>1. /\ root' = root /\ lvl' = lvl /\ frontier' = frontier /\ pc' = pc /\ pc = "restoring"
          /\ target' = target /\ Restoring /\ t' = Replay(t, target.path)
      BY <2>11 DEF ReplayList, Restoring, search
    <3> DEFINE q == t.lists[target.path[Len(t.stack) + 1]]
    <3>2. q \in ListSet /\ Replayed(t, t', Refs, t.nodes, q)
      BY <1>0, <3>1, ReplayMoves
    <3>3. Refs' = Refs
      BY <2>11 DEF ReplayList, search, Refs
    <3> HIDE DEF q
    <3> DEFINE r == [id |-> q.node, store |-> t.store]
    <3>4. r \in LevelSet /\ t'.frames = Append(t.frames, r)
      BY <1>0, <3>2, TracerFields, ListFields DEF Replayed, LevelSet
    <3>5. Holds(t, t', Refs', Len(t.stack)) /\ Len(t'.stack) = Len(t.stack) + 1
      BY <3>2, <3>3 DEF Replayed
    <3> HIDE DEF r
    <3> QED
      BY <2>4, <2>a, <3>1, <3>4, <3>5
  <2>12. CASE FailRestore
    <3>1. /\ root' = root /\ lvl' = lvl /\ frontier' = frontier /\ pc' \in {"loop", "pick"}
      BY <2>12 DEF FailRestore
    <3>2. Settled(t, t', Refs')
      <4>1. Refs' = Refs /\ Settled(t, t', Refs)
        BY <1>0, <2>12, AbandonMoves
      <4> QED
        BY <4>1
    <3> QED
      BY <2>1, <3>1, <3>2
  <2>13. CASE EndRestore
    <3>1. /\ root' = root /\ lvl' = lvl /\ frontier' = frontier /\ pc' \in {"loop", "branching"}
      BY <1>0, <2>13 DEF EndRestore, Aimed
    <3>2. Settled(t, t', Refs')
      BY <1>0, <2>13, EndMoves
    <3> QED
      BY <2>1, <3>1, <3>2
  <2>14. CASE Stop
    <3>1. root' = root /\ lvl' = lvl /\ frontier' = {} /\ pc' = "leave"
      BY <2>14 DEF Stop
    <3>2. Settled(t, t', Refs')
      BY <1>0, <2>14, StopMoves
    <3> QED
      BY <2>1, <3>1, <3>2
  <2>15. CASE Exhausted
    <3>1. root' = root /\ lvl' = lvl /\ frontier' = frontier /\ frontier = {} /\ pc' = "leave"
      BY <2>15 DEF Exhausted
    <3>2. Settled(t, t', Refs')
      BY <1>0, <2>15, ExhaustedMoves
    <3> QED
      BY <2>1, <3>1, <3>2
  <2>16. CASE Solve
    BY <1>2, <2>16 DEF Solve, Running
  <2>17. CASE End
    <3>1. pc' = "done" /\ frontier' = frontier /\ pc = "leave"
      BY <2>17 DEF End, search
    <3> QED
      BY <1>0, <3>1 DEF Anchored, Running
  <2>18. ASSUME t' = t, root' = root, before' = before, node' = node, frontier' = frontier, lvl' = lvl,
                pc' \in {"loop", "check", "pick", "alt"}, pc' = "alt" => pc = "alt" /\ target' = target
         PROVE  Anchored'
    <3>1. Refs' = Refs
      BY <2>18 DEF Refs
    <3>2. Settled(t, t, Refs)
      BY <1>0, StillMoves
    <3>3. Settled(t, t', Refs')
      BY <2>18, <3>1, <3>2
    <3> QED
      BY <2>1, <2>18, <2>a, <3>3
  <2>19. CASE Leaf \/ ReachLimit \/ Leave \/ Continue
    <3>1. CASE ReachLimit
      BY <2>18, <3>1 DEF ReachLimit, search
    <3>2. CASE Leaf \/ Leave \/ Continue
      BY <2>18, <3>2 DEF Leaf, Leave, Continue, search
    <3> QED
      BY <2>19, <3>1, <3>2
  <2>20. ASSUME NEW n \in 1..MaxBranches, Branch(n) PROVE Anchored'
    BY <2>18, <2>20 DEF Branch
  <2> QED
    BY <2>5, <2>6, <2>7, <2>8, <2>9, <2>10, <2>11, <2>12, <2>13, <2>14, <2>15, <2>16, <2>17, <2>19,
       <2>20 DEF Next
<1>3. CASE ~Running
  <2>1. Solve
    BY <1>3 DEF Next, Running, Solve, Infer, Leaf, Branch, Enter, Post, Keep, Fail, ReachLimit, Leave,
       ReplayList, FailRestore, Restoring, EndRestore, Continue, Stop, Pick, Exhausted, End
  <2>2. /\ root' = t.stack /\ lvl' = t'.pushes /\ pc' = "branching" /\ frontier' = frontier
    BY <2>1 DEF Solve
  <2>3. Started(t, t', Refs')
    BY <1>0, <2>1, SolveMoves
  <2>4. frontier = {} /\ Len(t.stack) > 0
    BY <1>0, <1>3 DEF Anchored, Sound
  <2>5. t'.stack = t.stack
    BY <2>3 DEF Started
  <2>6. Rooted(t', root', t'.stack)
    BY <1>1, <2>2, <2>5 DEF Rooted
  <2>7. Anchor' >= 1 /\ t'.frames[Anchor'].id = lvl'
    <3>1. Anchor' = Len(t'.frames) - Len(t'.stack) + Len(root')
      BY DEF Anchor
    <3>2. Len(t'.frames) = Len(t.frames) + 1 /\ t'.frames[Len(t.frames) + 1].id = t'.pushes
      BY <2>3 DEF Started
    <3>3. Len(t'.stack) = Len(t.stack) /\ Len(root') = Len(t.stack)
      BY <2>2, <2>5
    <3>4. Anchor' = Len(t.frames) + 1
      BY <1>1, <3>1, <3>2, <3>3
    <3> QED
      BY <1>1, <2>2, <3>2, <3>4
  <2> QED
    BY <2>2, <2>4, <2>6, <2>7 DEF Anchored, Running
<1> QED
  BY <1>2, <1>3

--------------------------------------------------------------------------------
Unclaimed(m) == \A l \in Nat : m[l] = 0

(* The Tracer as it is made: one list, which nobody else refers to.           *)
LEMMA NewTracerSane ==
  ASSUME NEW m \in Claims, Unclaimed(m), NEW id \in Int, NEW u, u = NewTracer(id)
  PROVE  /\ Sane(u, m, u.nodes) /\ Len(u.stack) = 1
         /\ u.nodes = id + 1 /\ u.store = {} /\ u.frames = <<>> /\ u.pushes = 0
<1> DEFINE e == <<>>
           S == {}
           v == [lists |-> e, pool |-> e, stack |-> e, nodes |-> id + 1, level |-> 1,
                 frames |-> e, pushes |-> 0, store |-> S]
<1>1. /\ e \in Seq(ListSet) /\ e \in Seq(Nat) /\ e \in Seq(LevelSet) /\ Len(e) = 0
      /\ S \in Stores
  <2>1. IsFiniteSet({})
    BY FS_EmptySet
  <2> QED
    BY <2>1, EmptySeq DEF Stores
<1>2. id \in Int /\ PoolSize \in Nat
  BY BFSearchAssumption
<1>3. u = pushList(v, id)
  BY DEF NewTracer
<1> HIDE DEF e, S
<1>5. v \in Tracers
  BY <1>1, <1>2 DEF Tracers
<1>6. /\ v.lists = e /\ v.pool = e /\ v.stack = e /\ v.nodes = id + 1 /\ v.frames = e
      /\ v.pushes = 0 /\ v.store = S
  OBVIOUS
<1> HIDE DEF v
<1>7. Sane(v, m, id)
  <2>1. StackOK(v)
    BY <1>1, <1>6 DEF StackOK, Once
  <2>2. PoolOK(v)
    BY <1>1, <1>2, <1>6 DEF PoolOK, Once
  <2>3. RefsOK(v, m, id)
    BY <1>1, <1>6 DEF RefsOK, Unclaimed
  <2>4. Iced(v, m)
    BY DEF Iced, Unclaimed
  <2> QED
    BY <1>5, <2>1, <2>2, <2>3, <2>4 DEF Sane, Counted
<1>8. id + 1 \in Int /\ id <= id + 1 /\ id < id + 1
  BY <1>2
<1>9. Sane(u, m, id + 1) /\ Calm(v, u) /\ Len(u.stack) = Len(v.stack) + 1
  <2> DEFINE M == id + 1
             i == id
  <2>1. i \in Int /\ M \in Int /\ i <= M /\ i < M
    BY <1>2, <1>8
  <2>2. u = pushList(v, i) /\ Sane(v, m, i)
    BY <1>3, <1>7
  <2> HIDE DEF M, i
  <2>3. Sane(u, m, M) /\ Calm(v, u) /\ Len(u.stack) = Len(v.stack) + 1
    BY <2>1, <2>2, PushListSane
  <2> QED
    BY <2>3 DEF M
<1>10. u.nodes = id + 1 /\ u.store = S /\ u.frames = e /\ u.pushes = 0
  BY <1>6, <1>9 DEF Calm
<1>11. Len(u.stack) = 1
  BY <1>1, <1>6, <1>9
<1>12. u.store = {} /\ u.frames = <<>>
  BY <1>10 DEF e, S
<1> QED
  BY <1>9, <1>10, <1>11, <1>12

(* They hold at the start, and while nothing changes.                         *)
LEMMA BaseStarts ==
  ASSUME Init
  PROVE  Base
<1> DEFINE m == [l \in Nat |-> 0]
<1>1. /\ m \in Claims /\ Sane(t, m, t.nodes) /\ Len(t.stack) = 1
  <2>1. m \in Claims /\ Unclaimed(m)
    BY DEF Claims, Unclaimed
  <2>2. PICK id \in Int : t = NewTracer(id)
    BY BFSearchAssumption DEF Init
  <2> HIDE DEF m
  <2> QED
    BY <2>1, <2>2, NewTracerSane
<1>2. IsFiniteSet({}) /\ <<>> \in Seq(Nat) /\ Once(<<>>) /\ Len(<<>>) = 0
  BY FS_EmptySet, EmptySeq DEF Once
<1>3. Typed
  <2>1. NoTarget \in [path : Seq(Nat), depth : Int, then : {"none", "loop", "branching"}]
    BY NoTargetIs DEF Targets
  <2>2. NoTurn \in [cur : Nat, total : Nat, posted : Nat]
    BY LoopsAre DEF Loops
  <2>3. /\ pc = "idle" /\ root = <<>> /\ before = <<>> /\ frontier = {} /\ node = <<>>
        /\ target = NoTarget /\ turn = NoTurn /\ objective \in Objectives
        /\ primal = NoPrimal /\ dual = 0 /\ here = <<>>
    BY DEF Init
  <2>4. objective \in BOOLEAN /\ dual \in Costs
    BY <2>3, BFSearchAssumption
  <2>5. t \in Tracers
    BY <1>1 DEF Sane
  <2> QED
    BY <1>2, <2>1, <2>2, <2>3, <2>4, <2>5 DEF Typed
<1>4. Sound
  <2> DEFINE e == <<>>
             x == {}
  <2>1. Refs = Total(e, e, e, x)
    BY DEF Init, Refs
  <2>2. \A l : On(e, l) = 0
    BY <1>2, OnIs
  <2>3. IsFiniteSet(x) /\ \A l : Waiting(x, l) = 0
    <3>1. Cardinality({}) = 0
      BY FS_EmptySet
    <3>2. \A l : {n \in {} : On(n.path, l) = 1} = {}
      OBVIOUS
    <3> QED
      BY <1>2, <3>1, <3>2 DEF Waiting
  <2> HIDE DEF e, x
  <2>4. \A l \in Nat : On(e, l) + On(e, l) + On(e, l) + Waiting(x, l) = 0
    BY <2>2, <2>3
  <2>5. Refs = m
    BY <2>1, <2>4 DEF Total
  <2> QED
    BY <1>1, <2>5 DEF Sound
<1>5. Aimed
  <2>1. pc = "idle" /\ target.path = <<>>
    BY NoTargetIs DEF Init
  <2> QED
    BY <2>1 DEF Aimed
<1>6. Anchored
  BY DEF Init, Anchored, Running
<1> QED
  BY <1>3, <1>4, <1>5, <1>6 DEF Base

LEMMA BaseStays ==
  ASSUME Base, UNCHANGED vars
  PROVE  Base'
<1>1. UNCHANGED <<pc, t, root, before, frontier, node, turn, lvl, target, objective, primal, dual, here>>
  BY DEF vars, search, options, bounds, ghosts
<1>2. Typed' /\ Aimed'
  BY <1>1 DEF Base, Typed, Aimed
<1>3. Sound'
  BY <1>1 DEF Base, Sound, Refs
<1>4. Anchored'
  BY <1>1 DEF Base, Anchored, Anchor, Running
<1> QED
  BY <1>2, <1>3, <1>4 DEF Base

(* Always: the tracer and the claims on its lists are sound, a restore goes   *)
(* where it should, and the level of the search is open.                      *)
THEOREM BaseAlways ==
  Spec => []Base
<1>1. Init => Base
  BY BaseStarts
<1>2. Base /\ [Next]_vars => Base'
  <2> SUFFICES ASSUME Base, [Next]_vars PROVE Base'
    OBVIOUS
  <2>1. CASE Next
    BY <2>1, SoundStep, TypedStep, AimedStep, AnchoredStep DEF Base
  <2>2. CASE UNCHANGED vars
    BY <2>2, BaseStays
  <2> QED
    BY <2>1, <2>2
<1> QED
  BY <1>1, <1>2, PTL DEF Spec

(* The state of a search is well formed: the counts and nodes of its lists,   *)
(* the lists the stack, the pool and the checkpoints name, the size of the    *)
(* pool, and its bounds.                                                      *)
THEOREM TypesAlways ==
  Spec => []TypeOK
<1>1. Base => TypeOK
  <2> SUFFICES ASSUME Base PROVE TypeOK
    OBVIOUS
  <2>1. Typed /\ Sound /\ Aimed
    BY DEF Base
  <2>2. Sane(t, Refs, t.nodes) /\ t \in Tracers /\ Refs \in Claims
    BY <2>1, RefsAre DEF Sound, Sane
  <2>3. DOMAIN t.lists = 1..Len(t.lists)
    BY <2>2, Lengths
  <2>4. \A l \in DOMAIN t.lists : t.lists[l].refs \in Nat /\ t.lists[l].node \in Int
    BY <2>2, <2>3, ListOf, ListFields
  <2>5. Range(t.stack) \cup Range(t.pool) \subseteq DOMAIN t.lists
    <3>1. DOMAIN t.stack = 1..Len(t.stack) /\ DOMAIN t.pool = 1..Len(t.pool)
      BY <2>2, TracerFields, LenProperties
    <3> QED
      BY <2>2, <2>3, <3>1 DEF Range, Sane, Counted, StackOK, PoolOK
  <2>6. Len(t.pool) <= PoolSize
    BY <2>2 DEF Sane, Counted, PoolOK
  <2>7. ASSUME NEW p \in Seq(Nat), Claimed(Refs, p) PROVE Range(p) \subseteq DOMAIN t.lists
    <3>1. DOMAIN p = 1..Len(p)
      BY LenProperties
    <3>2. t.nodes \in Int
      BY <2>2, TracerFields
    <3>3. \A i \in 1..Len(p) : p[i] \in 1..Len(t.lists)
      BY <2>2, <2>7, <3>2, ClaimedNode
    <3> QED
      BY <2>3, <3>1, <3>3 DEF Range
  <2>8. \A p \in Checkpoints : (p \in Seq(Nat) /\ Claimed(Refs, p)) \/ p = <<>>
    <3>1. target.path = before \/ target.path = node \/ target.path = <<>>
      BY <2>1 DEF Aimed, Typed
    <3>2. \A n \in frontier : n.path \in Seq(Nat)
      BY <2>1 DEF Typed, Nodes
    <3> QED
      BY <2>1, <3>1, <3>2, RefsAre DEF Checkpoints, Typed
  <2>9. Range(<<>>) = {}
    BY DEF Range
  <2> QED
    BY <2>1, <2>4, <2>5, <2>6, <2>7, <2>8, <2>9 DEF TypeOK, Typed
<1> QED
  BY <1>1, BaseAlways, PTL

(* After an alternative, however it ended, the search is back at the          *)
(* checkpoint it took before it: the restore has nothing to post.             *)
THEOREM WayBackAlways ==
  Spec => []WayBackOpen
<1>1. Base => WayBackOpen
  BY DEF Base, Aimed, WayBackOpen
<1> QED
  BY <1>1, BaseAlways, PTL

(* Without repetition, occurrences are membership.                            *)
LEMMA TimesIs ==
  ASSUME NEW p \in Seq(Nat), Once(p), NEW l
  PROVE  Times(p, l) = On(p, l) /\ (l \in Range(p) <=> On(p, l) = 1)
<1> DEFINE S == {i \in DOMAIN p : p[i] = l}
<1>1. DOMAIN p = 1..Len(p)
  BY LenProperties
<1>2. Times(p, l) = Cardinality(S)
  BY DEF Times
<1>3. l \in Range(p) <=> S # {}
  BY DEF Range
<1>4. On(p, l) = IF S = {} THEN 0 ELSE 1
  BY <1>1, OnIs
<1>5. CASE S = {}
  <2>1. Cardinality(S) = 0
    BY <1>5, FS_EmptySet
  <2> QED
    BY <1>2, <1>3, <1>4, <1>5, <2>1
<1>6. CASE S # {}
  <2>1. PICK i : i \in S
    BY <1>6
  <2>2. S = {i}
    BY <1>1, <2>1 DEF Once
  <2>3. Cardinality(S) = 1
    BY <2>2, FS_Singleton
  <2> QED
    BY <1>2, <1>3, <1>4, <1>6, <2>3
<1> QED
  BY <1>5, <1>6

(* What CountsCover counts is the stack and the claims.                       *)
LEMMA MentionsAre ==
  ASSUME Base, NEW l \in Nat
  PROVE  Mentions(l) = On(t.stack, l) + Refs[l]
<1>1. Typed /\ Sound
  BY DEF Base
<1>2. Times(t.stack, l) = On(t.stack, l)
  BY <1>1, StackIs, TimesIs
<1>3. Times(root, l) = On(root, l) /\ Times(before, l) = On(before, l) /\ Times(node, l) = On(node, l)
  BY <1>1, TimesIs DEF Typed
<1>4. Cardinality({n \in frontier : l \in Range(n.path)}) = Waiting(frontier, l)
  <2>1. \A n \in frontier : n.path \in Seq(Nat) /\ Once(n.path)
    BY <1>1 DEF Typed, Nodes
  <2>2. \A n \in frontier : l \in Range(n.path) <=> On(n.path, l) = 1
    BY <2>1, TimesIs
  <2>3. {n \in frontier : l \in Range(n.path)} = {n \in frontier : On(n.path, l) = 1}
    BY <2>2
  <2> QED
    BY <2>3 DEF Waiting
<1>5. Mentions(l) = Times(t.stack, l) + Times(root, l) + Times(before, l) + Times(node, l)
                    + Cardinality({n \in frontier : l \in Range(n.path)})
  BY DEF Mentions
<1> DEFINE a == On(t.stack, l)
           b == On(root, l)
           c == On(before, l)
           d == On(node, l)
           w == Waiting(frontier, l)
<1>6. a \in Nat /\ b \in Nat /\ c \in Nat /\ d \in Nat /\ w \in Nat
  BY <1>1, OnIs, WaitingIs DEF Typed
<1>7. Refs[l] = b + c + d + w
  BY DEF Refs, Total
<1>8. Mentions(l) = a + b + c + d + w
  BY <1>2, <1>3, <1>4, <1>5
<1> HIDE DEF a, b, c, d, w
<1>9. Mentions(l) = a + Refs[l]
  BY <1>6, <1>7, <1>8
<1> QED
  BY <1>9 DEF a

(* A list that the stack, a checkpoint or a node of the frontier refers to is *)
(* counted once for each of them, so that it never goes to the pool while it  *)
(* is referred to, and the pool never holds one twice.                        *)
THEOREM CountsAlways ==
  Spec => []CountsCover
<1>1. Base /\ TypeOK => CountsCover
  <2> SUFFICES ASSUME Base, TypeOK PROVE CountsCover
    OBVIOUS
  <2>1. t \in Tracers /\ Counted(t, Refs, t.nodes)
    BY DEF Base, Sound, Sane
  <2>2. DOMAIN t.lists = 1..Len(t.lists) /\ DOMAIN t.pool = 1..Len(t.pool)
    BY <2>1, Lengths, TracerFields, LenProperties
  <2>3. ASSUME NEW l \in DOMAIN t.lists PROVE Mentions(l) <= t.lists[l].refs
    <3>1. l \in Nat /\ l \in 1..Len(t.lists)
      BY <2>1, <2>2, <2>3, Lengths
    <3>2. Mentions(l) = On(t.stack, l) + Refs[l]
      BY <3>1, MentionsAre
    <3>3. On(t.stack, l) + Refs[l] <= t.lists[l].refs
      BY <2>1, <3>1 DEF Counted, RefsOK
    <3> QED
      BY <3>2, <3>3
  <2>4. \A i \in DOMAIN t.pool : t.lists[t.pool[i]].refs = 0
    BY <2>1, <2>2 DEF Counted, PoolOK
  <2>5. IsInjective(t.pool)
    BY <2>1, <2>2 DEF Counted, PoolOK, Once, IsInjective
  <2> QED
    BY <2>3, <2>4, <2>5 DEF CountsCover
<1> QED
  BY <1>1, BaseAlways, TypesAlways, PTL

--------------------------------------------------------------------------------

(* What a list holds, and how two paths of lists compare: they go along each  *)
(* other as far as their nodes are the same, they are alike if above the      *)
(* height b what goes along also holds the same, and p is apart from q unless *)
(* q starts with the nodes of p.                                              *)
Cont(s, l) == Range(s.lists[l].head)
Along(s, p, q, i) == /\ i <= Len(p) /\ i <= Len(q)
                     /\ \A j \in 1..i : s.lists[p[j]].node = s.lists[q[j]].node
Alike(s, b, p, q) == \A i \in Nat \ {0} : i > b /\ Along(s, p, q, i) => Cont(s, p[i]) = Cont(s, q[i])
Apart(s, p, q) == ~Along(s, p, q, Len(p))

(* In u the path q looks as p does in s, up to the height k.                  *)
Looks(s, b, p, u, q, k) == \A i \in 1..k : /\ u.lists[q[i]].node = s.lists[p[i]].node
                                           /\ i > b => Cont(u, q[i]) = Cont(s, p[i])

(* What two stacks share, they share after both were moved alike.             *)
LEMMA AlongCarries ==
  ASSUME NEW s, NEW u, NEW b, NEW p, NEW q, NEW x, NEW y,
         Len(p) \in Nat, Len(q) \in Nat, Len(x) \in Nat, Len(y) \in Nat,
         Len(x) <= Len(p), Len(y) <= Len(q),
         Looks(s, b, p, u, x, Len(x)), Looks(s, b, q, u, y, Len(y))
  PROVE  /\ \A i \in Nat : Along(u, x, y, i) => Along(s, p, q, i)
         /\ \A i \in Nat : i <= Len(x) /\ i <= Len(y) /\ Along(s, p, q, i) => Along(u, x, y, i)
         /\ Alike(s, b, p, q) => Alike(u, b, x, y)
         /\ Len(x) = Len(p) /\ Apart(s, p, q) => Apart(u, x, y)
<1>1. \A i \in 1..Len(x) : u.lists[x[i]].node = s.lists[p[i]].node
  BY DEF Looks
<1>2. \A i \in 1..Len(y) : u.lists[y[i]].node = s.lists[q[i]].node
  BY DEF Looks
<1>3. ASSUME NEW i \in Nat, Along(u, x, y, i) PROVE Along(s, p, q, i)
  <2>1. i <= Len(x) /\ i <= Len(y) /\ \A j \in 1..i : u.lists[x[j]].node = u.lists[y[j]].node
    BY <1>3 DEF Along
  <2>2. i <= Len(p) /\ i <= Len(q)
    BY <2>1
  <2>3. \A j \in 1..i : j \in 1..Len(x) /\ j \in 1..Len(y)
    BY <2>1
  <2> QED
    BY <1>1, <1>2, <2>1, <2>2, <2>3 DEF Along
<1>4. ASSUME NEW i \in Nat, i <= Len(x), i <= Len(y), Along(s, p, q, i) PROVE Along(u, x, y, i)
  <2>1. \A j \in 1..i : j \in 1..Len(x) /\ j \in 1..Len(y)
    BY <1>4
  <2> QED
    BY <1>1, <1>2, <1>4, <2>1 DEF Along
<1>5. ASSUME Alike(s, b, p, q), NEW i \in Nat \ {0}, i > b, Along(u, x, y, i)
      PROVE  Cont(u, x[i]) = Cont(u, y[i])
  <2>1. Along(s, p, q, i)
    BY <1>3, <1>5
  <2>2. Cont(s, p[i]) = Cont(s, q[i])
    BY <1>5, <2>1 DEF Alike
  <2>3. i \in 1..Len(x) /\ i \in 1..Len(y)
    BY <1>5 DEF Along
  <2> QED
    BY <1>5, <2>2, <2>3 DEF Looks
<1>6. ASSUME Len(x) = Len(p), Apart(s, p, q) PROVE Apart(u, x, y)
  BY <1>3, <1>6 DEF Apart
<1> QED
  BY <1>3, <1>4, <1>5, <1>6 DEF Alike

LEMMA AlikeBoth ==
  ASSUME NEW s, NEW b, NEW p, NEW q
  PROVE  /\ Alike(s, b, p, p) /\ (Alike(s, b, p, q) => Alike(s, b, q, p))
         /\ \A i : Along(s, p, q, i) => Along(s, q, p, i)
  BY DEF Alike, Along

(* A claimed path looks the same afterwards; so does what is left of the      *)
(* stack.                                                                     *)
LEMMA PathLooks ==
  ASSUME NEW s, NEW u, NEW m \in Claims, NEW k, Holds(s, u, m, k),
         NEW b, NEW p \in Seq(Nat), Claimed(m, p)
  PROVE  Looks(s, b, p, u, p, Len(p))
<1> SUFFICES ASSUME NEW i \in 1..Len(p)
             PROVE  /\ u.lists[p[i]].node = s.lists[p[i]].node
                    /\ i > b => Cont(u, p[i]) = Cont(s, p[i])
  BY DEF Looks
<1>1. p[i] \in Nat /\ m[p[i]] > 0
  BY ElementOfSeq DEF Claimed
<1>2. Kept(s, u, p[i])
  BY <1>1 DEF Holds
<1> QED
  BY <1>2 DEF Kept, Cont

(* A stack whose lists are held looks as it did.                              *)
LEMMA StackLooks ==
  ASSUME NEW s, NEW u, NEW m, NEW k \in Nat, Holds(s, u, m, k), NEW b
  PROVE  Looks(s, b, s.stack, u, u.stack, k)
<1> SUFFICES ASSUME NEW i \in 1..k
             PROVE  /\ u.lists[u.stack[i]].node = s.lists[s.stack[i]].node
                    /\ i > b => Cont(u, u.stack[i]) = Cont(s, s.stack[i])
  BY DEF Looks
<1>1. u.stack[i] = s.stack[i] /\ Kept(s, u, s.stack[i])
  BY DEF Holds
<1> QED
  BY <1>1 DEF Kept, Cont

(* The stack as it was, captured.                                             *)
LEMMA TakenLooks ==
  ASSUME NEW s, NEW u, NEW m, NEW k, Holds(s, u, m, k), NEW b, k = Len(s.stack)
  PROVE  Looks(s, b, s.stack, u, s.stack, Len(s.stack))
<1> SUFFICES ASSUME NEW i \in 1..Len(s.stack)
             PROVE  /\ u.lists[s.stack[i]].node = s.lists[s.stack[i]].node
                    /\ i > b => Cont(u, s.stack[i]) = Cont(s, s.stack[i])
  BY DEF Looks
<1>1. Kept(s, u, s.stack[i])
  BY DEF Holds
<1> QED
  BY <1>1 DEF Kept, Cont

(* After a post only the list on top of the stack may hold something else,    *)
(* and nothing goes along with it that high.                                  *)
LEMMA TopCarries ==
  ASSUME NEW s \in Tracers, NEW u \in Tracers, NEW m \in Claims, NEW k \in Int, k = Len(s.stack) - 1,
         Holds(s, u, m, k), Len(s.stack) > 0, Len(u.stack) = Len(s.stack), TopOf(u).node = TopOf(s).node,
         NEW b, NEW p \in Seq(Nat), Claimed(m, p), Apart(s, s.stack, p)
  PROVE  /\ Apart(u, u.stack, p)
         /\ Apart(s, p, s.stack) => Apart(u, p, u.stack)
         /\ Alike(s, b, p, s.stack) => Alike(u, b, p, u.stack)
<1>1. Len(s.stack) \in Nat /\ Len(u.stack) \in Nat /\ Len(p) \in Nat
  BY Lengths, LenProperties
<1>2. \A i \in 1..Len(p) : /\ u.lists[p[i]].node = s.lists[p[i]].node
                           /\ i > b => Cont(u, p[i]) = Cont(s, p[i])
  <2>1. Looks(s, b, p, u, p, Len(p))
    BY PathLooks
  <2> QED
    BY <2>1 DEF Looks
<1>3. \A i \in 1..k : /\ u.lists[u.stack[i]].node = s.lists[s.stack[i]].node
                      /\ i > b => Cont(u, u.stack[i]) = Cont(s, s.stack[i])
  <2>1. k \in Nat
    BY <1>1
  <2> QED
    BY <2>1, StackLooks DEF Looks
<1>4. Last(u.stack) = u.stack[Len(s.stack)] /\ Last(s.stack) = s.stack[Len(s.stack)]
  BY DEF Last
<1>5. ASSUME NEW i \in 1..Len(s.stack)
      PROVE  u.lists[u.stack[i]].node = s.lists[s.stack[i]].node
  <2>1. CASE i = Len(s.stack)
    BY <1>4, <2>1 DEF TopOf
  <2>2. CASE i # Len(s.stack)
    <3>1. i \in 1..k
      BY <1>1, <2>2
    <3> QED
      BY <1>3, <3>1
  <2> QED
    BY <2>1, <2>2
<1>6. ASSUME NEW i \in Nat, Along(u, p, u.stack, i) PROVE Along(s, p, s.stack, i)
  <2>1. i <= Len(p) /\ i <= Len(s.stack) /\ \A j \in 1..i : u.lists[p[j]].node = u.lists[u.stack[j]].node
    BY <1>6 DEF Along
  <2>2. \A j \in 1..i : j \in 1..Len(p) /\ j \in 1..Len(s.stack)
    BY <1>1, <2>1
  <2> QED
    BY <1>2, <1>5, <2>1, <2>2 DEF Along
<1>7. \A i \in Nat : Along(u, u.stack, p, i) => Along(s, s.stack, p, i)
  BY <1>6, AlikeBoth
<1>8. Apart(u, u.stack, p)
  BY <1>1, <1>7 DEF Apart
<1>9. Apart(s, p, s.stack) => Apart(u, p, u.stack)
  BY <1>1, <1>6 DEF Apart
<1>10. ASSUME Alike(s, b, p, s.stack), NEW i \in Nat \ {0}, i > b, Along(u, p, u.stack, i)
       PROVE  Cont(u, p[i]) = Cont(u, u.stack[i])
  <2>1. Along(s, p, s.stack, i)
    BY <1>6, <1>10
  <2>2. i # Len(s.stack)
    BY <2>1, AlikeBoth DEF Apart
  <2>3. i \in 1..k /\ i \in 1..Len(p)
    BY <1>1, <1>10, <2>1, <2>2 DEF Along
  <2>4. Cont(s, p[i]) = Cont(s, s.stack[i])
    BY <1>10, <2>1 DEF Alike
  <2> QED
    BY <1>2, <1>3, <1>10, <2>3, <2>4
<1> QED
  BY <1>8, <1>9, <1>10 DEF Alike

(* A list with a node of its own comes on top of the stack.                   *)
LEMMA FreshCarries ==
  ASSUME NEW s \in Tracers, NEW u \in Tracers, NEW m \in Claims, NEW k, k = Len(s.stack),
         Holds(s, u, m, k), Len(u.stack) = Len(s.stack) + 1,
         NEW b, NEW p \in Seq(Nat), Claimed(m, p),
         \A i \in 1..Len(p) : s.lists[p[i]].node # TopOf(u).node
  PROVE  /\ Apart(u, u.stack, p)
         /\ Apart(s, p, s.stack) => Apart(u, p, u.stack)
         /\ Alike(s, b, p, s.stack) => Alike(u, b, p, u.stack)
<1>1. Len(s.stack) \in Nat /\ Len(u.stack) \in Nat /\ Len(p) \in Nat
  BY Lengths, LenProperties
<1>2. \A i \in 1..Len(p) : /\ u.lists[p[i]].node = s.lists[p[i]].node
                           /\ i > b => Cont(u, p[i]) = Cont(s, p[i])
  <2>1. Looks(s, b, p, u, p, Len(p))
    BY PathLooks
  <2> QED
    BY <2>1 DEF Looks
<1>3. \A i \in 1..Len(s.stack) : /\ u.lists[u.stack[i]].node = s.lists[s.stack[i]].node
                                 /\ i > b => Cont(u, u.stack[i]) = Cont(s, s.stack[i])
  <2>1. k \in Nat
    BY <1>1
  <2> QED
    BY <2>1, StackLooks DEF Looks
<1>4. Last(u.stack) = u.stack[Len(s.stack) + 1]
  BY DEF Last
<1>5. ASSUME NEW i \in Nat, Along(u, p, u.stack, i) PROVE i <= Len(s.stack) /\ Along(s, p, s.stack, i)
  <2>1. i <= Len(p) /\ i <= Len(s.stack) + 1 /\ \A j \in 1..i : u.lists[p[j]].node = u.lists[u.stack[j]].node
    BY <1>5 DEF Along
  <2>2. i # Len(s.stack) + 1
    <3> SUFFICES ASSUME i = Len(s.stack) + 1 PROVE FALSE
      OBVIOUS
    <3>1. i \in 1..i /\ i \in 1..Len(p)
      BY <1>1, <2>1
    <3>2. u.lists[p[i]].node = TopOf(u).node
      BY <1>4, <2>1, <3>1 DEF TopOf
    <3> QED
      BY <1>2, <3>1, <3>2
  <2>3. i <= Len(s.stack)
    BY <1>1, <2>1, <2>2
  <2>4. \A j \in 1..i : j \in 1..Len(p) /\ j \in 1..Len(s.stack)
    BY <1>1, <2>1, <2>3
  <2> QED
    BY <1>2, <1>3, <2>1, <2>3, <2>4 DEF Along
<1>8. Apart(u, u.stack, p)
  <2> SUFFICES ASSUME Along(u, u.stack, p, Len(u.stack)) PROVE FALSE
    BY DEF Apart
  <2>1. Along(u, p, u.stack, Len(u.stack))
    BY AlikeBoth
  <2> QED
    BY <1>1, <1>5, <2>1
<1>9. Apart(s, p, s.stack) => Apart(u, p, u.stack)
  BY <1>1, <1>5 DEF Apart
<1>10. ASSUME Alike(s, b, p, s.stack), NEW i \in Nat \ {0}, i > b, Along(u, p, u.stack, i)
       PROVE  Cont(u, p[i]) = Cont(u, u.stack[i])
  <2>1. Along(s, p, s.stack, i) /\ i <= Len(s.stack)
    BY <1>5, <1>10
  <2>3. i \in 1..Len(s.stack) /\ i \in 1..Len(p)
    BY <1>1, <1>10, <2>1 DEF Along
  <2>4. Cont(s, p[i]) = Cont(s, s.stack[i])
    BY <1>10, <2>1 DEF Alike
  <2> QED
    BY <1>2, <1>3, <1>10, <2>3, <2>4
<1> QED
  BY <1>8, <1>9, <1>10 DEF Alike

(* A list replayed: the stack looks as the path does one list further up.     *)
LEMMA ReplayLooks ==
  ASSUME NEW s \in Tracers, NEW u \in Tracers, NEW m, NEW k, k = Len(s.stack), Holds(s, u, m, k),
         Len(u.stack) = Len(s.stack) + 1, NEW b, NEW p \in Seq(Nat), Len(s.stack) < Len(p),
         Along(s, s.stack, p, Len(s.stack)), Alike(s, b, s.stack, p),
         TopOf(u).node = s.lists[p[Len(s.stack) + 1]].node,
         Range(TopOf(u).head) = Cont(s, p[Len(s.stack) + 1])
  PROVE  Looks(s, b, p, u, u.stack, Len(u.stack))
<1>1. Len(s.stack) \in Nat /\ Len(u.stack) \in Nat /\ Len(p) \in Nat
  BY Lengths, LenProperties
<1>2. Last(u.stack) = u.stack[Len(s.stack) + 1]
  BY DEF Last
<1>3. Looks(s, b, s.stack, u, u.stack, k)
  BY <1>1, StackLooks
<1> SUFFICES ASSUME NEW i \in 1..Len(u.stack)
             PROVE  /\ u.lists[u.stack[i]].node = s.lists[p[i]].node
                    /\ i > b => Cont(u, u.stack[i]) = Cont(s, p[i])
  BY DEF Looks
<1>4. CASE i = Len(s.stack) + 1
  BY <1>2, <1>4 DEF TopOf, Cont
<1>5. CASE i # Len(s.stack) + 1
  <2>1. i \in 1..Len(s.stack) /\ i \in Nat \ {0}
    BY <1>1, <1>5
  <2>2. /\ u.lists[u.stack[i]].node = s.lists[s.stack[i]].node
        /\ i > b => Cont(u, u.stack[i]) = Cont(s, s.stack[i])
    BY <1>3, <2>1 DEF Looks
  <2>3. s.lists[s.stack[i]].node = s.lists[p[i]].node
    BY <2>1 DEF Along
  <2>4. Along(s, s.stack, p, i)
    <3>1. i <= Len(s.stack) /\ i <= Len(p) /\ \A j \in 1..i : j \in 1..Len(s.stack)
      BY <1>1, <2>1
    <3> QED
      BY <3>1 DEF Along
  <2>5. i > b => Cont(s, s.stack[i]) = Cont(s, p[i])
    BY <2>1, <2>4 DEF Alike
  <2> QED
    BY <2>2, <2>3, <2>5
<1> QED
  BY <1>4, <1>5

(* The first lists of a path are along it.                                    *)
LEMMA StartAlong ==
  ASSUME NEW s, NEW b, NEW p, NEW q, Len(p) \in Nat, Len(q) \in Nat, Len(p) <= Len(q),
         \A i \in 1..Len(p) : q[i] = p[i]
  PROVE  Along(s, p, q, Len(p)) /\ Alike(s, b, p, q) /\ (Len(p) < Len(q) => Apart(s, q, p))
<1>1. Along(s, p, q, Len(p))
  BY DEF Along
<1>2. Alike(s, b, p, q)
  <2> SUFFICES ASSUME NEW i \in Nat \ {0}, Along(s, p, q, i) PROVE Cont(s, p[i]) = Cont(s, q[i])
    BY DEF Alike
  <2>1. i \in 1..Len(p)
    BY DEF Along
  <2> QED
    BY <2>1
<1>3. Len(p) < Len(q) => Apart(s, q, p)
  BY DEF Apart, Along
<1> QED
  BY <1>1, <1>2, <1>3

--------------------------------------------------------------------------------
(* Two paths the search may still use hold the same constraints as far as     *)
(* they go along each other, and no node of the frontier lies on the way to   *)
(* another, to the node at hand or to the one the search is on its way to.    *)
Active == pc \in {"alt", "fail", "restoring"}

Mirrored ==
    /\ \A n, m \in frontier : /\ Alike(t, Len(root), n.path, m.path)
                              /\ n # m => Apart(t, n.path, m.path)
    /\ \A n \in frontier : Alike(t, Len(root), n.path, t.stack) /\ Apart(t, n.path, t.stack)
    /\ Active => \A n \in frontier : /\ Alike(t, Len(root), n.path, target.path)
                                     /\ Apart(t, n.path, target.path)
    /\ pc \in {"branching", "alt", "fail"} => \A n \in frontier : Apart(t, t.stack, n.path)
    /\ pc = "restoring" =>
          /\ target.then = "branching" => \A n \in frontier : Apart(t, target.path, n.path)
          /\ Along(t, t.stack, target.path, Len(t.stack))
          /\ Alike(t, Len(root), t.stack, target.path)

(* Levels are closed, or none is: every path but those that are let go looks  *)
(* as before, and so does what is left of the stack.                          *)
Reduced(n, m) == /\ n \in Nat /\ n <= Len(t.stack) /\ Len(t'.stack) = n /\ Holds(t, t', m, n)

LEMMA ReducedCarries ==
  ASSUME t \in Tracers, t' \in Tracers, NEW m \in Claims, NEW k, Reduced(k, m), NEW b,
         NEW p \in Seq(Nat), Claimed(m, p)
  PROVE  /\ Alike(t, b, p, t.stack) => Alike(t', b, p, t'.stack)
         /\ Apart(t, p, t.stack) => Apart(t', p, t'.stack)
         /\ k = Len(t.stack) /\ Apart(t, t.stack, p) => Apart(t', t'.stack, p)
         /\ \A i \in Nat : i <= k /\ Along(t, t.stack, p, i) => Along(t', t'.stack, p, i)
<1>1. Len(t.stack) \in Nat /\ Len(t'.stack) \in Nat /\ Len(p) \in Nat
  BY Lengths, LenProperties
<1>2. Len(t'.stack) <= Len(t.stack) /\ Len(p) <= Len(p) /\ k = Len(t'.stack) /\ k \in Nat
  BY <1>1 DEF Reduced
<1>3. Looks(t, b, p, t', p, Len(p))
  BY PathLooks DEF Reduced
<1>4. Looks(t, b, t.stack, t', t'.stack, Len(t'.stack))
  BY <1>2, StackLooks DEF Reduced
<1>5. /\ Alike(t, b, p, t.stack) => Alike(t', b, p, t'.stack)
      /\ Apart(t, p, t.stack) => Apart(t', p, t'.stack)
  BY <1>1, <1>2, <1>3, <1>4, AlongCarries
<1>6. /\ k = Len(t.stack) /\ Apart(t, t.stack, p) => Apart(t', t'.stack, p)
      /\ \A i \in Nat : i <= Len(t'.stack) /\ i <= Len(p) /\ Along(t, t.stack, p, i) => Along(t', t'.stack, p, i)
  BY <1>1, <1>2, <1>3, <1>4, AlongCarries
<1>7. \A i \in Nat : i <= k /\ Along(t, t.stack, p, i) => Along(t', t'.stack, p, i)
  BY <1>2, <1>6 DEF Along
<1> QED
  BY <1>5, <1>6, <1>7

(* Two claimed paths stay as alike as they were.                              *)
LEMMA PathsCarry ==
  ASSUME NEW s, NEW u, NEW m \in Claims, NEW k, Holds(s, u, m, k), NEW b,
         NEW p \in Seq(Nat), Claimed(m, p), NEW q \in Seq(Nat), Claimed(m, q)
  PROVE  /\ Alike(s, b, p, q) => Alike(u, b, p, q)
         /\ Apart(s, p, q) => Apart(u, p, q)
         /\ \A i \in Nat : Along(s, p, q, i) => Along(u, p, q, i)
<1>1. Len(p) \in Nat /\ Len(q) \in Nat /\ Len(p) <= Len(p) /\ Len(q) <= Len(q)
  BY LenProperties
<1>2. Looks(s, b, p, u, p, Len(p)) /\ Looks(s, b, q, u, q, Len(q))
  BY PathLooks
<1>3. /\ Alike(s, b, p, q) => Alike(u, b, p, q)
      /\ Apart(s, p, q) => Apart(u, p, q)
      /\ \A i \in Nat : i <= Len(p) /\ i <= Len(q) /\ Along(s, p, q, i) => Along(u, p, q, i)
  BY <1>1, <1>2, AlongCarries
<1> QED
  BY <1>3 DEF Along

LEMMA SettledReduced ==
  ASSUME t \in Tracers, NEW m, Settled(t, t', m)
  PROVE  Reduced(Len(t.stack), m)
<1>1. Len(t.stack) \in Nat /\ Len(t.stack) <= Len(t.stack)
  BY Lengths
<1> QED
  BY <1>1 DEF Settled, Reduced

(* Where the search goes, it gets to what it captured.                        *)
LEMMA MirroredStep ==
  ASSUME Base, Next, Mirrored
  PROVE  Mirrored'
<1> DEFINE b == Len(root)
<1>0. /\ Typed /\ Sound /\ Aimed /\ Anchored /\ Typed' /\ Aimed'
      /\ t \in Tracers /\ t' \in Tracers /\ Refs \in Claims /\ Refs' \in Claims
  <2>1. Typed' /\ Aimed'
    BY TypedStep, AimedStep
  <2>2. t' \in Tracers /\ Refs' \in Claims
    BY <2>1, RefsNext
  <2> QED
    BY <2>1, <2>2, RefsAre DEF Base, Typed
<1>1. /\ \A n \in frontier' : n.path \in Seq(Nat) /\ Claimed(Refs', n.path)
      /\ \A n \in frontier : n.path \in Seq(Nat) /\ Claimed(Refs, n.path)
      /\ Active' => target'.path \in Seq(Nat) /\ Claimed(Refs', target'.path)
  <2>1. \A n \in frontier' : n.path \in Seq(Nat) /\ Claimed(Refs', n.path)
    BY <1>0, RefsNext
  <2>2. \A n \in frontier : n.path \in Seq(Nat) /\ Claimed(Refs, n.path)
    BY <1>0, RefsAre DEF Typed, Nodes
  <2>3. Active' => target'.path = before' \/ target'.path = node'
    BY <1>0 DEF Active, Aimed
  <2>4. /\ Claimed(Refs', before') /\ Claimed(Refs', node') /\ before' \in Seq(Nat) /\ node' \in Seq(Nat)
    BY <1>0, RefsNext
  <2> QED
    BY <2>1, <2>2, <2>3, <2>4
<1>2. Len(t.stack) \in Nat /\ Len(t'.stack) \in Nat
  BY <1>0, Lengths
<1>m. /\ \A n, m \in frontier : Alike(t, b, n.path, m.path) /\ (n # m => Apart(t, n.path, m.path))
      /\ \A n \in frontier : Alike(t, b, n.path, t.stack) /\ Apart(t, n.path, t.stack)
  BY DEF Mirrored
<1>p. ASSUME NEW k, Holds(t, t', Refs', k), frontier' \subseteq frontier
      PROVE  \A n, m \in frontier' : Alike(t', b, n.path, m.path) /\ (n # m => Apart(t', n.path, m.path))
  <2> TAKE n, m \in frontier'
  <2>1. n \in frontier /\ m \in frontier
    BY <1>p
  <2> QED
    BY <1>0, <1>1, <1>m, <1>p, <2>1, PathsCarry
<1>s. ASSUME NEW k, Reduced(k, Refs'), frontier' \subseteq frontier
      PROVE  \A n \in frontier' : Alike(t', b, n.path, t'.stack) /\ Apart(t', n.path, t'.stack)
  <2> TAKE n \in frontier'
  <2>1. n \in frontier
    BY <1>s
  <2> QED
    BY <1>0, <1>1, <1>m, <1>s, <2>1, ReducedCarries
<1>3. ASSUME NEW k, Reduced(k, Refs'), frontier' \subseteq frontier, root' = root,
             pc' \in {"loop", "check", "pick", "leave", "done"}
      PROVE  Mirrored'
  <2>1. Holds(t, t', Refs', k)
    BY <1>3 DEF Reduced
  <2>2. \A n, m \in frontier' : Alike(t', b, n.path, m.path) /\ (n # m => Apart(t', n.path, m.path))
    BY <1>3, <1>p, <2>1
  <2>3. \A n \in frontier' : Alike(t', b, n.path, t'.stack) /\ Apart(t', n.path, t'.stack)
    BY <1>3, <1>s
  <2> QED
    BY <1>3, <2>2, <2>3 DEF Mirrored, Active
<1>r. ASSUME Settled(t, t', Refs') PROVE Reduced(Len(t.stack), Refs')
  BY <1>0, <1>r, SettledReduced
<1>4. CASE Solve
  <2>1. frontier' = {} /\ pc' = "branching"
    BY <1>0, <1>4 DEF Solve, Anchored, Running
  <2> QED
    BY <2>1 DEF Mirrored, Active
<1>5. ASSUME NEW c, Posted(t, t', Refs, t.nodes, c), Refs' = Refs, root' = root, frontier' = frontier,
             pc \in {"branching", "alt"}, pc' \in {"branching", "alt", "fail"},
             pc' # "branching" => pc = "alt" /\ target' = target
      PROVE  Mirrored'
  <2> DEFINE k == Len(t.stack) - 1
  <2>1. /\ Holds(t, t', Refs', k) /\ Len(t'.stack) = Len(t.stack) /\ TopOf(t').node = TopOf(t).node
        /\ k \in Int /\ k = Len(t.stack) - 1 /\ Len(t.stack) > 0
    BY <1>0, <1>2, <1>5 DEF Posted, Sound
  <2> HIDE DEF k
  <2>2. \A n, m \in frontier' : Alike(t', b, n.path, m.path) /\ (n # m => Apart(t', n.path, m.path))
    BY <1>5, <1>p, <2>1
  <2>3. ASSUME NEW n \in frontier'
        PROVE  /\ Alike(t', b, n.path, t'.stack) /\ Apart(t', n.path, t'.stack)
               /\ Apart(t', t'.stack, n.path)
    <3>1. Apart(t, t.stack, n.path) /\ Alike(t, b, n.path, t.stack) /\ Apart(t, n.path, t.stack)
      BY <1>5, <1>m DEF Mirrored
    <3> QED
      BY <1>0, <1>1, <2>1, <3>1, TopCarries
  <2>4. ASSUME Active', NEW n \in frontier'
        PROVE  Alike(t', b, n.path, target'.path) /\ Apart(t', n.path, target'.path)
    <3>1. pc = "alt" /\ target' = target
      BY <1>5, <2>4 DEF Active
    <3>2. Alike(t, b, n.path, target'.path) /\ Apart(t, n.path, target'.path)
      BY <1>5, <3>1 DEF Mirrored, Active
    <3> QED
      BY <1>0, <1>1, <2>1, <2>4, <3>2, PathsCarry
  <2> QED
    BY <1>5, <2>2, <2>3, <2>4 DEF Mirrored
<1>6. CASE Infer
  <2>1. /\ root' = root /\ frontier' = frontier /\ pc' = "branching" /\ pc = "branching"
    BY <1>6 DEF Infer, search
  <2>2. Refs' = Refs /\ \E c : Posted(t, t', Refs, t.nodes, c)
    BY <1>0, <1>6, InferMoves
  <2> QED
    BY <1>5, <2>1, <2>2
<1>7. ASSUME NEW low \in Costs, Post(low) PROVE Mirrored'
  <2>1. /\ root' = root /\ frontier' = frontier /\ pc = "alt" /\ pc' \in {"alt", "fail"} /\ target' = target
    BY <1>7 DEF Post
  <2>2. Refs' = Refs /\ \E c : Posted(t, t', Refs, t.nodes, c)
    BY <1>0, <1>7, PostMoves
  <2> QED
    BY <1>5, <2>1, <2>2
<1>8. CASE Enter
  <2>1. /\ root' = root /\ frontier' = frontier /\ pc' = "alt"
        /\ target' = [path |-> t.stack, depth |-> t.level, then |-> "loop"]
    BY <1>8 DEF Enter
  <2>2. Entered(t, t', Refs')
    BY <1>0, <1>8, EnterMoves
  <2> DEFINE k == Len(t.stack)
  <2>3. /\ Holds(t, t', Refs', k) /\ Len(t'.stack) = Len(t.stack) + 1 /\ TopOf(t').node = t.nodes
        /\ k = Len(t.stack) /\ target'.path = t.stack
    BY <2>1, <2>2 DEF Entered
  <2> HIDE DEF k
  <2>4. \A n, m \in frontier' : Alike(t', b, n.path, m.path) /\ (n # m => Apart(t', n.path, m.path))
    BY <1>p, <2>1, <2>3
  <2>5. ASSUME NEW n \in frontier'
        PROVE  /\ Alike(t', b, n.path, t'.stack) /\ Apart(t', n.path, t'.stack)
               /\ Apart(t', t'.stack, n.path)
    <3>1. n \in frontier /\ Sane(t, Refs, t.nodes) /\ t.nodes \in Int
      BY <1>0, <2>1, TracerFields DEF Sound
    <3>2. \A i \in 1..Len(n.path) : t.lists[n.path[i]].node < t.nodes /\ t.lists[n.path[i]] \in ListSet
      BY <1>0, <1>1, <3>1, ClaimedNode
    <3>3. \A i \in 1..Len(n.path) : t.lists[n.path[i]].node # TopOf(t').node
      <4>1. \A i \in 1..Len(n.path) : t.lists[n.path[i]].node \in Int
        BY <3>2, ListFields
      <4> QED
        BY <2>3, <3>1, <3>2, <4>1
    <3> QED
      BY <1>0, <1>1, <1>m, <2>3, <3>1, <3>3, FreshCarries
  <2>6. ASSUME NEW n \in frontier'
        PROVE  Alike(t', b, n.path, target'.path) /\ Apart(t', n.path, target'.path)
    <3>1. Looks(t, b, n.path, t', n.path, Len(n.path))
      BY <1>0, <1>1, <2>3, PathLooks
    <3>2. Looks(t, b, t.stack, t', t.stack, Len(t.stack))
      BY <2>3, TakenLooks
    <3>3. /\ Len(n.path) \in Nat /\ Len(t.stack) \in Nat /\ Len(n.path) <= Len(n.path)
          /\ Len(t.stack) <= Len(t.stack)
      BY <1>1, <1>2, LenProperties
    <3>4. Alike(t, b, n.path, t.stack) /\ Apart(t, n.path, t.stack)
      BY <1>m, <2>1
    <3> QED
      BY <2>3, <3>1, <3>2, <3>3, <3>4, AlongCarries
  <2> QED
    BY <2>1, <2>4, <2>5, <2>6 DEF Mirrored
<1>9. ASSUME NEW k, Reduced(k, Refs'), frontier' \subseteq frontier, root' = root,
             pc' = "restoring", target'.then = "loop"
      PROVE  Mirrored'
  <2>1. Holds(t, t', Refs', k)
    BY <1>9 DEF Reduced
  <2>2. \A n, m \in frontier' : Alike(t', b, n.path, m.path) /\ (n # m => Apart(t', n.path, m.path))
    BY <1>9, <1>p, <2>1
  <2>3. \A n \in frontier' : Alike(t', b, n.path, t'.stack) /\ Apart(t', n.path, t'.stack)
    BY <1>9, <1>s
  <2>4. target'.path = t'.stack
    BY <1>0, <1>9 DEF Aimed
  <2>5. Along(t', t'.stack, t'.stack, Len(t'.stack)) /\ Alike(t', b, t'.stack, t'.stack)
    BY <1>2, AlikeBoth DEF Along
  <2> QED
    BY <1>9, <2>2, <2>3, <2>4, <2>5 DEF Mirrored
<1>10. CASE Fail
  <2>1. /\ root' = root /\ frontier' = frontier /\ pc' = "restoring" /\ target'.then = "loop"
    BY <1>0, <1>10 DEF Fail, Return, search, Aimed
  <2>2. Refs' = Refs /\ Unwound(t, t', Refs, t.nodes, Len(before))
    BY <1>0, <1>10, FailMoves
  <2>3. Len(before) \in Nat /\ Len(before) <= Len(t.stack)
    BY <1>0, <1>10, BackIsOpen DEF Fail
  <2>4. Reduced(Len(before), Refs')
    BY <2>2, <2>3 DEF Unwound, Reduced
  <2> QED
    BY <1>9, <2>1, <2>4
<1>11. CASE Keep
  <2> DEFINE q == [path |-> t.stack, depth |-> t.level + 1, at |-> Child,
                   value |-> IF objective THEN value(t.store) ELSE 0]
             k == Len(before)
  <2>1. /\ root' = root /\ frontier' = frontier \cup {q} /\ q.path = t.stack
        /\ pc' = "restoring" /\ target'.then = "loop" /\ pc = "alt"
    BY <1>0, <1>11 DEF Keep, Return, Aimed
  <2>2. Captured(t, t', Refs', k) /\ k \in Nat /\ k <= Len(t.stack) /\ Len(t.stack) = k + 1
    BY <1>0, <1>11, <2>1, KeepMoves, BackIsOpen DEF Aimed
  <2> HIDE DEF q
  <2>3. Reduced(k, Refs') /\ Holds(t, t', Refs', k) /\ Len(t'.stack) = k
    BY <2>2 DEF Captured, Reduced
  <2>4. q.path \in Seq(Nat) /\ Claimed(Refs', q.path) /\ Alike(t, b, q.path, q.path)
    BY <1>1, <2>1, AlikeBoth
  <2>5. ASSUME NEW n \in frontier
        PROVE  /\ Alike(t', b, n.path, q.path) /\ Alike(t', b, q.path, n.path)
               /\ Apart(t', n.path, q.path) /\ Apart(t', q.path, n.path)
    <3>1. Apart(t, q.path, n.path) /\ Alike(t, b, n.path, q.path) /\ Apart(t, n.path, q.path)
      BY <1>m, <2>1 DEF Mirrored
    <3>2. n.path \in Seq(Nat) /\ Claimed(Refs', n.path)
      BY <1>1, <2>1
    <3>3. Alike(t', b, n.path, q.path) /\ Apart(t', n.path, q.path)
      BY <1>0, <2>3, <2>4, <3>1, <3>2, PathsCarry
    <3>4. Apart(t', q.path, n.path)
      BY <1>0, <2>3, <2>4, <3>1, <3>2, PathsCarry
    <3> QED
      BY <3>3, <3>4, AlikeBoth
  <2>6. ASSUME NEW n \in frontier, NEW m \in frontier
        PROVE  Alike(t', b, n.path, m.path) /\ (n # m => Apart(t', n.path, m.path))
    <3>1. n \in frontier' /\ m \in frontier'
      BY <2>1
    <3> QED
      BY <1>0, <1>1, <1>m, <2>3, <3>1, PathsCarry
  <2>7. \A n, m \in frontier' : Alike(t', b, n.path, m.path) /\ (n # m => Apart(t', n.path, m.path))
    BY <2>1, <2>5, <2>6, AlikeBoth
  <2>8. ASSUME NEW n \in frontier'
        PROVE  Alike(t', b, n.path, t'.stack) /\ Apart(t', n.path, t'.stack)
    <3>1. CASE n \in frontier
      BY <1>0, <1>1, <1>m, <2>3, <3>1, ReducedCarries
    <3>2. CASE n = q
      <4>1. Alike(t, b, q.path, t.stack)
        BY <2>1, <2>4
      <4>2. Alike(t', b, q.path, t'.stack)
        BY <1>0, <2>3, <2>4, <4>1, ReducedCarries
      <4>3. Len(q.path) > Len(t'.stack)
        BY <2>1, <2>2, <2>3
      <4>4. ~(Len(q.path) <= Len(t'.stack))
        BY <1>2, <2>1, <4>3
      <4> QED
        BY <3>2, <4>2, <4>4 DEF Apart, Along
    <3> QED
      BY <2>1, <3>1, <3>2
  <2>9. target'.path = t'.stack
    BY <1>0, <2>1 DEF Aimed
  <2>10. Along(t', t'.stack, t'.stack, Len(t'.stack)) /\ Alike(t', b, t'.stack, t'.stack)
    BY <1>2, AlikeBoth DEF Along
  <2> QED
    BY <2>1, <2>7, <2>8, <2>9, <2>10 DEF Mirrored
<1>12. CASE ReplayList
  <2>1. /\ root' = root /\ frontier' = frontier /\ pc' = "restoring" /\ pc = "restoring"
        /\ target' = target /\ Restoring /\ t' = Replay(t, target.path)
    BY <1>12 DEF ReplayList, Restoring, search
  <2> DEFINE r == t.lists[target.path[Len(t.stack) + 1]]
             p == target.path
             k == Len(t.stack)
  <2>2. Replayed(t, t', Refs, t.nodes, r) /\ Refs' = Refs
    BY <1>0, <1>12, <2>1, ReplayMoves DEF ReplayList, search, Refs
  <2>3. p \in Seq(Nat) /\ Claimed(Refs', p) /\ p = target'.path /\ Len(t.stack) < Len(p) /\ k = Len(t.stack)
    BY <1>1, <2>1 DEF Restoring, Active
  <2>4. /\ Along(t, t.stack, p, Len(t.stack)) /\ Alike(t, b, t.stack, p)
        /\ \A n \in frontier : Alike(t, b, n.path, p) /\ Apart(t, n.path, p)
        /\ target.then = "branching" => \A n \in frontier : Apart(t, p, n.path)
    BY <2>1 DEF Mirrored, Active
  <2>5. /\ Holds(t, t', Refs', k) /\ Len(t'.stack) = Len(t.stack) + 1 /\ TopOf(t').node = r.node
        /\ Range(TopOf(t').head) = Cont(t, p[Len(t.stack) + 1])
    BY <2>2 DEF Replayed, Cont
  <2>6. r = t.lists[p[Len(t.stack) + 1]]
    OBVIOUS
  <2> HIDE DEF p, k, r
  <2>7. Looks(t, b, p, t', t'.stack, Len(t'.stack))
    BY <1>0, <2>3, <2>4, <2>5, <2>6, ReplayLooks
  <2>8. Len(p) \in Nat /\ Len(t'.stack) <= Len(p) /\ Len(p) <= Len(p)
    <3>1. Len(p) \in Nat
      BY <2>3, LenProperties
    <3> QED
      BY <1>2, <2>3, <2>5, <3>1
  <2>9. Looks(t, b, p, t', p, Len(p))
    BY <1>0, <2>3, <2>5, PathLooks
  <2>10. ASSUME NEW n \in frontier'
         PROVE  /\ Alike(t', b, n.path, t'.stack) /\ Apart(t', n.path, t'.stack)
                /\ Alike(t', b, n.path, p) /\ Apart(t', n.path, p)
    <3>1. n.path \in Seq(Nat) /\ Claimed(Refs', n.path) /\ Len(n.path) \in Nat /\ Len(n.path) <= Len(n.path)
      BY <1>1, LenProperties
    <3>2. Looks(t, b, n.path, t', n.path, Len(n.path))
      BY <1>0, <2>5, <3>1, PathLooks
    <3>3. Alike(t, b, n.path, p) /\ Apart(t, n.path, p)
      BY <2>1, <2>4
    <3>4. Alike(t', b, n.path, t'.stack) /\ Apart(t', n.path, t'.stack)
      BY <1>2, <2>7, <2>8, <3>1, <3>2, <3>3, AlongCarries
    <3>5. Alike(t', b, n.path, p) /\ Apart(t', n.path, p)
      BY <2>8, <2>9, <3>1, <3>2, <3>3, AlongCarries
    <3> QED
      BY <3>4, <3>5
  <2>11. Along(t', t'.stack, p, Len(t'.stack)) /\ Alike(t', b, t'.stack, p)
    <3>1. Along(t, p, p, Len(t'.stack)) /\ Alike(t, b, p, p)
      BY <2>8, AlikeBoth DEF Along
    <3>2. /\ \A i \in Nat : i <= Len(t'.stack) /\ i <= Len(p) /\ Along(t, p, p, i) => Along(t', t'.stack, p, i)
          /\ Alike(t, b, p, p) => Alike(t', b, t'.stack, p)
      BY <1>2, <2>7, <2>8, <2>9, AlongCarries
    <3> QED
      BY <1>2, <2>8, <3>1, <3>2
  <2>12. target'.then = "branching" => \A n \in frontier' : Apart(t', p, n.path)
    <3> SUFFICES ASSUME target.then = "branching", NEW n \in frontier' PROVE Apart(t', p, n.path)
      BY <2>1
    <3>1. n.path \in Seq(Nat) /\ Claimed(Refs', n.path) /\ Apart(t, p, n.path)
      BY <1>1, <2>1, <2>4
    <3> QED
      BY <1>0, <2>3, <2>5, <3>1, PathsCarry
  <2>13. \A n, m \in frontier' : Alike(t', b, n.path, m.path) /\ (n # m => Apart(t', n.path, m.path))
    BY <1>p, <2>1, <2>5
  <2> QED
    BY <2>1, <2>3, <2>10, <2>11, <2>12, <2>13 DEF Mirrored
<1>13. CASE Pick
  <2>1. root' = root /\ pc = "pick"
    BY <1>13 DEF Pick
  <2>2. PICK n \in frontier :
           /\ frontier' = frontier \ {n} /\ node' = n.path
           /\ \/ /\ target' = [path |-> n.path, depth |-> n.depth - 1, then |-> "branching"]
                 /\ pc' = "restoring"
                 /\ \E k \in Nat : Left(t, t', Refs', n.path, k, Len(root))
              \/ UNCHANGED <<pc, target, here>> /\ Settled(t, t', Refs')
    BY <1>0, <1>13, PickMoves
  <2>3. ASSUME NEW k \in Nat, Left(t, t', Refs', n.path, k, Len(root)), pc' = "restoring",
               target' = [path |-> n.path, depth |-> n.depth - 1, then |-> "branching"]
        PROVE  Mirrored'
    <3> DEFINE p == n.path
    <3>1. /\ Reduced(k, Refs') /\ Holds(t, t', Refs', k) /\ Len(t'.stack) = k
          /\ Along(t, t.stack, p, k) /\ k \in Nat /\ k <= k
      BY <2>3 DEF Left, Unwound, Reduced, Along
    <3>2. target'.path = p /\ p \in Seq(Nat) /\ Claimed(Refs', p) /\ target'.then = "branching"
      BY <1>1, <2>3 DEF Active
    <3>3. Alike(t, b, p, t.stack)
      BY <1>m
    <3>m. \A m \in frontier' : /\ Alike(t, b, m.path, p) /\ Apart(t, m.path, p) /\ Apart(t, p, m.path)
      BY <1>m, <2>2
    <3> HIDE DEF p
    <3>4. \A x, m \in frontier' : Alike(t', b, x.path, m.path) /\ (x # m => Apart(t', x.path, m.path))
      BY <1>p, <2>2, <3>1
    <3>5. \A m \in frontier' : Alike(t', b, m.path, t'.stack) /\ Apart(t', m.path, t'.stack)
      BY <1>s, <2>2, <3>1
    <3>6. ASSUME NEW m \in frontier'
          PROVE  Alike(t', b, m.path, p) /\ Apart(t', m.path, p) /\ Apart(t', p, m.path)
      <4>1. m.path \in Seq(Nat) /\ Claimed(Refs', m.path)
        BY <1>1
      <4>2. Alike(t', b, m.path, p) /\ Apart(t', m.path, p)
        BY <1>0, <3>1, <3>2, <3>m, <4>1, PathsCarry
      <4>3. Apart(t', p, m.path)
        BY <1>0, <3>1, <3>2, <3>m, <4>1, PathsCarry
      <4> QED
        BY <4>2, <4>3
    <3>7. Along(t', t'.stack, p, Len(t'.stack)) /\ Alike(t', b, t'.stack, p)
      <4>1. /\ Alike(t, b, p, t.stack) => Alike(t', b, p, t'.stack)
            /\ \A i \in Nat : i <= k /\ Along(t, t.stack, p, i) => Along(t', t'.stack, p, i)
        BY <1>0, <3>1, <3>2, ReducedCarries
      <4> QED
        BY <3>1, <3>3, <4>1, AlikeBoth
    <3> QED
      BY <2>1, <2>3, <3>2, <3>4, <3>5, <3>6, <3>7 DEF Mirrored
  <2>4. ASSUME Settled(t, t', Refs'), UNCHANGED <<pc, target, here>> PROVE Mirrored'
    BY <1>3, <1>r, <2>1, <2>2, <2>4
  <2> QED
    BY <2>2, <2>3, <2>4
<1>14. CASE EndRestore
  <2>1. root' = root /\ frontier' = frontier /\ pc' = target.then /\ pc = "restoring"
    BY <1>14 DEF EndRestore
  <2>2. Settled(t, t', Refs')
    BY <1>0, <1>14, EndMoves
  <2>3. CASE target.then = "loop"
    BY <1>3, <1>r, <2>1, <2>2, <2>3
  <2>4. CASE target.then = "branching"
    <3>1. Reduced(Len(t.stack), Refs') /\ Holds(t, t', Refs', Len(t.stack))
      BY <1>r, <2>2 DEF Reduced
    <3>2. \A n, m \in frontier' : Alike(t', b, n.path, m.path) /\ (n # m => Apart(t', n.path, m.path))
      BY <1>p, <2>1, <3>1
    <3>3. \A n \in frontier' : Alike(t', b, n.path, t'.stack) /\ Apart(t', n.path, t'.stack)
      BY <1>s, <2>1, <3>1
    <3>4. ASSUME NEW n \in frontier' PROVE Apart(t', t'.stack, n.path)
      <4>1. Apart(t, target.path, n.path) /\ Along(t, t.stack, target.path, Len(t.stack))
        BY <2>1, <2>4 DEF Mirrored
      <4>2. Len(t.stack) = Len(target.path)
        BY <1>0, <1>2, <1>14, <4>1, LenProperties DEF EndRestore, Along, Typed
      <4>3. Apart(t, t.stack, n.path)
        BY <4>1, <4>2 DEF Apart, Along
      <4> QED
        BY <1>0, <1>1, <3>1, <4>3, ReducedCarries
    <3> QED
      BY <2>1, <2>4, <3>2, <3>3, <3>4 DEF Mirrored, Active
  <2> QED
    BY <1>0, <1>14, <2>3, <2>4 DEF EndRestore, Aimed
<1>15. CASE FailRestore
  <2>1. /\ root' = root /\ frontier' = frontier /\ pc' \in {"loop", "pick"}
    BY <1>15 DEF FailRestore
  <2>2. Settled(t, t', Refs')
    <3>1. Refs' = Refs /\ Settled(t, t', Refs)
      BY <1>0, <1>15, AbandonMoves
    <3> QED
      BY <3>1
  <2> QED
    BY <1>3, <1>r, <2>1, <2>2
<1>16. CASE Stop
  <2>1. root' = root /\ frontier' \subseteq frontier /\ pc' = "leave"
    BY <1>16 DEF Stop
  <2>2. Settled(t, t', Refs')
    BY <1>0, <1>16, StopMoves
  <2> QED
    BY <1>3, <1>r, <2>1, <2>2
<1>17. CASE Exhausted
  <2>1. root' = root /\ frontier' = frontier /\ pc' = "leave"
    BY <1>17 DEF Exhausted
  <2>2. Settled(t, t', Refs')
    BY <1>0, <1>17, ExhaustedMoves
  <2> QED
    BY <1>3, <1>r, <2>1, <2>2
<1>18. CASE End
  <2>1. pc' = "done" /\ frontier' = {}
    BY <1>0, <1>18 DEF End, search, Anchored
  <2> QED
    BY <2>1 DEF Mirrored, Active
<1>19. ASSUME t' = t, root' = root, before' = before, node' = node, frontier' = frontier,
              pc' \in {"loop", "check", "pick"}
       PROVE  Mirrored'
  <2>1. Refs' = Refs
    BY <1>19 DEF Refs
  <2>2. Settled(t, t, Refs)
    BY <1>0, StillMoves
  <2>3. Settled(t, t', Refs')
    BY <1>19, <2>1, <2>2
  <2> QED
    BY <1>3, <1>r, <1>19, <2>3
<1>20. CASE Leaf \/ Leave \/ Continue
  BY <1>19, <1>20 DEF Leaf, Leave, Continue, search
<1>21. ASSUME NEW n \in 1..MaxBranches, Branch(n) PROVE Mirrored'
  BY <1>19, <1>21 DEF Branch
<1>22. CASE ReachLimit
  <2>1. UNCHANGED <<pc, t, root, frontier, target>>
    BY <1>22 DEF ReachLimit, search
  <2> QED
    BY <2>1 DEF Mirrored, Active
<1> QED
  BY <1>4, <1>6, <1>7, <1>8, <1>10, <1>11, <1>12, <1>13, <1>14, <1>15, <1>16, <1>17, <1>18, <1>20,
     <1>21, <1>22 DEF Next

--------------------------------------------------------------------------------
(* The tree.                                                                  *)
LEMMA ChildLooks ==
  ASSUME Typed
  PROVE  Child \in Seq(Nat) /\ Child # <<>> /\ Front(Child) = here /\ Last(Child) = turn.cur
<1>1. here \in Seq(Nat) /\ turn.cur \in Nat
  BY DEF Typed
<1> DEFINE a == turn.cur
           q == Append(here, a)
<1>2. Child = q /\ a \in Nat
  BY <1>1 DEF Child
<1>3. /\ q \in Seq(Nat) /\ q # <<>> /\ Len(q) = Len(here) + 1
      /\ \A i \in 1..Len(here) : q[i] = here[i]
      /\ q[Len(here) + 1] = a
  BY <1>1, <1>2, AppendProperties
<1>4. Len(here) \in Nat
  BY <1>1, LenProperties
<1> DEFINE n == Len(here)
<1>9. Len(q) > 0 /\ Len(q) - 1 = n /\ q \in Seq(Nat) /\ \A i \in 1..n : q[i] = here[i]
  <2>1. Len(q) = n + 1 /\ n \in Nat /\ \A i \in 1..n : q[i] = here[i]
    BY <1>3, <1>4
  <2> HIDE DEF q, n
  <2> QED
    BY <1>3, <2>1
<1> HIDE DEF q, n
<1>5. /\ Front(q) \in Seq(Nat) /\ Len(Front(q)) = Len(q) - 1 /\ Last(q) = q[Len(q)]
      /\ \A i \in 1..(Len(q) - 1) : Front(q)[i] = q[i]
  BY <1>9, FrontIs
<1>6. Len(Front(q)) = Len(here) /\ \A i \in 1..Len(here) : Front(q)[i] = here[i]
  <2>1. Len(Front(q)) = n /\ \A i \in 1..n : Front(q)[i] = here[i]
    BY <1>5, <1>9
  <2> QED
    BY <2>1 DEF n
<1>7. Front(q) = here
  BY <1>1, <1>5, <1>6, SeqEqual
<1>8. Last(q) = a
  BY <1>3, <1>5
<1> QED
  BY <1>2, <1>3, <1>7, <1>8 DEF a

LEMMA AppendRange ==
  ASSUME NEW S, NEW q \in Seq(S), NEW x \in S
  PROVE  /\ Append(q, x) \in Seq(S) /\ Range(Append(q, x)) = Range(q) \cup {x}
         /\ IsInjective(q) /\ x \notin Range(q) => IsInjective(Append(q, x))
<1> DEFINE p == Append(q, x)
           n == Len(q)
<1>1. /\ p \in Seq(S) /\ Len(p) = n + 1 /\ n \in Nat
      /\ \A i \in 1..n : p[i] = q[i]
      /\ p[n + 1] = x
  BY AppendProperties, LenProperties
<1>2. DOMAIN q = 1..n /\ DOMAIN p = 1..(n + 1)
  BY <1>1, LenProperties
<1> HIDE DEF p, n
<1>3. \A i \in 1..(n + 1) : i \in 1..n \/ i = n + 1
  BY <1>1
<1>4. 1..n \subseteq 1..(n + 1) /\ n + 1 \in 1..(n + 1)
  BY <1>1
<1>5. Range(p) = Range(q) \cup {x}
  BY <1>1, <1>2, <1>3, <1>4 DEF Range
<1>6. ASSUME IsInjective(q), x \notin Range(q) PROVE IsInjective(p)
  <2> SUFFICES ASSUME NEW i \in 1..(n + 1), NEW j \in 1..(n + 1), p[i] = p[j] PROVE i = j
    BY <1>2 DEF IsInjective
  <2>1. \A k \in 1..n : q[k] # x
    BY <1>2, <1>6 DEF Range
  <2>2. \A k, l \in 1..n : q[k] = q[l] => k = l
    BY <1>2, <1>6 DEF IsInjective
  <2> QED
    BY <1>1, <1>3, <2>1, <2>2
<1> QED
  BY <1>1, <1>5, <1>6 DEF p

LEMMA RecordIs ==
  ASSUME NEW at, NEW store
  PROVE  /\ DOMAIN Record(at, store) = DOMAIN effect \cup {at}
         /\ Record(at, store)[at] = store
         /\ \A p \in DOMAIN effect : p # at => Record(at, store)[p] = effect[p]
  BY DEF Record

(* Where the search is to branch next, and where it has branched.             *)
Coming == pc = "branching" \/ (pc = "restoring" /\ target.then = "branching")
Amid == pc \in {"loop", "alt", "fail"} \/ (pc = "restoring" /\ target.then = "loop")
NextOne == turn.cur + (IF pc = "restoring" THEN 1 ELSE 0)

(* Every node but the root comes from one that was branched on, none is       *)
(* branched on twice, and those of the frontier are yet to be.                *)
Generated ==
    Running =>
       /\ <<>> \in DOMAIN effect /\ here \in DOMAIN effect /\ DOMAIN effect \subseteq Seq(Nat)
       /\ expanded \in Seq(Seq(Nat)) /\ IsInjective(expanded) /\ Range(expanded) \subseteq DOMAIN effect
       /\ \A at \in DOMAIN effect : at # <<>> => Front(at) \in Range(expanded)
       /\ Coming => here \notin Range(expanded) /\ \A n \in frontier : n.at # here
       /\ Amid => /\ here \in Range(expanded)
                     /\ \A at \in DOMAIN effect : at # <<>> /\ Front(at) = here => Last(at) < NextOne
       /\ \A n, m \in frontier : n.at = m.at => n = m
       /\ \A n \in frontier : n.at \in DOMAIN effect \ {<<>>} /\ n.at \notin Range(expanded)

(* Nothing of the tree changes.                                               *)
LEMMA GeneratedStays ==
  ASSUME Typed, Typed', Generated, Running, DOMAIN effect' = DOMAIN effect, expanded' = expanded,
         here' = here, frontier' \subseteq frontier, Coming' => Coming,
         Amid' => Amid /\ NextOne <= NextOne'
  PROVE  Generated'
<1>1. \A at \in DOMAIN effect : at # <<>> => Last(at) \in Nat
  <2> SUFFICES ASSUME NEW at \in Seq(Nat), at # <<>> PROVE Last(at) \in Nat
    BY DEF Generated
  <2>1. Len(at) > 0
    BY EmptySeq, LenProperties
  <2> QED
    BY <2>1, FrontIs
<1>2. NextOne \in Int /\ NextOne' \in Int
  <2>1. turn.cur \in Nat /\ turn'.cur \in Nat
    BY DEF Typed
  <2> QED
    BY <2>1 DEF NextOne
<1>3. Amid' => /\ here \in Range(expanded)
               /\ \A at \in DOMAIN effect : at # <<>> /\ Front(at) = here => Last(at) < NextOne'
  <2> SUFFICES ASSUME Amid'
               PROVE  /\ here \in Range(expanded)
                      /\ \A at \in DOMAIN effect : at # <<>> /\ Front(at) = here => Last(at) < NextOne'
    OBVIOUS
  <2>1. /\ here \in Range(expanded) /\ NextOne <= NextOne'
        /\ \A at \in DOMAIN effect : at # <<>> /\ Front(at) = here => Last(at) < NextOne
    BY DEF Generated
  <2> QED
    BY <1>1, <1>2, <2>1
<1>4. /\ <<>> \in DOMAIN effect' /\ here' \in DOMAIN effect' /\ DOMAIN effect' \subseteq Seq(Nat)
      /\ expanded' \in Seq(Seq(Nat)) /\ IsInjective(expanded') /\ Range(expanded') \subseteq DOMAIN effect'
      /\ \A at \in DOMAIN effect' : at # <<>> => Front(at) \in Range(expanded')
  BY DEF Generated
<1>5. Coming' => here' \notin Range(expanded') /\ \A n \in frontier' : n.at # here'
  BY DEF Generated
<1>6. /\ \A n, m \in frontier' : n.at = m.at => n = m
      /\ \A n \in frontier' : n.at \in DOMAIN effect' \ {<<>>} /\ n.at \notin Range(expanded')
  BY DEF Generated
<1> QED
  BY <1>3, <1>4, <1>5, <1>6 DEF Generated

(* A replay only goes on for the node that was picked.                        *)
LEMMA NotAmidReplay ==
  ASSUME Typed, Aimed, Restoring
  PROVE  target.then = "branching" /\ target.path = node
<1>1. Len(t.stack) < Len(target.path) /\ pc = "restoring"
  BY DEF Restoring
<1>2. Len(t.stack) \in Nat /\ Len(before) \in Nat
  BY Lengths, LenProperties DEF Typed
<1>3. ~(target.path = before /\ t.stack = before)
  BY <1>1, <1>2
<1> QED
  BY <1>1, <1>3 DEF Aimed

(* Every node that waits was generated, once.                                 *)
LEMMA GeneratedStep ==
  ASSUME Base, Next, Generated
  PROVE  Generated'
<1>0. Typed /\ Aimed /\ Anchored /\ Typed' /\ Aimed'
  BY TypedStep, AimedStep DEF Base
<1>1. NextOne \in Int /\ turn.cur \in Nat /\ here \in Seq(Nat)
  <2>1. turn.cur \in Nat /\ here \in Seq(Nat)
    BY <1>0 DEF Typed
  <2> DEFINE c == turn.cur
  <2> HIDE DEF c
  <2>2. c \in Nat /\ NextOne = c + (IF pc = "restoring" THEN 1 ELSE 0)
    BY <2>1 DEF NextOne, c
  <2> QED
    BY <2>1, <2>2
<1>2. CASE Solve
  <2> DEFINE e == <<>>
             x == t.store
  <2>1. /\ effect' = [p \in {e} |-> x] /\ here' = e /\ expanded' = e /\ frontier' = {} /\ pc' = "branching"
    BY <1>0, <1>2 DEF Solve, Anchored, Running
  <2>2. e \in Seq(Nat) /\ e \in Seq(Seq(Nat)) /\ Len(e) = 0 /\ DOMAIN e = {}
    BY EmptySeq
  <2>3. DOMAIN effect' = {e}
    BY <2>1
  <2>4. Range(e) = {} /\ IsInjective(e)
    BY <2>2 DEF Range, IsInjective
  <2>5. ~Amid'
    BY <2>1 DEF Amid
  <2>e. e = <<>>
    OBVIOUS
  <2> HIDE DEF e
  <2> QED
    BY <2>e, <2>1, <2>2, <2>3, <2>4, <2>5 DEF Generated
<1>3. CASE Running /\ ~Solve
  <2>g. /\ <<>> \in DOMAIN effect /\ here \in DOMAIN effect /\ DOMAIN effect \subseteq Seq(Nat)
        /\ expanded \in Seq(Seq(Nat)) /\ IsInjective(expanded) /\ Range(expanded) \subseteq DOMAIN effect
        /\ \A at \in DOMAIN effect : at # <<>> => Front(at) \in Range(expanded)
        /\ Coming => here \notin Range(expanded) /\ \A n \in frontier : n.at # here
        /\ Amid => /\ here \in Range(expanded)
                   /\ \A at \in DOMAIN effect : at # <<>> /\ Front(at) = here => Last(at) < NextOne
        /\ \A n, m \in frontier : n.at = m.at => n = m
        /\ \A n \in frontier : n.at \in DOMAIN effect \ {<<>>} /\ n.at \notin Range(expanded)
    BY <1>3 DEF Generated
  <2>1. ASSUME DOMAIN effect' = DOMAIN effect, expanded' = expanded, here' = here,
               frontier' \subseteq frontier, Coming' => Coming, Amid' => Amid /\ NextOne <= NextOne'
        PROVE  Generated'
    BY <1>0, <1>3, <2>1, GeneratedStays
  <2>2. CASE Infer
    <3>1. /\ effect' = [effect EXCEPT ![here] = t'.store] /\ expanded' = expanded /\ here' = here
          /\ frontier' = frontier /\ pc' = pc /\ target' = target /\ turn' = turn
      BY <2>2 DEF Infer, search
    <3>2. DOMAIN effect' = DOMAIN effect
      BY <3>1
    <3>3. (Coming' => Coming) /\ (Amid' => Amid) /\ NextOne' = NextOne
      BY <3>1 DEF Coming, Amid, NextOne
    <3> QED
      BY <1>1, <2>1, <3>1, <3>2, <3>3
  <2>3. ASSUME pc = "branching", expanded' = Append(expanded, here), here' = here, effect' = effect,
               frontier' = frontier, pc' \in {"check", "loop"}
        PROVE  Generated'
    <3>1. /\ Append(expanded, here) \in Seq(Seq(Nat)) /\ IsInjective(Append(expanded, here))
          /\ Range(Append(expanded, here)) = Range(expanded) \cup {here}
      BY <1>1, <2>g, <2>3, AppendRange DEF Coming
    <3>2. here \notin Range(expanded) /\ \A n \in frontier : n.at # here
      BY <2>g, <2>3 DEF Coming
    <3>3. \A at \in DOMAIN effect : at # <<>> => Front(at) # here
      BY <2>g, <3>2
    <3>4. ~Coming'
      BY <2>3 DEF Coming
    <3> QED
      BY <2>g, <2>3, <3>1, <3>2, <3>3, <3>4 DEF Generated
  <2>4. CASE Leaf
    BY <2>3, <2>4 DEF Leaf, search
  <2>5. ASSUME NEW n \in 1..MaxBranches, Branch(n) PROVE Generated'
    BY <2>3, <2>5 DEF Branch
  <2>6. CASE Enter
    <3>1. /\ effect' = effect /\ expanded' = expanded /\ here' = here /\ frontier' = frontier
          /\ pc = "loop" /\ pc' = "alt" /\ turn' = [turn EXCEPT !.posted = 0]
      BY <2>6 DEF Enter, ghosts
    <3>2. turn'.cur = turn.cur
      BY <1>0, <3>1 DEF Typed
    <3>3. ~Coming' /\ Amid /\ NextOne' = NextOne
      BY <3>1, <3>2 DEF Coming, Amid, NextOne
    <3> QED
      BY <1>1, <2>1, <3>1, <3>3
  <2>7. ASSUME NEW low \in Costs, Post(low) PROVE Generated'
    <3>1. /\ effect' = effect /\ expanded' = expanded /\ here' = here /\ frontier' = frontier
          /\ pc = "alt" /\ pc' \in {"alt", "fail"} /\ turn' = [turn EXCEPT !.posted = @ + 1]
      BY <2>7 DEF Post, ghosts
    <3>2. turn'.cur = turn.cur
      BY <1>0, <3>1 DEF Typed
    <3>3. ~Coming' /\ Amid /\ NextOne' = NextOne
      BY <3>1, <3>2 DEF Coming, Amid, NextOne
    <3> QED
      BY <1>1, <2>1, <3>1, <3>3
  <2>8. CASE Fail
    <3>1. /\ effect' = effect /\ expanded' = expanded /\ here' = here /\ frontier' = frontier
          /\ pc = "fail" /\ pc' = "restoring" /\ turn' = turn /\ target'.then = "loop"
      BY <1>0, <2>8 DEF Fail, Return, search, ghosts, Aimed
    <3>2. ~Coming' /\ Amid /\ NextOne' = NextOne + 1
      BY <1>1, <3>1 DEF Coming, Amid, NextOne
    <3> QED
      BY <1>1, <2>1, <3>1, <3>2
  <2>9. CASE Keep
    <3> DEFINE c == Child
               q == [path |-> t.stack, depth |-> t.level + 1, at |-> Child,
                     value |-> IF objective THEN value(t.store) ELSE 0]
    <3>1. /\ effect' = Record(c, t.store) /\ expanded' = expanded /\ here' = here
          /\ frontier' = frontier \cup {q} /\ q.at = c
          /\ pc = "alt" /\ pc' = "restoring" /\ turn' = turn /\ target'.then = "loop"
      BY <1>0, <2>9 DEF Keep, Return, Aimed
    <3>2. c \in Seq(Nat) /\ c # <<>> /\ Front(c) = here /\ Last(c) = turn.cur
      BY <1>0, ChildLooks
    <3>3. DOMAIN effect' = DOMAIN effect \cup {c}
      BY <3>1, RecordIs
    <3>4. /\ Amid /\ NextOne = turn.cur /\ NextOne' = turn.cur + 1 /\ ~Coming' /\ here \in Range(expanded)
          /\ \A at \in DOMAIN effect : at # <<>> /\ Front(at) = here => Last(at) < turn.cur
      BY <1>1, <2>g, <3>1 DEF Amid, NextOne, Coming
    <3>5. c \notin DOMAIN effect
      <4>1. ~(turn.cur < turn.cur)
        BY <1>1
      <4> QED
        BY <3>2, <3>4, <4>1
    <3> HIDE DEF c, q
    <3>6. \A at \in DOMAIN effect' : at # <<>> /\ Front(at) = here => Last(at) < NextOne'
      <4>1. \A at \in DOMAIN effect : at # <<>> => Last(at) \in Nat
        <5> SUFFICES ASSUME NEW at \in Seq(Nat), at # <<>> PROVE Last(at) \in Nat
          BY <2>g
        <5>1. Len(at) > 0
          BY EmptySeq, LenProperties
        <5> QED
          BY <5>1, FrontIs
      <4>2. \A at \in DOMAIN effect : at # <<>> /\ Front(at) = here => Last(at) < turn.cur + 1
        BY <1>1, <3>4, <4>1
      <4>3. turn.cur < turn.cur + 1
        BY <1>1
      <4> QED
        BY <3>2, <3>3, <3>4, <4>2, <4>3
    <3>7. /\ \A n, m \in frontier' : n.at = m.at => n = m
          /\ \A n \in frontier' : n.at \in DOMAIN effect' \ {<<>>} /\ n.at \notin Range(expanded')
      BY <2>g, <3>1, <3>2, <3>3, <3>5
    <3>8. /\ <<>> \in DOMAIN effect' /\ here' \in DOMAIN effect' /\ DOMAIN effect' \subseteq Seq(Nat)
          /\ expanded' \in Seq(Seq(Nat)) /\ IsInjective(expanded') /\ Range(expanded') \subseteq DOMAIN effect'
          /\ \A at \in DOMAIN effect' : at # <<>> => Front(at) \in Range(expanded')
      BY <2>g, <3>1, <3>2, <3>3, <3>4
    <3> QED
      BY <3>1, <3>4, <3>6, <3>7, <3>8 DEF Generated
  <2>10. CASE ReachLimit \/ Leave \/ Continue \/ Stop \/ Exhausted \/ End
    <3>1. /\ effect' = effect /\ expanded' = expanded /\ here' = here /\ frontier' \subseteq frontier
          /\ \/ pc' = pc /\ turn' = turn /\ target' = target
             \/ pc' \in {"check", "pick", "leave", "done"}
      BY <2>10 DEF ReachLimit, Leave, Continue, Stop, Exhausted, End, ghosts, search
    <3>2. (Coming' => Coming) /\ (Amid' => Amid /\ NextOne' = NextOne)
      BY <3>1 DEF Coming, Amid, NextOne
    <3> QED
      BY <1>1, <2>1, <3>1, <3>2
  <2>11. CASE ReplayList
    <3>1. /\ effect' = effect /\ expanded' = expanded /\ here' = here /\ frontier' = frontier
          /\ pc' = pc /\ turn' = turn /\ target' = target
      BY <2>11 DEF ReplayList, ghosts, search
    <3>2. (Coming' => Coming) /\ (Amid' => Amid) /\ NextOne' = NextOne
      BY <3>1 DEF Coming, Amid, NextOne
    <3> QED
      BY <1>1, <2>1, <3>1, <3>2
  <2>12. CASE FailRestore
    <3>1. target.then = "branching"
      BY <1>0, <2>12, NotAmidReplay DEF FailRestore
    <3>2. /\ effect' = effect /\ expanded' = expanded /\ here' = here /\ frontier' = frontier /\ pc' = "pick"
      BY <2>12, <3>1 DEF FailRestore
    <3>3. ~Coming' /\ ~Amid'
      BY <3>2 DEF Coming, Amid
    <3> QED
      BY <2>1, <3>2, <3>3
  <2>13. CASE EndRestore
    <3>1. /\ effect' = effect /\ expanded' = expanded /\ here' = here /\ frontier' = frontier
          /\ pc = "restoring" /\ pc' = target.then
      BY <2>13 DEF EndRestore, ghosts
    <3>2. CASE target.then = "loop"
      <4>1. turn' = [turn EXCEPT !.cur = @ + 1]
        BY <2>13, <3>2 DEF EndRestore
      <4>2. turn'.cur = turn.cur + 1
        BY <1>0, <4>1 DEF Typed
      <4>3. ~Coming' /\ Amid /\ NextOne' = NextOne
        BY <1>1, <3>1, <3>2, <4>2 DEF Coming, Amid, NextOne
      <4> QED
        BY <1>1, <2>1, <3>1, <4>3
    <3>3. CASE target.then # "loop"
      <4>1. target.then = "branching"
        BY <1>0, <3>1, <3>3 DEF Aimed
      <4>2. Coming /\ ~Amid'
        BY <3>1, <4>1 DEF Coming, Amid
      <4> QED
        BY <2>1, <3>1, <4>2
    <3> QED
      BY <3>2, <3>3
  <2>14. CASE Pick
    <3>1. effect' = effect /\ expanded' = expanded
      BY <2>14 DEF Pick
    <3>2. PICK n \in frontier :
             /\ frontier' = frontier \ {n}
             /\ \/ here' = n.at /\ pc' = "restoring"
                   /\ target' = [path |-> n.path, depth |-> n.depth - 1, then |-> "branching"]
                \/ UNCHANGED <<pc, target, here>>
      BY <2>14 DEF Pick, Tops
    <3>3. CASE UNCHANGED <<pc, target, here>>
      <4>1. ~Coming' /\ ~Amid'
        BY <2>14, <3>3 DEF Coming, Amid, Pick
      <4> QED
        BY <2>1, <3>1, <3>2, <3>3, <4>1
    <3>4. CASE /\ here' = n.at /\ pc' = "restoring"
               /\ target' = [path |-> n.path, depth |-> n.depth - 1, then |-> "branching"]
      <4>1. ~Amid'
        BY <3>4 DEF Amid
      <4>2. \A m \in frontier' : m \in frontier /\ m.at # n.at
        BY <2>g, <3>2
      <4>3. n.at \in DOMAIN effect /\ n.at \notin Range(expanded)
        BY <2>g
      <4> QED
        BY <2>g, <3>1, <3>4, <4>1, <4>2, <4>3 DEF Generated
    <3> QED
      BY <3>2, <3>3, <3>4
  <2> QED
    BY <1>3, <2>2, <2>4, <2>5, <2>6, <2>7, <2>8, <2>9, <2>10, <2>11, <2>12, <2>13, <2>14 DEF Next
<1>4. CASE ~Running /\ ~Solve
  BY <1>4 DEF Next, Running, Solve, Infer, Leaf, Branch, Enter, Post, Keep, Fail, ReachLimit, Leave,
     ReplayList, FailRestore, Restoring, EndRestore, Continue, Stop, Pick, Exhausted, End
<1> QED
  BY <1>2, <1>3, <1>4

--------------------------------------------------------------------------------
(* What the lists of a path hold above the height b; what a level restores.   *)
Gained(s, b, p, k) == UNION {Cont(s, p[i]) : i \in (b + 1)..k}
StoreIs(s, E, b) ==
    /\ s.store = E \cup Gained(s, b, s.stack, Len(s.stack))
    /\ \A h \in Nat : b <= h /\ h < Len(s.stack) =>
          s.frames[Len(s.frames) - Len(s.stack) + h + 1].store = E \cup Gained(s, b, s.stack, h)

(* What lists add is the same wherever they look the same.                    *)
LEMMA GainedLooks ==
  ASSUME NEW s, NEW u, NEW b \in Nat, NEW p, NEW q, NEW k \in Nat, Looks(s, b, p, u, q, k)
  PROVE  Gained(u, b, q, k) = Gained(s, b, p, k)
<1>1. ASSUME NEW i \in (b + 1)..k PROVE Cont(u, q[i]) = Cont(s, p[i])
  <2>1. i \in 1..k /\ i > b
    OBVIOUS
  <2> QED
    BY <2>1 DEF Looks
<1> QED
  BY <1>1 DEF Gained

LEMMA GainedAlike ==
  ASSUME NEW s, NEW b \in Nat, NEW p, NEW q, NEW k \in Nat, Along(s, p, q, k), Alike(s, b, p, q),
         Len(p) \in Nat, Len(q) \in Nat
  PROVE  Gained(s, b, p, k) = Gained(s, b, q, k)
<1>1. ASSUME NEW i \in (b + 1)..k PROVE Cont(s, p[i]) = Cont(s, q[i])
  <2>1. i \in Nat \ {0} /\ i > b /\ i <= k
    OBVIOUS
  <2>2. Along(s, p, q, i)
    <3>1. k <= Len(p) /\ k <= Len(q) /\ \A j \in 1..k : s.lists[p[j]].node = s.lists[q[j]].node
      BY DEF Along
    <3>2. i <= Len(p) /\ i <= Len(q) /\ \A j \in 1..i : j \in 1..k
      BY <2>1, <3>1
    <3> QED
      BY <3>1, <3>2 DEF Along
  <2> QED
    BY <2>1, <2>2 DEF Alike
<1> QED
  BY <1>1 DEF Gained

LEMMA GainedHas ==
  ASSUME NEW s, NEW b, NEW p, NEW k, NEW x
  PROVE  x \in Gained(s, b, p, k) <=> \E i \in (b + 1)..k : x \in Cont(s, p[i])
  BY DEF Gained

LEMMA GainedNext ==
  ASSUME NEW s, NEW b \in Nat, NEW p, NEW k \in Nat, b <= k
  PROVE  Gained(s, b, p, k + 1) = Gained(s, b, p, k) \cup Cont(s, p[k + 1])
<1> DEFINE n == k + 1
           I == (b + 1)..k
           J == (b + 1)..n
           A == Gained(s, b, p, n)
           B == Gained(s, b, p, k)
           C == Cont(s, p[n])
<1>1. \A i : i \in J <=> i \in I \/ i = n
  OBVIOUS
<1>2. ASSUME NEW x PROVE x \in A <=> x \in B \/ x \in C
  <2>1. x \in A <=> \E i \in J : x \in Cont(s, p[i])
    BY GainedHas
  <2>2. x \in B <=> \E i \in I : x \in Cont(s, p[i])
    BY GainedHas
  <2> HIDE DEF I, J, A, B
  <2> QED
    BY <1>1, <2>1, <2>2
<1>3. A = B \cup C
  <2> HIDE DEF A, B, C
  <2> QED
    BY <1>2
<1> QED
  BY <1>3

LEMMA GainedNone ==
  ASSUME NEW s, NEW b \in Nat, NEW p, NEW k \in Nat, k <= b
  PROVE  Gained(s, b, p, k) = {}
<1>1. (b + 1)..k = {}
  OBVIOUS
<1> QED
  BY <1>1 DEF Gained

(* Levels are closed.                                                         *)
LEMMA StoreReduced ==
  ASSUME NEW s \in Tracers, NEW u \in Tracers, NEW m, NEW n \in Nat, NEW b \in Nat, b <= n,
         n <= Len(s.stack), Len(u.stack) = n, Holds(s, u, m, n),
         Len(u.frames) = Len(s.frames) - (Len(s.stack) - n),
         \A k \in 1..Len(u.frames) : u.frames[k] = s.frames[k],
         u.store = IF n = Len(s.stack) THEN s.store
                   ELSE s.frames[Len(s.frames) - (Len(s.stack) - n) + 1].store,
         Len(s.frames) - Len(s.stack) + b >= 0,
         NEW E, StoreIs(s, E, b)
  PROVE  StoreIs(u, E, b)
<1>1. Len(s.stack) \in Nat /\ Len(s.frames) \in Nat /\ Len(u.frames) \in Nat
  BY Lengths
<1>2. \A h \in Nat : h <= n => Gained(u, b, u.stack, h) = Gained(s, b, s.stack, h)
  <2> TAKE h \in Nat
  <2> HAVE h <= n
  <2>1. Looks(s, b, s.stack, u, u.stack, n)
    BY StackLooks
  <2>2. Looks(s, b, s.stack, u, u.stack, h)
    BY <2>1 DEF Looks
  <2> QED
    BY <2>2, GainedLooks
<1>3. /\ s.store = E \cup Gained(s, b, s.stack, Len(s.stack))
      /\ \A h \in Nat : b <= h /\ h < Len(s.stack) =>
            s.frames[Len(s.frames) - Len(s.stack) + h + 1].store = E \cup Gained(s, b, s.stack, h)
  BY DEF StoreIs
<1>4. u.store = E \cup Gained(s, b, s.stack, n)
  <2>1. CASE n = Len(s.stack)
    BY <1>3, <2>1
  <2>2. CASE n # Len(s.stack)
    <3>1. n < Len(s.stack) /\ Len(s.frames) - (Len(s.stack) - n) + 1 = Len(s.frames) - Len(s.stack) + n + 1
      BY <1>1, <2>2
    <3>2. u.store = s.frames[Len(s.frames) - Len(s.stack) + n + 1].store
      BY <2>2, <3>1
    <3> QED
      BY <1>3, <3>1, <3>2
  <2> QED
    BY <2>1, <2>2
<1>5. ASSUME NEW h \in Nat, b <= h, h < n
      PROVE  u.frames[Len(u.frames) - Len(u.stack) + h + 1].store = E \cup Gained(u, b, u.stack, h)
  <2> DEFINE i == Len(s.frames) - Len(s.stack) + h + 1
             x == Len(s.frames)
             y == Len(s.stack)
             z == Len(u.frames)
  <2>0. /\ x \in Nat /\ y \in Nat /\ z \in Nat /\ z = x - (y - n) /\ x - y + b >= 0 /\ n <= y
        /\ i = x - y + h + 1
    BY <1>1
  <2>1. /\ Len(u.frames) - Len(u.stack) + h + 1 = i /\ i \in 1..Len(u.frames)
        /\ h < Len(s.stack)
    <3>1. z - n + h + 1 = i /\ i \in 1..z /\ h < y
      <4> HIDE DEF i, x, y, z
      <4> QED
        BY <1>5, <2>0
    <3> QED
      BY <3>1
  <2>2. s.frames[i].store = E \cup Gained(s, b, s.stack, h)
    BY <1>3, <1>5, <2>1
  <2> HIDE DEF i
  <2>3. u.frames[i] = s.frames[i]
    BY <2>1
  <2>4. Gained(u, b, u.stack, h) = Gained(s, b, s.stack, h)
    BY <1>2, <1>5
  <2>5. u.frames[i].store = E \cup Gained(u, b, u.stack, h)
    BY <2>2, <2>3, <2>4
  <2> QED
    BY <2>1, <2>5
<1>6. u.store = E \cup Gained(u, b, u.stack, Len(u.stack))
  <2>1. Gained(u, b, u.stack, n) = Gained(s, b, s.stack, n)
    BY <1>2
  <2> QED
    BY <1>4, <2>1
<1>7. \A h \in Nat : b <= h /\ h < Len(u.stack) =>
          u.frames[Len(u.frames) - Len(u.stack) + h + 1].store = E \cup Gained(u, b, u.stack, h)
  BY <1>5
<1> QED
  BY <1>6, <1>7 DEF StoreIs

(* A level is opened.                                                         *)
LEMMA StoreGrown ==
  ASSUME NEW s \in Tracers, NEW u \in Tracers, NEW m, NEW k, k = Len(s.stack), Holds(s, u, m, k),
         Len(u.stack) = Len(s.stack) + 1, NEW i, u.frames = Append(s.frames, [id |-> i, store |-> s.store]),
         u.store = s.store \cup Range(TopOf(u).head),
         NEW b \in Nat, b <= Len(s.stack), Len(s.frames) - Len(s.stack) + b >= 0, NEW E, StoreIs(s, E, b)
  PROVE  StoreIs(u, E, b)
<1>1. Len(s.stack) \in Nat /\ Len(s.frames) \in Nat /\ k \in Nat
  BY Lengths
<1>2. \A h \in Nat : h <= k => Gained(u, b, u.stack, h) = Gained(s, b, s.stack, h)
  <2> TAKE h \in Nat
  <2> HAVE h <= k
  <2>1. Looks(s, b, s.stack, u, u.stack, k)
    BY <1>1, StackLooks
  <2>2. Looks(s, b, s.stack, u, u.stack, h)
    BY <1>1, <2>1 DEF Looks
  <2> QED
    BY <2>2, GainedLooks
<1>3. /\ s.store = E \cup Gained(s, b, s.stack, k)
      /\ \A h \in Nat : b <= h /\ h < k =>
            s.frames[Len(s.frames) - k + h + 1].store = E \cup Gained(s, b, s.stack, h)
  BY DEF StoreIs
<1>4. Len(u.stack) = k + 1
  OBVIOUS
<1>5. Range(TopOf(u).head) = Cont(u, u.stack[k + 1])
  <2>1. Last(u.stack) = u.stack[k + 1]
    BY <1>4 DEF Last
  <2> QED
    BY <2>1 DEF TopOf, Cont
<1>6. u.store = E \cup Gained(u, b, u.stack, k + 1)
  <2>1. Gained(u, b, u.stack, k + 1) = Gained(u, b, u.stack, k) \cup Cont(u, u.stack[k + 1])
    BY <1>1, GainedNext
  <2>2. Gained(u, b, u.stack, k) = Gained(s, b, s.stack, k)
    BY <1>1, <1>2
  <2> QED
    BY <1>3, <1>5, <2>1, <2>2
<1> DEFINE f == s.frames
           g == u.frames
           x == [id |-> i, store |-> s.store]
<1>7. Len(g) = Len(f) + 1 /\ (\A j \in 1..Len(f) : g[j] = f[j]) /\ g[Len(f) + 1] = x
  <2>1. f \in Seq(LevelSet) /\ g = Append(f, x)
    BY TracerFields
  <2> HIDE DEF f, g, x
  <2> QED
    BY <2>1
<1>8. x.store = s.store
  OBVIOUS
<1> HIDE DEF x
<1>9. ASSUME NEW h \in Nat, b <= h, h < Len(u.stack)
      PROVE  g[Len(g) - Len(u.stack) + h + 1].store = E \cup Gained(u, b, u.stack, h)
  <2> DEFINE a == Len(f)
             z == Len(g)
  <2>0. a \in Nat /\ z = a + 1 /\ a - k + b >= 0 /\ k \in Nat /\ h < k + 1
    BY <1>1, <1>4, <1>7, <1>9
  <2>1. Len(g) - Len(u.stack) + h + 1 = Len(f) - k + h + 1 /\ h <= k
    <3>1. z - (k + 1) + h + 1 = a - k + h + 1 /\ h <= k
      <4> HIDE DEF a, z
      <4> QED
        BY <2>0
    <3> QED
      BY <1>4, <3>1
  <2>2. CASE h = k
    <3>1. Len(f) - k + h + 1 = Len(f) + 1
      BY <1>1, <2>2
    <3> QED
      BY <1>2, <1>3, <1>7, <1>8, <2>1, <2>2, <3>1
  <2>3. CASE h # k
    <3>1. h < k /\ Len(f) - k + h + 1 \in 1..Len(f)
      <4>1. h < k /\ a - k + h + 1 \in 1..a
        <5> HIDE DEF a, z
        <5> QED
          BY <1>9, <2>0, <2>1, <2>3
      <4> QED
        BY <4>1
    <3>2. g[Len(f) - k + h + 1] = f[Len(f) - k + h + 1]
      BY <1>7, <3>1
    <3> QED
      BY <1>2, <1>3, <1>9, <2>1, <3>1, <3>2
  <2> QED
    BY <2>2, <2>3
<1> QED
  BY <1>4, <1>6, <1>9 DEF StoreIs

(* A constraint is recorded in the list on top and posted.                    *)
LEMMA StorePosted ==
  ASSUME NEW s \in Tracers, NEW u \in Tracers, NEW m, NEW k \in Nat, Len(s.stack) = k + 1,
         Holds(s, u, m, k), Len(u.stack) = Len(s.stack), NEW c,
         Range(TopOf(u).head) = Range(TopOf(s).head) \cup {c},
         u.frames = s.frames, u.store = s.store \cup {c},
         NEW b \in Nat, b < Len(s.stack), NEW E, StoreIs(s, E, b)
  PROVE  StoreIs(u, E, b)
<1>1. \A h \in Nat : h <= k => Gained(u, b, u.stack, h) = Gained(s, b, s.stack, h)
  <2> TAKE h \in Nat
  <2> HAVE h <= k
  <2>1. Looks(s, b, s.stack, u, u.stack, k)
    BY StackLooks
  <2>2. Looks(s, b, s.stack, u, u.stack, h)
    BY <2>1 DEF Looks
  <2> QED
    BY <2>2, GainedLooks
<1>2. /\ s.store = E \cup Gained(s, b, s.stack, k + 1)
      /\ \A h \in Nat : b <= h /\ h < k + 1 =>
            s.frames[Len(s.frames) - (k + 1) + h + 1].store = E \cup Gained(s, b, s.stack, h)
  BY DEF StoreIs
<1>3. Len(u.stack) = k + 1
  OBVIOUS
<1>4. ASSUME NEW h \in Nat, b <= h, h < k + 1
      PROVE  u.frames[Len(u.frames) - (k + 1) + h + 1].store = E \cup Gained(u, b, u.stack, h)
  <2>1. h <= k
    BY <1>4
  <2> QED
    BY <1>1, <1>2, <1>4, <2>1
<1>5. ASSUME b <= k PROVE u.store = E \cup Gained(u, b, u.stack, k + 1)
  <2>1. /\ Gained(u, b, u.stack, k + 1) = Gained(u, b, u.stack, k) \cup Cont(u, u.stack[k + 1])
        /\ Gained(s, b, s.stack, k + 1) = Gained(s, b, s.stack, k) \cup Cont(s, s.stack[k + 1])
    BY <1>5, GainedNext
  <2>2. Gained(u, b, u.stack, k) = Gained(s, b, s.stack, k)
    BY <1>1
  <2>3. Cont(u, u.stack[k + 1]) = Cont(s, s.stack[k + 1]) \cup {c}
    <3>1. Last(u.stack) = u.stack[k + 1] /\ Last(s.stack) = s.stack[k + 1]
      BY <1>3 DEF Last
    <3> QED
      BY <3>1 DEF TopOf, Cont
  <2> QED
    BY <1>2, <2>1, <2>2, <2>3
<1>6. b <= k => StoreIs(u, E, b)
  BY <1>3, <1>4, <1>5 DEF StoreIs
<1> QED
  BY <1>6

(* The first posting on an open level adds to its store and to what is        *)
(* expected of it.                                                            *)
LEMMA StorePostedFirst ==
  ASSUME NEW s \in Tracers, NEW u \in Tracers, Len(u.stack) = Len(s.stack), NEW c,
         u.store = s.store \cup {c}, NEW b \in Nat, b = Len(s.stack), NEW E, StoreIs(s, E, b),
         NEW F, F = E \cup {c}
  PROVE  StoreIs(u, F, b)
<1>1. Gained(u, b, u.stack, b) = {} /\ Gained(s, b, s.stack, b) = {}
  BY GainedNone
<1>2. \A h \in Nat : ~(b <= h /\ h < b)
  OBVIOUS
<1>3. u.store = F
  BY <1>1 DEF StoreIs
<1> QED
  BY <1>1, <1>2, <1>3 DEF StoreIs

(* A tracer that settled keeps its store, and what is expected of it.         *)
LEMMA SettledStore ==
  ASSUME t \in Tracers, t' \in Tracers, NEW m, Settled(t, t', m), NEW b \in Nat, b <= Len(t.stack),
         Len(t.frames) - Len(t.stack) + b >= 0, NEW E, StoreIs(t, E, b)
  PROVE  StoreIs(t', E, b)
<1> DEFINE n == Len(t.stack)
<1>1. n \in Nat /\ n <= Len(t.stack) /\ n = Len(t.stack) /\ Len(t.frames) \in Nat
  BY Lengths
<1>2. /\ Len(t'.stack) = n /\ Holds(t, t', m, n) /\ t'.frames = t.frames /\ t'.store = t.store
  BY DEF Settled
<1> HIDE DEF n
<1>3. Len(t'.frames) = Len(t.frames) - (Len(t.stack) - n)
  BY <1>1, <1>2
<1> QED
  BY <1>1, <1>2, <1>3, StoreReduced

(* No node has been generated at the place of the alternative that is         *)
(* running.                                                                   *)
LEMMA ChildNew ==
  ASSUME Typed, Generated, pc = "alt"
  PROVE  /\ Child \notin DOMAIN effect /\ <<>> \in DOMAIN effect /\ here \in DOMAIN effect
         /\ \A n \in frontier : n.at \in DOMAIN effect
<1>1. /\ Running /\ Amid /\ NextOne = turn.cur /\ turn.cur \in Nat
  BY DEF Typed, Running, Amid, NextOne
<1>2. /\ \A at \in DOMAIN effect : at # <<>> /\ Front(at) = here => Last(at) < turn.cur
      /\ <<>> \in DOMAIN effect /\ here \in DOMAIN effect /\ \A n \in frontier : n.at \in DOMAIN effect
  BY <1>1 DEF Generated
<1> DEFINE c == Child
<1>3. c # <<>> /\ Front(c) = here /\ Last(c) = turn.cur
  BY ChildLooks
<1> HIDE DEF c
<1>4. c \notin DOMAIN effect
  <2>1. ~(turn.cur < turn.cur)
    BY <1>1
  <2> QED
    BY <1>2, <1>3, <2>1
<1> QED
  BY <1>2, <1>4 DEF c

--------------------------------------------------------------------------------
(* What is in force at a node, whether the search is there, goes there or     *)
(* will, is what the root holds and what the lists on the way to it do.       *)
Recalled ==
    Running =>
       /\ StoreIs(t, effect[<<>>], Len(root))
       /\ \A n \in frontier :
             /\ effect[n.at] = effect[<<>>] \cup Gained(t, Len(root), n.path, Len(n.path))
             /\ Len(root) < Len(n.path)
       /\ Active => effect[here] = effect[<<>>] \cup Gained(t, Len(root), target.path, Len(target.path))
       /\ pc \in {"branching", "loop"} => t.store = effect[here]
       /\ pc = "branching" /\ here = <<>> => Len(t.stack) = Len(root) /\ frontier = {}
       /\ pc = "branching" /\ here # <<>> => Len(root) < Len(t.stack)
       /\ pc = "restoring" /\ target.then = "branching" => here # <<>> /\ Len(root) < Len(target.path)

LEMMA PostedIs ==
  ASSUME t \in Tracers, t' \in Tracers, Sound, NEW c, Refs' = Refs, Posted(t, t', Refs, t.nodes, c)
  PROVE  \E k \in Nat : /\ Len(t.stack) = k + 1 /\ Holds(t, t', Refs', k)
                        /\ Len(t'.stack) = Len(t.stack)
                        /\ t'.frames = t.frames /\ t'.store = t.store \cup {c}
                        /\ Range(TopOf(t').head) = Range(TopOf(t).head) \cup {c}
<1> DEFINE k == Len(t.stack) - 1
<1>1. Len(t.stack) \in Nat /\ Len(t'.stack) \in Nat
  BY Lengths
<1>2. /\ Holds(t, t', Refs', k) /\ Len(t'.stack) = Len(t.stack)
      /\ t'.frames = t.frames /\ t'.store = t.store \cup {c}
      /\ k \in Nat /\ Len(t.stack) = k + 1
  BY <1>1 DEF Posted, Sound
<1> HIDE DEF k
<1>3. TopOf(t').head = <<c>> \o TopOf(t).head
  BY DEF Posted
<1>4. TopOf(t) \in ListSet
  <2>1. StackOK(t) /\ Len(t.stack) > 0
    BY DEF Sound, Sane, Counted
  <2> QED
    BY <2>1, TopIs
<1>5. t'.store \in Stores
  BY TracerFields
<1>6. TopOf(t).head \in Seq(Constraints) /\ c \in Constraints
  BY <1>2, <1>4, <1>5, ListFields DEF Stores
<1>7. Range(TopOf(t').head) = Range(TopOf(t).head) \cup {c}
  BY <1>3, <1>6, RangeCons
<1> QED
  BY <1>2, <1>7

(* The store is the one that was recorded, action by action.                  *)
LEMMA RecalledStep ==
  ASSUME Base, Next, Mirrored, Generated, Recalled
  PROVE  Recalled'
<1> DEFINE b == Len(root)
           E == effect[<<>>]
<1>0. /\ Typed /\ Sound /\ Aimed /\ Anchored /\ Typed' /\ Aimed'
      /\ t \in Tracers /\ t' \in Tracers /\ Refs \in Claims /\ Refs' \in Claims
  <2>1. Typed' /\ Aimed'
    BY TypedStep, AimedStep DEF Base
  <2>2. t' \in Tracers /\ Refs' \in Claims
    BY <2>1, RefsNext
  <2> QED
    BY <2>1, <2>2, RefsAre DEF Base, Typed
<1>1. /\ \A n \in frontier' : n.path \in Seq(Nat) /\ Claimed(Refs', n.path) /\ Len(n.path) \in Nat
      /\ Active' => target'.path \in Seq(Nat) /\ Claimed(Refs', target'.path) /\ Len(target'.path) \in Nat
  <2>1. \A n \in frontier' : n.path \in Seq(Nat) /\ Claimed(Refs', n.path)
    BY <1>0, RefsNext
  <2>3. Active' => target'.path = before' \/ target'.path = node'
    BY <1>0 DEF Active, Aimed
  <2>4. /\ Claimed(Refs', before') /\ Claimed(Refs', node') /\ before' \in Seq(Nat) /\ node' \in Seq(Nat)
    BY <1>0, RefsNext
  <2> QED
    BY <2>1, <2>3, <2>4, LenProperties
<1>2. Len(t.stack) \in Nat /\ Len(t'.stack) \in Nat /\ b \in Nat /\ Len(t.frames) \in Nat
  <2>1. root \in Seq(Nat)
    BY <1>0 DEF Typed
  <2> QED
    BY <1>0, <2>1, Lengths, LenProperties
<1>3. CASE Solve
  <2> DEFINE e == <<>>
             x == t.store
  <2>1. /\ effect' = [p \in {e} |-> x] /\ here' = e /\ frontier' = {} /\ pc' = "branching"
        /\ root' = t.stack
    BY <1>0, <1>3 DEF Solve, Anchored, Running
  <2>2. t'.stack = t.stack /\ t'.store = x
    BY <1>0, <1>3, SolveMoves DEF Started
  <2>3. effect'[e] = x
    BY <2>1
  <2>4. Gained(t', Len(root'), t'.stack, Len(t'.stack)) = {}
    BY <1>2, <2>1, <2>2, GainedNone
  <2>5. \A h \in Nat : ~(Len(root') <= h /\ h < Len(t'.stack))
    BY <1>2, <2>1, <2>2
  <2>6. StoreIs(t', x, Len(root'))
    <3> HIDE DEF x
    <3> QED
      BY <2>2, <2>4, <2>5 DEF StoreIs
  <2>e. e = <<>>
    OBVIOUS
  <2> HIDE DEF e, x
  <2> QED
    BY <2>e, <2>1, <2>2, <2>3, <2>6 DEF Recalled, Active
<1>4. ASSUME Running
      PROVE  /\ StoreIs(t, E, b)
             /\ \A n \in frontier : effect[n.at] = E \cup Gained(t, b, n.path, Len(n.path)) /\ b < Len(n.path)
             /\ Active => effect[here] = E \cup Gained(t, b, target.path, Len(target.path))
             /\ pc \in {"branching", "loop"} => t.store = effect[here]
             /\ b <= Len(t.stack) /\ Len(t.frames) - Len(t.stack) + b >= 0
             /\ t.store = E \cup Gained(t, b, t.stack, Len(t.stack))
  <2>1. b <= Len(t.stack) /\ Anchor \in 1..Len(t.frames)
    BY <1>0, <1>4, AnchorIs
  <2>2. Len(t.frames) - Len(t.stack) + b >= 0
    BY <1>2, <2>1 DEF Anchor
  <2> QED
    BY <1>4, <2>1, <2>2 DEF Recalled, StoreIs
<1>p. ASSUME NEW k, Holds(t, t', Refs', k), NEW p \in Seq(Nat), Claimed(Refs', p), Len(p) \in Nat
      PROVE  Gained(t', b, p, Len(p)) = Gained(t, b, p, Len(p))
  <2>1. Looks(t, b, p, t', p, Len(p))
    BY <1>0, <1>p, PathLooks
  <2> QED
    BY <1>2, <1>p, <2>1, GainedLooks
<1>f. ASSUME Running, NEW k, Holds(t, t', Refs', k), frontier' \subseteq frontier, effect'[<<>>] = E,
             \A n \in frontier' : effect'[n.at] = effect[n.at]
      PROVE  \A n \in frontier' :
                effect'[n.at] = E \cup Gained(t', b, n.path, Len(n.path)) /\ b < Len(n.path)
  <2> TAKE n \in frontier'
  <2>1. Gained(t', b, n.path, Len(n.path)) = Gained(t, b, n.path, Len(n.path))
    BY <1>1, <1>f, <1>p
  <2>2. effect[n.at] = E \cup Gained(t, b, n.path, Len(n.path)) /\ b < Len(n.path)
    BY <1>4, <1>f
  <2> QED
    BY <1>f, <2>1, <2>2
<1>a. ASSUME Running, NEW k, Holds(t, t', Refs', k), Active, Active', target'.path = target.path,
             effect'[here'] = effect[here]
      PROVE  effect'[here'] = E \cup Gained(t', b, target'.path, Len(target'.path))
  <2>1. Gained(t', b, target'.path, Len(target'.path)) = Gained(t, b, target'.path, Len(target'.path))
    BY <1>1, <1>a, <1>p
  <2> QED
    BY <1>4, <1>a, <2>1
<1>5. ASSUME Running, Settled(t, t', Refs'), frontier' \subseteq frontier, root' = root, effect' = effect
      PROVE  /\ StoreIs(t', E, b)
             /\ \A n \in frontier' : effect'[n.at] = E \cup Gained(t', b, n.path, Len(n.path)) /\ b < Len(n.path)
             /\ t'.store = t.store /\ t'.stack = t.stack
  <2>1. StoreIs(t', E, b)
    BY <1>0, <1>2, <1>4, <1>5, SettledStore
  <2>2. Holds(t, t', Refs', Len(t.stack)) /\ t'.store = t.store /\ t'.stack = t.stack
    BY <1>5 DEF Settled
  <2>3. effect'[<<>>] = E /\ \A n \in frontier' : effect'[n.at] = effect[n.at]
    BY <1>5
  <2> QED
    BY <1>5, <1>f, <2>1, <2>2, <2>3
<1>6. ASSUME Running, Settled(t, t', Refs'), frontier' \subseteq frontier, root' = root, effect' = effect,
             pc' \in {"check", "pick", "leave", "done"}
      PROVE  Recalled'
  <2>1. /\ StoreIs(t', E, b) /\ effect'[<<>>] = E
        /\ \A n \in frontier' : effect'[n.at] = E \cup Gained(t', b, n.path, Len(n.path)) /\ b < Len(n.path)
    BY <1>5, <1>6
  <2>2. ~Active' /\ pc' \notin {"branching", "loop", "restoring"}
    BY <1>6 DEF Active
  <2> HIDE DEF E
  <2> QED
    BY <1>6, <2>1, <2>2 DEF Recalled, Active
<1>7. CASE Infer
  <2>1. /\ root' = root /\ frontier' = frontier /\ pc' = "branching" /\ pc = "branching" /\ here' = here
        /\ effect' = [effect EXCEPT ![here] = t'.store] /\ Running
    BY <1>7 DEF Infer, search, Running
  <2>2. /\ <<>> \in DOMAIN effect /\ here \in DOMAIN effect
        /\ \A n \in frontier : n.at \in DOMAIN effect /\ n.at # here
    BY <2>1 DEF Generated, Coming
  <2>3. PICK c : Refs' = Refs /\ Posted(t, t', Refs, t.nodes, c)
    BY <1>0, <1>7, InferMoves
  <2>4. PICK k \in Nat :
           /\ Len(t.stack) = k + 1 /\ Holds(t, t', Refs', k) /\ Len(t'.stack) = Len(t.stack)
           /\ t'.frames = t.frames /\ t'.store = t.store \cup {c}
           /\ Range(TopOf(t').head) = Range(TopOf(t).head) \cup {c}
    BY <1>0, <2>3, PostedIs
  <2>6. CASE here = <<>>
    <3>1. Len(t.stack) = b /\ frontier = {} /\ t.store = E
      BY <1>4, <2>1, <2>6 DEF Recalled
    <3>2. StoreIs(t', E \cup {c}, b)
      <4> DEFINE F == E \cup {c}
      <4>1. StoreIs(t, E, b) /\ b = Len(t.stack) /\ b \in Nat /\ F = E \cup {c}
        BY <1>2, <1>4, <2>1, <3>1
      <4> HIDE DEF E, b, F
      <4>2. StoreIs(t', F, b)
        BY <1>0, <2>4, <4>1, StorePostedFirst
      <4> QED
        BY <4>2 DEF F
    <3>3. effect'[here] = t'.store /\ t'.store = E \cup {c} /\ effect'[<<>>] = t'.store
      BY <2>1, <2>2, <2>4, <2>6, <3>1
    <3>4. StoreIs(t', effect'[<<>>], b)
      BY <3>2, <3>3
    <3>5. ~Active'
      BY <2>1 DEF Active
    <3> QED
      BY <2>1, <2>4, <2>6, <3>1, <3>3, <3>4, <3>5 DEF Recalled
  <2>7. CASE here # <<>>
    <3>1. b < Len(t.stack)
      BY <2>1, <2>7 DEF Recalled
    <3>2. StoreIs(t', E, b)
      <4>1. StoreIs(t, E, b) /\ b < Len(t.stack) /\ b \in Nat
        BY <1>2, <1>4, <2>1, <3>1
      <4> HIDE DEF E, b
      <4> QED
        BY <1>0, <2>4, <4>1, StorePosted
    <3>3. effect'[here] = t'.store /\ effect'[<<>>] = E /\ \A n \in frontier' : effect'[n.at] = effect[n.at]
      BY <2>1, <2>2, <2>7
    <3>4. \A n \in frontier' : effect'[n.at] = E \cup Gained(t', b, n.path, Len(n.path)) /\ b < Len(n.path)
      BY <1>f, <2>1, <2>4, <3>3
    <3>5. ~Active'
      BY <2>1 DEF Active
    <3> HIDE DEF E
    <3> QED
      BY <2>1, <2>4, <2>7, <3>1, <3>2, <3>3, <3>4, <3>5 DEF Recalled
  <2> QED
    BY <2>6, <2>7
<1>8. ASSUME NEW low \in Costs, Post(low) PROVE Recalled'
  <2>1. /\ root' = root /\ frontier' = frontier /\ pc = "alt" /\ pc' \in {"alt", "fail"} /\ target' = target
        /\ here' = here /\ effect' = effect /\ Running /\ Active /\ Active'
    BY <1>8 DEF Post, ghosts, Running, Active
  <2>2. PICK c : Refs' = Refs /\ Posted(t, t', Refs, t.nodes, c)
    BY <1>0, <1>8, PostMoves
  <2>3. PICK k \in Nat :
           /\ Len(t.stack) = k + 1 /\ Holds(t, t', Refs', k) /\ Len(t'.stack) = Len(t.stack)
           /\ t'.frames = t.frames /\ t'.store = t.store \cup {c}
           /\ Range(TopOf(t').head) = Range(TopOf(t).head) \cup {c}
    BY <1>0, <2>2, PostedIs
  <2>4. b < Len(t.stack)
    <3>1. Len(before) \in Nat /\ b <= Len(before) /\ Len(t.stack) = Len(before) + 1
      BY <1>0, <2>1, BackIsOpen DEF Aimed
    <3> HIDE DEF b
    <3> QED
      BY <1>2, <3>1
  <2>5. StoreIs(t', E, b)
    <3>1. StoreIs(t, E, b) /\ b < Len(t.stack) /\ b \in Nat
      BY <1>2, <1>4, <2>1, <2>4
    <3> HIDE DEF E, b
    <3> QED
      BY <1>0, <2>3, <3>1, StorePosted
  <2>6. /\ effect'[<<>>] = E /\ (\A n \in frontier' : effect'[n.at] = effect[n.at])
        /\ effect'[here'] = effect[here] /\ target'.path = target.path
    BY <2>1
  <2>7. \A n \in frontier' : effect'[n.at] = E \cup Gained(t', b, n.path, Len(n.path)) /\ b < Len(n.path)
    BY <1>f, <2>1, <2>3, <2>6
  <2>8. effect'[here'] = E \cup Gained(t', b, target'.path, Len(target'.path))
    BY <1>a, <2>1, <2>3, <2>6
  <2> HIDE DEF E
  <2> QED
    BY <2>1, <2>5, <2>6, <2>7, <2>8 DEF Recalled
<1>9. CASE Enter
  <2>1. /\ root' = root /\ frontier' = frontier /\ pc' = "alt" /\ pc = "loop" /\ here' = here
        /\ effect' = effect /\ Running
        /\ target' = [path |-> t.stack, depth |-> t.level, then |-> "loop"]
    BY <1>9 DEF Enter, ghosts, Running
  <2>2. Entered(t, t', Refs')
    BY <1>0, <1>9, EnterMoves
  <2> DEFINE k == Len(t.stack)
             i == t.pushes + 1
  <2>3. /\ Holds(t, t', Refs', k) /\ Len(t'.stack) = Len(t.stack) + 1
        /\ k = Len(t.stack) /\ target'.path = t.stack /\ t'.store = t.store
        /\ t'.frames = Append(t.frames, [id |-> i, store |-> t.store])
    BY <2>1, <2>2 DEF Entered
  <2>4. Range(TopOf(t').head) = {}
    <3> DEFINE e == <<>>
    <3>1. TopOf(t').head = e
      BY <2>2 DEF Entered
    <3>2. DOMAIN e = {}
      OBVIOUS
    <3> HIDE DEF e
    <3> QED
      BY <3>1, <3>2 DEF Range
  <2> HIDE DEF k, i
  <2>5. t'.store = t.store \cup Range(TopOf(t').head)
    BY <2>3, <2>4
  <2>6. StoreIs(t', E, b)
    <3>1. StoreIs(t, E, b) /\ b <= Len(t.stack) /\ b \in Nat /\ Len(t.frames) - Len(t.stack) + b >= 0
      BY <1>2, <1>4, <2>1
    <3> HIDE DEF E, b
    <3> QED
      BY <1>0, <2>3, <2>5, <3>1, StoreGrown
  <2>7. /\ effect'[<<>>] = E /\ (\A n \in frontier' : effect'[n.at] = effect[n.at])
        /\ effect'[here'] = effect[here]
    BY <2>1
  <2>8. \A n \in frontier' : effect'[n.at] = E \cup Gained(t', b, n.path, Len(n.path)) /\ b < Len(n.path)
    BY <1>f, <2>1, <2>3, <2>7
  <2>9. effect'[here'] = E \cup Gained(t', b, target'.path, Len(target'.path))
    <3>1. Looks(t, b, t.stack, t', t.stack, Len(t.stack))
      BY <2>3, TakenLooks
    <3>2. Gained(t', b, t.stack, Len(t.stack)) = Gained(t, b, t.stack, Len(t.stack))
      BY <1>2, <3>1, GainedLooks
    <3>3. t.store = effect[here] /\ t.store = E \cup Gained(t, b, t.stack, Len(t.stack))
      BY <1>4, <2>1
    <3> QED
      BY <2>3, <2>7, <3>2, <3>3
  <2> HIDE DEF E
  <2> QED
    BY <2>1, <2>6, <2>7, <2>8, <2>9 DEF Recalled
<1>10. CASE Fail
  <2>1. /\ root' = root /\ frontier' = frontier /\ pc' = "restoring" /\ target'.then = "loop"
        /\ pc = "fail" /\ target' = target /\ here' = here /\ effect' = effect
        /\ Running /\ Active /\ Active'
    BY <1>0, <1>10 DEF Fail, Return, search, ghosts, Aimed, Running, Active
  <2>2. Refs' = Refs /\ Unwound(t, t', Refs, t.nodes, Len(before))
    BY <1>0, <1>10, FailMoves
  <2> DEFINE n == Len(before)
  <2>3. n \in Nat /\ n <= Len(t.stack) /\ b <= n
    BY <1>0, <1>10, BackIsOpen DEF Fail
  <2>4. /\ Holds(t, t', Refs', n) /\ Len(t'.stack) = n
        /\ Len(t'.frames) = Len(t.frames) - (Len(t.stack) - n)
        /\ \A k \in 1..Len(t'.frames) : t'.frames[k] = t.frames[k]
        /\ t'.store = IF n = Len(t.stack) THEN t.store
                      ELSE t.frames[Len(t.frames) - (Len(t.stack) - n) + 1].store
    BY <2>2 DEF Unwound
  <2> HIDE DEF n
  <2>5. StoreIs(t', E, b)
    BY <1>0, <1>2, <1>4, <2>1, <2>3, <2>4, StoreReduced
  <2>6. /\ effect'[<<>>] = E /\ (\A m \in frontier' : effect'[m.at] = effect[m.at])
        /\ effect'[here'] = effect[here] /\ target'.path = target.path
    BY <2>1
  <2>7. \A m \in frontier' : effect'[m.at] = E \cup Gained(t', b, m.path, Len(m.path)) /\ b < Len(m.path)
    BY <1>f, <2>1, <2>4, <2>6
  <2>8. effect'[here'] = E \cup Gained(t', b, target'.path, Len(target'.path))
    BY <1>a, <2>1, <2>4, <2>6
  <2> HIDE DEF E
  <2> QED
    BY <2>1, <2>5, <2>6, <2>7, <2>8 DEF Recalled
<1>11. CASE Keep
  <2> DEFINE q == [path |-> t.stack, depth |-> t.level + 1, at |-> Child,
                   value |-> IF objective THEN value(t.store) ELSE 0]
             n == Len(before)
             c == Child
  <2>1. /\ root' = root /\ frontier' = frontier \cup {q} /\ q.path = t.stack /\ q.at = c
        /\ pc' = "restoring" /\ target'.then = "loop" /\ pc = "alt" /\ target' = target /\ here' = here
        /\ effect' = Record(c, t.store)
        /\ Running /\ Active /\ Active'
    BY <1>0, <1>11 DEF Keep, Return, Aimed, Running, Active
  <2>2. Captured(t, t', Refs', n) /\ n \in Nat /\ n <= Len(t.stack) /\ Len(t.stack) = n + 1 /\ b <= n
    BY <1>0, <1>11, <2>1, KeepMoves, BackIsOpen DEF Aimed
  <2>3. /\ c \notin DOMAIN effect /\ <<>> \in DOMAIN effect /\ here \in DOMAIN effect
        /\ \A m \in frontier : m.at \in DOMAIN effect
    BY <1>0, <2>1, ChildNew
  <2> HIDE DEF q, c
  <2>4. /\ Holds(t, t', Refs', n) /\ Len(t'.stack) = n
        /\ Len(t'.frames) = Len(t.frames) - (Len(t.stack) - n)
        /\ \A k \in 1..Len(t'.frames) : t'.frames[k] = t.frames[k]
        /\ t'.store = IF n = Len(t.stack) THEN t.store
                      ELSE t.frames[Len(t.frames) - (Len(t.stack) - n) + 1].store
    BY <2>2 DEF Captured
  <2> HIDE DEF n
  <2>5. StoreIs(t', E, b)
    BY <1>0, <1>2, <1>4, <2>1, <2>2, <2>4, StoreReduced
  <2>6. /\ effect'[<<>>] = E /\ (\A m \in frontier : effect'[m.at] = effect[m.at])
        /\ effect'[here'] = effect[here] /\ target'.path = target.path /\ effect'[c] = t.store
    <3> DEFINE x == t.store
               g == Record(c, x)
               e == <<>>
    <3> HIDE DEF E, x, e
    <3>1. g[c] = x /\ \A p \in DOMAIN effect : p # c => g[p] = effect[p]
      BY DEF Record
    <3>2. \A p \in DOMAIN effect : g[p] = effect[p]
      BY <2>3, <3>1
    <3>3. effect' = g /\ e \in DOMAIN effect /\ e = <<>> /\ E = effect[e] /\ x = t.store
      BY <2>1, <2>3 DEF E, x, e
    <3> HIDE DEF g
    <3> QED
      BY <2>1, <2>3, <3>1, <3>2, <3>3
  <2>7. \A m \in frontier : effect'[m.at] = E \cup Gained(t', b, m.path, Len(m.path)) /\ b < Len(m.path)
    <3> TAKE m \in frontier
    <3>1. Gained(t', b, m.path, Len(m.path)) = Gained(t, b, m.path, Len(m.path))
      BY <1>1, <1>p, <2>1, <2>4
    <3>2. effect[m.at] = E \cup Gained(t, b, m.path, Len(m.path)) /\ b < Len(m.path)
      BY <1>4, <2>1
    <3> QED
      BY <2>6, <3>1, <3>2
  <2>8. effect'[here'] = E \cup Gained(t', b, target'.path, Len(target'.path))
    BY <1>a, <2>1, <2>4, <2>6
  <2>9. effect'[q.at] = E \cup Gained(t', b, q.path, Len(q.path)) /\ b < Len(q.path)
    <3>1. q \in frontier'
      BY <2>1
    <3>2. Gained(t', b, q.path, Len(q.path)) = Gained(t, b, q.path, Len(q.path))
      BY <1>1, <1>p, <2>4, <3>1
    <3>3. t.store = E \cup Gained(t, b, t.stack, Len(t.stack))
      BY <1>4, <2>1
    <3>4. b < Len(t.stack)
      BY <1>2, <2>2
    <3> QED
      BY <2>1, <2>6, <3>2, <3>3, <3>4
  <2>10. \A m \in frontier' : effect'[m.at] = E \cup Gained(t', b, m.path, Len(m.path)) /\ b < Len(m.path)
    BY <2>1, <2>7, <2>9
  <2> HIDE DEF E
  <2> QED
    BY <2>1, <2>5, <2>6, <2>8, <2>10 DEF Recalled
<1>12. CASE ReplayList
  <2>1. /\ root' = root /\ frontier' = frontier /\ pc' = "restoring" /\ pc = "restoring"
        /\ target' = target /\ Restoring /\ t' = Replay(t, target.path) /\ here' = here
        /\ effect' = effect /\ Running /\ Active /\ Active'
    BY <1>12 DEF ReplayList, Restoring, search, ghosts, Running, Active
  <2> DEFINE r == t.lists[target.path[Len(t.stack) + 1]]
             k == Len(t.stack)
             i == r.node
  <2>2. Replayed(t, t', Refs, t.nodes, r) /\ Refs' = Refs
    BY <1>0, <1>12, <2>1, ReplayMoves DEF ReplayList, search, Refs
  <2>3. /\ Holds(t, t', Refs', k) /\ Len(t'.stack) = Len(t.stack) + 1 /\ k = Len(t.stack)
        /\ Range(TopOf(t').head) = Range(r.head)
        /\ t'.frames = Append(t.frames, [id |-> i, store |-> t.store])
        /\ t'.store = t.store \cup Range(r.head)
    BY <2>2 DEF Replayed
  <2> HIDE DEF i, r, k
  <2>4. t'.store = t.store \cup Range(TopOf(t').head)
    BY <2>3
  <2>5. StoreIs(t', E, b)
    <3>1. StoreIs(t, E, b) /\ b <= Len(t.stack) /\ b \in Nat /\ Len(t.frames) - Len(t.stack) + b >= 0
      BY <1>2, <1>4, <2>1
    <3> HIDE DEF E, b
    <3> QED
      BY <1>0, <2>3, <2>4, <3>1, StoreGrown
  <2>6. /\ effect'[<<>>] = E /\ (\A n \in frontier' : effect'[n.at] = effect[n.at])
        /\ effect'[here'] = effect[here] /\ target'.path = target.path
    BY <2>1
  <2>7. \A n \in frontier' : effect'[n.at] = E \cup Gained(t', b, n.path, Len(n.path)) /\ b < Len(n.path)
    BY <1>f, <2>1, <2>3, <2>6
  <2>8. effect'[here'] = E \cup Gained(t', b, target'.path, Len(target'.path))
    BY <1>a, <2>1, <2>3, <2>6
  <2>9. target.then = "branching" => here # <<>> /\ b < Len(target.path)
    BY <2>1 DEF Recalled
  <2> HIDE DEF E
  <2> QED
    BY <2>1, <2>5, <2>6, <2>7, <2>8, <2>9 DEF Recalled
<1>13. CASE Pick
  <2>1. root' = root /\ pc = "pick" /\ effect' = effect /\ Running
    BY <1>13 DEF Pick, Running
  <2>2. PICK n \in frontier :
           /\ frontier' = frontier \ {n} /\ node' = n.path
           /\ \/ /\ target' = [path |-> n.path, depth |-> n.depth - 1, then |-> "branching"]
                 /\ here' = n.at /\ pc' = "restoring"
                 /\ \E k \in Nat : Left(t, t', Refs', n.path, k, Len(root))
              \/ UNCHANGED <<pc, target, here>> /\ Settled(t, t', Refs')
    BY <1>0, <1>13, PickMoves
  <2>3. ASSUME NEW k \in Nat, Left(t, t', Refs', n.path, k, Len(root)), pc' = "restoring", here' = n.at,
               target' = [path |-> n.path, depth |-> n.depth - 1, then |-> "branching"]
        PROVE  Recalled'
    <3> DEFINE p == n.path
    <3>1. /\ Holds(t, t', Refs', k) /\ Len(t'.stack) = k /\ b <= k /\ k <= Len(t.stack)
          /\ Len(t'.frames) = Len(t.frames) - (Len(t.stack) - k)
          /\ \A j \in 1..Len(t'.frames) : t'.frames[j] = t.frames[j]
          /\ t'.store = IF k = Len(t.stack) THEN t.store
                        ELSE t.frames[Len(t.frames) - (Len(t.stack) - k) + 1].store
      BY <2>3 DEF Left, Unwound
    <3>2. /\ target'.path = p /\ p \in Seq(Nat) /\ Claimed(Refs', p) /\ Len(p) \in Nat
          /\ target'.then = "branching" /\ Active'
      BY <1>1, <2>3 DEF Active
    <3>3. effect[n.at] = E \cup Gained(t, b, p, Len(p)) /\ b < Len(p) /\ n.at # <<>>
      BY <1>4, <2>1 DEF Generated
    <3> HIDE DEF p
    <3>4. StoreIs(t', E, b)
      BY <1>0, <1>2, <1>4, <2>1, <3>1, StoreReduced
    <3>5. effect'[<<>>] = E /\ frontier' \subseteq frontier /\ \A m \in frontier' : effect'[m.at] = effect[m.at]
      BY <2>1, <2>2
    <3>6. \A m \in frontier' : effect'[m.at] = E \cup Gained(t', b, m.path, Len(m.path)) /\ b < Len(m.path)
      BY <1>f, <2>1, <3>1, <3>5
    <3>7. effect'[here'] = E \cup Gained(t', b, target'.path, Len(target'.path))
      <4>1. Gained(t', b, p, Len(p)) = Gained(t, b, p, Len(p))
        BY <1>p, <3>1, <3>2
      <4> QED
        BY <2>1, <2>3, <3>2, <3>3, <4>1
    <3> HIDE DEF E
    <3> QED
      BY <2>1, <2>3, <3>2, <3>3, <3>4, <3>5, <3>6, <3>7 DEF Recalled
  <2>4. ASSUME Settled(t, t', Refs'), UNCHANGED <<pc, target, here>> PROVE Recalled'
    BY <1>6, <2>1, <2>2, <2>4
  <2> QED
    BY <2>2, <2>3, <2>4
<1>14. CASE EndRestore
  <2>1. /\ root' = root /\ frontier' = frontier /\ pc' = target.then /\ pc = "restoring" /\ effect' = effect
        /\ here' = here /\ Running /\ Active
    BY <1>14 DEF EndRestore, ghosts, Running, Active
  <2>2. Settled(t, t', Refs')
    BY <1>0, <1>14, EndMoves
  <2>3. /\ StoreIs(t', E, b) /\ t'.store = t.store /\ t'.stack = t.stack /\ effect'[<<>>] = E
        /\ \A n \in frontier' : effect'[n.at] = E \cup Gained(t', b, n.path, Len(n.path)) /\ b < Len(n.path)
    BY <1>5, <2>1, <2>2
  <2>4. /\ effect[here] = E \cup Gained(t, b, target.path, Len(target.path))
        /\ t.store = E \cup Gained(t, b, t.stack, Len(t.stack))
    BY <1>4, <2>1
  <2>5. Along(t, t.stack, target.path, Len(t.stack)) /\ Alike(t, b, t.stack, target.path)
    BY <2>1 DEF Mirrored
  <2>6. Len(target.path) \in Nat /\ Len(target.path) = Len(t.stack)
    <3>1. Len(target.path) \in Nat
      BY <1>0, LenProperties DEF Typed
    <3> QED
      BY <1>2, <1>14, <2>5, <3>1 DEF EndRestore, Along
  <2>7. t'.store = effect'[here']
    <3>1. Gained(t, b, t.stack, Len(t.stack)) = Gained(t, b, target.path, Len(t.stack))
      BY <1>2, <2>5, <2>6, GainedAlike
    <3> QED
      BY <2>1, <2>3, <2>4, <2>6, <3>1
  <2>8. CASE target.then = "loop"
    <3> HIDE DEF E
    <3> QED
      BY <2>1, <2>3, <2>7, <2>8 DEF Recalled, Active
  <2>9. CASE target.then = "branching"
    <3>1. here # <<>> /\ b < Len(target.path)
      BY <2>1, <2>9 DEF Recalled
    <3>2. here' # <<>> /\ Len(root') < Len(t'.stack)
      BY <2>1, <2>3, <2>6, <3>1
    <3> HIDE DEF E
    <3> QED
      BY <2>1, <2>3, <2>7, <2>9, <3>2 DEF Recalled, Active
  <2> QED
    BY <1>0, <2>1, <2>8, <2>9 DEF Aimed
<1>15. CASE FailRestore
  <2>1. target.then = "branching"
    BY <1>0, <1>15, NotAmidReplay DEF FailRestore
  <2>2. /\ root' = root /\ frontier' = frontier /\ pc' = "pick" /\ effect' = effect /\ Running
    BY <1>15, <2>1 DEF FailRestore, Restoring, Running
  <2>3. Settled(t, t', Refs')
    <3>1. Refs' = Refs /\ Settled(t, t', Refs)
      BY <1>0, <1>15, AbandonMoves
    <3> QED
      BY <3>1
  <2> QED
    BY <1>6, <2>2, <2>3
<1>16. CASE Stop
  <2>1. root' = root /\ frontier' \subseteq frontier /\ pc' = "leave" /\ effect' = effect /\ Running
    BY <1>16 DEF Stop, ghosts, Running
  <2>2. Settled(t, t', Refs')
    BY <1>0, <1>16, StopMoves
  <2> QED
    BY <1>6, <2>1, <2>2
<1>17. CASE Exhausted
  <2>1. root' = root /\ frontier' = frontier /\ pc' = "leave" /\ effect' = effect /\ Running
    BY <1>17 DEF Exhausted, ghosts, Running
  <2>2. Settled(t, t', Refs')
    BY <1>0, <1>17, ExhaustedMoves
  <2> QED
    BY <1>6, <2>1, <2>2
<1>18. CASE End
  BY <1>18 DEF End, Recalled, Running
<1>19. ASSUME t' = t, root' = root, before' = before, node' = node, frontier' = frontier, effect' = effect,
              Running
       PROVE  Settled(t, t', Refs')
  <2>1. Refs' = Refs
    BY <1>19 DEF Refs
  <2>2. Settled(t, t, Refs)
    BY <1>0, StillMoves
  <2> QED
    BY <1>19, <2>1, <2>2
<1>20. CASE Leaf \/ Leave \/ Continue
  <2>1. /\ t' = t /\ root' = root /\ before' = before /\ node' = node /\ frontier' = frontier
        /\ effect' = effect /\ Running /\ pc' \in {"check", "pick"}
    BY <1>20 DEF Leaf, Leave, Continue, search, ghosts, Running
  <2> QED
    BY <1>6, <1>19, <2>1
<1>21. ASSUME NEW n \in 1..MaxBranches, Branch(n) PROVE Recalled'
  <2>1. /\ t' = t /\ root' = root /\ frontier' = frontier /\ here' = here /\ effect' = effect
        /\ pc = "branching" /\ pc' = "loop" /\ Running
    BY <1>21 DEF Branch, Running
  <2> QED
    BY <2>1 DEF Recalled, Active
<1>22. CASE ReachLimit
  <2>1. UNCHANGED <<pc, t, root, frontier, target, here, effect>>
    BY <1>22 DEF ReachLimit, search, ghosts
  <2> QED
    BY <2>1 DEF Recalled, Active, Running
<1> QED
  BY <1>3, <1>7, <1>8, <1>9, <1>10, <1>11, <1>12, <1>13, <1>14, <1>15, <1>16, <1>17, <1>18, <1>20,
     <1>21, <1>22 DEF Next

--------------------------------------------------------------------------------
(* From the start of the search, and through the steps that change nothing.   *)
Told == Mirrored /\ Generated /\ Recalled

LEMMA ToldStarts ==
  ASSUME Init
  PROVE  Told
<1>1. ~Running /\ frontier = {} /\ ~Active /\ pc = "idle"
  BY DEF Init, Running, Active
<1> QED
  BY <1>1 DEF Told, Mirrored, Generated, Recalled

LEMMA ToldStays ==
  ASSUME Told, UNCHANGED vars
  PROVE  Told'
<1>1. UNCHANGED <<pc, t, root, frontier, target, turn, here, effect, expanded>>
  BY DEF vars, search, ghosts
<1>2. Mirrored'
  BY <1>1 DEF Told, Mirrored, Active
<1>3. Generated'
  BY <1>1 DEF Told, Generated, Running, Coming, Amid, NextOne
<1>4. Recalled'
  BY <1>1 DEF Told, Recalled, Running, Active
<1> QED
  BY <1>2, <1>3, <1>4 DEF Told

(* How each node was reached stays known for the whole search.                *)
THEOREM ToldAlways == Spec => []Told
<1>1. Init => Told
  BY ToldStarts
<1>2. Base /\ Told /\ [Next]_vars => Told'
  <2> SUFFICES ASSUME Base, Told, [Next]_vars PROVE Told'
    OBVIOUS
  <2>1. CASE Next
    BY <2>1, MirroredStep, GeneratedStep, RecalledStep DEF Told
  <2>2. CASE UNCHANGED vars
    BY <2>2, ToldStays
  <2> QED
    BY <2>1, <2>2
<1> QED
  BY <1>1, <1>2, BaseAlways, PTL DEF Spec

(* Whenever bfs() asks for branches, or for the next alternative, the         *)
(* constraints in force are those that were when the node was reached first,  *)
(* wherever the search has been since: for every tree, every frontier and any *)
(* number of calls of solve().                                                *)
THEOREM FaithfulAlways == Spec => []Faithful
<1>1. Told => Faithful
  BY DEF Told, Recalled, Faithful, Running
<1> QED
  BY <1>1, ToldAlways, PTL

--------------------------------------------------------------------------------
(* A constraint inferred from a store does not change its bound.              *)
LEMMA ValueBounds ==
  ASSUME NEW S \in SUBSET Constraints
  PROVE  /\ \A c \in Constraints : c.low = value(S) => value(S \cup {c}) = value(S)
         /\ S = {} => value(S) = 0
<1> DEFINE V == {0} \cup {c.low : c \in S}
<1>1. V \subseteq Costs
  BY BFSearchAssumption DEF Constraints
<1>2. V \in SUBSET Int /\ V # {} /\ NoPrimal \in Int /\ \A y \in V : y <= NoPrimal
  <2>1. 0 \in V
    OBVIOUS
  <2> HIDE DEF V
  <2>2. \A y \in V : y \in Nat /\ y < NoPrimal
    BY <1>1, BFSearchAssumption
  <2>3. NoPrimal \in Nat
    BY BFSearchAssumption
  <2> QED
    BY <2>1, <2>2, <2>3
<1>3. value(S) = Max(V)
  BY DEF value
<1>4. Max(V) \in V
  <2> HIDE DEF V
  <2> QED
    BY <1>2, GreatestInt
<1>5. ASSUME NEW c \in Constraints, c.low = value(S) PROVE value(S \cup {c}) = value(S)
  <2> DEFINE W == {0} \cup {d.low : d \in S \cup {c}}
  <2>1. \A y : y \in W <=> y \in V \/ y = c.low
    OBVIOUS
  <2>2. value(S \cup {c}) = Max(W)
    BY DEF value
  <2> HIDE DEF V, W
  <2>3. W = V
    BY <1>3, <1>4, <1>5, <2>1
  <2> QED
    BY <1>3, <2>2, <2>3
<1>6. ASSUME S = {} PROVE value(S) = 0
  <2>1. \A y \in V : y = 0
    BY <1>6
  <2> HIDE DEF V
  <2> QED
    BY <1>3, <1>4, <2>1
<1> QED
  BY <1>5, <1>6

(* The bounds of the nodes: a node is gone to only if it may give a better    *)
(* solution than the best so far.                                             *)
Statistics == [nodes : Nat, solutions : Nat, failures : Nat, completed : BOOLEAN]

Tallied ==
    /\ runs \in Nat /\ stats \in Statistics
    /\ \A at \in DOMAIN effect : effect[at] \in Stores
    /\ pc = "idle" => runs = 0 /\ t.store = {} /\ primal = NoPrimal
    /\ pc # "idle" => runs >= 1

Worth ==
    /\ objective => \A n \in frontier : n.value = value(effect[n.at])
    /\ objective /\ Coming /\ (here # <<>> \/ runs = 1) => value(effect[here]) < primal

LEMMA StoreValue ==
  ASSUME NEW S \in Stores
  PROVE  S \in SUBSET Constraints /\ value(S) \in Costs /\ value(S) \in Nat
<1>1. S \in SUBSET Constraints
  BY DEF Stores
<1> QED
  BY <1>1, ValueIs

(* The counters and the loop over the alternatives.                           *)
LEMMA TalliedStep ==
  ASSUME Base, Next, Tallied
  PROVE  Tallied'
<1>0. /\ Typed /\ Sound /\ Aimed /\ Anchored /\ Typed' /\ t \in Tracers /\ t' \in Tracers
      /\ t.store \in Stores /\ t'.store \in Stores
  <2>1. Typed'
    BY TypedStep DEF Base
  <2>2. t' \in Tracers /\ t \in Tracers
    BY <2>1, RefsNext DEF Base, Typed
  <2> QED
    BY <2>1, <2>2, TracerFields DEF Base
<1>1. runs' \in Nat /\ (pc' # "idle" => runs' >= 1) /\ pc' # "idle"
  <2>1. CASE Solve
    BY <2>1 DEF Solve, Tallied
  <2>2. ASSUME pc # "idle", pc' # "idle", runs' = runs
        PROVE  runs' \in Nat /\ (pc' # "idle" => runs' >= 1) /\ pc' # "idle"
    BY <2>2 DEF Tallied
  <2>3. CASE Infer \/ Leaf \/ Enter \/ Keep \/ Fail \/ ReachLimit \/ Leave
    BY <2>2, <2>3 DEF Infer, Leaf, Enter, Keep, Return, Fail, ReachLimit, Leave
  <2>4. CASE ReplayList \/ Continue \/ Stop \/ Pick \/ Exhausted \/ End
    BY <2>2, <2>4 DEF ReplayList, Restoring, Continue, Stop, Pick, Exhausted, End
  <2>5. CASE FailRestore
    BY <2>2, <2>5 DEF FailRestore, Restoring
  <2>6. CASE EndRestore
    BY <1>0, <2>2, <2>6 DEF EndRestore, Aimed
  <2>7. ASSUME NEW n \in 1..MaxBranches, Branch(n)
        PROVE  runs' \in Nat /\ (pc' # "idle" => runs' >= 1) /\ pc' # "idle"
    BY <2>2, <2>7 DEF Branch
  <2>8. ASSUME NEW low \in Costs, Post(low)
        PROVE  runs' \in Nat /\ (pc' # "idle" => runs' >= 1) /\ pc' # "idle"
    BY <2>2, <2>8 DEF Post
  <2> QED
    BY <2>1, <2>3, <2>4, <2>5, <2>6, <2>7, <2>8 DEF Next
<1>2. stats' \in Statistics
  <2>0. stats \in Statistics
    BY DEF Tallied
  <2>1. CASE Solve
    BY <2>1 DEF Solve, NoStats, Statistics
  <2>2. CASE Leaf
    BY <2>0, <2>2 DEF Leaf, Statistics
  <2>3. CASE Enter
    BY <2>0, <2>3 DEF Enter, Statistics
  <2>4. CASE Fail
    BY <2>0, <2>4 DEF Fail, Statistics
  <2>5. CASE Stop
    <3> DEFINE f == FALSE
    <3>1. stats' = [stats EXCEPT !.completed = f] /\ f \in BOOLEAN
      BY <2>5 DEF Stop
    <3> HIDE DEF f
    <3> QED
      BY <2>0, <3>1 DEF Statistics
  <2>6. CASE Infer \/ Keep \/ ReachLimit \/ Leave \/ ReplayList \/ FailRestore \/ EndRestore
    BY <2>0, <2>6 DEF Infer, Keep, ReachLimit, Leave, ReplayList, FailRestore, EndRestore
  <2>7. CASE Continue \/ Pick \/ Exhausted \/ End
    BY <2>0, <2>7 DEF Continue, Pick, Exhausted, End
  <2>8. ASSUME NEW n \in 1..MaxBranches, Branch(n) PROVE stats' \in Statistics
    BY <2>0, <2>8 DEF Branch
  <2>9. ASSUME NEW low \in Costs, Post(low) PROVE stats' \in Statistics
    BY <2>0, <2>9 DEF Post
  <2> QED
    BY <2>1, <2>2, <2>3, <2>4, <2>5, <2>6, <2>7, <2>8, <2>9 DEF Next
<1>3. \A at \in DOMAIN effect' : effect'[at] \in Stores
  <2>0. \A at \in DOMAIN effect : effect[at] \in Stores
    BY DEF Tallied
  <2>1. CASE Solve
    <3> DEFINE e == <<>>
               x == t.store
    <3>1. effect' = [p \in {e} |-> x]
      BY <2>1 DEF Solve
    <3>2. DOMAIN effect' = {e} /\ effect'[e] = x
      BY <3>1
    <3> HIDE DEF e
    <3> QED
      BY <1>0, <3>2
  <2>2. CASE Infer
    <3> DEFINE x == t'.store
    <3>1. effect' = [effect EXCEPT ![here] = x] /\ x \in Stores
      BY <1>0, <2>2 DEF Infer
    <3> HIDE DEF x
    <3> QED
      BY <2>0, <3>1
  <2>3. CASE Keep
    <3> DEFINE x == t.store
               c == Child
    <3>1. effect' = Record(c, x) /\ x \in Stores
      BY <1>0, <2>3 DEF Keep
    <3> HIDE DEF x, c
    <3> QED
      BY <2>0, <3>1 DEF Record
  <2>4. CASE Leaf \/ Enter \/ Fail \/ ReachLimit \/ Leave \/ ReplayList \/ FailRestore \/ EndRestore
    BY <2>0, <2>4 DEF Leaf, Enter, Fail, ReachLimit, Leave, ReplayList, FailRestore, EndRestore, ghosts
  <2>5. CASE Continue \/ Stop \/ Pick \/ Exhausted \/ End
    BY <2>0, <2>5 DEF Continue, Stop, Pick, Exhausted, End, ghosts
  <2>6. ASSUME NEW n \in 1..MaxBranches, Branch(n) PROVE effect' = effect
    BY <2>6 DEF Branch
  <2>7. ASSUME NEW low \in Costs, Post(low) PROVE effect' = effect
    BY <2>7 DEF Post, ghosts
  <2> QED
    BY <2>0, <2>1, <2>2, <2>3, <2>4, <2>5, <2>6, <2>7 DEF Next
<1> QED
  BY <1>1, <1>2, <1>3 DEF Tallied

(* Nodes and solutions are no better than their stores say.                   *)
LEMMA WorthStep ==
  ASSUME Base, Next, Told, Tallied, Worth
  PROVE  Worth'
<1>0. /\ Typed /\ Sound /\ Aimed /\ Anchored /\ Typed' /\ t \in Tracers /\ t' \in Tracers
      /\ t.store \in Stores /\ t'.store \in Stores /\ Generated /\ Recalled
  <2>1. Typed'
    BY TypedStep DEF Base
  <2>2. t' \in Tracers /\ t \in Tracers
    BY <2>1, RefsNext DEF Base, Typed
  <2> QED
    BY <2>1, <2>2, TracerFields DEF Base, Told
<1>1. ASSUME effect' = effect, frontier' \subseteq frontier, objective' = objective,
             Coming' => Coming /\ here' = here /\ primal' = primal /\ runs' = runs
      PROVE  Worth'
  BY <1>1 DEF Worth
<1>2. CASE Solve
  <2> DEFINE e == <<>>
             x == t.store
  <2>1. /\ effect' = [p \in {e} |-> x] /\ here' = e /\ frontier' = {} /\ runs' = runs + 1
        /\ primal' = primal /\ pc \in {"idle", "done"}
    BY <1>0, <1>2 DEF Solve, Anchored, Running, bounds
  <2>2. effect'[e] = x
    BY <2>1
  <2>e. e = <<>>
    OBVIOUS
  <2> HIDE DEF e
  <2>3. ASSUME runs' = 1 PROVE value(effect'[here']) < primal'
    <3>1. runs = 0
      BY <2>1, <2>3 DEF Tallied
    <3>2. pc = "idle"
      BY <3>1 DEF Tallied
    <3>3. x = {} /\ primal = NoPrimal
      BY <3>2 DEF Tallied
    <3>4. value(x) = 0
      BY <1>0, <3>3, StoreValue, ValueBounds
    <3>5. 0 < NoPrimal
      BY BFSearchAssumption
    <3> QED
      BY <2>1, <2>2, <3>3, <3>4, <3>5
  <2> QED
    BY <2>e, <2>1, <2>3 DEF Worth
<1>3. CASE Infer
  <2>1. /\ frontier' = frontier /\ here' = here /\ pc = "branching" /\ pc' = "branching"
        /\ effect' = [effect EXCEPT ![here] = t'.store] /\ objective' = objective /\ primal' = primal
        /\ runs' = runs /\ Running /\ Coming
    BY <1>3 DEF Infer, search, Running, options, bounds, Coming
  <2>2. /\ here \in DOMAIN effect
        /\ \A n \in frontier : n.at \in DOMAIN effect /\ n.at # here
    BY <1>0, <2>1 DEF Generated
  <2>3. PICK c \in Constraints : c.low = value(t.store) /\ Posted(t, t', Refs, t.nodes, c)
    BY <1>0, <1>3, InferMoves
  <2> DEFINE x == t.store
             y == t'.store
  <2>4. y = x \cup {c} /\ x \in Stores /\ c.low = value(x)
    BY <1>0, <2>3 DEF Posted
  <2>5. t.store = effect[here]
    BY <1>0, <2>1 DEF Recalled
  <2>6. effect'[here] = y /\ \A n \in frontier : effect'[n.at] = effect[n.at]
    BY <2>1, <2>2
  <2>7. x = effect[here]
    BY <2>5
  <2> HIDE DEF x, y
  <2>8. value(y) = value(x)
    BY <2>4, StoreValue, ValueBounds
  <2>9. value(effect'[here']) = value(effect[here])
    BY <2>1, <2>6, <2>7, <2>8
  <2> QED
    BY <2>1, <2>6, <2>9 DEF Worth
<1>4. CASE Keep
  <2> DEFINE q == [path |-> t.stack, depth |-> t.level + 1, at |-> Child,
                   value |-> IF objective THEN value(t.store) ELSE 0]
             c == Child
             x == t.store
  <2>1. /\ frontier' = frontier \cup {q} /\ q.at = c /\ (objective => q.value = value(x))
        /\ pc' = "restoring" /\ target'.then = "loop" /\ pc = "alt"
        /\ effect' = Record(c, x) /\ objective' = objective
    BY <1>0, <1>4 DEF Keep, Return, Aimed, options
  <2>2. c \notin DOMAIN effect /\ \A m \in frontier : m.at \in DOMAIN effect
    BY <1>0, <2>1, ChildNew
  <2> HIDE DEF q, c, x
  <2>3. effect'[c] = x /\ \A m \in frontier : effect'[m.at] = effect[m.at]
    <3>1. Record(c, x)[c] = x /\ \A p \in DOMAIN effect : p # c => Record(c, x)[p] = effect[p]
      BY DEF Record
    <3> QED
      BY <2>1, <2>2, <3>1
  <2>4. ~Coming'
    BY <2>1 DEF Coming
  <2>5. objective => \A m \in frontier : m.value = value(effect[m.at])
    BY DEF Worth
  <2>6. objective' => \A m \in frontier' : m.value = value(effect'[m.at])
    BY <2>1, <2>3, <2>5
  <2> QED
    BY <2>4, <2>6 DEF Worth
<1>5. CASE Pick
  <2>1. /\ pc = "pick" /\ effect' = effect /\ objective' = objective /\ primal' = primal
    BY <1>5 DEF Pick, options, bounds
  <2>2. PICK n \in frontier :
           /\ frontier' = frontier \ {n}
           /\ \/ betterThanPrimal(n.value) /\ here' = n.at
              \/ UNCHANGED <<pc, target, here>>
    BY <1>0, <1>5, PickMoves
  <2>3. CASE UNCHANGED <<pc, target, here>>
    <3>1. ~Coming'
      BY <2>1, <2>3 DEF Coming
    <3> QED
      BY <1>1, <2>1, <2>2, <3>1
  <2>4. CASE betterThanPrimal(n.value) /\ here' = n.at
    <3>1. objective => n.value < primal /\ n.value = value(effect[n.at])
      BY <2>4 DEF betterThanPrimal, Worth
    <3>2. objective' => \A m \in frontier' : m.value = value(effect'[m.at])
      BY <2>1, <2>2 DEF Worth
    <3>3. objective' => value(effect'[here']) < primal'
      BY <2>1, <2>4, <3>1
    <3> QED
      BY <3>2, <3>3 DEF Worth
  <2> QED
    BY <2>2, <2>3, <2>4
<1>6. CASE EndRestore
  <2>1. /\ frontier' = frontier /\ pc' = target.then /\ pc = "restoring" /\ effect' = effect
        /\ here' = here /\ objective' = objective /\ primal' = primal /\ runs' = runs
    BY <1>6 DEF EndRestore, ghosts, options, bounds
  <2>2. Coming' => Coming
    BY <1>0, <2>1 DEF Coming, Aimed
  <2> QED
    BY <1>1, <2>1, <2>2
<1>7. CASE ReplayList \/ ReachLimit
  <2>1. /\ frontier' = frontier /\ pc' = pc /\ effect' = effect /\ target' = target
        /\ here' = here /\ objective' = objective /\ primal' = primal /\ runs' = runs
    BY <1>7 DEF ReplayList, ReachLimit, ghosts, options, bounds, search
  <2>2. Coming' => Coming
    BY <2>1 DEF Coming
  <2> QED
    BY <1>1, <2>1, <2>2
<1>8. CASE FailRestore
  <2>1. /\ frontier' = frontier /\ pc' \in {"loop", "pick"} /\ effect' = effect /\ objective' = objective
    BY <1>8 DEF FailRestore, options
  <2>2. ~Coming'
    BY <2>1 DEF Coming
  <2> QED
    BY <1>1, <2>1, <2>2
<1>9. CASE Fail
  <2>1. /\ frontier' = frontier /\ pc' = "restoring" /\ effect' = effect /\ objective' = objective
        /\ target' = target /\ pc = "fail"
    BY <1>9 DEF Fail, Return, options, search, ghosts
  <2>2. ~Coming'
    BY <1>0, <2>1 DEF Coming, Aimed
  <2> QED
    BY <1>1, <2>1, <2>2
<1>10. CASE Leaf \/ Enter \/ Leave \/ Continue \/ Stop \/ Exhausted \/ End
  <2>1. /\ frontier' \subseteq frontier /\ pc' \in {"check", "alt", "pick", "leave", "done"}
        /\ effect' = effect /\ objective' = objective
    BY <1>10 DEF Leaf, Enter, Leave, Continue, Stop, Exhausted, End, options, search, ghosts
  <2>2. ~Coming'
    BY <2>1 DEF Coming
  <2> QED
    BY <1>1, <2>1, <2>2
<1>11. ASSUME NEW n \in 1..MaxBranches, Branch(n) PROVE Worth'
  <2>1. frontier' = frontier /\ pc' = "loop" /\ effect' = effect /\ objective' = objective
    BY <1>11 DEF Branch, options
  <2>2. ~Coming'
    BY <2>1 DEF Coming
  <2> QED
    BY <1>1, <2>1, <2>2
<1>12. ASSUME NEW low \in Costs, Post(low) PROVE Worth'
  <2>1. frontier' = frontier /\ pc' \in {"alt", "fail"} /\ effect' = effect /\ objective' = objective
    BY <1>12 DEF Post, options, ghosts
  <2>2. ~Coming'
    BY <2>1 DEF Coming
  <2> QED
    BY <1>1, <2>1, <2>2
<1> QED
  BY <1>2, <1>3, <1>4, <1>5, <1>6, <1>7, <1>8, <1>9, <1>10, <1>11, <1>12 DEF Next

(* A solution is better than the best so far, but for one at the root of a    *)
(* later call.                                                                *)
LEMMA LeafImproves ==
  ASSUME Typed, Told, Worth, Leaf, objective, here # <<>> \/ runs = 1
  PROVE  primal' < primal
<1>1. pc = "branching" /\ Running /\ Coming
  BY DEF Leaf, Running, Coming
<1>2. value(t.store) < primal
  <2>1. t.store = effect[here]
    BY <1>1 DEF Told, Recalled
  <2>2. value(effect[here]) < primal
    BY <1>1 DEF Worth
  <2> QED
    BY <2>1, <2>2
<1>3. primal' = value(t.store) \/ primal' < primal
  BY DEF Leaf
<1> QED
  BY <1>2, <1>3

(* Every node generated is one the search has branched on, one it need not    *)
(* branch on, one that waits, or the one it goes to.                          *)
Seen(at) == \/ at \in Range(expanded) \/ Excused(at)
            \/ \E n \in frontier : n.at = at
            \/ Coming /\ at = here

Accounted ==
    /\ pc = "branching" /\ here = <<>> => DOMAIN effect = {<<>>}
    /\ pc # "idle" /\ stats.completed => \A at \in DOMAIN effect : Seen(at)
    /\ pc \in {"leave", "done"} /\ stats.completed /\ objective => dual = primal
    /\ pc = "done" => IsInjective(expanded)

(* Every node generated is on its way, expanded, waiting, or excused.         *)
LEMMA AccountedStep ==
  ASSUME Base, Next, Told, Tallied, Worth, Accounted
  PROVE  Accounted'
<1>0. /\ Typed /\ Sound /\ Aimed /\ Anchored /\ Typed' /\ Generated /\ Recalled
      /\ primal \in Nat /\ primal' \in Nat /\ stats \in Statistics
      /\ \A at \in DOMAIN effect : value(effect[at]) \in Nat
  <2>1. Typed' /\ Typed
    BY TypedStep DEF Base
  <2>2. primal \in Nat /\ primal' \in Nat
    BY <2>1, BFSearchAssumption DEF Typed
  <2>3. \A at \in DOMAIN effect : value(effect[at]) \in Nat
    BY StoreValue DEF Tallied
  <2> QED
    BY <2>1, <2>2, <2>3 DEF Base, Told, Tallied
<1>1. ASSUME pc # "idle", effect' = effect, objective' = objective, primal' <= primal, refuted \subseteq refuted',
             Range(expanded) \subseteq Range(expanded'), stats'.completed = stats.completed,
             \A n \in frontier : n \in frontier' \/ (Coming' /\ here' = n.at) \/ (objective /\ primal <= n.value),
             Coming => (Coming' /\ here' = here) \/ here \in Range(expanded') \/ here \in refuted'
      PROVE  stats'.completed => \A at \in DOMAIN effect' : Seen(at)'
  <2> SUFFICES ASSUME stats'.completed, NEW at \in DOMAIN effect PROVE Seen(at)'
    BY <1>1
  <2>1. Seen(at)
    BY <1>1 DEF Accounted
  <2>2. CASE at \in Range(expanded)
    BY <1>1, <2>2 DEF Seen
  <2>3. CASE objective /\ primal <= value(effect[at])
    <3>1. value(effect[at]) \in Nat
      BY <1>0
    <3>2. objective' /\ primal' <= value(effect'[at])
      BY <1>0, <1>1, <2>3, <3>1
    <3> QED
      BY <3>2 DEF Seen, Excused
  <2>4. CASE \E p \in refuted : p = at
    BY <1>1, <2>4 DEF Seen, Excused
  <2>5. ASSUME NEW n \in frontier, n.at = at PROVE Seen(at)'
    <3>1. CASE n \in frontier'
      BY <2>5, <3>1 DEF Seen
    <3>2. CASE Coming' /\ here' = n.at
      BY <2>5, <3>2 DEF Seen
    <3>3. CASE objective /\ primal <= n.value
      <4>1. n.value = value(effect[at])
        BY <2>5, <3>3 DEF Worth
      <4>2. objective' /\ primal' <= value(effect'[at])
        BY <1>0, <1>1, <3>3, <4>1
      <4> QED
        BY <4>2 DEF Seen, Excused
    <3> QED
      BY <1>1, <3>1, <3>2, <3>3
  <2>6. CASE Coming /\ at = here
    <3>1. CASE Coming' /\ here' = here
      BY <2>6, <3>1 DEF Seen
    <3>2. CASE here \in Range(expanded')
      BY <2>6, <3>2 DEF Seen
    <3>3. CASE here \in refuted'
      BY <2>6, <3>3 DEF Seen, Excused
    <3> QED
      BY <1>1, <2>6, <3>1, <3>2, <3>3
  <2> QED
    BY <2>1, <2>2, <2>3, <2>4, <2>5, <2>6 DEF Seen, Excused
<1>2. ASSUME stats'.completed => \A at \in DOMAIN effect' : Seen(at)', pc' \notin {"branching", "leave", "done"}
      PROVE  Accounted'
  BY <1>2 DEF Accounted
<1>3. CASE Solve
  <2> DEFINE e == <<>>
             x == t.store
  <2>1. effect' = [p \in {e} |-> x] /\ here' = e /\ pc' = "branching"
    BY <1>3 DEF Solve
  <2>2. DOMAIN effect' = {e} /\ Coming'
    BY <2>1 DEF Coming
  <2>3. e = <<>>
    OBVIOUS
  <2> HIDE DEF e
  <2>4. \A at \in DOMAIN effect' : Seen(at)'
    <3> SUFFICES ASSUME NEW at \in DOMAIN effect' PROVE Seen(at)'
      OBVIOUS
    <3> QED
      BY <2>1, <2>2 DEF Seen
  <2> QED
    BY <2>1, <2>2, <2>3, <2>4 DEF Accounted
<1>4. CASE Infer
  <2>1. /\ frontier' = frontier /\ here' = here /\ pc = "branching" /\ pc' = "branching"
        /\ effect' = [effect EXCEPT ![here] = t'.store] /\ objective' = objective /\ primal' = primal
        /\ expanded' = expanded /\ refuted' = refuted /\ stats' = stats /\ Coming'
    BY <1>4 DEF Infer, search, options, bounds, Coming
  <2>2. DOMAIN effect' = DOMAIN effect /\ \A at \in DOMAIN effect : at # here => effect'[at] = effect[at]
    BY <2>1
  <2>3. ASSUME stats.completed, NEW at \in DOMAIN effect PROVE Seen(at)'
    <3>1. CASE at = here
      BY <2>1, <3>1 DEF Seen
    <3>2. CASE at # here
      <4>1. Seen(at)
        BY <2>1, <2>3 DEF Accounted
      <4>2. effect'[at] = effect[at]
        BY <2>2, <3>2
      <4> QED
        BY <2>1, <3>2, <4>1, <4>2 DEF Seen, Excused
    <3> QED
      BY <3>1, <3>2
  <2>4. here = <<>> => DOMAIN effect = {<<>>}
    BY <2>1 DEF Accounted
  <2> QED
    BY <2>1, <2>2, <2>3, <2>4 DEF Accounted
<1>5. ASSUME pc = "branching", expanded' = Append(expanded, here), effect' = effect, here' = here,
             frontier' = frontier, refuted' = refuted, objective' = objective,
             here # <<>> => primal' <= primal, stats'.completed = stats.completed, pc' \in {"check", "loop"}
      PROVE  Accounted'
  <2>1. Running /\ here \in Seq(Nat) /\ expanded \in Seq(Seq(Nat))
    BY <1>0, <1>5 DEF Typed, Generated, Running
  <2>2. Range(expanded') = Range(expanded) \cup {here}
    BY <1>5, <2>1, AppendRange
  <2>3. CASE here = <<>>
    <3>1. \A at \in DOMAIN effect' : at = here
      BY <1>5, <2>3 DEF Accounted
    <3>2. \A at \in DOMAIN effect' : Seen(at)'
      <4> SUFFICES ASSUME NEW at \in DOMAIN effect' PROVE Seen(at)'
        OBVIOUS
      <4> QED
        BY <2>2, <3>1 DEF Seen
    <3> QED
      BY <1>2, <1>5, <3>2
  <2>4. CASE here # <<>>
    <3>1. stats'.completed => \A at \in DOMAIN effect' : Seen(at)'
      BY <1>1, <1>5, <2>2, <2>4
    <3> QED
      BY <1>2, <1>5, <3>1
  <2> QED
    BY <2>3, <2>4
<1>6. CASE Leaf
  <2>1. /\ pc = "branching" /\ expanded' = Append(expanded, here) /\ effect' = effect /\ here' = here
        /\ frontier' = frontier /\ refuted' = refuted /\ objective' = objective /\ pc' = "check"
        /\ stats' = [stats EXCEPT !.solutions = @ + 1]
    BY <1>6 DEF Leaf, search, options
  <2>2. stats'.completed = stats.completed
    BY <1>0, <2>1 DEF Statistics
  <2>3. ASSUME here # <<>> PROVE primal' <= primal
    <3>1. CASE objective
      <4>1. primal' < primal
        BY <1>0, <1>6, <2>3, <3>1, LeafImproves
      <4> QED
        BY <1>0, <4>1
    <3>2. CASE ~objective
      <4>1. primal' = primal
        BY <1>6, <3>2 DEF Leaf
      <4> QED
        BY <1>0, <4>1
    <3> QED
      BY <3>1, <3>2
  <2> QED
    BY <1>5, <2>1, <2>2, <2>3
<1>7. ASSUME NEW n \in 1..MaxBranches, Branch(n) PROVE Accounted'
  <2>1. /\ pc = "branching" /\ expanded' = Append(expanded, here) /\ effect' = effect /\ here' = here
        /\ frontier' = frontier /\ refuted' = refuted /\ objective' = objective /\ pc' = "loop"
        /\ stats' = stats /\ primal' = primal
    BY <1>7 DEF Branch, options, bounds
  <2>2. primal' <= primal
    BY <1>0, <2>1
  <2> QED
    BY <1>5, <2>1, <2>2
<1>8. ASSUME pc # "idle", effect' = effect, objective' = objective, primal' = primal, refuted' = refuted,
             expanded' = expanded, stats'.completed = stats.completed, frontier' = frontier,
             Coming => Coming' /\ here' = here
      PROVE  stats'.completed => \A at \in DOMAIN effect' : Seen(at)'
  <2>1. primal' <= primal
    BY <1>0, <1>8
  <2> QED
    BY <1>1, <1>8, <2>1
<1>9. CASE Enter \/ Fail
  <2>1. /\ pc \in {"loop", "fail"} /\ pc' \in {"alt", "restoring"} /\ effect' = effect /\ objective' = objective
        /\ primal' = primal /\ refuted' = refuted /\ expanded' = expanded /\ frontier' = frontier
    BY <1>9 DEF Enter, Fail, Return, ghosts, options, bounds, search
  <2>2. ~Coming
    BY <2>1 DEF Coming
  <2>3. stats'.completed = stats.completed
    BY <1>0, <1>9 DEF Enter, Fail, Statistics
  <2> QED
    BY <1>2, <1>8, <2>1, <2>2, <2>3
<1>10. ASSUME NEW low \in Costs, Post(low) PROVE Accounted'
  <2>1. /\ pc = "alt" /\ pc' \in {"alt", "fail"} /\ effect' = effect /\ objective' = objective
        /\ primal' = primal /\ refuted' = refuted /\ expanded' = expanded /\ frontier' = frontier /\ stats' = stats
    BY <1>10 DEF Post, ghosts, options, bounds
  <2>2. ~Coming
    BY <2>1 DEF Coming
  <2> QED
    BY <1>2, <1>8, <2>1, <2>2
<1>11. CASE Leave \/ Continue
  <2>1. /\ pc \in {"loop", "check"} /\ pc' \in {"check", "pick"} /\ effect' = effect /\ objective' = objective
        /\ primal' = primal /\ refuted' = refuted /\ expanded' = expanded /\ frontier' = frontier /\ stats' = stats
    BY <1>11 DEF Leave, Continue, ghosts, options, bounds, search
  <2>2. ~Coming
    BY <2>1 DEF Coming
  <2> QED
    BY <1>2, <1>8, <2>1, <2>2
<1>12. CASE ReplayList
  <2>1. /\ pc = "restoring" /\ pc' = pc /\ effect' = effect /\ objective' = objective
        /\ primal' = primal /\ refuted' = refuted /\ expanded' = expanded /\ frontier' = frontier /\ stats' = stats
        /\ target' = target /\ here' = here
    BY <1>12 DEF ReplayList, Restoring, ghosts, options, bounds, search
  <2>2. Coming => Coming'
    BY <2>1 DEF Coming
  <2> QED
    BY <1>2, <1>8, <2>1, <2>2
<1>13. CASE ReachLimit
  <2>1. UNCHANGED <<pc, effect, objective, primal, dual, refuted, expanded, frontier, stats, target, here>>
    BY <1>13 DEF ReachLimit, ghosts, options, bounds, search
  <2>2. pc \in {"loop", "alt", "check"}
    BY <1>13 DEF ReachLimit
  <2>3. ~Coming
    BY <2>2 DEF Coming
  <2> QED
    BY <1>2, <1>8, <2>1, <2>2, <2>3
<1>14. CASE EndRestore
  <2>1. /\ pc = "restoring" /\ pc' = target.then /\ effect' = effect /\ objective' = objective
        /\ primal' = primal /\ refuted' = refuted /\ expanded' = expanded /\ frontier' = frontier /\ stats' = stats
        /\ here' = here
    BY <1>14 DEF EndRestore, ghosts, options, bounds
  <2>2. Coming => Coming'
    BY <2>1 DEF Coming
  <2>3. stats'.completed => \A at \in DOMAIN effect' : Seen(at)'
    BY <1>8, <2>1, <2>2
  <2>4. pc' = "branching" => here # <<>>
    BY <1>0, <2>1 DEF Recalled, Running
  <2>5. pc' \in {"loop", "branching"}
    BY <1>0, <2>1 DEF Aimed
  <2> QED
    BY <2>1, <2>3, <2>4, <2>5 DEF Accounted
<1>15. CASE FailRestore
  <2>1. target.then = "branching"
    BY <1>0, <1>15, NotAmidReplay DEF FailRestore
  <2>2. /\ pc = "restoring" /\ pc' = "pick" /\ effect' = effect /\ objective' = objective
        /\ primal' = primal /\ refuted' = refuted \cup {here} /\ expanded' = expanded /\ frontier' = frontier
        /\ stats' = stats
    BY <1>15, <2>1 DEF FailRestore, Restoring, options, bounds
  <2>3. primal' <= primal /\ refuted \subseteq refuted' /\ here \in refuted'
    BY <1>0, <2>2
  <2>4. stats'.completed => \A at \in DOMAIN effect' : Seen(at)'
    BY <1>1, <2>2, <2>3
  <2> QED
    BY <1>2, <2>2, <2>4
<1>16. CASE Keep
  <2> DEFINE q == [path |-> t.stack, depth |-> t.level + 1, at |-> Child,
                   value |-> IF objective THEN value(t.store) ELSE 0]
             c == Child
             x == t.store
  <2>1. /\ frontier' = frontier \cup {q} /\ q.at = c /\ pc' = "restoring" /\ pc = "alt"
        /\ effect' = Record(c, x) /\ objective' = objective /\ primal' = primal /\ refuted' = refuted
        /\ expanded' = expanded /\ stats' = stats
    BY <1>16 DEF Keep, Return, options, bounds
  <2>2. c \notin DOMAIN effect
    BY <1>0, <2>1, ChildNew
  <2> HIDE DEF q, c, x
  <2>3. DOMAIN effect' = DOMAIN effect \cup {c} /\ \A at \in DOMAIN effect : effect'[at] = effect[at]
    <3>1. DOMAIN Record(c, x) = DOMAIN effect \cup {c} /\ \A p \in DOMAIN effect : p # c => Record(c, x)[p] = effect[p]
      BY DEF Record
    <3> QED
      BY <2>1, <2>2, <3>1
  <2>4. ~Coming
    BY <2>1 DEF Coming
  <2>5. ASSUME stats.completed, NEW at \in DOMAIN effect' PROVE Seen(at)'
    <3>1. CASE at = c
      BY <2>1, <3>1 DEF Seen
    <3>2. CASE at \in DOMAIN effect
      <4>1. Seen(at)
        BY <2>1, <2>5, <3>2 DEF Accounted
      <4>2. effect'[at] = effect[at]
        BY <2>3, <3>2
      <4> QED
        BY <2>1, <2>4, <4>1, <4>2 DEF Seen, Excused
    <3> QED
      BY <2>3, <3>1, <3>2
  <2> QED
    BY <1>2, <2>1, <2>5
<1>17. CASE Pick
  <2>1. /\ pc = "pick" /\ effect' = effect /\ objective' = objective /\ primal' = primal
        /\ refuted' = refuted /\ expanded' = expanded /\ stats' = stats
    BY <1>17 DEF Pick, options, bounds
  <2>2. PICK n \in frontier :
           /\ frontier' = frontier \ {n}
           /\ \/ /\ target' = [path |-> n.path, depth |-> n.depth - 1, then |-> "branching"]
                 /\ here' = n.at /\ pc' = "restoring"
              \/ ~betterThanPrimal(n.value) /\ UNCHANGED <<pc, target, here>>
    BY <1>0, <1>17, PickMoves
  <2>3. ~Coming /\ pc' \in {"pick", "restoring"} /\ primal' <= primal
    BY <1>0, <2>1, <2>2 DEF Coming
  <2>4. \A m \in frontier : m \in frontier' \/ (Coming' /\ here' = m.at) \/ (objective /\ primal <= m.value)
    <3>1. CASE /\ target' = [path |-> n.path, depth |-> n.depth - 1, then |-> "branching"]
               /\ here' = n.at /\ pc' = "restoring"
      <4>1. Coming'
        BY <3>1 DEF Coming
      <4> QED
        BY <2>2, <3>1, <4>1
    <3>2. CASE ~betterThanPrimal(n.value)
      <4>1. n.value \in Nat
        BY <1>0, BFSearchAssumption DEF Typed, Nodes
      <4>2. objective /\ primal <= n.value
        BY <1>0, <3>2, <4>1 DEF betterThanPrimal
      <4> QED
        BY <2>2, <4>2
    <3> QED
      BY <2>2, <3>1, <3>2
  <2>5. stats'.completed => \A at \in DOMAIN effect' : Seen(at)'
    BY <1>1, <2>1, <2>3, <2>4
  <2> QED
    BY <1>2, <2>3, <2>5
<1>18. CASE Stop
  <2> DEFINE f == FALSE
  <2>1. stats' = [stats EXCEPT !.completed = f] /\ ~f /\ pc' = "leave"
    BY <1>18 DEF Stop
  <2> HIDE DEF f
  <2>2. ~stats'.completed
    BY <1>0, <2>1 DEF Statistics
  <2> QED
    BY <2>1, <2>2 DEF Accounted
<1>19. CASE Exhausted
  <2>1. /\ pc = "pick" /\ pc' = "leave" /\ effect' = effect /\ objective' = objective /\ primal' = primal
        /\ refuted' = refuted /\ expanded' = expanded /\ frontier' = frontier /\ stats' = stats
        /\ (objective => dual' = primal)
    BY <1>19 DEF Exhausted, ghosts, options
  <2>2. ~Coming
    BY <2>1 DEF Coming
  <2>3. stats'.completed => \A at \in DOMAIN effect' : Seen(at)'
    BY <1>8, <2>1, <2>2
  <2> QED
    BY <2>1, <2>3 DEF Accounted
<1>20. CASE End
  <2>1. /\ pc = "leave" /\ pc' = "done" /\ effect' = effect /\ objective' = objective /\ primal' = primal
        /\ refuted' = refuted /\ expanded' = expanded /\ frontier' = frontier /\ stats' = stats /\ dual' = dual
    BY <1>20 DEF End, ghosts, options, bounds, search
  <2>2. ~Coming
    BY <2>1 DEF Coming
  <2>3. stats'.completed => \A at \in DOMAIN effect' : Seen(at)'
    BY <1>8, <2>1, <2>2
  <2>4. IsInjective(expanded')
    BY <1>0, <2>1 DEF Generated, Running
  <2>5. stats.completed /\ objective => dual = primal
    BY <2>1 DEF Accounted
  <2> QED
    BY <2>1, <2>3, <2>4, <2>5 DEF Accounted
<1> QED
  BY <1>3, <1>4, <1>6, <1>7, <1>9, <1>10, <1>11, <1>12, <1>13, <1>14, <1>15, <1>16, <1>17, <1>18, <1>19,
     <1>20 DEF Next

Reckoned == Tallied /\ Worth /\ Accounted

LEMMA ReckonedStarts ==
  ASSUME Init
  PROVE  Reckoned
<1>1. /\ pc = "idle" /\ runs = 0 /\ stats = NoStats /\ primal = NoPrimal /\ frontier = {}
      /\ effect = << >>
  BY DEF Init
<1>1a. PICK id : t = NewTracer(id)
  BY DEF Init
<1>2. stats \in Statistics
  BY <1>1 DEF NoStats, Statistics
<1>3. t.store = {}
  <2> DEFINE e == <<>>
             x == {}
             r == [lists |-> e, pool |-> e, stack |-> e, nodes |-> id + 1, level |-> 1,
                   frames |-> e, pushes |-> 0, store |-> x]
  <2>1. t = pushList(r, id) /\ r.pool = e /\ r.store = x
    BY <1>1a DEF NewTracer
  <2> HIDE DEF r
  <2>2. pushList(r, id).store = r.store
    BY <2>1 DEF pushList
  <2> QED
    BY <2>1, <2>2
<1>4. \A at \in DOMAIN effect : effect[at] \in Stores
  <2> DEFINE e == <<>>
  <2>1. effect = e /\ DOMAIN e = {}
    BY <1>1
  <2> HIDE DEF e
  <2> QED
    BY <2>1
<1>5. Tallied
  BY <1>1, <1>2, <1>3, <1>4 DEF Tallied
<1>6. Worth
  BY <1>1 DEF Worth, Coming
<1>7. Accounted
  BY <1>1 DEF Accounted
<1> QED
  BY <1>5, <1>6, <1>7 DEF Reckoned

LEMMA ReckonedStays ==
  ASSUME Reckoned, UNCHANGED vars
  PROVE  Reckoned'
<1>1. UNCHANGED <<pc, t, frontier, target, objective, primal, dual, stats, runs, here, effect, expanded, refuted>>
  BY DEF vars, search, options, bounds, ghosts
<1>2. Tallied'
  BY <1>1 DEF Reckoned, Tallied
<1>3. Worth'
  BY <1>1 DEF Reckoned, Worth, Coming
<1>4. Accounted'
  <2>1. \A at : Seen(at) => Seen(at)'
    BY <1>1 DEF Seen, Excused, Coming
  <2> QED
    BY <1>1, <2>1 DEF Reckoned, Accounted
<1> QED
  BY <1>2, <1>3, <1>4 DEF Reckoned

(* No node is lost and no bound forgotten, at any time of the search.         *)
THEOREM ReckonedAlways == Spec => []Reckoned
<1>1. Init => Reckoned
  BY ReckonedStarts
<1>2. Base /\ Told /\ Reckoned /\ [Next]_vars => Reckoned'
  <2> SUFFICES ASSUME Base, Told, Reckoned, [Next]_vars PROVE Reckoned'
    OBVIOUS
  <2>1. CASE Next
    BY <2>1, TalliedStep, WorthStep, AccountedStep DEF Reckoned
  <2>2. CASE UNCHANGED vars
    BY <2>2, ReckonedStays
  <2> QED
    BY <2>1, <2>2
<1> QED
  BY <1>1, <1>2, BaseAlways, ToldAlways, PTL DEF Spec

(* A search that says it completed branched exactly once on every node it     *)
(* generated, but for those whose bound was no better than the best solution  *)
(* and those whose replay failed for that reason (search.cpp:226-289): for    *)
(* every tree and any number of calls of solve().                             *)
THEOREM CompleteAlways == Spec => []Complete
<1>1. Base /\ Reckoned => Complete
  <2> SUFFICES ASSUME Base, Reckoned, pc = "done", stats.completed
               PROVE  /\ \A at \in DOMAIN effect : at \in Range(expanded) \/ Excused(at)
                      /\ IsInjective(expanded)
                      /\ objective => dual = primal
    BY DEF Complete
  <2>1. frontier = {} /\ ~Coming
    BY DEF Base, Anchored, Running, Coming
  <2> QED
    BY <2>1 DEF Reckoned, Accounted, Seen
<1> QED
  BY <1>1, BaseAlways, ReckonedAlways, PTL

(* A step that counts a solution is a leaf.                                   *)
LEMMA SolutionIsLeaf ==
  ASSUME Typed, stats \in Statistics, runs \in Nat, Next, runs' = runs, stats'.solutions > stats.solutions
  PROVE  Leaf
<1>1. ASSUME stats'.solutions = stats.solutions PROVE FALSE
  BY <1>1 DEF Statistics
<1>2. ~Solve
  BY DEF Solve
<1>3. ~Stop
  <2> SUFFICES ASSUME Stop PROVE FALSE
    OBVIOUS
  <2> DEFINE f == FALSE
  <2>1. stats' = [stats EXCEPT !.completed = f]
    BY DEF Stop
  <2> HIDE DEF f
  <2> QED
    BY <1>1, <2>1 DEF Statistics
<1>4. ~(Enter \/ Fail)
  <2> SUFFICES ASSUME Enter \/ Fail PROVE FALSE
    OBVIOUS
  <2>1. stats'.solutions = stats.solutions
    BY DEF Enter, Fail, Statistics
  <2> QED
    BY <1>1, <2>1
<1>5. ~(Infer \/ Keep \/ ReachLimit \/ Leave \/ ReplayList \/ FailRestore \/ EndRestore)
  BY <1>1 DEF Infer, Keep, ReachLimit, Leave, ReplayList, FailRestore, EndRestore
<1>6. ~(Continue \/ Pick \/ Exhausted \/ End)
  BY <1>1 DEF Continue, Pick, Exhausted, End
<1>7. ~\E n \in 1..MaxBranches : Branch(n)
  BY <1>1 DEF Branch
<1>8. ~\E low \in Costs : Post(low)
  BY <1>1 DEF Post
<1> QED
  BY <1>2, <1>3, <1>4, <1>5, <1>6, <1>7, <1>8 DEF Next

(* Every solution counted under an objective is better than the last one,     *)
(* unless a later call of solve() finds it at the root: nothing has told that *)
(* node of the bound that was reached before.                                 *)
Bettered == objective /\ runs' = runs /\ stats'.solutions > stats.solutions
               /\ (here # <<>> \/ runs = 1) => primal' < primal

(* The best value changes only when a solution is counted, and only for a     *)
(* better one.                                                                *)
LEMMA BetteredStep ==
  ASSUME Base, Told, Reckoned, [Next]_vars
  PROVE  [Bettered]_vars
<1>1. CASE Next
  <2> SUFFICES ASSUME objective, runs' = runs, stats'.solutions > stats.solutions, here # <<>> \/ runs = 1
               PROVE  primal' < primal
    BY DEF Bettered
  <2>1. Typed /\ stats \in Statistics /\ runs \in Nat /\ Worth
    BY DEF Base, Reckoned, Tallied
  <2>2. Leaf
    BY <1>1, <2>1, SolutionIsLeaf
  <2> QED
    BY <2>1, <2>2, LeafImproves
<1> QED
  BY <1>1

(* Under an objective a solution below the root is counted only with a value  *)
(* better than the best one known, in every call of solve(); at the root, in  *)
(* the first call (search.cpp:211-221).                                       *)
THEOREM BetteredAlways == Spec => [][Bettered]_vars
<1>1. Base /\ Told /\ Reckoned /\ [Next]_vars => [Bettered]_vars
  BY BetteredStep
<1> QED
  BY <1>1, BaseAlways, ToldAlways, ReckonedAlways, PTL DEF Spec

(* solve() is called once at most, if at most one call is looked at.          *)
LEMMA RunsBounded == Spec => [](runs \in Nat /\ runs <= Runs)
<1> DEFINE I == runs \in Nat /\ runs <= Runs
<1>1. Init => I
  BY BFSearchAssumption DEF Init
<1>2. I /\ [Next]_vars => I'
  <2> SUFFICES ASSUME I, [Next]_vars PROVE I'
    OBVIOUS
  <2>1. CASE Solve
    BY <2>1, BFSearchAssumption DEF Solve
  <2>2. runs' = runs \/ Solve
    BY DEF Next, vars, Infer, Leaf, Enter, Keep, Fail, ReachLimit, Leave, ReplayList, FailRestore,
       EndRestore, Continue, Stop, Pick, Exhausted, End, Branch, Post
  <2> QED
    BY <2>1, <2>2
<1> QED
  BY <1>1, <1>2, PTL DEF Spec

(* Over one call of solve(), every solution counted under an objective is     *)
(* better than the last one, though nodes wait in the frontier while better   *)
(* ones are found.                                                            *)
THEOREM ImprovesOnce ==
  ASSUME Runs = 1
  PROVE  Spec => Improves
<1>1. Base /\ Told /\ Reckoned /\ (runs \in Nat /\ runs <= Runs) /\ [Next]_vars =>
         [objective /\ runs' = runs /\ stats'.solutions > stats.solutions => primal' < primal]_vars
  <2> SUFFICES ASSUME Base, Told, Reckoned, runs \in Nat, runs <= Runs, Next, objective, runs' = runs,
                      stats'.solutions > stats.solutions
               PROVE  primal' < primal
    OBVIOUS
  <2>1. Typed /\ stats \in Statistics /\ Worth /\ (pc # "idle" => runs >= 1)
    BY DEF Base, Reckoned, Tallied
  <2>2. Leaf
    BY <2>1, SolutionIsLeaf
  <2>3. runs = 1
    BY <2>1, <2>2 DEF Leaf
  <2> QED
    BY <2>1, <2>2, <2>3, LeafImproves
<1> QED
  BY <1>1, BaseAlways, ToldAlways, ReckonedAlways, RunsBounded, PTL DEF Improves, Spec
--------------------------------------------------------------------------------
(* The four ways the tracer moves while the search runs: lists are only let   *)
(* go, a constraint is posted, levels are closed, or one is opened.           *)
Lowered(s, u, e, n) ==
    /\ Holds(s, u, e, n) /\ Len(u.stack) = n
    /\ Len(u.frames) = Len(s.frames) - (Len(s.stack) - n)
    /\ \A k \in 1..Len(u.frames) : u.frames[k] = s.frames[k]
    /\ u.nodes >= s.nodes /\ u.pushes >= s.pushes

Opening(s, u, e, i, x) ==
    /\ Holds(s, u, e, Len(s.stack)) /\ Len(u.stack) = Len(s.stack) + 1
    /\ u.frames = Append(s.frames, [id |-> i, store |-> s.store])
    /\ TopOf(u).node = x /\ u.nodes >= s.nodes /\ u.pushes >= s.pushes

Resumed(i) == Restoring /\ i = t.lists[target.path[Len(t.stack) + 1]].node

Moved ==
    \/ Settled(t, t', Refs')
    \/ \E c : Posted(t, t', Refs, t.nodes, c) /\ Refs' = Refs /\ (Infer \/ pc = "alt")
    \/ \E n \in Nat : Len(root) <= n /\ n <= Len(t.stack) /\ Lowered(t, t', Refs', n)
    \/ \E i, x \in Int : /\ Opening(t, t', Refs', i, x)
                         /\ \/ Resumed(i) /\ x = i
                            \/ i = t.pushes + 1 /\ x = t.nodes

LEMMA MovedStep ==
  ASSUME Base, Next, Running, pc' # "done"
  PROVE  Moved
<1>0. /\ Typed /\ Sound /\ Aimed /\ Anchored /\ Typed' /\ t \in Tracers /\ t' \in Tracers
      /\ t.nodes \in Int /\ t.pushes \in Nat /\ Len(t.stack) \in Nat /\ Len(root) \in Nat
      /\ Len(root) <= Len(t.stack)
  <2>1. Typed' /\ Typed /\ Anchored
    BY TypedStep DEF Base
  <2>2. Len(root) \in Nat /\ Len(t.stack) \in Nat /\ Len(root) <= Len(t.stack)
    BY <2>1, AnchorIs
  <2>3. t.nodes \in Int /\ t.pushes \in Nat
    BY <2>1, TracerFields DEF Typed
  <2> QED
    BY <2>1, <2>2, <2>3 DEF Base, Typed
<1>1. CASE Infer
  BY <1>0, <1>1, InferMoves DEF Moved
<1>2. ASSUME NEW low \in Costs, Post(low) PROVE Moved
  BY <1>0, <1>2, PostMoves DEF Moved, Post
<1>3. CASE Enter
  <2> DEFINE i == t.pushes + 1
             x == t.nodes
  <2>1. Entered(t, t', Refs') /\ i \in Int /\ x \in Int
    BY <1>0, <1>3, EnterMoves
  <2>2. t'.nodes >= t.nodes /\ t'.pushes >= t.pushes
    BY <1>0, <2>1 DEF Entered
  <2>3. Opening(t, t', Refs', i, x)
    BY <2>1, <2>2 DEF Entered, Opening
  <2> QED
    BY <2>1, <2>3 DEF Moved
<1>4. CASE ReplayList
  <2> DEFINE r == t.lists[target.path[Len(t.stack) + 1]]
             i == r.node
  <2>1. t' = Replay(t, target.path) /\ Restoring
    BY <1>4 DEF ReplayList
  <2>2. r \in ListSet /\ Replayed(t, t', Refs, t.nodes, r) /\ Refs' = Refs
    BY <1>0, <1>4, <2>1, ReplayMoves DEF ReplayList, search, Refs
  <2>3. i \in Int
    BY <2>2 DEF ListSet
  <2>4. t'.nodes >= t.nodes /\ t'.pushes >= t.pushes
    BY <1>0, <2>2 DEF Replayed
  <2>5. Opening(t, t', Refs', i, i)
    BY <2>2, <2>4 DEF Replayed, Opening
  <2>6. Resumed(i)
    BY <2>1 DEF Resumed
  <2> QED
    BY <2>3, <2>5, <2>6 DEF Moved
<1>5. ASSUME NEW n \in Nat, Len(root) <= n, n <= Len(t.stack),
             \/ Unwound(t, t', Refs', t.nodes, n)
             \/ Captured(t, t', Refs', n)
      PROVE  Moved
  <2>1. t'.nodes >= t.nodes /\ t'.pushes >= t.pushes
    <3>1. \/ t'.nodes = t.nodes /\ t'.pushes = t.pushes
          \/ t'.nodes = t.nodes + 1 /\ t'.pushes = t.pushes + 1
      BY <1>5 DEF Unwound, Captured
    <3> QED
      BY <1>0, <3>1
  <2>2. Lowered(t, t', Refs', n)
    BY <1>5, <2>1 DEF Unwound, Captured, Lowered
  <2> QED
    BY <1>5, <2>2 DEF Moved
<1>6. CASE Fail
  <2>1. Refs' = Refs /\ Unwound(t, t', Refs, t.nodes, Len(before))
    BY <1>0, <1>6, FailMoves
  <2>2. Len(before) \in Nat /\ Len(before) <= Len(t.stack) /\ Len(root) <= Len(before)
    BY <1>0, <1>6, BackIsOpen DEF Fail
  <2> QED
    BY <1>5, <2>1, <2>2
<1>7. CASE Keep
  <2>1. pc = "alt"
    BY <1>7 DEF Keep
  <2>2. /\ Captured(t, t', Refs', Len(before))
        /\ Len(before) \in Nat /\ Len(before) <= Len(t.stack) /\ Len(root) <= Len(before)
    BY <1>0, <1>7, <2>1, KeepMoves, BackIsOpen DEF Aimed
  <2> QED
    BY <1>5, <2>2
<1>8. CASE Pick
  <2>1. PICK n \in frontier :
           \/ \E k \in Nat : Left(t, t', Refs', n.path, k, Len(root))
           \/ Settled(t, t', Refs')
    BY <1>0, <1>8, PickMoves
  <2>2. ASSUME NEW k \in Nat, Left(t, t', Refs', n.path, k, Len(root)) PROVE Moved
    BY <1>5, <2>2 DEF Left
  <2> QED
    BY <2>1, <2>2 DEF Moved
<1>9. CASE EndRestore
  BY <1>0, <1>9, EndMoves DEF Moved
<1>10. CASE FailRestore
  <2>1. Refs' = Refs /\ Settled(t, t', Refs)
    BY <1>0, <1>10, AbandonMoves
  <2>2. Settled(t, t', Refs')
    BY <2>1
  <2> QED
    BY <2>2 DEF Moved
<1>11. CASE Stop
  BY <1>0, <1>11, StopMoves DEF Moved
<1>12. CASE Exhausted
  BY <1>0, <1>12, ExhaustedMoves DEF Moved
<1>13. ASSUME UNCHANGED <<t, root, before, node, frontier>> PROVE Moved
  <2>1. Refs' = Refs
    BY <1>13 DEF Refs
  <2>2. Settled(t, t, Refs)
    BY <1>0, StillMoves
  <2>3. Settled(t, t', Refs')
    BY <1>13, <2>1, <2>2
  <2> QED
    BY <2>3 DEF Moved
<1>14. CASE Leaf \/ Leave \/ Continue \/ ReachLimit
  BY <1>13, <1>14 DEF Leaf, Leave, Continue, ReachLimit, search
<1>15. ASSUME NEW n \in 1..MaxBranches, Branch(n) PROVE Moved
  BY <1>13, <1>15 DEF Branch
<1>16. ~Solve /\ ~End
  BY DEF Solve, End, Running
<1> QED
  BY <1>1, <1>2, <1>3, <1>4, <1>6, <1>7, <1>8, <1>9, <1>10, <1>11, <1>12, <1>14, <1>15, <1>16 DEF Next

--------------------------------------------------------------------------------
(* While the first call runs, every list of the stack has its level, and what *)
(* holds at the root is what its list does.                                   *)
Levelled ==
    /\ runs \in Nat /\ (pc # "idle" => runs >= 1)
    /\ pc = "idle" =>
          /\ Len(t.stack) = 1 /\ Len(t.frames) = 0 /\ t.pushes = 0
          /\ t.store = {} /\ Cont(t, t.stack[1]) = {}
    /\ runs = 1 /\ Running =>
          /\ Len(root) = 1 /\ Len(t.frames) = Len(t.stack)
          /\ effect[<<>>] = Cont(t, t.stack[1])

(* The store of the root node changes only while its branching infers.        *)
LEMMA RootStays ==
  ASSUME Base, Next, Generated, Running, ~(Infer /\ here = <<>>)
  PROVE  effect'[<<>>] = effect[<<>>]
<1> DEFINE e == <<>>
<1>0. Typed /\ e \in DOMAIN effect /\ here \in DOMAIN effect /\ e = <<>>
  BY DEF Base, Generated
<1> HIDE DEF e
<1>1. CASE Infer
  <2>1. effect' = [effect EXCEPT ![here] = t'.store] /\ here # e
    BY <1>0, <1>1 DEF Infer
  <2>2. effect'[e] = effect[e]
    BY <1>0, <2>1
  <2> QED
    BY <1>0, <2>2
<1>2. CASE Keep
  <2> DEFINE c == Child
             x == t.store
             g == Record(c, x)
  <2>1. effect' = g /\ c \notin DOMAIN effect
    BY <1>0, <1>2, ChildNew DEF Keep
  <2> HIDE DEF c, x
  <2>2. g[e] = effect[e]
    BY <1>0, <2>1 DEF Record
  <2> HIDE DEF g
  <2> QED
    BY <1>0, <2>1, <2>2
<1>3. ~Solve
  BY DEF Solve, Running
<1>4. CASE ~Infer /\ ~Keep
  BY <1>3, <1>4 DEF Next, Leaf, Enter, Fail, ReachLimit, Leave, ReplayList, FailRestore, EndRestore,
     Continue, Stop, Pick, Exhausted, End, Branch, Post, ghosts
<1> QED
  BY <1>1, <1>2, <1>4

(* The list at the bottom keeps its constraints.                              *)
LEMMA BottomStays ==
  ASSUME NEW s, NEW u, NEW m, NEW k \in Nat, k > 0, Holds(s, u, m, k)
  PROVE  Cont(u, u.stack[1]) = Cont(s, s.stack[1])
<1>1. 1 \in 1..k
  OBVIOUS
<1>2. u.stack[1] = s.stack[1] /\ Kept(s, u, s.stack[1])
  BY <1>1 DEF Holds
<1> QED
  BY <1>2 DEF Kept, Cont

(* However the tracer moves, levels and lists come and go together, and what  *)
(* the lowest list holds stays unless the root is where a constraint is       *)
(* posted.                                                                    *)
LEMMA LevelsKeep ==
  ASSUME t \in Tracers, t' \in Tracers, Sound, Moved, Len(root) = 1, Len(t.frames) = Len(t.stack)
  PROVE  /\ Len(t'.frames) = Len(t'.stack)
         /\ \/ Cont(t', t'.stack[1]) = Cont(t, t.stack[1])
            \/ Len(t.stack) = 1 /\ (Infer \/ pc = "alt")
<1> DEFINE f == Len(t.frames)
           z == Len(t.stack)
<1>0. f \in Nat /\ z \in Nat /\ z > 0 /\ f = z
  BY Lengths DEF Sound
<1>1. CASE Settled(t, t', Refs')
  <2>1. Holds(t, t', Refs', z) /\ t'.stack = t.stack /\ t'.frames = t.frames
    BY <1>1 DEF Settled
  <2>2. Cont(t', t'.stack[1]) = Cont(t, t.stack[1])
    <3> HIDE DEF z
    <3> QED
      BY <1>0, <2>1, BottomStays
  <2> QED
    BY <1>0, <2>1, <2>2
<1>2. ASSUME NEW c, Posted(t, t', Refs, t.nodes, c), Refs' = Refs
      PROVE  /\ Len(t'.frames) = Len(t'.stack)
             /\ Len(t.stack) # 1 => Cont(t', t'.stack[1]) = Cont(t, t.stack[1])
  <2> DEFINE k == z - 1
  <2>1. Holds(t, t', Refs, k) /\ Len(t'.stack) = Len(t.stack) /\ t'.frames = t.frames
    BY <1>2 DEF Posted
  <2>2. ASSUME Len(t.stack) # 1 PROVE Cont(t', t'.stack[1]) = Cont(t, t.stack[1])
    <3>0. z # 1
      BY <2>2
    <3> HIDE DEF f, z
    <3>1. k \in Nat /\ k > 0
      BY <1>0, <3>0
    <3> HIDE DEF k
    <3> QED
      BY <2>1, <3>1, BottomStays
  <2> QED
    BY <2>1, <2>2
<1>3. ASSUME NEW n \in Nat, Len(root) <= n, n <= Len(t.stack), Lowered(t, t', Refs', n)
      PROVE  Len(t'.frames) = Len(t'.stack) /\ Cont(t', t'.stack[1]) = Cont(t, t.stack[1])
  <2>1. /\ Holds(t, t', Refs', n) /\ Len(t'.stack) = n /\ Len(t'.frames) = f - (z - n)
        /\ n > 0
    BY <1>3 DEF Lowered
  <2>2. Cont(t', t'.stack[1]) = Cont(t, t.stack[1])
    BY <2>1, BottomStays
  <2>3. f - (z - n) = n
    <3> HIDE DEF f, z
    <3> QED
      BY <1>0
  <2> QED
    BY <2>1, <2>2, <2>3
<1>4. ASSUME NEW i, NEW x, Opening(t, t', Refs', i, x)
      PROVE  Len(t'.frames) = Len(t'.stack) /\ Cont(t', t'.stack[1]) = Cont(t, t.stack[1])
  <2> DEFINE g == t.frames
             r == [id |-> i, store |-> t.store]
  <2>1. /\ Holds(t, t', Refs', z) /\ Len(t'.stack) = z + 1 /\ t'.frames = Append(g, r)
        /\ g \in Seq(LevelSet) /\ Len(g) = z
    BY <1>4, TracerFields DEF Opening
  <2>2. Cont(t', t'.stack[1]) = Cont(t, t.stack[1])
    <3> HIDE DEF z
    <3> QED
      BY <1>0, <2>1, BottomStays
  <2> HIDE DEF g, r
  <2>3. Len(t'.frames) = Len(g) + 1
    BY <2>1
  <2> QED
    BY <2>1, <2>2, <2>3
<1> QED
  BY <1>1, <1>2, <1>3, <1>4 DEF Moved

(* Levels and lists stay in step.                                             *)
LEMMA LevelledStep ==
  ASSUME Base, Told, Next, Levelled
  PROVE  Levelled'
<1>0. /\ Typed /\ Sound /\ Aimed /\ Anchored /\ Generated /\ Recalled /\ t \in Tracers /\ t' \in Tracers
      /\ runs \in Nat /\ (pc # "idle" => runs >= 1)
  <2>1. Typed' /\ Typed
    BY TypedStep DEF Base
  <2> QED
    BY <2>1 DEF Base, Told, Typed, Levelled
<1>1. CASE Solve
  <2>1. /\ pc \in {"idle", "done"} /\ pc' = "branching" /\ runs' = runs + 1 /\ root' = t.stack
        /\ effect' = [p \in {<<>>} |-> t.store]
    BY <1>1 DEF Solve
  <2>2. Started(t, t', Refs')
    BY <1>0, <1>1, SolveMoves
  <2>3. runs' \in Nat /\ runs' >= 1
    BY <1>0, <2>1
  <2>4. CASE pc = "idle"
    <3>1. /\ Len(t.stack) = 1 /\ Len(t.frames) = 0 /\ t.store = {} /\ Cont(t, t.stack[1]) = {}
      BY <2>4 DEF Levelled
    <3>2. /\ t'.stack = t.stack /\ Len(t'.frames) = Len(t.frames) + 1 /\ Holds(t, t', Refs', Len(t.stack))
      BY <2>2 DEF Started
    <3>3. Len(root') = 1 /\ Len(t'.frames) = Len(t'.stack)
      BY <2>1, <3>1, <3>2
    <3>4. Cont(t', t'.stack[1]) = {}
      <4>1. Holds(t, t', Refs', 1) /\ 1 \in Nat /\ 1 > 0
        BY <3>1, <3>2
      <4> DEFINE k == 1
      <4> HIDE DEF k
      <4>2. k \in Nat /\ k > 0 /\ Holds(t, t', Refs', k)
        BY <4>1 DEF k
      <4> QED
        BY <3>1, <4>2, BottomStays
    <3>5. effect'[<<>>] = {}
      <4> DEFINE e == <<>>
                 x == t.store
      <4>1. effect' = [p \in {e} |-> x] /\ x = {}
        BY <2>1, <3>1
      <4> HIDE DEF e, x
      <4>2. effect'[e] = {}
        BY <4>1
      <4> QED
        BY <4>2 DEF e
    <3> QED
      BY <2>1, <2>3, <3>3, <3>4, <3>5 DEF Levelled
  <2>5. CASE pc = "done"
    <3>1. runs' # 1
      BY <1>0, <2>1, <2>5
    <3> QED
      BY <2>1, <2>3, <3>1 DEF Levelled
  <2> QED
    BY <2>1, <2>4, <2>5
<1>2. ASSUME ~Solve PROVE Running /\ pc' # "idle" /\ runs' = runs /\ (pc' # "done" => root' = root)
  BY <1>0, <1>2 DEF Next, Running, Infer, Leaf, Branch, Enter, Post, Keep, Fail, ReachLimit, Leave,
     ReplayList, FailRestore, Restoring, EndRestore, Continue, Stop, Pick, Exhausted, End, Return,
     search, Aimed
<1>3. CASE ~Solve /\ (pc' = "done" \/ runs # 1)
  <2>1. pc # "idle"
    BY <1>2, <1>3 DEF Running
  <2> QED
    BY <1>0, <1>2, <1>3, <2>1 DEF Levelled, Running
<1>4. CASE ~Solve /\ pc' # "done" /\ runs = 1
  <2>1. /\ Running /\ pc' # "idle" /\ runs' = runs /\ root' = root
        /\ Len(root) = 1 /\ Len(t.frames) = Len(t.stack) /\ effect[<<>>] = Cont(t, t.stack[1])
    BY <1>2, <1>4 DEF Levelled
  <2>2. Moved
    BY <1>4, <2>1, MovedStep
  <2>3. /\ Len(t'.frames) = Len(t'.stack)
        /\ \/ Cont(t', t'.stack[1]) = Cont(t, t.stack[1])
           \/ Len(t.stack) = 1 /\ (Infer \/ pc = "alt")
    BY <1>0, <2>1, <2>2, LevelsKeep
  <2>4. effect'[<<>>] = Cont(t', t'.stack[1])
    <3>1. CASE Infer /\ here = <<>>
      <4>1. pc = "branching" /\ effect' = [effect EXCEPT ![here] = t'.store]
        BY <3>1 DEF Infer
      <4>2. Len(t.stack) = 1 /\ t.store = effect[here] /\ here \in DOMAIN effect
        BY <1>0, <2>1, <3>1, <4>1 DEF Recalled, Generated
      <4>3. PICK c : Refs' = Refs /\ Posted(t, t', Refs, t.nodes, c)
        BY <1>0, <3>1, InferMoves
      <4>4. PICK k \in Nat :
               /\ Len(t.stack) = k + 1 /\ Holds(t, t', Refs', k) /\ Len(t'.stack) = Len(t.stack)
               /\ t'.frames = t.frames /\ t'.store = t.store \cup {c}
               /\ Range(TopOf(t').head) = Range(TopOf(t).head) \cup {c}
        BY <1>0, <4>3, PostedIs
      <4>5. TopOf(t) = t.lists[t.stack[1]] /\ TopOf(t') = t'.lists[t'.stack[1]]
        BY <4>2, <4>4 DEF TopOf, Last
      <4>6. Cont(t', t'.stack[1]) = Cont(t, t.stack[1]) \cup {c}
        BY <4>4, <4>5 DEF Cont
      <4>7. effect'[here] = t'.store
        BY <4>1, <4>2
      <4> QED
        BY <2>1, <3>1, <4>2, <4>4, <4>6, <4>7
    <3>2. CASE ~(Infer /\ here = <<>>)
      <4>1. effect'[<<>>] = effect[<<>>]
        BY <1>0, <2>1, <3>2, RootStays
      <4>2. Len(t.stack) # 1 \/ ~(Infer \/ pc = "alt")
        <5>1. CASE Infer
          <6>1. pc = "branching" /\ here # <<>>
            BY <3>2, <5>1 DEF Infer
          <6>2. Len(root) < Len(t.stack)
            BY <1>0, <2>1, <6>1 DEF Recalled
          <6>3. Len(t.stack) \in Nat /\ 1 < Len(t.stack)
            BY <1>0, <2>1, <6>2, Lengths
          <6> DEFINE z == Len(t.stack)
          <6>4. z \in Nat /\ 1 < z
            BY <6>3
          <6> HIDE DEF z
          <6>5. z # 1
            BY <6>4
          <6> QED
            BY <6>5 DEF z
        <5>2. CASE pc = "alt"
          <6>1. Len(before) \in Nat /\ Len(root) <= Len(before) /\ Len(t.stack) = Len(before) + 1
            BY <1>0, <5>2, BackIsOpen DEF Aimed
          <6> QED
            BY <2>1, <6>1
        <5> QED
          BY <5>1, <5>2
      <4> QED
        BY <2>1, <2>3, <4>1, <4>2
    <3> QED
      BY <3>1, <3>2
  <2> QED
    BY <1>0, <2>1, <2>3, <2>4 DEF Levelled
<1> QED
  BY <1>1, <1>3, <1>4

(* A tracer starts with one list and no level (tracer.cpp:19-25).             *)
LEMMA NewTracerEmpty ==
  ASSUME NEW u, NEW id, u = NewTracer(id)
  PROVE  /\ Len(u.stack) = 1 /\ Len(u.frames) = 0 /\ u.pushes = 0
         /\ u.store = {} /\ Cont(u, u.stack[1]) = {}
<1> DEFINE e == <<>>
           S == {}
           c == CommandList(id)
           v == [lists |-> e, pool |-> e, stack |-> e, nodes |-> id + 1, level |-> 1,
                 frames |-> e, pushes |-> 0, store |-> S]
           l == Cardinality(DOMAIN v.lists) + 1
           L == [k \in DOMAIN v.lists \cup {l} |-> IF k = l THEN c ELSE v.lists[k]]
           q == Append(v.stack, l)
<1>1. e \in Seq(Nat) /\ Len(e) = 0 /\ DOMAIN e = {} /\ e = <<>> /\ Cardinality({}) = 0
  BY EmptySeq, FS_EmptySet
<1>2. u = pushList(v, id)
  BY DEF NewTracer
<1>4. /\ v.lists = e /\ v.pool = e /\ v.stack = e /\ v.nodes = id + 1 /\ v.frames = e
      /\ v.pushes = 0 /\ v.store = S
  OBVIOUS
<1>4a. DOMAIN v = {"lists", "pool", "stack", "nodes", "level", "frames", "pushes", "store"}
  OBVIOUS
<1> HIDE DEF v
<1>5. u = [v EXCEPT !.lists = L, !.stack = q]
  BY <1>1, <1>2, <1>4 DEF pushList
<1>3. Len(q) = 1 /\ q[1] = l
  <2> HIDE DEF e, l
  <2> QED
    BY <1>1, <1>4, AppendProperties
<1>5a. l \in DOMAIN L /\ L[l] = c
  BY DEF L
<1> HIDE DEF q, L, c, l
<1>6. /\ u.lists = L /\ u.stack = q /\ u.nodes = id + 1 /\ u.frames = e /\ u.pushes = 0
      /\ u.store = S
  BY <1>4, <1>4a, <1>5
<1>8. Range(c.head) = {}
  <2>1. c.head = e
    BY DEF CommandList, c
  <2> HIDE DEF e
  <2> QED
    BY <1>1, <2>1 DEF Range
<1>9. Cont(u, u.stack[1]) = {}
  BY <1>3, <1>5a, <1>6, <1>8 DEF Cont
<1> HIDE DEF e
<1> QED
  BY <1>1, <1>3, <1>6, <1>9

(* They are at the start.                                                     *)
LEMMA LevelledStarts ==
  ASSUME Init
  PROVE  Levelled
<1>1. pc = "idle" /\ runs = 0 /\ \E id : t = NewTracer(id)
  BY DEF Init
<1> QED
  BY <1>1, NewTracerEmpty DEF Levelled

(* Always: every list on the stack but the first has its level, and the first *)
(* holds what the root of the search holds.                                   *)
THEOREM LevelledAlways == Spec => []Levelled
<1>1. Init => Levelled
  BY LevelledStarts
<1>2. Base /\ Told /\ Levelled /\ [Next]_vars => Levelled'
  <2> SUFFICES ASSUME Base, Told, Levelled, [Next]_vars PROVE Levelled'
    OBVIOUS
  <2>1. CASE Next
    BY <2>1, LevelledStep
  <2>2. CASE UNCHANGED vars
    <3>1. UNCHANGED <<pc, t, root, runs, effect>>
      BY <2>2 DEF vars, search, ghosts
    <3> QED
      BY <3>1 DEF Levelled, Running
  <2> QED
    BY <2>1, <2>2
<1> QED
  BY <1>1, <1>2, BaseAlways, ToldAlways, PTL DEF Spec

(* What the levels below k hold is what the lists gained.                     *)
LEMMA HeldIs ==
  ASSUME NEW k \in Nat, k >= 1
  PROVE  Held(k) = Cont(t, t.stack[1]) \cup Gained(t, 1, t.stack, k)
<1> DEFINE A == Held(k)
           B == Cont(t, t.stack[1])
           C == Gained(t, 1, t.stack, k)
           I == 1..k
           J == 2..k
<1>1. \A i : i \in I <=> i = 1 \/ i \in J
  OBVIOUS
<1>2. ASSUME NEW x PROVE x \in A <=> x \in B \/ x \in C
  <2>1. x \in A <=> \E i \in I : x \in Cont(t, t.stack[i])
    BY DEF Held, Cont
  <2>2. x \in C <=> \E i \in J : x \in Cont(t, t.stack[i])
    <3>1. 1 + 1 = 2
      OBVIOUS
    <3> QED
      BY <3>1, GainedHas
  <2> HIDE DEF A, B, C, I, J
  <2>3. x \in B <=> x \in Cont(t, t.stack[1])
    BY DEF B
  <2> QED
    BY <1>1, <2>1, <2>2, <2>3
<1> HIDE DEF A, B, C
<1>3. A = B \cup C
  BY <1>2
<1> QED
  BY <1>3 DEF A, B, C

(* What LevelsMatch says of the search while it runs.                         *)
LevelsFollow ==
    Running /\ runs = 1 =>
       /\ Len(t.frames) = Len(t.stack)
       /\ t.store = Held(Len(t.stack))
       /\ \A k \in DOMAIN t.frames : k > 1 => t.frames[k].store = Held(k - 1)

(* Levelled says that the levels follow the lists, in the first call of       *)
(* solve().                                                                   *)
LEMMA LevelsFollowIs ==
  ASSUME Base, Told, Levelled, Running, runs = 1
  PROVE  LevelsFollow
<1> DEFINE f == Len(t.frames)
           z == Len(t.stack)
<1>1. /\ Len(root) = 1 /\ f = z /\ effect[<<>>] = Cont(t, t.stack[1])
      /\ StoreIs(t, effect[<<>>], Len(root)) /\ Len(root) <= Len(t.stack)
  BY AnchorIs DEF Levelled, Told, Recalled, Base
<1>2. f \in Nat /\ z \in Nat /\ z >= 1 /\ DOMAIN t.frames = 1..f
  <2>1. t \in Tracers
    BY DEF Base, Typed
  <2>2. t.frames \in Seq(LevelSet) /\ f \in Nat /\ z \in Nat
    BY <2>1, TracerFields, Lengths
  <2> QED
    BY <1>1, <2>2, LenProperties
<1>3. /\ t.store = effect[<<>>] \cup Gained(t, 1, t.stack, z)
      /\ \A h \in Nat : 1 <= h /\ h < z =>
            t.frames[f - z + h + 1].store = effect[<<>>] \cup Gained(t, 1, t.stack, h)
  BY <1>1 DEF StoreIs
<1> DEFINE E == effect[<<>>]
<1> HIDE DEF f, z, E
<1>4. t.store = Held(z)
  BY <1>1, <1>2, <1>3, HeldIs DEF E
<1>5. ASSUME NEW k \in 1..f, k > 1 PROVE t.frames[k].store = Held(k - 1)
  <2> DEFINE h == k - 1
  <2>1. h \in Nat /\ 1 <= h /\ h < z /\ f - z + h + 1 = k /\ h >= 1
    BY <1>1, <1>2, <1>5
  <2> HIDE DEF h
  <2>2. t.frames[k].store = effect[<<>>] \cup Gained(t, 1, t.stack, h)
    BY <1>3, <2>1
  <2>3. Held(h) = Cont(t, t.stack[1]) \cup Gained(t, 1, t.stack, h)
    BY <2>1, HeldIs
  <2>4. t.frames[k].store = Held(h)
    BY <1>1, <2>2, <2>3
  <2> QED
    BY <2>4 DEF h
<1> QED
  BY <1>1, <1>2, <1>4, <1>5 DEF LevelsFollow, f, z

--------------------------------------------------------------------------------
(* While the first call runs a level above that of the search may have its id *)
(* by chance: the levels of the alternatives have later ids of the Trailer,   *)
(* but those a restore opens have ids of lists, and _lastNodeID counts from   *)
(* anywhere.  Such a level belongs to a list of that very id.                 *)
Fits(s) == \A k \in 2..Len(s.frames) : s.frames[k].id = 2 => s.lists[s.stack[k]].node = 2

LeftOpen(n) == n > 0 => n < Len(t.stack) /\ NodeAt(n + 1) = lvl

Numbered ==
    /\ runs = 1 /\ Running => lvl = 2 /\ t.pushes >= 2 /\ Fits(t)
    /\ runs = 1 /\ pc = "done" => LeftOpen(Len(t.frames))

(* A level that is opened above that of the search has the id of its list, or *)
(* a later one of the Trailer, and what stays keeps its ids.                  *)
LEMMA FitsKeep ==
  ASSUME Base, Moved, Len(root) = 1, t' \in Tracers, t.pushes >= 2, Fits(t),
         Len(t.frames) = Len(t.stack)
  PROVE  t'.pushes >= 2 /\ Fits(t')
<1> DEFINE z == Len(t.stack)
           f == Len(t.frames)
<1>0. /\ t \in Tracers /\ z \in Nat /\ f \in Nat /\ z > 0 /\ t.pushes \in Nat
      /\ t'.pushes \in Nat /\ t.frames \in Seq(LevelSet) /\ f = z
  BY Lengths, TracerFields DEF Base, Typed, Sound
<1>h. ASSUME NEW k \in Nat, k <= z, Holds(t, t', Refs', k), NEW i \in 2..k, t.frames[i].id = 2
      PROVE  t'.lists[t'.stack[i]].node = 2
  <2>1. i \in 1..k /\ i \in 2..f
    BY <1>0, <1>h
  <2>2. t'.stack[i] = t.stack[i] /\ Kept(t, t', t.stack[i])
    BY <1>h, <2>1 DEF Holds
  <2>3. t.lists[t.stack[i]].node = 2
    BY <1>h, <2>1 DEF Fits
  <2> QED
    BY <2>2, <2>3 DEF Kept
<1>1. CASE Settled(t, t', Refs')
  <2>1. /\ Holds(t, t', Refs', z) /\ t'.frames = t.frames /\ t'.pushes = t.pushes /\ z <= z
    BY <1>0, <1>1 DEF Settled
  <2>2. ASSUME NEW k \in 2..z, t'.frames[k].id = 2 PROVE t'.lists[t'.stack[k]].node = 2
    <3>1. t.frames[k].id = 2
      BY <2>1, <2>2
    <3> HIDE DEF z, f
    <3> QED
      BY <1>0, <1>h, <2>1, <2>2, <3>1
  <2> QED
    BY <1>0, <2>1, <2>2 DEF Fits
<1>2. ASSUME NEW c, Posted(t, t', Refs, t.nodes, c), Refs' = Refs
      PROVE  t'.pushes >= 2 /\ Fits(t')
  <2> DEFINE n == z - 1
  <2>1. /\ Holds(t, t', Refs', n) /\ Len(t'.stack) = z /\ t'.frames = t.frames
        /\ TopOf(t').node = TopOf(t).node /\ t'.pushes = t.pushes
    BY <1>2 DEF Posted
  <2>2. n \in Nat /\ n <= z /\ z = n + 1
    <3> HIDE DEF z
    <3> QED
      BY <1>0
  <2>3. ASSUME NEW i \in 2..z, t'.frames[i].id = 2 PROVE t'.lists[t'.stack[i]].node = 2
    <3>0. t.frames[i].id = 2
      BY <2>1, <2>3
    <3>1. CASE i = z
      <4>1. Last(t'.stack) = t'.stack[i] /\ Last(t.stack) = t.stack[i]
        BY <2>1, <3>1 DEF Last
      <4>2. t.lists[t.stack[i]].node = 2
        BY <1>0, <2>3, <3>0 DEF Fits
      <4> QED
        BY <2>1, <4>1, <4>2 DEF TopOf
    <3>2. CASE i # z
      <4>1. i \in 2..n
        <5> HIDE DEF z
        <5> QED
          BY <1>0, <2>3, <3>2
      <4> HIDE DEF n, z, f
      <4> QED
        BY <1>h, <2>1, <2>2, <3>0, <4>1
    <3> QED
      BY <3>1, <3>2
  <2> HIDE DEF n
  <2> QED
    BY <1>0, <2>1, <2>3 DEF Fits
<1>3. ASSUME NEW n \in Nat, Len(root) <= n, n <= Len(t.stack), Lowered(t, t', Refs', n)
      PROVE  t'.pushes >= 2 /\ Fits(t')
  <2> DEFINE g == Len(t'.frames)
  <2>1. /\ Holds(t, t', Refs', n) /\ g = f - (z - n) /\ n <= z
        /\ \A k \in 1..g : t'.frames[k] = t.frames[k]
        /\ t'.pushes >= t.pushes
    BY <1>3 DEF Lowered
  <2>2. g = n
    <3> HIDE DEF z, f, g
    <3> QED
      BY <1>0, <1>3, <2>1
  <2>3. ASSUME NEW k \in 2..g, t'.frames[k].id = 2 PROVE t'.lists[t'.stack[k]].node = 2
    <3>1. k \in 2..n /\ k \in 1..g
      <4> HIDE DEF g
      <4> QED
        BY <2>2, <2>3
    <3>2. t.frames[k].id = 2
      BY <2>1, <2>3, <3>1
    <3> HIDE DEF z, f, g
    <3> QED
      BY <1>h, <2>1, <3>1, <3>2
  <2>4. t'.pushes >= 2
    BY <1>0, <2>1
  <2> QED
    BY <2>3, <2>4 DEF Fits
<1>4. ASSUME NEW i \in Int, NEW x \in Int, Opening(t, t', Refs', i, x),
             (Resumed(i) /\ x = i) \/ (i = t.pushes + 1 /\ x = t.nodes)
      PROVE  t'.pushes >= 2 /\ Fits(t')
  <2> DEFINE h == t.frames
             r == [id |-> i, store |-> t.store]
             g == t'.frames
  <2>1. /\ Holds(t, t', Refs', z) /\ Len(t'.stack) = z + 1 /\ g = Append(h, r)
        /\ h \in Seq(LevelSet) /\ Len(h) = z /\ TopOf(t').node = x /\ r.id = i
        /\ t'.pushes >= t.pushes /\ z <= z
    BY <1>0, <1>4 DEF Opening
  <2>2. i = 2 => x = 2
    BY <1>0, <1>4
  <2>3. Last(t'.stack) = t'.stack[z + 1]
    BY <2>1 DEF Last
  <2> HIDE DEF h, r, g, z
  <2>4. Len(g) = z + 1 /\ g[z + 1] = r /\ \A k \in 1..z : g[k] = h[k]
    BY <2>1, AppendProperties
  <2>5. ASSUME NEW k \in 2..Len(g), g[k].id = 2 PROVE t'.lists[t'.stack[k]].node = 2
    <3>1. CASE k = z + 1
      BY <2>1, <2>2, <2>3, <2>4, <2>5, <3>1 DEF TopOf
    <3>2. CASE k # z + 1
      <4>1. k \in 1..z /\ k \in 2..z
        BY <1>0, <2>4, <2>5, <3>2
      <4>2. t.frames[k].id = 2
        BY <2>4, <2>5, <4>1 DEF h
      <4> HIDE DEF f
      <4> QED
        BY <1>0, <1>h, <2>1, <4>1, <4>2
    <3> QED
      BY <3>1, <3>2
  <2>6. t'.pushes >= 2
    BY <1>0, <2>1
  <2> QED
    BY <2>5, <2>6 DEF g, Fits
<1>5. CASE \E c : Posted(t, t', Refs, t.nodes, c) /\ Refs' = Refs
  BY <1>2, <1>5
<1>6. CASE \E n \in Nat : Len(root) <= n /\ n <= Len(t.stack) /\ Lowered(t, t', Refs', n)
  BY <1>3, <1>6
<1>7. CASE \E i, x \in Int : /\ Opening(t, t', Refs', i, x)
                              /\ \/ Resumed(i) /\ x = i
                                 \/ i = t.pushes + 1 /\ x = t.nodes
  <2>1. PICK i \in Int, x \in Int : /\ Opening(t, t', Refs', i, x)
                                    /\ (Resumed(i) /\ x = i) \/ (i = t.pushes + 1 /\ x = t.nodes)
    BY <1>7
  <2> QED
    BY <1>4, <2>1
<1> QED
  BY <1>1, <1>5, <1>6, <1>7 DEF Moved

(* withNewState closes down to the last level with its id: its own, or that   *)
(* of a list of the same id.                                                  *)
LEMMA EndsNumbered ==
  ASSUME Base, End, Len(t.frames) = Len(t.stack), lvl = 2, Fits(t)
  PROVE  LeftOpen(Len(t.frames))'
<1>1. Ended(t, t', Refs, lvl) /\ lvl' = lvl /\ Len(t.frames) \in Nat
  BY PopMoves, Lengths DEF Base, Typed, End, search
<1> DEFINE f == Len(t.frames)
<1>2. PICK j \in 1..f : t.frames[j].id = 2 /\ Len(t'.frames) = j - 1
  BY <1>1 DEF Ended
<1>3. t'.stack = t.stack /\ Holds(t, t', Refs, f)
  BY <1>1 DEF Ended
<1> HIDE DEF f
<1>4. ASSUME j - 1 > 0 PROVE j - 1 < Len(t'.stack) /\ t'.lists[t'.stack[j - 1 + 1]].node = 2
  <2>1. j \in 2..f /\ j - 1 < f /\ j - 1 + 1 = j
    BY <1>1, <1>2, <1>4 DEF f
  <2>2. t.lists[t.stack[j]].node = 2
    BY <1>2, <2>1 DEF Fits, f
  <2>3. Kept(t, t', t.stack[j])
    BY <1>2, <1>3 DEF Holds
  <2> QED
    BY <1>3, <2>1, <2>2, <2>3 DEF Kept, f
<1> QED
  BY <1>1, <1>2, <1>4 DEF LeftOpen, NodeAt

LEMMA NumberedStep ==
  ASSUME Base, Told, Levelled, Next, Numbered
  PROVE  Numbered'
<1>0. /\ Typed /\ Sound /\ Aimed /\ Anchored /\ Typed' /\ t' \in Tracers
      /\ runs \in Nat /\ (pc # "idle" => runs >= 1)
  <2>1. Typed'
    BY TypedStep DEF Base
  <2> QED
    BY <2>1 DEF Base, Levelled, Typed
<1>1. CASE Solve
  <2>1. /\ pc \in {"idle", "done"} /\ pc' = "branching" /\ runs' = runs + 1 /\ lvl' = t'.pushes
    BY <1>1 DEF Solve
  <2>2. CASE pc = "done"
    <3>1. runs' # 1
      BY <1>0, <2>1, <2>2
    <3> QED
      BY <2>1, <3>1 DEF Numbered, Running
  <2>3. CASE pc = "idle"
    <3>1. Len(t.frames) = 0 /\ t.pushes = 0
      BY <2>3 DEF Levelled
    <3>2. Started(t, t', Refs')
      BY <1>0, <1>1, SolveMoves
    <3>3. t'.pushes = t.pushes + 2 /\ Len(t'.frames) = Len(t.frames) + 1
      BY <3>2 DEF Started
    <3>4. lvl' = 2 /\ t'.pushes >= 2 /\ Len(t'.frames) = 1
      BY <2>1, <3>1, <3>3
    <3>5. \A k \in 2..1 : FALSE
      OBVIOUS
    <3>6. Fits(t')
      BY <3>4, <3>5 DEF Fits
    <3> QED
      BY <2>1, <3>4, <3>6 DEF Numbered
  <2> QED
    BY <2>1, <2>2, <2>3
<1>2. ASSUME ~Solve PROVE Running /\ runs' = runs /\ pc' # "idle" /\ lvl' = lvl
  BY <1>0, <1>2 DEF Next, Running, Infer, Leaf, Branch, Enter, Post, Keep, Fail, ReachLimit, Leave,
     ReplayList, FailRestore, Restoring, EndRestore, Continue, Stop, Pick, Exhausted, End, Return,
     search, Aimed
<1>3. CASE ~Solve /\ runs # 1
  BY <1>2, <1>3 DEF Numbered
<1>4. ASSUME ~Solve, runs = 1
      PROVE  /\ Running /\ Len(root) = 1 /\ Len(t.frames) = Len(t.stack)
             /\ lvl = 2 /\ t.pushes >= 2 /\ Fits(t)
  BY <1>2, <1>4 DEF Numbered, Levelled
<1>5. CASE ~Solve /\ runs = 1 /\ pc' = "done"
  <2>1. End
    BY <1>0, <1>2, <1>5 DEF Next, Running, Infer, Leaf, Branch, Enter, Post, Keep, Fail, ReachLimit,
       Leave, ReplayList, FailRestore, Restoring, EndRestore, Continue, Stop, Pick, Exhausted, Return,
       search, Aimed
  <2>2. LeftOpen(Len(t.frames))'
    BY <1>4, <1>5, <2>1, EndsNumbered
  <2> QED
    BY <1>5, <2>2 DEF Numbered, Running
<1>6. CASE ~Solve /\ runs = 1 /\ pc' # "done"
  <2>1. Moved
    BY <1>4, <1>6, MovedStep
  <2>2. t'.pushes >= 2 /\ Fits(t')
    BY <1>0, <1>4, <1>6, <2>1, FitsKeep
  <2> QED
    BY <1>2, <1>4, <1>6, <2>2 DEF Numbered
<1> QED
  BY <1>1, <1>3, <1>5, <1>6

(* While the first call of solve() runs the lists on the command stack and    *)
(* the levels of the Trailer correspond, whatever _lastNodeID held at the     *)
(* start: what a level restores is what the lists under it hold               *)
(* (tracer.cpp:27-103).                                                       *)
THEOREM LevelsFollowAlways == Spec => []LevelsFollow
<1>1. Base /\ Told /\ Levelled => LevelsFollow
  BY LevelsFollowIs DEF LevelsFollow
<1> QED
  BY <1>1, BaseAlways, ToldAlways, LevelledAlways, PTL

(* And it closes every level it opened, unless a list on the stack happens to *)
(* have the id of the level of withNewState, which popToNode then takes it    *)
(* for; whatever _lastNodeID held at the start nothing else leaves a level    *)
(* open (search.cpp:150-158, trail.cpp:83, tracer.cpp:19-25, 82-91).          *)
THEOREM LevelsMatchAlways == Spec => []LevelsMatch
<1>1. Init => Numbered
  <2>1. Init => pc = "idle" /\ runs = 0
    BY DEF Init
  <2> QED
    BY <2>1 DEF Numbered, Running
<1>2. Base /\ Told /\ Levelled /\ Numbered /\ [Next]_vars => Numbered'
  <2> SUFFICES ASSUME Base, Told, Levelled, Numbered, [Next]_vars PROVE Numbered'
    OBVIOUS
  <2>1. CASE Next
    BY <2>1, NumberedStep
  <2>2. CASE UNCHANGED vars
    <3>1. UNCHANGED <<pc, t, lvl, runs>>
      BY <2>2 DEF vars, search
    <3> QED
      BY <3>1 DEF Numbered, Running, Fits, LeftOpen, NodeAt
  <2> QED
    BY <2>1, <2>2
<1>3. Numbered /\ LevelsFollow => LevelsMatch
  BY DEF LevelsMatch, LevelsFollow, Numbered, LeftOpen
<1> QED
  BY <1>1, <1>2, <1>3, BaseAlways, ToldAlways, LevelledAlways, LevelsFollowAlways, PTL DEF Spec
================================================================================
