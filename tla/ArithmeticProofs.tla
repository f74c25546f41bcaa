----------------------------- MODULE ArithmeticProofs -----------------------------
(* What PropagationProofs takes for granted of the constraints, shown for the *)
(* arithmetic ones: their methods narrow, infer no more than they mean and    *)
(* leave the others alone, in every state a search reaches (OnlyNarrows,      *)
(* OnlyInfers).  The disequalities need what they listen to: a closure that   *)
(* waits for a variable to be bound is in the queue only once it is.          *)
EXTENDS PropagationProofs, Arithmetic

NEQs == {"NEQBinBCLight", "NEQBinBC"}
Terns == {"EQTernBC", "EQTernBCbool"}
Basics == NEQs \cup Terns \cup {"LessOrEqual", "EQBinBC", "EQBinDC"}

(* The constraints as the library's factories make them. *)
Shape(b) == /\ b.kind \in Basics /\ b.k \in Int /\ b.inner = <<>>
            /\ b.kind \in Terns => Len(b.x) = 3 /\ b.parts = 3
            /\ b.kind \notin Terns => Len(b.x) = 2
            /\ b.kind \in {"EQBinBC", "NEQBinBC"} => b.parts = 2
            /\ b.kind \in {"LessOrEqual", "EQBinDC", "NEQBinBCLight"} => b.parts = 0

(* Clients of these constraints only, with the methods of constraint.cpp      *)
(* (which assert nothing).                                                    *)
Library ==
    \A p \in Programs : \A c \in ConsOf(p) :
        /\ Shape(Body[c])
        /\ Body[c].kind = "EQTernBCbool" =>
              LET v == Body[c].x[3] IN \A w \in p.dom[v[1]] : v[2] * w + v[3] \in {0, 1}
        /\ \A r : post(r, c) = ArithmeticPost(r, <<c, 0>>, Body[c]) /\ ~aborts(r, c)
        /\ \A r, i : i[1] = c => propagate(r, i) = ArithmeticPropagate(r, i, Body[c])
        /\ \A a : holds(a, c) <=> ArithmeticHolds(a, Body[c])

BodyOf(i) == Body[i[1]]

(* The variables one of which i waits for, by their places in the constraint. *)
Awaits(i) == IF BodyOf(i).kind = "NEQBinBCLight" THEN {1, 2} ELSE {i[2]} \cap {1, 2}
Closure(i) == BodyOf(i).kind \in Terns => i[2] \in 1..3

(* A disequality listens to the binding of its variables only, and is in the  *)
(* queue only when one it waits for is bound.                                 *)
WellPlaced(t) ==
    /\ Closure(t[3])
    /\ BodyOf(t[3]).kind \in NEQs =>
          t[2] = "onBind" /\ \E n \in Awaits(t[3]) : t[1] = BodyOf(t[3]).x[n][1]
Ripe(r, i) ==
    /\ Closure(i)
    /\ BodyOf(i).kind \in NEQs => \E n \in Awaits(i) : Bound(r, BodyOf(i).x[n])

Placed(r) == \A t \in Listening(r) : WellPlaced(t)
Due(r) == \A i \in Entries(r) : Ripe(r, i)

Ready(r) == Good(r) /\ Placed(r) /\ Due(r)

--------------------------------------------------------------------------------
LEMMA ShapeOf ==
  ASSUME Library, program \in Programs, NEW c \in Cons
  PROVE  /\ Shape(Body[c]) /\ Parts(c) \subseteq Ids /\ <<c, 0>> \in Ids
         /\ Body[c].x \in Seq(Views(Vars)) /\ c \in DOMAIN Body
         /\ \A n \in 1..Len(Body[c].x) : Body[c].x[n] \in Views(Vars)
         /\ \A n \in 0..Body[c].parts : <<c, n>> \in Parts(c)
<1>1. Parts(c) \subseteq Ids /\ c \in DOMAIN Body /\ Body[c].x \in Seq(Views(Vars))
  BY PartsOf
<1>2. Shape(Body[c])
  BY DEF Library, Cons
<1>3. <<c, 0>> \in Ids
  BY <1>1, OwnParts
<1>4. \A n \in 1..Len(Body[c].x) : Body[c].x[n] \in Views(Vars)
  BY <1>1
<1>5. \A n \in 0..Body[c].parts : <<c, n>> \in Parts(c)
  BY DEF Parts
<1>6. QED
  BY <1>1, <1>2, <1>3, <1>4, <1>5

LEMMA IdOf ==
  ASSUME NEW i \in Ids
  PROVE  i[1] \in Cons /\ i \in Parts(i[1]) /\ i = <<i[1], i[2]>>
BY DEF Ids, Parts

(* Whoever can be heard now is ripe, and what is ripe stays so.               *)
LEMMA AlertRipe ==
  ASSUME NEW r, Placed(r), NEW i \in Alert(r)
  PROVE  Ripe(r, i)
<1>1. PICK t \in Listening(r) : t[3] = i /\ (t[2] = "onBind" => Singleton(r.dom[t[1]]))
  BY DEF Alert
<1>2. WellPlaced(t)
  BY DEF Placed
<1>3. QED
  BY <1>1, <1>2 DEF WellPlaced, Ripe, Bound

LEMMA RipeStays ==
  ASSUME Library, program \in Programs, NEW r, Good(r), NEW s, Good(s), Shrinks(r, s),
         NEW i \in Ids, Ripe(r, i)
  PROVE  Ripe(s, i)
<1>1. CASE BodyOf(i).kind \notin NEQs
  BY <1>1 DEF Ripe
<1>2. CASE BodyOf(i).kind \in NEQs
  <2>1. PICK n \in Awaits(i) : Bound(r, BodyOf(i).x[n])
    BY <1>2 DEF Ripe
  <2>2. i[1] \in Cons /\ Shape(Body[i[1]])
    BY IdOf, ShapeOf
  <2>3. n \in 1..Len(Body[i[1]].x)
    <3>1. Len(Body[i[1]].x) = 2
      BY <1>2, <2>2 DEF Shape, NEQs, Terns, BodyOf
    <3>2. n \in {1, 2}
      BY <2>1 DEF Awaits
    <3> QED
      BY <3>1, <3>2
  <2>4. Body[i[1]].x[n] \in Views(Vars)
    BY <2>2, <2>3, ShapeOf
  <2> DEFINE x == Body[i[1]].x[n][1]
  <2>5. x \in Vars
    BY <2>4, ViewFields
  <2>6. r.dom[x] \in Domains /\ s.dom[x] \in Domains /\ s.dom[x] \subseteq r.dom[x]
    BY <2>5, GoodFields DEF Shrinks
  <2>7. Singleton(s.dom[x])
    BY <2>1, <2>6, BoundStays DEF Bound, BodyOf
  <2> QED
    BY <1>2, <2>1, <2>7 DEF Ripe, Bound, BodyOf
<1>3. QED
  BY <1>1, <1>2

--------------------------------------------------------------------------------
(* A part of a method of c that starts in r and stops in s.                   *)
Spares(c, r, s) == ~r.failed => \A a \in LeftIn(r) : holds(a, c) => ~s.failed /\ Fits(a, s.dom)

(* From r to s the closures J still listen, and those that listen to a        *)
(* variable that has become bound are in the queue.                           *)
Minds(J, r, s) ==
    ~s.failed => \A t \in Listening(r) : t[3] \in J =>
        /\ t \in Listening(s)
        /\ r.active[t[3]] /\ ~Singleton(r.dom[t[1]]) /\ Singleton(s.dom[t[1]]) => t[3] \in Entries(s)

(* Only the closures of NEQBinBC take themselves off a list. *)
Minded(c) == IF Body[c].kind = "NEQBinBC" THEN Ids \ Parts(c) ELSE Ids

Work(c, r, s) ==
    /\ Ready(s)
    /\ Narrows(States(Vars, Ids, {r.mem}, {r.aux}), r, s)
    /\ KeepsToItself(c, r, s)
    /\ s.active = r.active
    /\ r.failed => s.failed
    /\ Spares(c, r, s)
    /\ Minds(Minded(c), r, s)

LEMMA GoodState ==
  ASSUME NEW r, Good(r)
  PROVE  r \in States(Vars, Ids, {r.mem}, {r.aux})
BY DEF Good

LEMMA WorkSelf ==
  ASSUME NEW c, NEW r, Ready(r)
  PROVE  Work(c, r, r)
<1>1. Narrows(States(Vars, Ids, {r.mem}, {r.aux}), r, r)
  BY GoodState, NarrowsSelf DEF Ready
<1>2. KeepsToItself(c, r, r)
  BY DEF KeepsToItself
<1>3. Spares(c, r, r)
  BY DEF Spares, LeftIn
<1>4. Minds(Minded(c), r, r)
  BY DEF Minds
<1>5. QED
  BY <1>1, <1>2, <1>3, <1>4 DEF Work

LEMMA SpareOn ==
  ASSUME NEW c, NEW r, NEW s, NEW u, Spares(c, r, s), Spares(c, s, u), s.failed => u.failed,
         \A a \in LeftIn(r) : Fits(a, s.dom) => a \in LeftIn(s)
  PROVE  Spares(c, r, u)
BY DEF Spares

LEMMA StillLeft ==
  ASSUME NEW r, NEW s, NEW a \in LeftIn(r), Fits(a, s.dom)
  PROVE  a \in LeftIn(s)
BY DEF LeftIn

LEMMA MindsOn ==
  ASSUME NEW J, NEW r, NEW s, NEW u, Minds(J, r, s), Minds(J, s, u), s.failed => u.failed,
         Entries(s) \subseteq Entries(u), s.active = r.active
  PROVE  Minds(J, r, u)
<1> SUFFICES ASSUME ~u.failed, NEW t \in Listening(r), t[3] \in J
             PROVE  /\ t \in Listening(u)
                    /\ r.active[t[3]] /\ ~Singleton(r.dom[t[1]]) /\ Singleton(u.dom[t[1]])
                          => t[3] \in Entries(u)
  BY DEF Minds
<1>1. /\ t \in Listening(s)
      /\ r.active[t[3]] /\ ~Singleton(r.dom[t[1]]) /\ Singleton(s.dom[t[1]]) => t[3] \in Entries(s)
  BY DEF Minds
<1>2. /\ t \in Listening(u)
      /\ r.active[t[3]] /\ ~Singleton(s.dom[t[1]]) /\ Singleton(u.dom[t[1]]) => t[3] \in Entries(u)
  BY <1>1 DEF Minds
<1>3. QED
  BY <1>1, <1>2

LEMMA WorkOn ==
  ASSUME program \in Programs, NEW c, NEW r, Ready(r), NEW s, NEW u,
         Work(c, r, s), Work(c, s, u)
  PROVE  Work(c, r, u)
<1> USE DEF Work
<1>1. Good(r) /\ Good(s) /\ Good(u)
  BY DEF Ready
<1>2. s.mem = r.mem /\ s.aux = r.aux
  BY DEF Narrows, States
<1>3. Narrows(States(Vars, Ids, {r.mem}, {r.aux}), r, u)
  BY <1>1, <1>2, GoodState, NarrowsOn
<1>4. Shrinks(s, u) /\ Shrinks(r, s)
  BY DEF Narrows
<1>5. KeepsToItself(c, r, u)
  <2>1. ASSUME NEW i \in Alert(s), i \notin Parts(c), i \in Ids
        PROVE  i \in Alert(u)
    <3>1. i[1] \in Cons /\ i \in Parts(i[1]) /\ i[1] # c
      BY <2>1, IdOf
    <3>2. LeavesAlone(i[1], s, u)
      BY <3>1, Apart
    <3>3. s \in States(Vars, Ids, {s.mem}, {s.aux}) /\ u \in States(Vars, Ids, {u.mem}, {u.aux})
      BY <1>1, GoodState
    <3> HIDE DEF Work
    <3> QED
      BY <1>4, <2>1, <3>1, <3>2, <3>3, AlertOn
  <2>2. \A t \in Listening(r) \cup Listening(u) :
           t[3] \in Parts(c) \/ t \in Listening(r) \cap Listening(u)
    BY DEF KeepsToItself
  <2>3. \A i \in Ids \ Parts(c) : u.active[i] = r.active[i]
    BY DEF KeepsToItself
  <2>4. Entries(s) \subseteq Ids
    <3>1. s.queue \in [{CLOW, CHIGH} -> Seq(Ids)]
      BY <1>1, GoodFields
    <3> QED
      BY <3>1 DEF Entries
  <2>5. ASSUME NEW i \in Entries(u)
        PROVE  i \in Entries(r) \cup Alert(u) \cup Parts(c)
    <3>1. i \in Entries(s) \cup Alert(u) \cup Parts(c)
      BY <2>5 DEF KeepsToItself
    <3>2. i \in Entries(s) => i \in Entries(r) \cup Alert(s) \cup Parts(c)
      BY DEF KeepsToItself
    <3> QED
      BY <2>1, <2>4, <3>1, <3>2
  <2> QED
    BY <2>2, <2>3, <2>5 DEF KeepsToItself
<1>6. Spares(c, r, u)
  BY <1>1, StillLeft, SpareOn
<1>7. Minds(Minded(c), r, u)
  BY MindsOn DEF Narrows, Grows
<1>8. QED
  BY <1>3, <1>5, <1>6, <1>7

(* What is ready stays so when a variable is narrowed and its listeners are   *)
(* woken up.                                                                  *)
LEMMA ReadyWakes ==
  ASSUME Library, program \in Programs, NEW r, Ready(r), NEW s, Good(s), Shrinks(r, s), Wakes(r, s)
  PROVE  Ready(s)
<1>1. Listening(s) = Listening(r)
  BY HeardSame DEF Wakes
<1>2. Placed(s)
  BY <1>1 DEF Placed, Ready
<1>3. ASSUME NEW i \in Entries(s) PROVE Ripe(s, i)
  <2>1. CASE i \in Entries(r)
    <3>1. Good(r) /\ Ripe(r, i)
      BY <2>1 DEF Ready, Due
    <3>2. i \in Ids
      <4>1. r.queue \in [{CLOW, CHIGH} -> Seq(Ids)]
        BY <3>1, GoodFields
      <4> QED
        BY <2>1, <4>1 DEF Entries
    <3> QED
      BY <3>1, <3>2, RipeStays
  <2>2. CASE i \in Alert(s)
    BY <1>2, <2>2, AlertRipe
  <2> QED
    BY <1>3, <2>1, <2>2 DEF Wakes, Queues
<1>4. QED
  BY <1>2, <1>3 DEF Ready, Due

LEMMA ListeningOf ==
  ASSUME NEW r, Good(r), NEW t
  PROVE  t \in Listening(r) <=> \E x \in Vars, l \in Lists : \E k \in DOMAIN r.listen[x][l] :
                                   t = <<x, l, r.listen[x][l][k]>>
<1>1. DOMAIN r.listen = Vars
  BY GoodFields
<1> DEFINE here(x, l) == {<<x, l, r.listen[x][l][k]>> : k \in DOMAIN r.listen[x][l]}
<1>2. Listening(r) = UNION {here(x, l) : x \in Vars, l \in Lists}
  BY <1>1 DEF Listening
<1>3. \A x, l : t \in here(x, l) <=> \E k \in DOMAIN r.listen[x][l] : t = <<x, l, r.listen[x][l][k]>>
  OBVIOUS
<1> HIDE DEF here
<1>4. t \in Listening(r) <=> \E x \in Vars, l \in Lists : t \in here(x, l)
  BY <1>2
<1>5. QED
  BY <1>3, <1>4

(* Waking up minds everyone.                                                  *)
LEMMA WakesMinds ==
  ASSUME NEW r, Good(r), NEW s, Good(s), Wakes(r, s)
  PROVE  Minds(Ids, r, s)
<1> SUFFICES ASSUME ~s.failed, NEW t \in Listening(r), t[3] \in Ids
             PROVE  /\ t \in Listening(s)
                    /\ r.active[t[3]] /\ ~Singleton(r.dom[t[1]]) /\ Singleton(s.dom[t[1]])
                          => t[3] \in Entries(s)
  BY DEF Minds
<1>1. t \in Listening(s)
  BY HeardSame DEF Wakes
<1>2. ASSUME r.active[t[3]], ~Singleton(r.dom[t[1]]), Singleton(s.dom[t[1]])
      PROVE  t[3] \in Entries(s)
  <2>1. PICK x \in Vars, l \in Lists : \E k \in DOMAIN r.listen[x][l] : t = <<x, l, r.listen[x][l][k]>>
    BY ListeningOf
  <2> PICK k \in DOMAIN r.listen[x][l] : t = <<x, l, r.listen[x][l][k]>>
    BY <2>1
  <2>2. t[1] = x /\ t[3] = r.listen[x][l][k]
    BY <2>1
  <2>3. x \in DOMAIN r.dom
    BY GoodFields
  <2>4. Stirred(r, s, x, l)
    BY <1>2, <2>2, <2>3 DEF Wakes, Stirs
  <2>5. s.scheduled[t[3]]
    BY <1>2, <2>2, <2>4 DEF Stirred
  <2> QED
    BY <2>5 DEF Good
<1>3. QED
  BY <1>1, <1>2

LEMMA FewerMind ==
  ASSUME NEW c, NEW r, NEW s, Minds(Ids, r, s)
  PROVE  Minds(Minded(c), r, s)
BY DEF Minds, Minded

(* An operation on x that drops no value of an assignment that meets c.       *)
LEMMA CutWork ==
  ASSUME Library, program \in Programs, NEW c, NEW r, Ready(r), NEW s,
         Narrows(States(Vars, Ids, {r.mem}, {r.aux}), r, s),
         NEW x \in Vars, NEW K, Cuts(r, s, x, K),
         \A a \in LeftIn(r) : holds(a, c) => a[x] \in K
  PROVE  Work(c, r, s)
<1>1. Good(r) /\ Good(s)
  BY GoodNarrows DEF Ready
<1>2. Wakes(r, s) /\ Shrinks(r, s)
  BY DEF Cuts, Narrows
<1>3. Ready(s)
  BY <1>1, <1>2, ReadyWakes
<1>4. KeepsToItself(c, r, s)
  <2>1. Listening(s) = Listening(r)
    BY <1>2, HeardSame DEF Wakes
  <2> QED
    BY <1>2, <2>1 DEF KeepsToItself, Wakes, Queues
<1>5. r.failed => s.failed
  BY DEF Cuts
<1>6. ASSUME ~r.failed, NEW a \in LeftIn(r), holds(a, c)
      PROVE  ~s.failed /\ Fits(a, s.dom)
  <2>1. a[x] \in K /\ \A y \in Vars : a[y] \in r.dom[y]
    BY <1>6 DEF LeftIn, Fits
  <2>2. a[x] \in r.dom[x] \cap K
    BY <2>1
  <2>3. ~s.failed /\ s.dom = [r.dom EXCEPT ![x] = @ \cap K]
    BY <1>6, <2>2 DEF Cuts
  <2>4. r.dom \in [Vars -> Domains]
    BY <1>1, GoodFields
  <2>5. \A y \in Vars : a[y] \in s.dom[y]
    BY <2>1, <2>2, <2>3, <2>4
  <2> QED
    BY <2>3, <2>5 DEF Fits
<1>7. Minds(Minded(c), r, s)
  BY <1>1, <1>2, WakesMinds, FewerMind
<1>8. QED
  BY <1>2, <1>3, <1>4, <1>5, <1>6, <1>7 DEF Work, Spares, Wakes

--------------------------------------------------------------------------------
(* The bounds of a view.                                                      *)
LEMMA Scale ==
  ASSUME NEW a \in Int, a > 0, NEW u \in Int, NEW w \in Int, u <= w
  PROVE  a * u <= a * w
<1>1. a * (w - u) >= 0
  OBVIOUS
<1>2. a * (w - u) = a * w - a * u
  OBVIOUS
<1>3. a * u \in Int /\ a * w \in Int
  OBVIOUS
<1>4. QED
  BY <1>1, <1>2, <1>3

ImageOf(v, D) == {v[2] * w + v[3] : w \in D}

LEMMA LeastImage ==
  ASSUME NEW X, NEW v \in Views(X), NEW D \in Domains, NEW m \in D, NEW n \in D,
         IF Opposite(v) THEN m = Max(D) /\ n = Min(D) ELSE m = Min(D) /\ n = Max(D)
  PROVE  /\ \A w \in D : v[2] * w + v[3] \in Int
         /\ \A w \in D : v[2] * m + v[3] <= v[2] * w + v[3]
         /\ \A w \in D : v[2] * n + v[3] >= v[2] * w + v[3]
<1>1. v[2] \in Int /\ v[3] \in Int /\ v[2] # 0
  BY ViewFields
<1>2. D \subseteq Int /\ m \in Int /\ n \in Int
  BY DEF Domains
<1>3. \A w \in D : Min(D) <= w /\ w <= Max(D)
  BY <1>2, DomainBounds
<1>4. \A w \in D : v[2] * w + v[3] \in Int /\ v[2] * w \in Int
  BY <1>1, <1>2
<1>5. ASSUME NEW w \in D
      PROVE  v[2] * m <= v[2] * w /\ v[2] * n >= v[2] * w
  <2>1. w \in Int
    BY <1>2
  <2>2. CASE Opposite(v)
    <3>1. v[2] < 0 /\ -v[2] \in Int /\ -v[2] > 0 /\ w <= m /\ n <= w
      BY <1>1, <1>3, <2>2 DEF Opposite
    <3>2. (-v[2]) * w <= (-v[2]) * m /\ (-v[2]) * n <= (-v[2]) * w
      BY <1>2, <2>1, <3>1, Scale
    <3>3. /\ (-v[2]) * w = -(v[2] * w) /\ (-v[2]) * m = -(v[2] * m) /\ (-v[2]) * n = -(v[2] * n)
          /\ v[2] * w \in Int /\ v[2] * m \in Int /\ v[2] * n \in Int
      BY <1>1, <1>2, <2>1, Mirror
    <3> QED
      BY <3>2, <3>3
  <2>3. CASE ~Opposite(v)
    <3>1. v[2] > 0 /\ m <= w /\ w <= n
      BY <1>1, <1>3, <2>3 DEF Opposite
    <3> QED
      BY <1>1, <1>2, <2>1, <3>1, Scale
  <2> QED
    BY <2>2, <2>3
<1>6. QED
  BY <1>1, <1>2, <1>4, <1>5

LEMMA ViewBounds ==
  ASSUME NEW r, Good(r), NEW v \in Views(Vars)
  PROVE  /\ Dom(r, v) = ImageOf(v, r.dom[v[1]]) /\ Dom(r, v) \subseteq Int
         /\ Lo(r, v) \in Dom(r, v) /\ Hi(r, v) \in Dom(r, v)
         /\ \A w \in Dom(r, v) : Lo(r, v) <= w /\ w <= Hi(r, v)
<1> DEFINE D == r.dom[v[1]]
           S == Dom(r, v)
<1>1. v[1] \in Vars /\ v[2] \in Int /\ v[3] \in Int
  BY ViewFields
<1>2. D \in Domains /\ D \subseteq Int
  BY <1>1, GoodFields DEF Domains
<1>3. S = ImageOf(v, D)
  <2>1. CASE v[2] = 1 /\ v[3] = 0
    <3>1. \A w \in D : v[2] * w + v[3] = w
      BY <1>2, <2>1
    <3>2. ImageOf(v, D) = D
      BY <3>1 DEF ImageOf
    <3> QED
      BY <2>1, <3>2 DEF Dom
  <2>2. CASE ~(v[2] = 1 /\ v[3] = 0)
    BY <2>2 DEF Dom, ImageOf
  <2> QED
    BY <2>1, <2>2
<1> HIDE DEF D, S
<1>4. Min(D) \in D /\ Max(D) \in D
  BY <1>2, DomainBounds
<1>5. PICK m \in D, n \in D : IF Opposite(v) THEN m = Max(D) /\ n = Min(D)
                              ELSE m = Min(D) /\ n = Max(D)
  BY <1>4
<1>6. /\ \A w \in D : v[2] * w + v[3] \in Int
      /\ \A w \in D : v[2] * m + v[3] <= v[2] * w + v[3]
      /\ \A w \in D : v[2] * n + v[3] >= v[2] * w + v[3]
  BY <1>2, <1>5, LeastImage
<1>7. S \subseteq Int
  BY <1>3, <1>6 DEF ImageOf
<1>8. PICK least \in S, greatest \in S : \A w \in S : least <= w /\ greatest >= w
  BY <1>3, <1>6 DEF ImageOf
<1>9. Min(S) \in S /\ \A w \in S : Min(S) <= w
  BY <1>7, <1>8 DEF Min
<1>10. Max(S) \in S /\ \A w \in S : Max(S) >= w
  BY <1>7, <1>8 DEF Max
<1>11. QED
  BY <1>3, <1>7, <1>9, <1>10 DEF Lo, Hi, D, S

(* What an assignment that is left makes of a view.                           *)
LEMMA ViewOf ==
  ASSUME program \in Programs, NEW r, Good(r), NEW v \in Views(Vars), NEW a \in LeftIn(r)
  PROVE  /\ At(a, v) \in Int /\ At(a, v) \in Dom(r, v) /\ Lo(r, v) \in Int /\ Hi(r, v) \in Int
         /\ Lo(r, v) <= At(a, v) /\ At(a, v) <= Hi(r, v)
         /\ Bound(r, v) => Lo(r, v) = At(a, v) /\ Hi(r, v) = At(a, v)
         /\ a[v[1]] \in Int /\ \A K : At(a, v) \in K => a[v[1]] \in Seen(v, K)
<1>1. v[1] \in Vars
  BY ViewFields
<1>2. r.dom[v[1]] \in Domains /\ r.dom[v[1]] \subseteq Int
  BY <1>1, GoodFields DEF Domains
<1>3. a[v[1]] \in r.dom[v[1]]
  BY <1>1 DEF LeftIn, Fits
<1>4. At(a, v) = v[2] * a[v[1]] + v[3]
  BY DEF At
<1>5. At(a, v) \in Dom(r, v)
  BY <1>3, <1>4, ViewBounds DEF ImageOf
<1>6. /\ Dom(r, v) \subseteq Int /\ Lo(r, v) \in Dom(r, v) /\ Hi(r, v) \in Dom(r, v)
      /\ Lo(r, v) <= At(a, v) /\ At(a, v) <= Hi(r, v)
  BY <1>5, ViewBounds
<1>7. ASSUME Bound(r, v) PROVE \A w \in Dom(r, v) : w = At(a, v)
  <2>1. \A u \in r.dom[v[1]] : u = a[v[1]]
    <3>1. Singleton(r.dom[v[1]]) /\ IsFiniteSet(r.dom[v[1]])
      BY <1>2, <1>7 DEF Bound, Domains
    <3>2. PICK u : r.dom[v[1]] = {u}
      BY <3>1, FS_Singleton DEF Singleton
    <3> QED
      BY <1>3, <3>2
  <2>2. Dom(r, v) = ImageOf(v, r.dom[v[1]])
    BY ViewBounds
  <2> QED
    BY <1>4, <2>1, <2>2 DEF ImageOf
<1>8. \A K : At(a, v) \in K => a[v[1]] \in Seen(v, K)
  BY <1>2, <1>3, <1>4 DEF Seen
<1>9. QED
  BY <1>2, <1>3, <1>5, <1>6, <1>7, <1>8

--------------------------------------------------------------------------------
(* An operation on a view is work for c if c implies what it asks.            *)
Implies(c, r, v, K) == \A a \in LeftIn(r) : holds(a, c) => At(a, v) \in K

LEMMA ViewWork ==
  ASSUME Library, program \in Programs, NEW c, NEW r, Ready(r), NEW s,
         NEW v \in Views(Vars), NEW K, Implies(c, r, v, K), NEW J,
         Seen(v, K) \subseteq J, Narrows(States(Vars, Ids, {r.mem}, {r.aux}), r, s),
         Cuts(r, s, v[1], J)
  PROVE  Work(c, r, s)
<1>1. v[1] \in Vars
  BY ViewFields
<1>2. \A a \in LeftIn(r) : holds(a, c) => a[v[1]] \in J
  BY ViewOf DEF Implies, Ready
<1>3. QED
  BY <1>1, <1>2, CutWork

LEMMA WorkAssign ==
  ASSUME Library, program \in Programs, NEW c, NEW r, Ready(r), NEW v \in Views(Vars), NEW w \in Int,
         Implies(c, r, v, {w})
  PROVE  Work(c, r, Assign(r, v, w))
<1>1. r \in States(Vars, Ids, {r.mem}, {r.aux}) /\ Identifiers(Ids)
  BY GoodState, TheIdentifiers DEF Ready
<1>2. /\ Narrows(States(Vars, Ids, {r.mem}, {r.aux}), r, Assign(r, v, w))
      /\ Cuts(r, Assign(r, v, w), v[1], Seen(v, {w}))
  BY <1>1, ViewAssign
<1>3. QED
  BY <1>2, ViewWork

LEMMA WorkRemove ==
  ASSUME Library, program \in Programs, NEW c, NEW r, Ready(r), NEW v \in Views(Vars), NEW w \in Int,
         Implies(c, r, v, Int \ {w})
  PROVE  Work(c, r, Remove(r, v, w))
<1>1. r \in States(Vars, Ids, {r.mem}, {r.aux}) /\ Identifiers(Ids)
  BY GoodState, TheIdentifiers DEF Ready
<1>2. /\ Narrows(States(Vars, Ids, {r.mem}, {r.aux}), r, Remove(r, v, w))
      /\ Cuts(r, Remove(r, v, w), v[1], Int \ Seen(v, {w}))
  BY <1>1, ViewRemove
<1>3. Seen(v, Int \ {w}) \subseteq Int \ Seen(v, {w})
  BY DEF Seen
<1>4. QED
  BY <1>2, <1>3, ViewWork

LEMMA WorkBelow ==
  ASSUME Library, program \in Programs, NEW c, NEW r, Ready(r), NEW v \in Views(Vars), NEW w \in Int,
         Implies(c, r, v, AtLeast(w))
  PROVE  Work(c, r, RemoveBelow(r, v, w))
<1>1. r \in States(Vars, Ids, {r.mem}, {r.aux}) /\ Identifiers(Ids)
  BY GoodState, TheIdentifiers DEF Ready
<1>2. /\ Narrows(States(Vars, Ids, {r.mem}, {r.aux}), r, RemoveBelow(r, v, w))
      /\ Cuts(r, RemoveBelow(r, v, w), v[1], Seen(v, AtLeast(w)))
  BY <1>1, ViewRemoveBelow
<1>3. QED
  BY <1>2, ViewWork

LEMMA WorkAbove ==
  ASSUME Library, program \in Programs, NEW c, NEW r, Ready(r), NEW v \in Views(Vars), NEW w \in Int,
         Implies(c, r, v, AtMost(w))
  PROVE  Work(c, r, RemoveAbove(r, v, w))
<1>1. r \in States(Vars, Ids, {r.mem}, {r.aux}) /\ Identifiers(Ids)
  BY GoodState, TheIdentifiers DEF Ready
<1>2. /\ Narrows(States(Vars, Ids, {r.mem}, {r.aux}), r, RemoveAbove(r, v, w))
      /\ Cuts(r, RemoveAbove(r, v, w), v[1], Seen(v, AtMost(w)))
  BY <1>1, ViewRemoveAbove
<1>3. QED
  BY <1>2, ViewWork

(* What c implies in r, it still does when less is left.                      *)
LEMMA ImpliesOn ==
  ASSUME program \in Programs, NEW c, NEW r, Ready(r), NEW s, Work(c, r, s), NEW v, NEW K,
         Implies(c, r, v, K)
  PROVE  Implies(c, s, v, K)
<1>1. LeftIn(s) \subseteq LeftIn(r)
  BY LeftShrinks DEF Ready, Work, Narrows
<1>2. QED
  BY <1>1 DEF Implies

LEMMA WorkBounds ==
  ASSUME Library, program \in Programs, NEW c, NEW r, Ready(r), NEW v \in Views(Vars),
         NEW lo \in Int, NEW hi \in Int,
         \A a \in LeftIn(r) : holds(a, c) => lo <= At(a, v) /\ At(a, v) <= hi
  PROVE  Work(c, r, UpdateBounds(r, v, lo, hi))
<1>1. Implies(c, r, v, AtLeast(lo)) /\ Implies(c, r, v, AtMost(hi))
  <2>1. \A a \in LeftIn(r) : At(a, v) \in Int
    BY ViewOf DEF Ready
  <2> QED
    BY <2>1 DEF Implies, AtLeast, AtMost
<1>2. CASE Opposite(v)
  <2> DEFINE s == RemoveAbove(r, v, hi)
             u == RemoveBelow(s, v, lo)
  <2>1. Work(c, r, s)
    BY <1>1, WorkAbove
  <2> HIDE DEF s
  <2>2. Ready(s) /\ Implies(c, s, v, AtLeast(lo))
    BY <1>1, <2>1, ImpliesOn DEF Work
  <2>3. Work(c, s, u)
    BY <2>2, WorkBelow
  <2> HIDE DEF u
  <2>4. Work(c, r, u)
    BY <2>1, <2>2, <2>3, WorkOn
  <2> QED
    BY <1>2, <2>4 DEF UpdateBounds, s, u
<1>3. CASE ~Opposite(v)
  <2> DEFINE s == RemoveBelow(r, v, lo)
             u == RemoveAbove(s, v, hi)
  <2>1. Work(c, r, s)
    BY <1>1, WorkBelow
  <2> HIDE DEF s
  <2>2. Ready(s) /\ Implies(c, s, v, AtMost(hi))
    BY <1>1, <2>1, ImpliesOn DEF Work
  <2>3. Work(c, s, u)
    BY <2>2, WorkAbove
  <2> HIDE DEF u
  <2>4. Work(c, r, u)
    BY <2>1, <2>2, <2>3, WorkOn
  <2> QED
    BY <1>3, <2>4 DEF UpdateBounds, s, u
<1>4. QED
  BY <1>2, <1>3

--------------------------------------------------------------------------------
(* Taking part in a list of listeners, or no longer.                          *)
(* A list q that i may enter, and a closure of NEQBinBC leave.                *)
Relisted(old, q, x, l, c, i) ==
    /\ \A k \in DOMAIN q : /\ WellPlaced(<<x, l, q[k]>>)
                           /\ q[k] = i \/ \E j \in DOMAIN old : q[k] = old[j]
    /\ \A j \in DOMAIN old : \/ old[j] = i /\ Body[c].kind = "NEQBinBC"
                             \/ \E k \in DOMAIN q : q[k] = old[j]

LEMMA ListWork ==
  ASSUME program \in Programs, NEW c \in Cons, NEW r, Ready(r), NEW x \in Vars,
         NEW l \in Lists, NEW q \in Seq(Ids), NEW i \in Parts(c),
         Relisted(r.listen[x][l], q, x, l, c, i)
  PROVE  Work(c, r, [r EXCEPT !.listen[x][l] = q])
<1> DEFINE s == [r EXCEPT !.listen[x][l] = q]
<1>1. r \in States(Vars, Ids, {r.mem}, {r.aux}) /\ Good(r)
  BY GoodState DEF Ready
<1>2. Narrows(States(Vars, Ids, {r.mem}, {r.aux}), r, s)
  BY <1>1, ListsNarrow
<1>3. Good(s)
  BY <1>1, <1>2, GoodNarrows
<1>4. /\ s.dom = r.dom /\ s.queue = r.queue /\ s.active = r.active /\ s.failed = r.failed
      /\ s.listen = [r.listen EXCEPT ![x][l] = q]
  BY <1>1 DEF States
<1>5. r.listen \in [Vars -> [Lists -> Seq(Ids)]]
  BY <1>1, GoodFields
<1>6. /\ s.listen[x][l] = q
      /\ \A y \in Vars, m \in Lists : y # x \/ m # l => s.listen[y][m] = r.listen[y][m]
  BY <1>1, <1>4, <1>5
<1> HIDE DEF s
<1>7. ASSUME NEW t \in Listening(s)
      PROVE  WellPlaced(t) /\ (t[3] = i \/ t \in Listening(r))
  <2>1. PICK y \in Vars, m \in Lists : \E k \in DOMAIN s.listen[y][m] : t = <<y, m, s.listen[y][m][k]>>
    BY <1>3, <1>7, ListeningOf
  <2> PICK k \in DOMAIN s.listen[y][m] : t = <<y, m, s.listen[y][m][k]>>
    BY <2>1
  <2>2. CASE y = x /\ m = l
    <3>1. k \in DOMAIN q /\ t = <<x, l, q[k]>> /\ t[3] = q[k]
      BY <1>6, <2>1, <2>2
    <3>2. WellPlaced(t) /\ (q[k] = i \/ \E j \in DOMAIN r.listen[x][l] : q[k] = r.listen[x][l][j])
      BY <3>1 DEF Relisted
    <3>3. ASSUME NEW j \in DOMAIN r.listen[x][l], q[k] = r.listen[x][l][j]
          PROVE  t \in Listening(r)
      BY <1>1, <3>1, <3>3, ListeningOf
    <3> QED
      BY <3>1, <3>2, <3>3
  <2>3. CASE ~(y = x /\ m = l)
    <3>1. t \in Listening(r)
      BY <1>1, <1>6, <2>1, <2>3, ListeningOf
    <3> QED
      BY <3>1 DEF Ready, Placed
  <2> QED
    BY <2>2, <2>3
<1>8. ASSUME NEW t \in Listening(r)
      PROVE  (t[3] = i /\ Body[c].kind = "NEQBinBC") \/ t \in Listening(s)
  <2>1. PICK y \in Vars, m \in Lists : \E k \in DOMAIN r.listen[y][m] : t = <<y, m, r.listen[y][m][k]>>
    BY <1>1, <1>8, ListeningOf
  <2> PICK k \in DOMAIN r.listen[y][m] : t = <<y, m, r.listen[y][m][k]>>
    BY <2>1
  <2>2. CASE y = x /\ m = l
    <3>1. k \in DOMAIN r.listen[x][l] /\ t = <<x, l, r.listen[x][l][k]>> /\ t[3] = r.listen[x][l][k]
      BY <2>1, <2>2
    <3>2. ASSUME NEW j \in DOMAIN q, q[j] = r.listen[x][l][k]
          PROVE  t \in Listening(s)
      <4>1. j \in DOMAIN s.listen[x][l] /\ t = <<x, l, s.listen[x][l][j]>>
        BY <1>6, <3>1, <3>2
      <4> QED
        BY <1>1, <1>3, <4>1, ListeningOf
    <3> QED
      BY <3>1, <3>2 DEF Relisted
  <2>3. CASE ~(y = x /\ m = l)
    <3>1. t = <<y, m, s.listen[y][m][k]>> /\ k \in DOMAIN s.listen[y][m]
      BY <1>6, <2>1, <2>3
    <3> QED
      BY <1>3, <3>1, ListeningOf
  <2> QED
    BY <2>2, <2>3
<1>9. Entries(s) = Entries(r)
  BY <1>4 DEF Entries
<1>10. Ready(s)
  <2>1. Placed(s)
    BY <1>7 DEF Placed
  <2>2. ASSUME NEW j \in Entries(s) PROVE Ripe(s, j)
    <3>1. Ripe(r, j)
      BY <1>9, <2>2 DEF Ready, Due
    <3> QED
      BY <1>4, <3>1 DEF Ripe, Bound
  <2> QED
    BY <1>3, <2>1, <2>2 DEF Ready, Due
<1>11. KeepsToItself(c, r, s)
  BY <1>4, <1>7, <1>8, <1>9 DEF KeepsToItself
<1>12. Spares(c, r, s)
  BY <1>4 DEF Spares, LeftIn
<1>13. Minds(Minded(c), r, s)
  BY <1>4, <1>8 DEF Minds, Minded
<1>14. Work(c, r, s)
  BY <1>2, <1>4, <1>10, <1>11, <1>12, <1>13 DEF Work
<1>15. QED
  BY <1>14 DEF s

LEMMA WorkListen ==
  ASSUME program \in Programs, NEW c \in Cons, NEW r, Ready(r), NEW v \in Views(Vars),
         NEW l \in Lists, NEW i \in Parts(c), WellPlaced(<<v[1], l, i>>)
  PROVE  Work(c, r, Listen(r, v, l, i))
<1>1. CASE r.failed
  BY <1>1, WorkSelf DEF Listen
<1>2. CASE ~r.failed
  <2> DEFINE x == v[1]
             old == r.listen[x][l]
             q == <<i>> \o old
  <2>1. r.listen \in [Vars -> [Lists -> Seq(Ids)]] /\ Good(r) /\ x \in Vars
    BY GoodFields, ViewFields DEF Ready
  <2>2. i \in Ids
    BY PartsOf
  <2>3. old \in Seq(Ids)
    BY <2>1
  <2> HIDE DEF old
  <2>4. q \in Seq(Ids) /\ Len(q) = Len(old) + 1 /\ q[1] = i /\ Len(old) \in Nat
        /\ \A k \in 1..Len(old) : q[k + 1] = old[k]
    BY <2>2, <2>3
  <2>5. DOMAIN q = 1..(Len(old) + 1) /\ DOMAIN old = 1..Len(old)
    BY <2>3, <2>4
  <2> HIDE DEF q
  <2>6. ASSUME NEW k \in DOMAIN q
        PROVE  q[k] = i \/ \E j \in DOMAIN old : q[k] = old[j]
    <3>1. k = 1 \/ (k - 1 \in 1..Len(old) /\ q[(k - 1) + 1] = old[k - 1] /\ (k - 1) + 1 = k)
      BY <2>4, <2>5, <2>6
    <3> QED
      BY <2>4, <2>5, <3>1
  <2>7. ASSUME NEW j \in DOMAIN old
        PROVE  \E k \in DOMAIN q : q[k] = old[j]
    <3>1. j + 1 \in DOMAIN q /\ q[j + 1] = old[j]
      BY <2>4, <2>5, <2>7
    <3> QED
      BY <3>1
  <2>8. ASSUME NEW k \in DOMAIN q
        PROVE  WellPlaced(<<x, l, q[k]>>)
    <3>1. ASSUME NEW j \in DOMAIN old PROVE WellPlaced(<<x, l, old[j]>>)
      <4>1. <<x, l, old[j]>> \in Listening(r)
        BY <2>1, <3>1, ListeningOf DEF old
      <4> QED
        BY <4>1 DEF Ready, Placed
    <3> QED
      BY <2>6, <3>1
  <2>9. Relisted(old, q, x, l, c, i)
    BY <2>6, <2>7, <2>8 DEF Relisted
  <2> HIDE DEF x
  <2>10. Work(c, r, [r EXCEPT !.listen[x][l] = q])
    BY <2>1, <2>4, <2>9, ListWork DEF old
  <2> QED
    BY <1>2, <2>10 DEF Listen, q, old, x
<1>3. QED
  BY <1>1, <1>2

LEMMA RemoveAtFields ==
  ASSUME NEW S, NEW q \in Seq(S), NEW k \in 1..Len(q)
  PROVE  LET p == Seqs!RemoveAt(q, k)
         IN /\ p \in Seq(S) /\ Len(p) = Len(q) - 1
            /\ \A j \in 1..(k - 1) : p[j] = q[j]
            /\ \A j \in k..(Len(q) - 1) : p[j] = q[j + 1]
<1> DEFINE a == SubSeq(q, 1, k - 1)
           z == SubSeq(q, k + 1, Len(q))
           n == Len(q)
<1>1. n \in Nat /\ k \in Int /\ 1 <= k /\ k <= n
  OBVIOUS
<1>2. /\ a \in Seq(S) /\ Len(a) = k - 1 /\ \A j \in 1..(k - 1) : a[j] = q[j]
  <2>1. \A j \in 1..(k - 1) : q[j] \in S /\ 1 + j - 1 = j
    BY <1>1
  <2>2. /\ a \in Seq(S) /\ Len(a) = IF 1 <= k - 1 THEN (k - 1) - 1 + 1 ELSE 0
        /\ \A j \in 1 .. (k - 1) - 1 + 1 : a[j] = q[1 + j - 1]
    BY <1>1, <2>1, SubSeqProperties
  <2> QED
    BY <1>1, <2>1, <2>2
<1>3. /\ z \in Seq(S) /\ Len(z) = n - k /\ \A j \in 1..(n - k) : z[j] = q[k + j]
  <2>1. (\A j \in (k + 1)..n : q[j] \in S) /\ \A j \in 1..(n - k) : k + 1 + j - 1 = k + j
    BY <1>1
  <2>2. /\ z \in Seq(S) /\ Len(z) = IF k + 1 <= n THEN n - (k + 1) + 1 ELSE 0
        /\ \A j \in 1 .. n - (k + 1) + 1 : z[j] = q[k + 1 + j - 1]
    BY <1>1, <2>1, SubSeqProperties
  <2> QED
    BY <1>1, <2>1, <2>2
<1> HIDE DEF a, z
<1>4. /\ a \o z \in Seq(S) /\ Len(a \o z) = Len(a) + Len(z)
      /\ \A j \in 1 .. Len(a) + Len(z) : (a \o z)[j] = IF j <= Len(a) THEN a[j] ELSE z[j - Len(a)]
  BY <1>2, <1>3, ConcatProperties
<1>5. Len(a) + Len(z) = n - 1
  BY <1>1, <1>2, <1>3
<1>6. ASSUME NEW j \in 1..(k - 1) PROVE (a \o z)[j] = q[j]
  BY <1>1, <1>2, <1>4, <1>5, <1>6
<1>7. ASSUME NEW j \in k..(n - 1) PROVE (a \o z)[j] = q[j + 1]
  <2>1. j \in 1..(n - 1) /\ ~(j <= k - 1) /\ j - (k - 1) \in 1..(n - k) /\ k + (j - (k - 1)) = j + 1
    BY <1>1, <1>7
  <2>2. (a \o z)[j] = z[j - (k - 1)]
    BY <1>2, <1>4, <1>5, <2>1
  <2> QED
    BY <1>3, <2>1, <2>2
<1>8. Seqs!RemoveAt(q, k) = a \o z
  BY DEF Seqs!RemoveAt, a, z
<1>9. QED
  BY <1>4, <1>5, <1>6, <1>7, <1>8

LEMMA WithoutFields ==
  ASSUME NEW S, NEW q \in Seq(S), NEW i
  PROVE  LET p == Without(q, i)
         IN /\ p \in Seq(S)
            /\ \A k \in DOMAIN p : \E j \in DOMAIN q : p[k] = q[j]
            /\ \A j \in DOMAIN q : q[j] = i \/ \E k \in DOMAIN p : p[k] = q[j]
<1> DEFINE at == {k \in DOMAIN q : q[k] = i}
           n == Len(q)
           p == Without(q, i)
<1>1. n \in Nat /\ DOMAIN q = 1..n
  OBVIOUS
<1>2. CASE at = {}
  BY <1>2 DEF Without
<1>3. CASE at # {}
  <2>1. Min(at) \in at
    <3>1. at \in SUBSET Int /\ 0 \in Int /\ \A y \in at : 0 <= y
      BY <1>1
    <3> HIDE DEF at
    <3> QED
      BY <1>3, <3>1, LeastInt
  <2>2. PICK m \in 1..n : m = Min(at) /\ q[m] = i
    BY <1>1, <2>1
  <2>3. p = Seqs!RemoveAt(q, m)
    BY <1>3, <2>2 DEF Without
  <2>4. /\ p \in Seq(S) /\ Len(p) = n - 1
        /\ \A j \in 1..(m - 1) : p[j] = q[j]
        /\ \A j \in m..(n - 1) : p[j] = q[j + 1]
    BY <2>3, RemoveAtFields
  <2> HIDE DEF p
  <2>5. DOMAIN p = 1..(n - 1)
    BY <2>4
  <2>6. ASSUME NEW k \in DOMAIN p PROVE \E j \in DOMAIN q : p[k] = q[j]
    <3>1. CASE k < m
      <4>1. k \in 1..(m - 1) /\ k \in DOMAIN q
        BY <1>1, <2>5, <2>6, <3>1
      <4> QED
        BY <2>4, <4>1
    <3>2. CASE k >= m
      <4>1. k \in m..(n - 1) /\ k + 1 \in DOMAIN q
        BY <1>1, <2>5, <2>6, <3>2
      <4> QED
        BY <2>4, <4>1
    <3> QED
      BY <1>1, <2>5, <2>6, <3>1, <3>2
  <2>7. ASSUME NEW j \in DOMAIN q PROVE q[j] = i \/ \E k \in DOMAIN p : p[k] = q[j]
    <3>1. CASE j < m
      <4>1. j \in 1..(m - 1) /\ j \in DOMAIN p
        BY <1>1, <2>5, <2>7, <3>1
      <4> QED
        BY <2>4, <4>1
    <3>2. CASE j = m
      BY <2>2, <3>2
    <3>3. CASE j > m
      <4>1. j - 1 \in m..(n - 1) /\ j - 1 \in DOMAIN p /\ (j - 1) + 1 = j
        BY <1>1, <2>5, <2>7, <3>3
      <4> QED
        BY <2>4, <4>1
    <3> QED
      BY <1>1, <2>7, <3>1, <3>2, <3>3
  <2> QED
    BY <2>4, <2>6, <2>7 DEF p
<1>4. QED
  BY <1>2, <1>3

LEMMA WorkDetach ==
  ASSUME program \in Programs, NEW c \in Cons, NEW r, Ready(r), NEW v \in Views(Vars),
         NEW l \in Lists, NEW i \in Parts(c), Body[c].kind = "NEQBinBC"
  PROVE  Work(c, r, Detach(r, v, l, i))
<1>1. CASE r.failed
  BY <1>1, WorkSelf DEF Detach
<1>2. CASE ~r.failed
  <2> DEFINE x == v[1]
             old == r.listen[x][l]
             q == Without(old, i)
  <2>1. r.listen \in [Vars -> [Lists -> Seq(Ids)]] /\ Good(r) /\ x \in Vars
    BY GoodFields, ViewFields DEF Ready
  <2>2. old \in Seq(Ids)
    BY <2>1
  <2> HIDE DEF old
  <2>3. /\ q \in Seq(Ids)
        /\ \A k \in DOMAIN q : \E j \in DOMAIN old : q[k] = old[j]
        /\ \A j \in DOMAIN old : old[j] = i \/ \E k \in DOMAIN q : q[k] = old[j]
    BY <2>2, WithoutFields
  <2> HIDE DEF q
  <2>4. ASSUME NEW k \in DOMAIN q
        PROVE  WellPlaced(<<x, l, q[k]>>)
    <3>1. ASSUME NEW j \in DOMAIN old PROVE WellPlaced(<<x, l, old[j]>>)
      <4>1. <<x, l, old[j]>> \in Listening(r)
        BY <2>1, <3>1, ListeningOf DEF old
      <4> QED
        BY <4>1 DEF Ready, Placed
    <3> QED
      BY <2>3, <3>1
  <2>5. Relisted(old, q, x, l, c, i)
    BY <2>3, <2>4 DEF Relisted
  <2> HIDE DEF x
  <2>6. Work(c, r, [r EXCEPT !.listen[x][l] = q])
    BY <2>1, <2>3, <2>5, ListWork DEF old
  <2> QED
    BY <1>2, <2>6 DEF Detach, q, old, x
<1>3. QED
  BY <1>1, <1>2

--------------------------------------------------------------------------------
(* A method that has done its work obeys its contract.                        *)
Obeys(c, r, s) == /\ Modest(r, s) /\ KeepsToItself(c, r, s) /\ Infers(c, r, s) /\ Ready(s)
                  /\ Minds(Minded(c), r, s)

LEMMA OffAtAll ==
  ASSUME Library, program \in Programs, NEW c \in Cons, NEW r
  PROVE  SwitchedOff(r, c) <=> ~r.active[<<c, 0>>]
<1>1. Body[c].kind # "IsClause" /\ Body[c].kind # "LexLeq"
  BY ShapeOf DEF Shape, Basics, NEQs, Terns
<1>2. QED
  BY <1>1 DEF SwitchedOff

LEMMA WorkObeys ==
  ASSUME Library, program \in Programs, NEW c \in Cons, NEW r, Ready(r), ~r.failed,
         SwitchedOff(r, c) => \A a \in LeftIn(r) : holds(a, c),
         NEW s, Work(c, r, s)
  PROVE  Obeys(c, r, s)
<1>1. Good(r) /\ Good(s)
  BY DEF Ready, Work
<1>2. s \in States(Vars, Ids, {s.mem}, {s.aux}) /\ Grows(r, s) /\ Shrinks(r, s)
  BY <1>1, GoodState DEF Work, Narrows
<1>3. Modest(r, s)
  BY <1>1, <1>2 DEF Modest, Good, Narrows
<1>4. SwitchedOff(s, c) => SwitchedOff(r, c)
  BY OffAtAll DEF Work
<1>5. LeftIn(s) \subseteq LeftIn(r)
  BY <1>1, <1>2, LeftShrinks
<1>6. Infers(c, r, s)
  BY <1>4, <1>5 DEF Infers, Work, Spares
<1>7. QED
  BY <1>3, <1>6 DEF Obeys, Work

LEMMA OffObeys ==
  ASSUME Library, program \in Programs, NEW c \in Cons, NEW r, Ready(r), ~r.failed, NEW s, Work(c, r, s),
         NEW on \in BOOLEAN, ~s.failed /\ ~on => \A a \in LeftIn(s) : holds(a, c)
  PROVE  Obeys(c, r, SetActive(s, <<c, 0>>, on))
<1> DEFINE i == <<c, 0>>
           u == SetActive(s, i, on)
<1>1. Good(r) /\ Good(s) /\ i \in Ids /\ i \in Parts(c)
  <2>1. i \in Ids /\ i \in Parts(c)
    BY PartsOf, OwnParts
  <2> QED
    BY <2>1 DEF Ready, Work
<1>2. Narrows(States(Vars, Ids, {s.mem}, {s.aux}), s, u)
  BY <1>1, GoodState, MembersNarrow
<1>3. Good(u)
  BY <1>1, <1>2, GoodNarrows
<1>4. /\ u.dom = s.dom /\ u.listen = s.listen /\ u.queue = s.queue /\ u.failed = s.failed
      /\ \A j \in Ids : j # i => u.active[j] = s.active[j]
      /\ ~s.failed => u.active[i] = on
  <2>1. s \in States(Vars, Ids, {s.mem}, {s.aux})
    BY <1>1, GoodState
  <2>2. CASE s.failed
    BY <2>2 DEF SetActive
  <2>3. CASE ~s.failed
    <3>1. u = [s EXCEPT !.active[i] = on]
      BY <2>3 DEF SetActive
    <3>2. s.active \in [Ids -> BOOLEAN]
      BY <1>1, GoodFields
    <3>3. u.active = [s.active EXCEPT ![i] = on]
      BY <2>1, <3>1 DEF States
    <3>4. /\ u.dom = s.dom /\ u.listen = s.listen /\ u.queue = s.queue /\ u.failed = s.failed
      BY <2>1, <3>1 DEF States
    <3> QED
      BY <1>1, <3>2, <3>3, <3>4
  <2> QED
    BY <2>2, <2>3
<1> HIDE DEF u
<1>5. Grows(r, u) /\ Shrinks(r, u)
  <2>1. Grows(r, s) /\ Shrinks(r, s) /\ Grows(s, u)
    BY <1>2 DEF Work, Narrows
  <2>2. DOMAIN r.scheduled = Ids /\ DOMAIN s.scheduled = Ids
    BY <1>1, GoodFields
  <2>3. Grows(r, u)
    BY <2>1, <2>2, GrowsOn
  <2>4. Shrinks(r, u)
    BY <1>4, <2>1 DEF Shrinks
  <2> QED
    BY <2>3, <2>4
<1>6. Modest(r, u)
  <2>1. u \in States(Vars, Ids, {u.mem}, {u.aux})
    BY <1>3, GoodState
  <2> QED
    BY <1>3, <1>5, <2>1 DEF Modest, Good, Narrows
<1>7. Listening(u) = Listening(s) /\ Entries(u) = Entries(s) /\ Alert(u) = Alert(s)
  BY <1>4 DEF Listening, Entries, Alert
<1>8. KeepsToItself(c, r, u)
  <2>1. KeepsToItself(c, r, s)
    BY DEF Work
  <2>2. \A j \in Ids \ Parts(c) : u.active[j] = r.active[j]
    BY <1>1, <1>4, <2>1 DEF KeepsToItself
  <2> QED
    BY <1>7, <2>1, <2>2 DEF KeepsToItself
<1>9. Ready(u)
  <2>1. \A j \in Entries(u) : Ripe(u, j)
    BY <1>4, <1>7 DEF Work, Ready, Due, Ripe, Bound
  <2> QED
    BY <1>3, <1>7, <2>1 DEF Work, Ready, Due, Placed
<1>10. LeftIn(u) = LeftIn(s)
  BY <1>4 DEF LeftIn
<1>11. ~u.failed /\ SwitchedOff(u, c) => ~s.failed /\ ~on
  BY <1>4, OffAtAll
<1>12. Infers(c, r, u)
  BY <1>4, <1>10, <1>11 DEF Infers, Work, Spares
<1>13. Minds(Minded(c), r, u)
  BY <1>4, <1>7 DEF Minds, Work
<1>14. QED
  BY <1>6, <1>8, <1>9, <1>12, <1>13 DEF Obeys, u

--------------------------------------------------------------------------------
(* What the constraints mean.                                                 *)
LEMMA Meaning ==
  ASSUME Library, program \in Programs, NEW c \in Cons, NEW a
  PROVE  LET b == Body[c]
         IN /\ b.kind = "LessOrEqual" => (holds(a, c) <=> At(a, b.x[1]) <= At(a, b.x[2]))
            /\ b.kind \in NEQs => (holds(a, c) <=> At(a, b.x[1]) # At(a, b.x[2]) + b.k)
            /\ b.kind \in {"EQBinBC", "EQBinDC"} => (holds(a, c) <=> At(a, b.x[1]) = At(a, b.x[2]) + b.k)
            /\ b.kind \in Terns => (holds(a, c) <=> At(a, b.x[1]) = At(a, b.x[2]) + At(a, b.x[3]))
<1> DEFINE b == Body[c]
<1>1. holds(a, c) <=> ArithmeticHolds(a, b)
  BY DEF Library, Cons
<1> HIDE DEF b
<1>2. b.kind = "LessOrEqual" => (ArithmeticHolds(a, b) <=> At(a, b.x[1]) <= At(a, b.x[2]))
  BY DEF ArithmeticHolds
<1>3. b.kind \in NEQs => (ArithmeticHolds(a, b) <=> At(a, b.x[1]) # At(a, b.x[2]) + b.k)
  BY DEF ArithmeticHolds, NEQs
<1>4. b.kind \in {"EQBinBC", "EQBinDC"} =>
         (ArithmeticHolds(a, b) <=> At(a, b.x[1]) = At(a, b.x[2]) + b.k)
  BY DEF ArithmeticHolds
<1>5. b.kind \in Terns =>
         (ArithmeticHolds(a, b) <=> At(a, b.x[1]) = At(a, b.x[2]) + At(a, b.x[3]))
  BY DEF ArithmeticHolds, Terns
<1>6. QED
  BY <1>1, <1>2, <1>3, <1>4, <1>5 DEF b

(* The two views of a constraint of two variables.                            *)
LEMMA TwoViews ==
  ASSUME Library, program \in Programs, NEW c \in Cons
  PROVE  /\ Body[c].x[1] \in Views(Vars) /\ Body[c].x[2] \in Views(Vars) /\ Body[c].k \in Int
         /\ Body[c].kind \in Terns => Body[c].x[3] \in Views(Vars)
<1>1. Len(Body[c].x) = 2 \/ Len(Body[c].x) = 3
  BY ShapeOf DEF Shape
<1>2. Body[c].kind \in Terns => Len(Body[c].x) = 3
  BY ShapeOf DEF Shape
<1>3. Body[c].k \in Int
  BY ShapeOf DEF Shape
<1>4. \A n \in 1..Len(Body[c].x) : Body[c].x[n] \in Views(Vars)
  BY ShapeOf
<1>5. QED
  BY <1>1, <1>2, <1>3, <1>4

LEMMA BothListen ==
  ASSUME Library, program \in Programs, NEW c \in Cons, NEW r, Ready(r), NEW l \in Lists,
         \A n \in {1, 2} : WellPlaced(<<Body[c].x[n][1], l, <<c, 0>> >>)
  PROVE  Work(c, r, ListenBoth(r, Body[c], l, <<c, 0>>))
<1> DEFINE b == Body[c]
           i == <<c, 0>>
           s == Listen(r, b.x[1], l, i)
           u == Listen(s, b.x[2], l, i)
<1>1. b.x[1] \in Views(Vars) /\ b.x[2] \in Views(Vars) /\ i \in Parts(c)
  BY TwoViews, PartsOf, OwnParts
<1>2. WellPlaced(<<b.x[1][1], l, i>>) /\ WellPlaced(<<b.x[2][1], l, i>>)
  OBVIOUS
<1> HIDE DEF b, i
<1>3. Work(c, r, s)
  BY <1>1, <1>2, WorkListen
<1> HIDE DEF s
<1>4. Ready(s)
  BY <1>3 DEF Work
<1>5. Work(c, s, u)
  BY <1>1, <1>2, <1>4, WorkListen
<1> HIDE DEF u
<1>6. Work(c, r, u)
  BY <1>3, <1>5, WorkOn
<1>7. QED
  BY <1>6 DEF ListenBoth, u, s, b, i

--------------------------------------------------------------------------------
LEMMA LessOrEqualObeys ==
  ASSUME Library, program \in Programs, NEW c \in Cons, Body[c].kind = "LessOrEqual",
         NEW r, Ready(r), ~r.failed, NEW q, Work(c, r, q)
  PROVE  Obeys(c, r, LessOrEqualPropagate(q, <<c, 0>>, Body[c]))
<1> DEFINE x == Body[c].x[1]
           y == Body[c].x[2]
           s == RemoveAbove(q, x, Hi(q, y))
           t == RemoveBelow(s, y, Lo(s, x))
           on == Hi(t, x) >= Lo(t, y)
<1>1. x \in Views(Vars) /\ y \in Views(Vars)
  BY TwoViews
<1>2. \A a : holds(a, c) <=> At(a, x) <= At(a, y)
  BY Meaning
<1> HIDE DEF x, y
<1>3. Ready(q) /\ Good(q)
  BY DEF Work, Ready
<1>4. Work(c, q, s)
  <2>1. Hi(q, y) \in Int
    BY <1>1, <1>3, ViewBounds
  <2>2. Implies(c, q, x, AtMost(Hi(q, y)))
    <3>1. \A a \in LeftIn(q) : At(a, x) \in Int /\ At(a, y) \in Int /\ At(a, y) <= Hi(q, y)
      BY <1>1, <1>3, ViewOf
    <3> QED
      BY <1>2, <2>1, <3>1 DEF Implies, AtMost
  <2> QED
    BY <1>1, <1>3, <2>1, <2>2, WorkAbove
<1> HIDE DEF s
<1>5. Ready(s) /\ Good(s)
  BY <1>4 DEF Work, Ready
<1>6. Work(c, s, t)
  <2>1. Lo(s, x) \in Int
    BY <1>1, <1>5, ViewBounds
  <2>2. Implies(c, s, y, AtLeast(Lo(s, x)))
    <3>1. \A a \in LeftIn(s) : At(a, x) \in Int /\ At(a, y) \in Int /\ Lo(s, x) <= At(a, x)
      BY <1>1, <1>5, ViewOf
    <3> QED
      BY <1>2, <2>1, <3>1 DEF Implies, AtLeast
  <2> QED
    BY <1>1, <1>5, <2>1, <2>2, WorkBelow
<1> HIDE DEF t
<1>7. Work(c, r, t)
  <2>1. Work(c, r, s)
    BY <1>4, WorkOn
  <2> QED
    BY <1>6, <2>1, WorkOn
<1>8. ~on => \A a \in LeftIn(t) : holds(a, c)
  <2>1. Good(t) /\ Hi(t, x) \in Int /\ Lo(t, y) \in Int
    BY <1>1, <1>6, ViewBounds DEF Work, Ready
  <2>2. \A a \in LeftIn(t) : At(a, x) \in Int /\ At(a, y) \in Int /\ At(a, x) <= Hi(t, x) /\ Lo(t, y) <= At(a, y)
    BY <1>1, <2>1, ViewOf
  <2> QED
    BY <1>2, <2>1, <2>2
<1>9. on \in BOOLEAN
  OBVIOUS
<1> HIDE DEF on
<1>10. Obeys(c, r, SetActive(t, <<c, 0>>, on))
  BY <1>7, <1>8, <1>9, OffObeys
<1>11. QED
  BY <1>10 DEF LessOrEqualPropagate, on, t, s, x, y

(* After a removal nothing that is left has the value.                        *)
LEMMA RemovedGone ==
  ASSUME program \in Programs, NEW r, Ready(r), ~r.failed, NEW v \in Views(Vars), NEW w \in Int,
         ~Remove(r, v, w).failed, NEW a \in LeftIn(Remove(r, v, w))
  PROVE  At(a, v) # w
<1> DEFINE s == Remove(r, v, w)
           x == v[1]
           K == Int \ Seen(v, {w})
<1>1. r \in States(Vars, Ids, {r.mem}, {r.aux}) /\ Identifiers(Ids) /\ x \in Vars
  BY GoodState, TheIdentifiers, ViewFields DEF Ready
<1>2. Narrows(States(Vars, Ids, {r.mem}, {r.aux}), r, s) /\ Cuts(r, s, x, K)
  BY <1>1, ViewRemove
<1>3. s.dom = [r.dom EXCEPT ![x] = @ \cap K]
  BY <1>2 DEF Cuts
<1>4. r.dom \in [Vars -> Domains]
  BY GoodFields DEF Ready
<1>5. s.dom[x] = r.dom[x] \cap K
  BY <1>1, <1>3, <1>4
<1>6. a[x] \in s.dom[x]
  BY <1>1 DEF LeftIn, Fits
<1>7. a[x] \in Int /\ a[x] \notin Seen(v, {w})
  BY <1>5, <1>6
<1>8. QED
  BY <1>7 DEF At, Seen

(* A disequality one variable of which is bound.                              *)
LEMMA DifferFrom ==
  ASSUME Library, program \in Programs, NEW c \in Cons, Body[c].kind \in NEQs, NEW r, Ready(r)
  PROVE  LET x == Body[c].x[1]
             y == Body[c].x[2]
             k == Body[c].k
         IN /\ Bound(r, y) => /\ Work(c, r, Remove(r, x, Lo(r, y) + k))
                              /\ ~r.failed /\ ~Remove(r, x, Lo(r, y) + k).failed =>
                                    \A a \in LeftIn(Remove(r, x, Lo(r, y) + k)) : holds(a, c)
            /\ Bound(r, x) => /\ Work(c, r, Remove(r, y, Lo(r, x) - k))
                              /\ ~r.failed /\ ~Remove(r, y, Lo(r, x) - k).failed =>
                                    \A a \in LeftIn(Remove(r, y, Lo(r, x) - k)) : holds(a, c)
<1> DEFINE x == Body[c].x[1]
           y == Body[c].x[2]
           k == Body[c].k
<1>1. x \in Views(Vars) /\ y \in Views(Vars) /\ k \in Int
  BY TwoViews
<1>2. \A a : holds(a, c) <=> At(a, x) # At(a, y) + k
  BY Meaning
<1> HIDE DEF x, y, k
<1>3. Good(r) /\ Lo(r, x) \in Int /\ Lo(r, y) \in Int
  BY <1>1, ViewBounds DEF Ready
<1>4. \A a \in LeftIn(r) : /\ At(a, x) \in Int /\ At(a, y) \in Int
                           /\ Bound(r, y) => Lo(r, y) = At(a, y)
                           /\ Bound(r, x) => Lo(r, x) = At(a, x)
  BY <1>1, <1>3, ViewOf
<1>5. ASSUME Bound(r, y)
      PROVE  /\ Work(c, r, Remove(r, x, Lo(r, y) + k))
             /\ ~r.failed /\ ~Remove(r, x, Lo(r, y) + k).failed =>
                   \A a \in LeftIn(Remove(r, x, Lo(r, y) + k)) : holds(a, c)
  <2> DEFINE w == Lo(r, y) + k
             s == Remove(r, x, w)
  <2>1. w \in Int
    BY <1>1, <1>3
  <2>2. Implies(c, r, x, Int \ {w})
    BY <1>2, <1>4, <1>5 DEF Implies
  <2>3. Work(c, r, s)
    BY <1>1, <2>1, <2>2, WorkRemove
  <2>4. LeftIn(s) \subseteq LeftIn(r)
    BY <1>3, <2>3, LeftShrinks DEF Work, Narrows
  <2>5. ASSUME ~r.failed, ~s.failed, NEW a \in LeftIn(s) PROVE holds(a, c)
    <3>1. At(a, x) # w
      BY <1>1, <2>1, <2>5, RemovedGone
    <3> QED
      BY <1>2, <1>4, <1>5, <2>4, <3>1
  <2> QED
    BY <2>3, <2>5
<1>6. ASSUME Bound(r, x)
      PROVE  /\ Work(c, r, Remove(r, y, Lo(r, x) - k))
             /\ ~r.failed /\ ~Remove(r, y, Lo(r, x) - k).failed =>
                   \A a \in LeftIn(Remove(r, y, Lo(r, x) - k)) : holds(a, c)
  <2> DEFINE w == Lo(r, x) - k
             s == Remove(r, y, w)
  <2>1. w \in Int
    BY <1>1, <1>3
  <2>2. Implies(c, r, y, Int \ {w})
    BY <1>1, <1>2, <1>4, <1>6 DEF Implies
  <2>3. Work(c, r, s)
    BY <1>1, <2>1, <2>2, WorkRemove
  <2>4. LeftIn(s) \subseteq LeftIn(r)
    BY <1>3, <2>3, LeftShrinks DEF Work, Narrows
  <2>5. ASSUME ~r.failed, ~s.failed, NEW a \in LeftIn(s) PROVE holds(a, c)
    <3>1. At(a, y) # w /\ At(a, x) = Lo(r, x) /\ At(a, y) \in Int
      BY <1>1, <1>4, <1>6, <2>1, <2>4, <2>5, RemovedGone
    <3> QED
      BY <1>1, <1>2, <1>3, <3>1
  <2> QED
    BY <2>3, <2>5
<1>7. QED
  BY <1>5, <1>6 DEF x, y, k

LEMMA LightObeys ==
  ASSUME Library, program \in Programs, NEW c \in Cons, Body[c].kind = "NEQBinBCLight",
         NEW r, Ready(r), ~r.failed
  PROVE  /\ Sure(r, {c}) => Obeys(c, r, NEQLightPost(r, <<c, 0>>, Body[c]))
         /\ Ripe(r, <<c, 0>>) => Obeys(c, r, NEQLightPropagate(r, <<c, 0>>, Body[c]))
<1> DEFINE b == Body[c]
           x == b.x[1]
           y == b.x[2]
           k == b.k
           i == <<c, 0>>
           s == Remove(r, x, Lo(r, y) + k)
           t == Remove(r, y, Lo(r, x) - k)
<1>1. b.kind \in NEQs /\ Awaits(i) = {1, 2}
  BY DEF NEQs, Awaits, BodyOf
<1>2. /\ Bound(r, y) => Work(c, r, s) /\ (~s.failed => \A a \in LeftIn(s) : holds(a, c))
      /\ Bound(r, x) => Work(c, r, t) /\ (~t.failed => \A a \in LeftIn(t) : holds(a, c))
  BY <1>1, DifferFrom
<1>3. ASSUME Sure(r, {c}) PROVE Obeys(c, r, NEQLightPost(r, i, b))
  <2>1. SwitchedOff(r, c) => \A a \in LeftIn(r) : holds(a, c)
    BY <1>3 DEF Sure
  <2>2. Work(c, r, ListenBoth(r, b, "onBind", i))
    <3>1. \A n \in {1, 2} : WellPlaced(<<b.x[n][1], "onBind", i>>)
      BY <1>1 DEF WellPlaced, Closure, BodyOf, Terns
    <3> QED
      BY <3>1, BothListen DEF Lists
  <2>3. Work(c, r, NEQLightPost(r, i, b))
    BY <1>2, <2>2 DEF NEQLightPost
  <2> QED
    BY <2>1, <2>3, WorkObeys
<1>4. ASSUME Ripe(r, i) PROVE Obeys(c, r, NEQLightPropagate(r, i, b))
  <2>1. Bound(r, x) \/ Bound(r, y)
    BY <1>1, <1>4 DEF Ripe, BodyOf
  <2> DEFINE u == IF Bound(r, y) THEN s ELSE t
  <2>2. Work(c, r, u) /\ (~u.failed => \A a \in LeftIn(u) : holds(a, c))
    BY <1>2, <2>1
  <2> HIDE DEF u
  <2>3. Obeys(c, r, SetActive(u, i, FALSE))
    BY <2>2, OffObeys
  <2> QED
    BY <2>3 DEF NEQLightPropagate, u
<1>5. QED
  BY <1>3, <1>4

LEMMA NeqObeys ==
  ASSUME Library, program \in Programs, NEW c \in Cons, Body[c].kind = "NEQBinBC",
         NEW r, Ready(r), ~r.failed, Sure(r, {c})
  PROVE  /\ Obeys(c, r, NEQPost(r, <<c, 0>>, Body[c]))
         /\ \A n : Ripe(r, <<c, n>>) => Obeys(c, r, NEQNarrow(r, <<c, n>>, Body[c]))
<1> DEFINE b == Body[c]
           x == b.x[1]
           y == b.x[2]
           k == b.k
           s == Remove(r, x, Lo(r, y) + k)
           t == Remove(r, y, Lo(r, x) - k)
<1>1. b.kind \in NEQs /\ b.kind # "NEQBinBCLight" /\ b.kind \notin Terns
  BY DEF NEQs, Terns
<1>2. /\ Bound(r, y) => Work(c, r, s)
      /\ Bound(r, x) => Work(c, r, t)
  BY <1>1, DifferFrom
<1>3. x \in Views(Vars) /\ y \in Views(Vars)
  BY TwoViews
<1>4. b.parts = 2
  BY ShapeOf DEF Shape
<1>5. <<c, 1>> \in Parts(c) /\ <<c, 2>> \in Parts(c) /\ "onBind" \in Lists
  BY <1>4 DEF Parts, Lists
<1>6. WellPlaced(<<x[1], "onBind", <<c, 1>> >>) /\ WellPlaced(<<y[1], "onBind", <<c, 2>> >>)
  BY <1>1 DEF WellPlaced, Closure, BodyOf, Awaits
<1>7. SwitchedOff(r, c) => \A a \in LeftIn(r) : holds(a, c)
  BY DEF Sure
<1> HIDE DEF b, x, y, k, s, t
<1>8. Obeys(c, r, NEQPost(r, <<c, 0>>, b))
  <2> DEFINE p == Listen(r, x, "onBind", <<c, 1>>)
             q == Listen(p, y, "onBind", <<c, 2>>)
  <2>1. Work(c, r, p)
    BY <1>3, <1>5, <1>6, WorkListen
  <2> HIDE DEF p
  <2>2. Work(c, p, q)
    BY <1>3, <1>5, <1>6, <2>1, WorkListen DEF Work
  <2> HIDE DEF q
  <2>3. Work(c, r, q)
    BY <2>1, <2>2, WorkOn
  <2>4. Work(c, r, NEQPost(r, <<c, 0>>, b))
    BY <1>2, <2>3 DEF NEQPost, q, p, x, y, k, s, t
  <2> QED
    BY <1>7, <2>4, WorkObeys
<1>9. ASSUME NEW n, Ripe(r, <<c, n>>)
      PROVE  Obeys(c, r, NEQNarrow(r, <<c, n>>, b))
  <2>1. (n = 1 /\ Bound(r, x)) \/ (n = 2 /\ Bound(r, y))
    BY <1>1, <1>9 DEF Ripe, BodyOf, Awaits, b, x, y
  <2> DEFINE p == IF n = 1 THEN t ELSE s
             q == Detach(p, x, "onBind", <<c, 1>>)
             u == Detach(q, y, "onBind", <<c, 2>>)
  <2>2. Work(c, r, p)
    BY <1>2, <2>1
  <2> HIDE DEF p
  <2>3. Work(c, p, q)
    BY <1>3, <1>5, <2>2, WorkDetach DEF Work
  <2> HIDE DEF q
  <2>4. Work(c, q, u)
    BY <1>3, <1>5, <2>3, WorkDetach DEF Work
  <2> HIDE DEF u
  <2>5. Work(c, r, q)
    BY <2>2, <2>3, WorkOn
  <2>6. Work(c, r, u)
    BY <2>4, <2>5, WorkOn
  <2>7. Obeys(c, r, u)
    BY <1>7, <2>6, WorkObeys
  <2> QED
    BY <2>7 DEF NEQNarrow, u, q, p, s, t, x, y, k
<1>10. QED
  BY <1>8, <1>9 DEF b

--------------------------------------------------------------------------------
(* x = y + k.                                                                 *)
LEMMA EqualWork ==
  ASSUME Library, program \in Programs, NEW c \in Cons, Body[c].kind \in {"EQBinBC", "EQBinDC"},
         NEW r, Ready(r)
  PROVE  LET x == Body[c].x[1]
             y == Body[c].x[2]
             k == Body[c].k
         IN /\ \A n : Work(c, r, EQNarrow(r, Body[c], n))
            /\ Bound(r, x) => Work(c, r, Assign(r, y, Lo(r, x) - k))
            /\ Bound(r, y) => Work(c, r, Assign(r, x, Lo(r, y) + k))
<1> DEFINE x == Body[c].x[1]
           y == Body[c].x[2]
           k == Body[c].k
<1>1. x \in Views(Vars) /\ y \in Views(Vars) /\ k \in Int
  BY TwoViews
<1>2. \A a : holds(a, c) <=> At(a, x) = At(a, y) + k
  BY Meaning
<1> HIDE DEF x, y, k
<1>3. Good(r) /\ Lo(r, x) \in Int /\ Lo(r, y) \in Int /\ Hi(r, x) \in Int /\ Hi(r, y) \in Int
  BY <1>1, ViewBounds DEF Ready
<1>4. \A a \in LeftIn(r) : /\ At(a, x) \in Int /\ At(a, y) \in Int
                           /\ Lo(r, x) <= At(a, x) /\ At(a, x) <= Hi(r, x)
                           /\ Lo(r, y) <= At(a, y) /\ At(a, y) <= Hi(r, y)
                           /\ Bound(r, y) => Lo(r, y) = At(a, y)
                           /\ Bound(r, x) => Lo(r, x) = At(a, x)
  BY <1>1, <1>3, ViewOf
<1>5. Work(c, r, UpdateBounds(r, y, Lo(r, x) - k, Hi(r, x) - k))
  <2>1. \A a \in LeftIn(r) : holds(a, c) => Lo(r, x) - k <= At(a, y) /\ At(a, y) <= Hi(r, x) - k
    BY <1>1, <1>2, <1>3, <1>4
  <2>2. Lo(r, x) - k \in Int /\ Hi(r, x) - k \in Int
    BY <1>1, <1>3
  <2> QED
    BY <1>1, <2>1, <2>2, WorkBounds
<1>6. Work(c, r, UpdateBounds(r, x, Lo(r, y) + k, Hi(r, y) + k))
  <2>1. \A a \in LeftIn(r) : holds(a, c) => Lo(r, y) + k <= At(a, x) /\ At(a, x) <= Hi(r, y) + k
    BY <1>1, <1>2, <1>3, <1>4
  <2>2. Lo(r, y) + k \in Int /\ Hi(r, y) + k \in Int
    BY <1>1, <1>3
  <2> QED
    BY <1>1, <2>1, <2>2, WorkBounds
<1>7. ASSUME Bound(r, x) PROVE Work(c, r, Assign(r, y, Lo(r, x) - k))
  <2>1. Implies(c, r, y, {Lo(r, x) - k})
    BY <1>1, <1>2, <1>4, <1>7 DEF Implies
  <2>2. Lo(r, x) - k \in Int
    BY <1>1, <1>3
  <2> QED
    BY <1>1, <2>1, <2>2, WorkAssign
<1>8. ASSUME Bound(r, y) PROVE Work(c, r, Assign(r, x, Lo(r, y) + k))
  <2>1. Implies(c, r, x, {Lo(r, y) + k})
    BY <1>1, <1>2, <1>4, <1>8 DEF Implies
  <2>2. Lo(r, y) + k \in Int
    BY <1>1, <1>3
  <2> QED
    BY <1>1, <2>1, <2>2, WorkAssign
<1>9. \A n : Work(c, r, EQNarrow(r, Body[c], n))
  BY <1>5, <1>6 DEF EQNarrow, x, y, k
<1>10. QED
  BY <1>7, <1>8, <1>9 DEF x, y, k

(* Both directions, x first. *)
LEMMA EqualTwice ==
  ASSUME Library, program \in Programs, NEW c \in Cons, Body[c].kind \in {"EQBinBC", "EQBinDC"},
         NEW r, Ready(r)
  PROVE  Work(c, r, EQNarrow(EQNarrow(r, Body[c], 2), Body[c], 1))
<1> DEFINE s == EQNarrow(r, Body[c], 2)
           u == EQNarrow(s, Body[c], 1)
<1>1. Work(c, r, s)
  BY EqualWork
<1> HIDE DEF s
<1>2. Work(c, s, u)
  BY <1>1, EqualWork DEF Work
<1> HIDE DEF u
<1>3. Work(c, r, u)
  BY <1>1, <1>2, WorkOn
<1>4. QED
  BY <1>3 DEF u, s

LEMMA EqualObeys ==
  ASSUME Library, program \in Programs, NEW c \in Cons, Body[c].kind = "EQBinBC",
         NEW r, Ready(r), ~r.failed, Sure(r, {c})
  PROVE  /\ Obeys(c, r, EQPost(r, <<c, 0>>, Body[c]))
         /\ \A n : Obeys(c, r, EQNarrow(r, Body[c], n))
<1> DEFINE b == Body[c]
           x == b.x[1]
           y == b.x[2]
           k == b.k
           s == EQNarrow(EQNarrow(r, b, 2), b, 1)
           p == Listen(s, x, "onBounds", <<c, 1>>)
           q == Listen(p, y, "onBounds", <<c, 2>>)
<1>1. x \in Views(Vars) /\ y \in Views(Vars)
  BY TwoViews
<1>2. b.parts = 2
  BY ShapeOf DEF Shape
<1>3. <<c, 1>> \in Parts(c) /\ <<c, 2>> \in Parts(c) /\ "onBounds" \in Lists
  BY <1>2 DEF Parts, Lists
<1>4. \A n, l, z : WellPlaced(<<z, l, <<c, n>> >>)
  BY DEF WellPlaced, Closure, BodyOf, Terns, NEQs
<1>5. SwitchedOff(r, c) => \A a \in LeftIn(r) : holds(a, c)
  BY DEF Sure
<1>6. /\ \A n : Work(c, r, EQNarrow(r, b, n))
      /\ Bound(r, x) => Work(c, r, Assign(r, y, Lo(r, x) - k))
      /\ Bound(r, y) => Work(c, r, Assign(r, x, Lo(r, y) + k))
  BY EqualWork
<1>7. Work(c, r, s)
  BY EqualTwice
<1> HIDE DEF s, b, x, y, k
<1>8. Work(c, s, p)
  BY <1>1, <1>3, <1>4, <1>7, WorkListen DEF Work
<1> HIDE DEF p
<1>9. Work(c, p, q)
  BY <1>1, <1>3, <1>4, <1>8, WorkListen DEF Work
<1> HIDE DEF q
<1>10. Work(c, r, q)
  <2>1. Work(c, r, p)
    BY <1>7, <1>8, WorkOn
  <2> QED
    BY <1>9, <2>1, WorkOn
<1>11. Work(c, r, EQPost(r, <<c, 0>>, b))
  BY <1>6, <1>10 DEF EQPost, q, p, s, x, y, k
<1>12. QED
  BY <1>5, <1>6, <1>11, WorkObeys DEF b

--------------------------------------------------------------------------------
(* x = y + z.                                                                 *)
LEMMA TernWork ==
  ASSUME Library, program \in Programs, NEW c \in Cons, Body[c].kind \in Terns, NEW r, Ready(r)
  PROVE  LET x == Body[c].x[1]
             y == Body[c].x[2]
             z == Body[c].x[3]
         IN /\ \A n \in 1..3 : Work(c, r, TernNarrow(r, Body[c], n))
            /\ Bound(r, x) /\ Bound(r, y) => Work(c, r, Assign(r, z, Lo(r, x) - Lo(r, y)))
            /\ Bound(r, x) /\ Bound(r, z) => Work(c, r, Assign(r, y, Lo(r, x) - Lo(r, z)))
            /\ Bound(r, y) /\ Bound(r, z) => Work(c, r, Assign(r, x, Lo(r, y) + Lo(r, z)))
<1> DEFINE x == Body[c].x[1]
           y == Body[c].x[2]
           z == Body[c].x[3]
<1>1. x \in Views(Vars) /\ y \in Views(Vars) /\ z \in Views(Vars)
  BY TwoViews
<1>2. \A a : holds(a, c) <=> At(a, x) = At(a, y) + At(a, z)
  BY Meaning
<1> HIDE DEF x, y, z
<1>3. Good(r) /\ \A v \in {x, y, z} : Lo(r, v) \in Int /\ Hi(r, v) \in Int
  BY <1>1, ViewBounds DEF Ready
<1>4. \A a \in LeftIn(r), v \in {x, y, z} :
          /\ At(a, v) \in Int /\ Lo(r, v) <= At(a, v) /\ At(a, v) <= Hi(r, v)
          /\ Bound(r, v) => Lo(r, v) = At(a, v)
  BY <1>1, <1>3, ViewOf
<1>5. Work(c, r, UpdateBounds(r, x, Lo(r, y) + Lo(r, z), Hi(r, y) + Hi(r, z)))
  <2>1. \A a \in LeftIn(r) : holds(a, c) => /\ Lo(r, y) + Lo(r, z) <= At(a, x)
                                            /\ At(a, x) <= Hi(r, y) + Hi(r, z)
    BY <1>2, <1>3, <1>4
  <2>2. Lo(r, y) + Lo(r, z) \in Int /\ Hi(r, y) + Hi(r, z) \in Int
    BY <1>3
  <2> QED
    BY <1>1, <2>1, <2>2, WorkBounds
<1>6. Work(c, r, UpdateBounds(r, y, Lo(r, x) - Hi(r, z), Hi(r, x) - Lo(r, z)))
  <2>1. \A a \in LeftIn(r) : holds(a, c) => /\ Lo(r, x) - Hi(r, z) <= At(a, y)
                                            /\ At(a, y) <= Hi(r, x) - Lo(r, z)
    BY <1>2, <1>3, <1>4
  <2>2. Lo(r, x) - Hi(r, z) \in Int /\ Hi(r, x) - Lo(r, z) \in Int
    BY <1>3
  <2> QED
    BY <1>1, <2>1, <2>2, WorkBounds
<1>7. Work(c, r, UpdateBounds(r, z, Lo(r, x) - Hi(r, y), Hi(r, x) - Lo(r, y)))
  <2>1. \A a \in LeftIn(r) : holds(a, c) => /\ Lo(r, x) - Hi(r, y) <= At(a, z)
                                            /\ At(a, z) <= Hi(r, x) - Lo(r, y)
    BY <1>2, <1>3, <1>4
  <2>2. Lo(r, x) - Hi(r, y) \in Int /\ Hi(r, x) - Lo(r, y) \in Int
    BY <1>3
  <2> QED
    BY <1>1, <2>1, <2>2, WorkBounds
<1>8. ASSUME NEW n \in 1..3 PROVE Work(c, r, TernNarrow(r, Body[c], n))
  <2>1. n = 1 \/ n = 2 \/ n = 3
    OBVIOUS
  <2> QED
    BY <1>5, <1>6, <1>7, <2>1 DEF TernNarrow, x, y, z
<1>9. ASSUME Bound(r, x), Bound(r, y) PROVE Work(c, r, Assign(r, z, Lo(r, x) - Lo(r, y)))
  <2>1. Implies(c, r, z, {Lo(r, x) - Lo(r, y)})
    BY <1>2, <1>3, <1>4, <1>9 DEF Implies
  <2>2. Lo(r, x) - Lo(r, y) \in Int
    BY <1>3
  <2> QED
    BY <1>1, <2>1, <2>2, WorkAssign
<1>10. ASSUME Bound(r, x), Bound(r, z) PROVE Work(c, r, Assign(r, y, Lo(r, x) - Lo(r, z)))
  <2>1. Implies(c, r, y, {Lo(r, x) - Lo(r, z)})
    BY <1>2, <1>3, <1>4, <1>10 DEF Implies
  <2>2. Lo(r, x) - Lo(r, z) \in Int
    BY <1>3
  <2> QED
    BY <1>1, <2>1, <2>2, WorkAssign
<1>11. ASSUME Bound(r, y), Bound(r, z) PROVE Work(c, r, Assign(r, x, Lo(r, y) + Lo(r, z)))
  <2>1. Implies(c, r, x, {Lo(r, y) + Lo(r, z)})
    BY <1>2, <1>3, <1>4, <1>11 DEF Implies
  <2>2. Lo(r, y) + Lo(r, z) \in Int
    BY <1>3
  <2> QED
    BY <1>1, <2>1, <2>2, WorkAssign
<1>12. QED
  BY <1>8, <1>9, <1>10, <1>11 DEF x, y, z

LEMMA WorkFail ==
  ASSUME Library, program \in Programs, NEW c, NEW r, Ready(r), ~r.failed, NEW x \in Vars,
         \A a \in LeftIn(r) : ~holds(a, c)
  PROVE  Work(c, r, Fail(r))
<1>1. r \in States(Vars, Ids, {r.mem}, {r.aux})
  BY GoodState DEF Ready
<1>2. Narrows(States(Vars, Ids, {r.mem}, {r.aux}), r, Fail(r)) /\ Cuts(r, Fail(r), x, {})
  BY <1>1, CutsAll
<1>3. QED
  BY <1>2, CutWork

LEMMA TernListens ==
  ASSUME Library, program \in Programs, NEW c \in Cons, Body[c].kind \in Terns, NEW r, Ready(r),
         NEW n \in 1..3
  PROVE  Work(c, r, TernListen(r, Body[c], c, n))
<1>1. Body[c].parts = 3 /\ Body[c].kind \notin NEQs
  BY ShapeOf DEF Shape, Terns, NEQs
<1>2. <<c, n>> \in Parts(c) /\ "onBounds" \in Lists
  BY <1>1 DEF Parts, Lists
<1>3. Body[c].x[n] \in Views(Vars)
  <2>1. n = 1 \/ n = 2 \/ n = 3
    OBVIOUS
  <2> QED
    BY <2>1, TwoViews
<1>4. WellPlaced(<<Body[c].x[n][1], "onBounds", <<c, n>> >>)
  BY <1>1 DEF WellPlaced, Closure, BodyOf
<1>5. QED
  BY <1>2, <1>3, <1>4, WorkListen DEF TernListen

LEMMA TernRelates ==
  ASSUME Library, program \in Programs, NEW c \in Cons, Body[c].kind \in Terns, NEW r, Ready(r)
  PROVE  Work(c, r, TernRelate(r, <<c, 0>>, Body[c]))
<1> DEFINE b == Body[c]
           s == TernNarrow(r, b, 1)
           t == TernNarrow(s, b, 2)
           u == TernNarrow(t, b, 3)
           p == TernListen(u, b, c, 1)
           q == TernListen(p, b, c, 2)
           o == TernListen(q, b, c, 3)
<1>1. 1 \in 1..3 /\ 2 \in 1..3 /\ 3 \in 1..3
  OBVIOUS
<1>2. Work(c, r, s)
  BY <1>1, TernWork
<1> HIDE DEF s
<1>3. Work(c, s, t)
  BY <1>1, <1>2, TernWork DEF Work
<1> HIDE DEF t
<1>4. Work(c, t, u)
  BY <1>1, <1>3, TernWork DEF Work
<1> HIDE DEF u
<1>5. Work(c, u, p)
  BY <1>1, <1>4, TernListens DEF Work
<1> HIDE DEF p
<1>6. Work(c, p, q)
  BY <1>1, <1>5, TernListens DEF Work
<1> HIDE DEF q
<1>7. Work(c, q, o)
  BY <1>1, <1>6, TernListens DEF Work
<1> HIDE DEF o
<1>8. Work(c, r, t)
  BY <1>2, <1>3, WorkOn
<1>9. Work(c, r, u)
  BY <1>4, <1>8, WorkOn
<1>10. Work(c, r, p)
  BY <1>5, <1>9, WorkOn
<1>11. Work(c, r, q)
  BY <1>6, <1>10, WorkOn
<1>12. Work(c, r, o)
  BY <1>7, <1>11, WorkOn
<1>13. QED
  BY <1>12 DEF TernRelate, o, q, p, u, t, s, b

(* A Boolean is 0 or 1. *)
LEMMA BoolView ==
  ASSUME Library, program \in Programs, NEW c \in Cons, Body[c].kind = "EQTernBCbool", NEW r, Good(r),
         NEW a \in LeftIn(r)
  PROVE  At(a, Body[c].x[3]) \in {0, 1}
<1> DEFINE v == Body[c].x[3]
<1>1. \A w \in program.dom[v[1]] : v[2] * w + v[3] \in {0, 1}
  BY DEF Library, Cons
<1>2. v[1] \in Vars
  BY TwoViews, ViewFields DEF Terns
<1>3. a[v[1]] \in program.dom[v[1]]
  BY <1>2 DEF Good, LeftIn, Fits
<1>4. QED
  BY <1>1, <1>3 DEF At

LEMMA TernPosts ==
  ASSUME Library, program \in Programs, NEW c \in Cons, Body[c].kind \in Terns, NEW r, Ready(r), ~r.failed
  PROVE  /\ Body[c].kind = "EQTernBC" => Work(c, r, EQTernPost(r, <<c, 0>>, Body[c]))
         /\ Body[c].kind = "EQTernBCbool" => Work(c, r, EQTernBoolPost(r, <<c, 0>>, Body[c]))
<1> DEFINE b == Body[c]
           x == b.x[1]
           y == b.x[2]
           z == b.x[3]
           i == <<c, 0>>
<1>1. /\ Bound(r, x) /\ Bound(r, y) => Work(c, r, Assign(r, z, Lo(r, x) - Lo(r, y)))
      /\ Bound(r, x) /\ Bound(r, z) => Work(c, r, Assign(r, y, Lo(r, x) - Lo(r, z)))
      /\ Bound(r, y) /\ Bound(r, z) => Work(c, r, Assign(r, x, Lo(r, y) + Lo(r, z)))
  BY TernWork
<1>2. Work(c, r, TernRelate(r, i, b))
  BY TernRelates
<1>3. ASSUME b.kind = "EQTernBCbool", Bound(r, x), Bound(r, y), Lo(r, x) - Lo(r, y) \notin {0, 1}
      PROVE  Work(c, r, Fail(r))
  <2>1. x \in Views(Vars) /\ y \in Views(Vars) /\ z \in Views(Vars) /\ Good(r)
    BY TwoViews DEF Ready
  <2>2. \A a \in LeftIn(r) : /\ At(a, x) = Lo(r, x) /\ At(a, y) = Lo(r, y)
                             /\ At(a, x) \in Int /\ At(a, y) \in Int /\ At(a, z) \in {0, 1}
    BY <1>3, <2>1, ViewOf, BoolView
  <2>3. \A a : holds(a, c) <=> At(a, x) = At(a, y) + At(a, z)
    BY Meaning
  <2> HIDE DEF b, x, y, z
  <2>4. \A a \in LeftIn(r) : ~holds(a, c)
    BY <1>3, <2>2, <2>3
  <2>5. z[1] \in Vars
    BY <2>1, ViewFields
  <2> QED
    BY <2>4, <2>5, WorkFail
<1> HIDE DEF b, x, y, z
<1>4. b.kind = "EQTernBC" => Work(c, r, EQTernPost(r, i, b))
  BY <1>1, <1>2 DEF EQTernPost, x, y, z
<1>5. b.kind = "EQTernBCbool" => Work(c, r, EQTernBoolPost(r, i, b))
  BY <1>1, <1>2, <1>3 DEF EQTernBoolPost, x, y, z
<1>6. QED
  BY <1>4, <1>5 DEF b

LEMMA TernObeys ==
  ASSUME Library, program \in Programs, NEW c \in Cons, Body[c].kind \in Terns, NEW r, Ready(r), ~r.failed,
         Sure(r, {c})
  PROVE  /\ Body[c].kind = "EQTernBC" => Obeys(c, r, EQTernPost(r, <<c, 0>>, Body[c]))
         /\ Body[c].kind = "EQTernBCbool" => Obeys(c, r, EQTernBoolPost(r, <<c, 0>>, Body[c]))
         /\ \A n : Ripe(r, <<c, n>>) => Obeys(c, r, TernWake(r, Body[c], n))
<1>1. SwitchedOff(r, c) => \A a \in LeftIn(r) : holds(a, c)
  BY DEF Sure
<1>2. ASSUME NEW n, Ripe(r, <<c, n>>)
      PROVE  Work(c, r, TernWake(r, Body[c], n))
  <2>1. n \in 1..3
    BY <1>2 DEF Ripe, Closure, BodyOf
  <2>2. n = 1 \/ n = 2 \/ n = 3
    BY <2>1
  <2>3. ASSUME NEW j \in 1..3, NEW m \in 1..3
        PROVE  Work(c, r, TernNarrow(TernNarrow(r, Body[c], j), Body[c], m))
    <3> DEFINE s == TernNarrow(r, Body[c], j)
               u == TernNarrow(s, Body[c], m)
    <3>1. Work(c, r, s)
      BY TernWork
    <3> HIDE DEF s
    <3>2. Work(c, s, u)
      BY <3>1, TernWork DEF Work
    <3> HIDE DEF u
    <3>3. Work(c, r, u)
      BY <3>1, <3>2, WorkOn
    <3> QED
      BY <3>3 DEF u, s
  <2> QED
    BY <2>2, <2>3 DEF TernWake
<1>3. QED
  BY <1>1, <1>2, TernPosts, WorkObeys

--------------------------------------------------------------------------------
(* The loop that removes each of the values S of a view.                      *)
Reached(c, r) == {s \in States(Vars, Ids, {r.mem}, {r.aux}) : Work(c, r, s)}

LEMMA EachWork ==
  ASSUME Library, program \in Programs, NEW c, NEW r, Ready(r), NEW v \in Views(Vars), NEW S,
         \A w \in S : w \in Int => Implies(c, r, v, Int \ {w})
  PROVE  Work(c, r, RemoveEach(r, v, S))
<1> DEFINE D == Reached(c, r)
           q == Upto(Lo(r, v), Hi(r, v))
           m == Hi(r, v) - Lo(r, v) + 1
           N == 1..m
           step(s, w) == IF w \in S THEN Remove(s, v, w) ELSE s
           turn(g, T) == IF T = {} THEN r ELSE step(g[T \ {Max(T)}], q[Max(T)])
           iter == CHOOSE g : g = [T \in SUBSET N |-> turn(g, T)]
           F == [k \in N |-> [s \in D |-> step(s, q[k])]]
<1>1. m \in Nat /\ DOMAIN q = N /\ \A k \in N : q[k] \in Int
  <2>1. Lo(r, v) \in Int /\ Hi(r, v) \in Int /\ Lo(r, v) <= Hi(r, v)
    BY ViewBounds DEF Ready
  <2> QED
    BY <2>1 DEF Upto
<1>2. r \in D
  BY WorkSelf, GoodState DEF Reached, Ready
<1>3. ASSUME NEW s \in D, NEW w \in Int
      PROVE  step(s, w) \in D
  <2>1. CASE w \in S
    <3>1. Work(c, r, s) /\ Ready(s) /\ Implies(c, r, v, Int \ {w})
      BY <2>1 DEF Reached, Work
    <3>2. Implies(c, s, v, Int \ {w})
      BY <3>1, ImpliesOn
    <3> DEFINE u == Remove(s, v, w)
    <3>3. Work(c, s, u)
      BY <3>1, <3>2, WorkRemove
    <3> HIDE DEF u
    <3>4. Work(c, r, u)
      BY <3>1, <3>3, WorkOn
    <3>5. u \in D
      BY <3>4 DEF Reached, Work, Narrows
    <3> QED
      BY <2>1, <3>5 DEF u
  <2>2. CASE w \notin S
    BY <2>2
  <2> QED
    BY <2>1, <2>2
<1> HIDE DEF q, step, D
<1>4. \A k \in N : \A s \in D : F[k][s] = step(s, q[k]) /\ F[k][s] \in D
  BY <1>1, <1>3
<1> HIDE DEF F, m
<1>5. \A T \in SUBSET N : T # {} => Max(T) \in T
  BY <1>1, Initial
<1>6. 1..0 = {} /\ N \in SUBSET N /\ {} \in SUBSET N
  OBVIOUS
<1>7. \E g : g = [T \in SUBSET N |-> turn(g, T)]
  <2>1. PICK g : FoldOf(g, m, r, F) /\ \A T \in SUBSET N : g[T] \in D
    <3>1. Closed(m, D, F)
      BY <1>4 DEF Closed
    <3> QED
      BY <1>1, <1>2, <3>1, FoldTurns
  <2>2. ASSUME NEW T \in SUBSET N
        PROVE  (IF T = {} THEN r ELSE F[Max(T)][g[T \ {Max(T)}]]) = turn(g, T)
    <3>1. CASE T = {}
      BY <3>1
    <3>2. CASE T # {}
      <4>1. Max(T) \in N /\ g[T \ {Max(T)}] \in D
        BY <1>5, <2>1, <3>2
      <4> QED
        BY <1>4, <3>2, <4>1
    <3> QED
      BY <3>1, <3>2
  <2> HIDE DEF turn
  <2>3. g = [T \in SUBSET N |-> turn(g, T)]
    BY <2>1, <2>2 DEF FoldOf
  <2> QED
    BY <2>3
<1>8. iter = [T \in SUBSET N |-> turn(iter, T)]
  <2> HIDE DEF turn, N
  <2> QED
    BY <1>7
<1>9. RemoveEach(r, v, S) = iter[N]
  BY <1>1, SameMax DEF RemoveEach, Seqs!FoldLeft, Seqs!MapThenFoldSet, q, step
<1> HIDE DEF iter
<1>10. iter[{}] = r
  BY <1>6, <1>8
<1>11. ASSUME NEW T \in SUBSET N, T # {} /\ iter[T \ {Max(T)}] \in D
       PROVE  iter[T] = F[Max(T)][iter[T \ {Max(T)}]]
  <2>1. iter[T] = step(iter[T \ {Max(T)}], q[Max(T)])
    BY <1>8, <1>11
  <2> QED
    BY <1>4, <1>5, <1>11, <2>1
<1>12. \A k \in 0..m : iter[1..k] \in D
  <2>1. Closed(m, D, F)
    BY <1>4 DEF Closed
  <2>2. Follows(iter, m, D, r, F)
    BY <1>10, <1>11 DEF Follows
  <2> QED
    BY <1>1, <1>2, <2>1, <2>2, FoldKeeps
<1>13. QED
  BY <1>1, <1>9, <1>12 DEF D, Reached

LEMMA ChannelObeys ==
  ASSUME Library, program \in Programs, NEW c \in Cons, Body[c].kind = "EQBinDC",
         NEW r, Ready(r), ~r.failed, Sure(r, {c})
  PROVE  /\ Obeys(c, r, EQBinDCPost(r, <<c, 0>>, Body[c]))
         /\ Obeys(c, r, EQBinDCPropagate(r, <<c, 0>>, Body[c]))
<1> DEFINE b == Body[c]
           x == b.x[1]
           y == b.x[2]
           k == b.k
           i == <<c, 0>>
           s == EQNarrow(EQNarrow(r, b, 2), b, 1)
           A == {w \in Dom(s, y) : w + b.k \in Lo(s, x)..Hi(s, x) /\ w + b.k \notin Dom(s, x)}
           t == RemoveEach(s, y, A)
           B == {w \in Dom(t, x) : w - b.k \in Lo(t, y)..Hi(t, y) /\ w - b.k \notin Dom(t, y)}
           u == RemoveEach(t, x, B)
<1>1. x \in Views(Vars) /\ y \in Views(Vars) /\ k \in Int
  BY TwoViews
<1>2. SwitchedOff(r, c) => \A a \in LeftIn(r) : holds(a, c)
  BY DEF Sure
<1>3. \A a : holds(a, c) <=> At(a, x) = At(a, y) + k
  BY Meaning
<1>4. Work(c, r, ListenBoth(r, b, "onDom", i))
  <2>1. \A n \in {1, 2} : WellPlaced(<<b.x[n][1], "onDom", i>>)
    BY DEF WellPlaced, Closure, BodyOf, Terns, NEQs
  <2> QED
    BY <2>1, BothListen DEF Lists
<1>5. /\ Bound(r, x) => Work(c, r, Assign(r, y, Lo(r, x) - k))
      /\ Bound(r, y) => Work(c, r, Assign(r, x, Lo(r, y) + k))
  BY EqualWork
<1>6. Work(c, r, s)
  BY EqualTwice
<1> HIDE DEF s, x, y, k
<1>7. Work(c, s, t)
  <2>1. Ready(s) /\ Good(s)
    BY <1>6 DEF Work, Ready
  <2>2. \A a \in LeftIn(s) : At(a, x) \in Dom(s, x) /\ At(a, y) \in Int
    BY <1>1, <2>1, ViewOf
  <2>3. ASSUME NEW w \in A PROVE Implies(c, s, y, Int \ {w})
    <3>1. w + k \notin Dom(s, x)
      BY <2>3 DEF k
    <3> QED
      BY <1>3, <2>2, <3>1 DEF Implies
  <2> HIDE DEF A
  <2> QED
    BY <1>1, <2>1, <2>3, EachWork
<1> HIDE DEF t
<1>8. Work(c, t, u)
  <2>1. Ready(t) /\ Good(t)
    BY <1>7 DEF Work, Ready
  <2>2. \A a \in LeftIn(t) : At(a, y) \in Dom(t, y) /\ At(a, x) \in Int /\ At(a, y) \in Int
    BY <1>1, <2>1, ViewOf
  <2>3. ASSUME NEW w \in B PROVE Implies(c, t, x, Int \ {w})
    <3>1. w - k \notin Dom(t, y)
      BY <2>3 DEF k
    <3>2. \A n \in Int : (n + k) - k = n
      BY <1>1
    <3> QED
      BY <1>3, <2>2, <3>1, <3>2 DEF Implies
  <2> HIDE DEF B
  <2> QED
    BY <1>1, <2>1, <2>3, EachWork
<1> HIDE DEF u
<1>9. Work(c, r, u)
  <2>1. Work(c, r, t)
    BY <1>6, <1>7, WorkOn
  <2> QED
    BY <1>8, <2>1, WorkOn
<1>10. Work(c, r, EQBinDCPropagate(r, i, b))
  BY <1>5, <1>9 DEF EQBinDCPropagate, u, t, s, x, y, k
<1>11. Obeys(c, r, EQBinDCPropagate(r, i, b))
  BY <1>2, <1>10, WorkObeys
<1>12. Obeys(c, r, EQBinDCPost(r, i, b))
  BY <1>2, <1>4, WorkObeys DEF EQBinDCPost
<1>13. QED
  BY <1>11, <1>12

--------------------------------------------------------------------------------
(* Every method of the library obeys its contract.                            *)
LEMMA PostObeys ==
  ASSUME Library, program \in Programs, NEW c \in Cons, NEW r, Ready(r), ~r.failed, Sure(r, {c})
  PROVE  Obeys(c, r, post(r, c))
<1> DEFINE b == Body[c]
           i == <<c, 0>>
<1>1. post(r, c) = ArithmeticPost(r, i, b)
  BY DEF Library, Cons
<1>2. b.kind \in Basics
  BY ShapeOf DEF Shape
<1>3. CASE b.kind = "LessOrEqual"
  <2>1. Work(c, r, ListenBoth(r, b, "onBounds", i))
    <3>1. \A n \in {1, 2} : WellPlaced(<<b.x[n][1], "onBounds", i>>)
      BY <1>3 DEF WellPlaced, Closure, BodyOf, Terns, NEQs
    <3> QED
      BY <3>1, BothListen DEF Lists
  <2>2. Obeys(c, r, LessOrEqualPost(r, i, b))
    BY <1>3, <2>1, LessOrEqualObeys DEF LessOrEqualPost
  <2>3. ArithmeticPost(r, i, b) = LessOrEqualPost(r, i, b)
    BY <1>3 DEF ArithmeticPost
  <2> QED
    BY <1>1, <2>2, <2>3
<1>4. CASE b.kind = "NEQBinBCLight"
  <2>1. ArithmeticPost(r, i, b) = NEQLightPost(r, i, b)
    BY <1>4 DEF ArithmeticPost
  <2> QED
    BY <1>1, <1>4, <2>1, LightObeys
<1>5. CASE b.kind = "NEQBinBC"
  <2>1. ArithmeticPost(r, i, b) = NEQPost(r, i, b)
    BY <1>5 DEF ArithmeticPost
  <2> QED
    BY <1>1, <1>5, <2>1, NeqObeys
<1>6. CASE b.kind = "EQBinBC"
  <2>1. ArithmeticPost(r, i, b) = EQPost(r, i, b)
    BY <1>6 DEF ArithmeticPost
  <2> QED
    BY <1>1, <1>6, <2>1, EqualObeys
<1>7. CASE b.kind = "EQBinDC"
  <2>1. ArithmeticPost(r, i, b) = EQBinDCPost(r, i, b)
    BY <1>7 DEF ArithmeticPost
  <2> QED
    BY <1>1, <1>7, <2>1, ChannelObeys
<1>8. CASE b.kind = "EQTernBC"
  <2>1. ArithmeticPost(r, i, b) = EQTernPost(r, i, b)
    BY <1>8 DEF ArithmeticPost
  <2> QED
    BY <1>1, <1>8, <2>1, TernObeys DEF Terns
<1>9. CASE b.kind = "EQTernBCbool"
  <2>1. ArithmeticPost(r, i, b) = EQTernBoolPost(r, i, b)
    BY <1>9 DEF ArithmeticPost
  <2> QED
    BY <1>1, <1>9, <2>1, TernObeys DEF Terns
<1>10. QED
  BY <1>2, <1>3, <1>4, <1>5, <1>6, <1>7, <1>8, <1>9 DEF Basics, NEQs, Terns

LEMMA PropagateObeys ==
  ASSUME Library, program \in Programs, NEW i \in Ids, NEW r, Ready(r), ~r.failed,
         Sure(r, {i[1]}), Ripe(r, i)
  PROVE  Obeys(i[1], r, propagate(r, i))
<1> DEFINE c == i[1]
           b == Body[c]
<1>1. c \in Cons /\ i \in Parts(c) /\ i = <<c, i[2]>> /\ c \in ConsOf(program)
  BY IdOf DEF Cons
<1>2. propagate(r, i) = ArithmeticPropagate(r, i, b)
  BY <1>1 DEF Library
<1>3. Shape(b)
  BY <1>1, ShapeOf
<1>4. ASSUME b.parts = 0
      PROVE  i = <<c, 0>>
  <2>1. PICK n \in 0..0 : i = <<c, n>>
    BY <1>1, <1>4 DEF Parts
  <2> QED
    BY <2>1
<1>5. b.kind \in {"LessOrEqual", "EQBinDC", "NEQBinBCLight"} => i = <<c, 0>>
  BY <1>3, <1>4 DEF Shape
<1> HIDE DEF c
<1>6. CASE b.kind = "LessOrEqual"
  <2>1. ArithmeticPropagate(r, i, b) = LessOrEqualPropagate(r, <<c, 0>>, b)
    BY <1>5, <1>6 DEF ArithmeticPropagate
  <2>2. Work(c, r, r)
    BY WorkSelf
  <2> QED
    BY <1>1, <1>2, <1>6, <2>1, <2>2, LessOrEqualObeys DEF c
<1>7. CASE b.kind = "NEQBinBCLight"
  <2>1. ArithmeticPropagate(r, i, b) = NEQLightPropagate(r, <<c, 0>>, b)
    BY <1>5, <1>7 DEF ArithmeticPropagate
  <2>2. Ripe(r, <<c, 0>>)
    BY <1>5, <1>7
  <2> QED
    BY <1>1, <1>2, <1>7, <2>1, <2>2, LightObeys DEF c
<1>8. CASE b.kind = "NEQBinBC"
  <2>1. ArithmeticPropagate(r, i, b) = NEQNarrow(r, <<c, i[2]>>, b)
    BY <1>1, <1>8 DEF ArithmeticPropagate
  <2>2. Ripe(r, <<c, i[2]>>) /\ Sure(r, {c})
    BY <1>1 DEF c
  <2> QED
    BY <1>1, <1>2, <1>8, <2>1, <2>2, NeqObeys DEF c
<1>9. CASE b.kind = "EQBinBC"
  <2>1. ArithmeticPropagate(r, i, b) = EQNarrow(r, b, i[2])
    BY <1>9 DEF ArithmeticPropagate
  <2> QED
    BY <1>1, <1>2, <1>9, <2>1, EqualObeys DEF c
<1>10. CASE b.kind = "EQBinDC"
  <2>1. ArithmeticPropagate(r, i, b) = EQBinDCPropagate(r, <<c, 0>>, b)
    BY <1>5, <1>10 DEF ArithmeticPropagate
  <2> QED
    BY <1>1, <1>2, <1>10, <2>1, ChannelObeys DEF c
<1>11. CASE b.kind \in Terns
  <2>1. ArithmeticPropagate(r, i, b) = TernWake(r, b, i[2])
    BY <1>11 DEF ArithmeticPropagate, Terns
  <2>2. Ripe(r, <<c, i[2]>>)
    BY <1>1
  <2> QED
    BY <1>1, <1>2, <1>11, <2>1, <2>2, TernObeys DEF c
<1>12. b.kind \in Basics
  BY <1>3 DEF Shape
<1>13. QED
  BY <1>6, <1>7, <1>8, <1>9, <1>10, <1>11, <1>12 DEF Basics, NEQs, c

--------------------------------------------------------------------------------
(* The search of a client of the library: who listens is well placed, who     *)
(* waits is ripe, and so it is of the levels to restore.                      *)
AInv == /\ SInv /\ agenda = <<>>
        /\ Placed(Solver) /\ Due(Solver)
        /\ \A k \in DOMAIN saved : Placed(saved[k])

LEMMA ReadyAlike ==
  ASSUME NEW r, Ready(r), NEW s, Good(s), s.dom = r.dom, s.listen = r.listen,
         Entries(s) \subseteq Entries(r)
  PROVE  Ready(s)
<1>1. Listening(s) = Listening(r)
  BY HeardSame
<1>2. \A i : Ripe(r, i) => Ripe(s, i)
  BY DEF Ripe, Bound
<1>3. QED
  BY <1>1, <1>2 DEF Ready, Placed, Due

LEMMA AlertTurn ==
  ASSUME Waiting # {}
  PROVE  queue[Turn] # <<>>
<1>1. PICK p \in {CLOW, CHIGH} : \E k \in DOMAIN queue[p] : TRUE
  BY DEF Waiting
<1>2. queue[p] # <<>>
  <2>1. DOMAIN <<>> = {}
    OBVIOUS
  <2> QED
    BY <1>1, <2>1
<1>3. QED
  BY <1>1, <1>2 DEF Turn

(* The next in the queue, when it is taken. *)
LEMMA PoppedReady ==
  ASSUME AInv, pc = "loop", queue[Turn] # <<>>
  PROVE  /\ Ready(Popped) /\ ~Popped.failed /\ Taken \in Ids
         /\ Sure(Popped, {Taken[1]}) /\ Ripe(Popped, Taken)
<1>1. IInv /\ Path /\ Good(Solver) /\ Ready(Solver)
  BY DEF AInv, SInv, IInv, Ready
<1>2. Taken \in Ids /\ Good(Popped) /\ ~Popped.failed
  BY <1>1, GoodPopped DEF Popped, Solver
<1>3. Alike(Solver, Popped) /\ Entries(Popped) \subseteq Waiting /\ Taken \in Waiting
      /\ Waiting = Entries(Solver)
  BY <1>1, PoppedAlike, InvariantTypes
<1>4. Ready(Popped)
  BY <1>1, <1>2, <1>3, ReadyAlike DEF Alike
<1>5. Ripe(Popped, Taken)
  BY <1>1, <1>3 DEF Ready, Due, Ripe, Bound, Alike
<1>6. Sure(Popped, posted)
  BY <1>1, <1>3, AlikePath DEF Path, Alive
<1>7. Taken[1] \in posted
  BY <1>1, <1>3 DEF Path, Owned, IdsOf, Parts
<1>8. Sure(Popped, {Taken[1]})
  BY <1>6, <1>7 DEF Sure
<1>9. QED
  BY <1>2, <1>4, <1>5, <1>8

(* A constraint that is about to be posted. *)
LEMMA FreshReady ==
  ASSUME Library, AInv, Idle, NEW c \in Cons, NEW fix \in BOOLEAN
  PROVE  LET f == Fresh(Call(c, fix))
         IN Ready(f) /\ ~f.failed /\ Sure(f, {c}) /\ ~Nests(Call(c, fix))
<1> DEFINE f == Fresh(Call(c, fix))
<1>1. IInv /\ Path /\ Ready(Solver) /\ Alive /\ program \in Programs
  BY DEF AInv, SInv, IInv, Ready, Idle, Alive
<1>2. Call(c, fix) \in TypedCalls /\ Call(c, fix).c = c /\ Call(c, fix).rest = FALSE
  BY DEF Call, TypedCalls
<1>3. Good(f) /\ f.active[<<c, 0>>]
  BY <1>1, <1>2, FreshPath
<1>4. f = New(Solver, c)
  BY <1>2 DEF Fresh
<1>5. f.dom = Solver.dom /\ f.listen = Solver.listen /\ f.queue = Solver.queue /\ ~f.failed
  BY <1>4 DEF New, Solver
<1> HIDE DEF f
<1>6. Entries(f) = Entries(Solver)
  BY <1>5 DEF Entries
<1>7. Ready(f)
  BY <1>1, <1>3, <1>5, <1>6, ReadyAlike
<1>8. Sure(f, {c})
  BY <1>1, <1>3, OffAtAll DEF Sure
<1>9. ~Nests(Call(c, fix))
  BY <1>1, <1>2, ShapeOf DEF Nests, Shape
<1>10. QED
  BY <1>5, <1>7, <1>8, <1>9 DEF f

(* The calls of the next step obey. *)
LEMMA CallsObey ==
  ASSUME Library, AInv
  PROVE  /\ pc = "loop" /\ queue[Turn] # <<>> => Obeys(Taken[1], Popped, propagate(Popped, Taken))
         /\ \A c \in Cons, fix \in BOOLEAN : Idle =>
               LET f == Fresh(Call(c, fix)) IN Obeys(c, f, post(f, c))
<1>1. program \in Programs
  BY DEF AInv, SInv, IInv
<1>2. ASSUME pc = "loop", queue[Turn] # <<>>
      PROVE  Obeys(Taken[1], Popped, propagate(Popped, Taken))
  BY <1>1, <1>2, PoppedReady, PropagateObeys
<1>3. ASSUME NEW c \in Cons, NEW fix \in BOOLEAN, Idle
      PROVE  LET f == Fresh(Call(c, fix)) IN Obeys(c, f, post(f, c))
  BY <1>1, <1>3, FreshReady, PostObeys
<1>4. QED
  BY <1>2, <1>3

(* What the proofs of the search assume holds in every state.                 *)
LEMMA LibraryObeys ==
  ASSUME Library, AInv
  PROVE  OnlyNarrows /\ OnlyInfers
<1>1. agenda = <<>> /\ (pc = "resume" => agenda # <<>>)
  BY DEF AInv, SInv, IInv, Control
<1>2. ASSUME NEW call \in Posts
      PROVE  LET s == post(Fresh(call), call.c)
             IN /\ Modest(Fresh(call), s)
                /\ KeepsToItself(call.c, Fresh(call), s) /\ Infers(call.c, Fresh(call), s)
  <2>1. PICK c \in program.cons \ posted : Idle /\ call = Call(c, TRUE)
    BY <1>1, <1>2 DEF Posts
  <2>2. c \in Cons /\ call.c = c
    BY <2>1 DEF Call, Cons, ConsOf
  <2>3. Obeys(c, Fresh(call), post(Fresh(call), c))
    BY <2>1, <2>2, CallsObey
  <2> QED
    BY <2>2, <2>3 DEF Obeys
<1>3. ASSUME pc = "loop", Waiting # {}
      PROVE  LET s == propagate(Popped, Taken)
             IN /\ Modest(Popped, s) /\ KeepsToItself(Taken[1], Popped, s)
                /\ Infers(Taken[1], Popped, s)
  BY <1>3, AlertTurn, CallsObey DEF Obeys
<1>4. QED
  BY <1>2, <1>3 DEF OnlyNarrows, OnlyInfers

(* The variables of the next state, when the solver becomes r.                *)
LEMMA ReadyNext ==
  ASSUME NEW r, Becomes(r), Placed(r), Due(r)
  PROVE  (Placed(Solver) /\ Due(Solver))'
<1>1. Solver'.dom = r.dom /\ Solver'.listen = r.listen /\ Solver'.queue = r.queue
  BY DEF Becomes, Solver
<1>2. Listening(Solver)' = Listening(r) /\ Entries(Solver)' = Entries(r)
  BY <1>1 DEF Listening, Entries
<1>3. Placed(Solver)'
  BY <1>2 DEF Placed
<1>4. \A i : Ripe(r, i) => Ripe(Solver, i)'
  BY <1>1 DEF Ripe, Bound
<1>5. Due(Solver)'
  BY <1>2, <1>4 DEF Due
<1>6. QED
  BY <1>3, <1>5

LEMMA RanReady ==
  ASSUME NEW r, Ready(r), Ran(r), agenda = <<>>
  PROVE  (Placed(Solver) /\ Due(Solver))' /\ agenda' = <<>>
<1>1. CASE r.failed
  <2>1. Becomes(Drained(r)) /\ agenda' = <<>>
    BY <1>1 DEF Ran
  <2>2. Alike(r, Drained(r)) /\ Entries(Drained(r)) = {}
    BY DrainedAlike DEF Ready
  <2>3. Listening(Drained(r)) = Listening(r)
    BY <2>2, HeardSame DEF Alike
  <2>4. Placed(Drained(r)) /\ Due(Drained(r))
    BY <2>2, <2>3 DEF Placed, Due, Ready
  <2> QED
    BY <2>1, <2>4, ReadyNext
<1>2. CASE ~r.failed
  BY <1>2, ReadyNext DEF Ran, Ready
<1>3. QED
  BY <1>1, <1>2

(* What branching and the objective's hook make of the solver.                *)
LEMMA BranchReady ==
  ASSUME Library, IInv, Ready(Solver), pc # "failed"
  PROVE  /\ \A x \in Vars, v \in Int : Ready(DomAssign(Solver, x, v)) /\ Ready(DomRemove(Solver, x, v))
         /\ \A v \in Views(Vars), w \in Int :
               Ready(RemoveAbove(Solver, v, w)) /\ Ready(RemoveBelow(Solver, v, w))
<1> DEFINE S == States(Vars, Ids, {Solver.mem}, {Solver.aux})
<1>1. Good(Solver) /\ program \in Programs /\ Identifiers(Ids) /\ Solver \in S /\ ~Solver.failed
  BY TheIdentifiers DEF IInv, Good, Solver
<1>2. ASSUME NEW s, Good(s), Narrows(S, Solver, s), NEW x, NEW K, Cuts(Solver, s, x, K)
      PROVE  Ready(s)
  BY <1>1, <1>2, ReadyWakes DEF Narrows, Cuts
<1> HIDE DEF S
<1>3. ASSUME NEW x \in Vars, NEW v \in Int
      PROVE  Ready(DomAssign(Solver, x, v)) /\ Ready(DomRemove(Solver, x, v))
  <2>1. Good(DomAssign(Solver, x, v)) /\ Good(DomRemove(Solver, x, v))
    BY <1>1, GoodOperations
  <2>2. Narrows(S, Solver, DomAssign(Solver, x, v)) /\ Cuts(Solver, DomAssign(Solver, x, v), x, {v})
    BY <1>1, AssignCuts DEF S
  <2>3. Narrows(S, Solver, DomRemove(Solver, x, v)) /\ Cuts(Solver, DomRemove(Solver, x, v), x, Int \ {v})
    BY <1>1, RemoveCuts DEF S
  <2> QED
    BY <1>2, <2>1, <2>2, <2>3
<1>4. ASSUME NEW v \in Views(Vars), NEW w \in Int
      PROVE  Ready(RemoveAbove(Solver, v, w)) /\ Ready(RemoveBelow(Solver, v, w))
  <2>1. Good(RemoveAbove(Solver, v, w)) /\ Good(RemoveBelow(Solver, v, w))
    BY <1>1, GoodOperations
  <2>2. /\ Narrows(S, Solver, RemoveAbove(Solver, v, w))
        /\ Cuts(Solver, RemoveAbove(Solver, v, w), v[1], Seen(v, AtMost(w)))
    BY <1>1, ViewRemoveAbove DEF S
  <2>3. /\ Narrows(S, Solver, RemoveBelow(Solver, v, w))
        /\ Cuts(Solver, RemoveBelow(Solver, v, w), v[1], Seen(v, AtLeast(w)))
    BY <1>1, ViewRemoveBelow DEF S
  <2> QED
    BY <1>2, <2>1, <2>2, <2>3
<1>5. QED
  BY <1>3, <1>4

LEMMA HooksReady ==
  ASSUME Library, AInv, Hooks
  PROVE  (Placed(Solver) /\ Due(Solver))' /\ agenda' = <<>>
<1> DEFINE v == program.obj[1]
           r == IF Unbeaten THEN Solver
                ELSE IF program.obj[2] = "min" THEN RemoveAbove(Solver, v, primal - 1)
                ELSE RemoveBelow(Solver, v, primal + 1)
<1>1. Ran(r) /\ pc = "hooks" /\ agenda = <<>>
  BY DEF Hooks, AInv
<1>2. IInv /\ Ready(Solver)
  BY DEF AInv, SInv, IInv, Ready
<1>3. primal - 1 \in Int /\ primal + 1 \in Int
  BY <1>2 DEF IInv, Control
<1>4. ~Unbeaten => v \in Views(Vars)
  BY <1>2, ProgramsAssumption DEF Unbeaten, Vars, IInv
<1> HIDE DEF v
<1>5. Ready(r)
  BY <1>1, <1>2, <1>3, <1>4, BranchReady
<1>6. QED
  BY <1>1, <1>5, RanReady

LEMMA StepReady ==
  ASSUME Library, AInv, Step
  PROVE  (Placed(Solver) /\ Due(Solver))' /\ agenda' = <<>>
<1> DEFINE r == IF active[Taken] THEN propagate(Popped, Taken) ELSE Popped
<1>1. pc = "loop" /\ queue[Turn] # <<>> /\ Ran(r) /\ agenda = <<>>
  BY DEF Step, AInv
<1>2. Ready(r)
  BY <1>1, PoppedReady, CallsObey DEF Obeys
<1>3. QED
  BY <1>1, <1>2, RanReady

LEMMA PostReady ==
  ASSUME Library, AInv, NEW c \in program.cons, NEW fix \in BOOLEAN, PostConstraint(c, fix)
  PROVE  (Placed(Solver) /\ Due(Solver))' /\ agenda' = <<>>
<1> DEFINE call == Call(c, fix)
           s == post(Fresh(call), c)
<1>1. Idle /\ Run(call, <<>>) /\ c \in Cons /\ call.c = c
  BY DEF PostConstraint, Cons, ConsOf, Call
<1>2. ~Nests(call) /\ ~aborts(Fresh(call), c)
  BY <1>1, FreshReady DEF Library, AInv, SInv, IInv, Cons
<1>3. Ready(s)
  BY <1>1, CallsObey DEF Obeys
<1>4. Becomes(s) /\ agenda' = <<>>
  BY <1>1, <1>2 DEF Run
<1>5. QED
  BY <1>3, <1>4, ReadyNext DEF Ready

LEMMA DecideReady ==
  ASSUME Library, AInv, NEW m \in program.moves, Decide(m[1], m[2]) \/ Refute(m[1], m[2])
  PROVE  (Placed(Solver) /\ Due(Solver))' /\ agenda' = <<>>
<1>1. m[1] \in Vars /\ m[2] \in Int /\ pc # "failed" /\ agenda = <<>>
  BY ProgramsAssumption DEF AInv, SInv, IInv, Vars, Decide, Refute, Idle
<1>2. IInv /\ Ready(Solver)
  BY DEF AInv, SInv, IInv, Ready
<1>3. Ready(DomAssign(Solver, m[1], m[2])) /\ Ready(DomRemove(Solver, m[1], m[2]))
  BY <1>1, <1>2, BranchReady
<1>4. CASE Decide(m[1], m[2])
  BY <1>1, <1>3, <1>4, ReadyNext DEF Decide, Narrowed, Ready
<1>5. CASE Refute(m[1], m[2])
  BY <1>1, <1>3, <1>5, ReadyNext DEF Refute, Narrowed, Ready
<1>6. QED
  BY <1>4, <1>5

LEMMA StillReady ==
  ASSUME AInv, UNCHANGED <<solver, agenda>>
  PROVE  (Placed(Solver) /\ Due(Solver))' /\ agenda' = <<>>
<1>1. Becomes(Solver)
  BY DEF Becomes, Solver, solver
<1>2. QED
  BY <1>1, ReadyNext DEF AInv

LEMMA LevelsPlaced ==
  ASSUME AInv,
         \A k \in DOMAIN saved' : (\E j \in DOMAIN saved : saved'[k] = saved[j]) \/ Placed(saved'[k])
  PROVE  (\A k \in DOMAIN saved : Placed(saved[k]))'
<1> SUFFICES ASSUME NEW k \in DOMAIN saved'
             PROVE  Placed(saved[k])'
  OBVIOUS
<1>1. PICK f : f = saved'[k]
  OBVIOUS
<1>2. Placed(f)
  BY <1>1 DEF AInv
<1>3. QED
  BY <1>1, <1>2 DEF Placed, Listening

LEMMA SavePlaced ==
  ASSUME AInv, SaveState
  PROVE  (\A k \in DOMAIN saved : Placed(saved[k]))'
<1> DEFINE f == [dom |-> dom, listen |-> listen, active |-> active, mem |-> mem,
                 posted |-> posted, wanted |-> wanted]
           n == Len(saved)
<1>1. saved' = Append(saved, f)
  BY DEF SaveState
<1>2. Placed(f)
  <2>1. f.listen = Solver.listen
    BY DEF Solver
  <2> HIDE DEF f
  <2>2. Listening(f) = Listening(Solver)
    BY <2>1, HeardSame
  <2> QED
    BY <2>2 DEF AInv, Placed
<1> HIDE DEF f
<1>3. saved \in Seq({saved[k] : k \in DOMAIN saved})
  BY DEF AInv, SInv, IInv, Levels
<1>4. DOMAIN saved' = 1..(n + 1) /\ saved'[n + 1] = f /\ n \in Nat
      /\ DOMAIN saved = 1..n /\ \A k \in 1..n : saved'[k] = saved[k]
  BY <1>1, <1>3
<1> HIDE DEF n
<1>5. \A k \in 1..(n + 1) : k \in 1..n \/ k = n + 1
  BY <1>4
<1>6. \A k \in DOMAIN saved' : (\E j \in DOMAIN saved : saved'[k] = saved[j]) \/ Placed(saved'[k])
  BY <1>2, <1>4, <1>5
<1>7. QED
  BY <1>6, LevelsPlaced

LEMMA RestoreReady ==
  ASSUME AInv, RestoreState, Waiting = {}
  PROVE  /\ (Placed(Solver) /\ Due(Solver))' /\ agenda' = <<>>
         /\ (\A k \in DOMAIN saved : Placed(saved[k]))'
<1> DEFINE n == Len(saved)
           top == saved[n]
           r == [dom |-> top.dom, listen |-> top.listen, queue |-> queue, scheduled |-> scheduled,
                 active |-> top.active, mem |-> top.mem, aux |-> aux, failed |-> FALSE, asked |-> FALSE]
<1>1. /\ saved # <<>> /\ saved' = SubSeq(saved, 1, n - 1) /\ agenda' = agenda
      /\ dom' = top.dom /\ listen' = top.listen /\ active' = top.active /\ mem' = top.mem
      /\ UNCHANGED <<queue, scheduled, aux>>
  BY DEF RestoreState
<1>2. saved \in Seq({saved[k] : k \in DOMAIN saved})
  BY DEF AInv, SInv, IInv, Levels
<1>3. /\ DOMAIN saved' = 1..(n - 1) /\ DOMAIN saved = 1..n /\ n \in Nat /\ n \in DOMAIN saved
      /\ \A k \in 1..(n - 1) : saved'[k] = saved[k]
  BY <1>1, <1>2
<1>4. Placed(top)
  BY <1>3 DEF AInv
<1>5. (\A k \in DOMAIN saved : Placed(saved[k]))'
  <2> HIDE DEF n
  <2>1. \A k \in DOMAIN saved' : \E j \in DOMAIN saved : saved'[k] = saved[j]
    BY <1>3
  <2> QED
    BY <2>1, LevelsPlaced
<1> HIDE DEF top
<1>6. Becomes(r) /\ r.listen = top.listen /\ r.queue = queue
  BY <1>1 DEF Becomes
<1> HIDE DEF r
<1>7. Placed(r) /\ Due(r)
  <2>1. Listening(r) = Listening(top)
    BY <1>6, HeardSame
  <2>2. Entries(r) = {}
    BY <1>6 DEF Entries, Waiting
  <2> QED
    BY <1>4, <2>1, <2>2 DEF Placed, Due
<1>8. QED
  BY <1>1, <1>5, <1>6, <1>7, ReadyNext DEF AInv

LEMMA LibraryInitially ==
  ASSUME Init
  PROVE  AInv
<1>1. SInv /\ agenda = <<>> /\ saved = <<>>
  BY PathInitially DEF Init
<1>2. Solver.listen = listen /\ Solver.queue = queue
  BY DEF Solver
<1>3. Listening(Solver) = {}
  <2>1. \A x \in DOMAIN listen, l \in Lists : listen[x][l] = <<>>
    BY DEF Init
  <2>2. \A x \in DOMAIN listen, l \in Lists : DOMAIN listen[x][l] = {}
    BY <2>1
  <2> QED
    BY <1>2, <2>2 DEF Listening
<1>4. Entries(Solver) = {}
  <2>1. \A p \in {CLOW, CHIGH} : DOMAIN queue[p] = {}
    BY DEF Init
  <2> QED
    BY <1>2, <2>1 DEF Entries
<1>5. DOMAIN saved = {}
  BY <1>1
<1>6. QED
  BY <1>1, <1>3, <1>4, <1>5 DEF AInv, Placed, Due

LEMMA LibraryInductive ==
  ASSUME Library, AInv, [TidyNext]_vars
  PROVE  AInv'
<1>1. SInv'
  BY LibraryObeys, SearchInductive DEF AInv
<1>2. saved' = saved => (\A k \in DOMAIN saved : Placed(saved[k]))'
  BY LevelsPlaced
<1>3. CASE Fixpoint
  <2>1. CASE Hooks
    BY <1>1, <1>2, <2>1, HooksReady DEF AInv, Hooks
  <2>2. CASE Step
    BY <1>1, <1>2, <2>2, StepReady DEF AInv, Step
  <2>3. CASE Finish
    BY <1>1, <1>2, <2>3, StillReady DEF AInv, Finish
  <2>4. CASE Resume
    BY <2>4 DEF AInv, SInv, IInv, Control, Resume
  <2> QED
    BY <1>3, <2>1, <2>2, <2>3, <2>4 DEF Fixpoint
<1>4. CASE Branch
  <2>1. CASE Tighten
    BY <1>1, <1>2, <2>1, StillReady DEF AInv, Tighten
  <2>2. CASE \E m \in program.moves : Decide(m[1], m[2]) \/ Refute(m[1], m[2])
    BY <1>1, <1>2, <2>2, DecideReady DEF AInv, Decide, Refute
  <2> QED
    BY <1>4, <2>1, <2>2 DEF Branch
<1>5. CASE \E c \in program.cons, fix \in BOOLEAN : PostConstraint(c, fix)
  BY <1>1, <1>2, <1>5, PostReady DEF AInv, PostConstraint
<1>6. CASE SaveState
  BY <1>1, <1>6, StillReady, SavePlaced DEF AInv, SaveState
<1>7. CASE Waiting = {} /\ RestoreState
  BY <1>1, <1>7, RestoreReady DEF AInv
<1>8. CASE UNCHANGED vars
  BY <1>1, <1>2, <1>8, StillReady DEF AInv, vars
<1>9. QED
  BY <1>3, <1>4, <1>5, <1>6, <1>7, <1>8 DEF TidyNext

LEMMA LibraryEverywhere ==
  ASSUME Library
  PROVE  TidySpec => []AInv
<1>1. Init => AInv
  BY LibraryInitially
<1>2. AInv /\ [TidyNext]_vars => AInv'
  BY LibraryInductive
<1>3. QED
  BY <1>1, <1>2, PTL DEF TidySpec

(* The methods of the arithmetic constraints narrow and nothing else, in      *)
(* every state that a search of their clients reaches: they leave every       *)
(* variable a value or fail, take nothing from the queue and raise no flag    *)
(* without an entry (constraint.cpp:67-227, 264-277).                         *)
THEOREM ArithmeticOnlyNarrows ==
  ASSUME Library
  PROVE  TidySpec => []OnlyNarrows
<1>1. AInv => OnlyNarrows
  BY LibraryObeys
<1>2. QED
  BY <1>1, LibraryEverywhere, PTL

(* They infer no more than they mean and leave the other constraints alone;   *)
(* for the disequalities, whose bodies take a bound variable for granted,     *)
(* because nobody waits that has not heard of one (Placed, Due).              *)
THEOREM ArithmeticOnlyInfers ==
  ASSUME Library
  PROVE  TidySpec => []OnlyInfers
<1>1. AInv => OnlyInfers
  BY LibraryObeys
<1>2. QED
  BY <1>1, LibraryEverywhere, PTL

(* So the searches of these clients lose no solution, whatever they post,     *)
(* decide, fail and restore, and need nothing to be taken for granted.        *)
THEOREM ArithmeticLosesNothing ==
  ASSUME Library
  PROVE  TidySpec => []NoSolutionLost
<1>1. QED
  BY ArithmeticOnlyNarrows, ArithmeticOnlyInfers, NoSolutionLostHolds, PTL

(* And what is switched off is entailed, flags have their entries and every   *)
(* solution is better than the one before.                                    *)
THEOREM ArithmeticIsSafe ==
  ASSUME Library
  PROVE  TidySpec => []InactiveIsEntailed /\ []FlagHasEntry /\ Improves
<1>1. QED
  BY ArithmeticOnlyNarrows, ArithmeticOnlyInfers, InactiveIsEntailedHolds, FlagHasEntryHolds,
     ImprovesHolds, PTL
--------------------------------------------------------------------------------
(* Whether the constraints that are left unpropagated are met at the end.     *)
(* Left out are EQBinDC, whose post() does not propagate, and those with a    *)
(* variable that they narrow twice without looking again.                     *)
Heedful ==
    \A p \in Programs : \A c \in ConsOf(p) :
        LET b == Body[c]
        IN /\ b.kind # "EQBinDC"
           /\ b.kind = "EQBinBC" => b.x[1][1] # b.x[2][1]
           /\ b.kind \in Terns => b.x[3][1] \notin {b.x[1][1], b.x[2][1]}

(* Who watches the n-th variable of c, and on which list.                     *)
Watcher(c, n) == <<c, IF Body[c].parts = 0 THEN 0 ELSE n>>
WatchList(c) == IF Body[c].kind \in NEQs THEN "onBind" ELSE "onBounds"
Places(c) == 1..Len(Body[c].x)

Entailed(r, c) == \A a \in LeftIn(r) : holds(a, c)
Watched(r, c) == \A n \in Places(c) :
                    /\ <<Body[c].x[n][1], WatchList(c), Watcher(c, n)>> \in Listening(r)
                    /\ r.active[Watcher(c, n)]
Fixed(r, c) == \A n \in Places(c) : Bound(r, Body[c].x[n])
Awake(r, c) == \E n \in Places(c) : Watcher(c, n) \in Entries(r)

(* A constraint is met for good, or it watches all its variables and is in    *)
(* the queue when all of them are bound; of a level to restore: not all are.  *)
Heeds(r, c) == Entailed(r, c) \/ (Watched(r, c) /\ (Fixed(r, c) => Awake(r, c)))
Rests(f, c) == Entailed(f, c) \/ (Watched(f, c) /\ ~Fixed(f, c))

HInv == /\ AInv
        /\ pc # "failed" => \A c \in posted : Heeds(Solver, c)
        /\ \A k \in DOMAIN saved : \A c \in saved[k].posted : Rests(saved[k], c)
        /\ pc = "rest" => Waiting = {}

--------------------------------------------------------------------------------
LEMMA WatcherOf ==
  ASSUME Library, program \in Programs, NEW c \in Cons, NEW n \in Places(c)
  PROVE  Watcher(c, n) \in Parts(c) /\ Watcher(c, n) \in Ids /\ Body[c].x[n] \in Views(Vars)
<1>1. /\ Shape(Body[c]) /\ Parts(c) \subseteq Ids /\ Body[c].x[n] \in Views(Vars)
      /\ \A m \in 0..Body[c].parts : <<c, m>> \in Parts(c)
  BY ShapeOf DEF Places
<1>2. (IF Body[c].parts = 0 THEN 0 ELSE n) \in 0..Body[c].parts
  <2>1. \/ Body[c].parts = 0 \/ (Body[c].parts = 2 /\ Len(Body[c].x) = 2)
        \/ (Body[c].parts = 3 /\ Len(Body[c].x) = 3)
    BY <1>1 DEF Shape, Basics, NEQs, Terns
  <2>2. CASE Body[c].parts = 0
    BY <2>2
  <2>3. CASE Body[c].parts # 0
    <3> PICK m \in {2, 3} : Body[c].parts = m /\ Len(Body[c].x) = m
      BY <2>1, <2>3
    <3>1. n \in 1..m
      BY DEF Places
    <3>2. n \in 0..m
      BY <3>1
    <3> QED
      BY <2>3, <3>2
  <2> QED
    BY <2>2, <2>3
<1>3. QED
  BY <1>1, <1>2 DEF Watcher

(* The same of states that are alike but for the queue.                       *)
LEMMA SameWatch ==
  ASSUME NEW c, NEW r, NEW s, s.dom = r.dom, s.listen = r.listen,
         \A n \in Places(c) : s.active[Watcher(c, n)] = r.active[Watcher(c, n)]
  PROVE  /\ Entailed(s, c) <=> Entailed(r, c)
         /\ Watched(s, c) <=> Watched(r, c)
         /\ Fixed(s, c) <=> Fixed(r, c)
<1>1. LeftIn(s) = LeftIn(r)
  BY DEF LeftIn
<1>2. Listening(s) = Listening(r)
  BY HeardSame
<1>3. QED
  BY <1>1, <1>2 DEF Entailed, Watched, Fixed, Bound

(* Who watches goes on to do so, and is woken up by the last binding.         *)
LEMMA WatchedOn ==
  ASSUME NEW c, NEW J, NEW r, NEW s, ~s.failed, Minds(J, r, s), Watched(r, c),
         \A n \in Places(c) : Watcher(c, n) \in J /\ s.active[Watcher(c, n)] = r.active[Watcher(c, n)]
  PROVE  Watched(s, c) /\ (Fixed(s, c) => Fixed(r, c) \/ Awake(s, c))
<1>1. ASSUME NEW n \in Places(c)
      PROVE  /\ <<Body[c].x[n][1], WatchList(c), Watcher(c, n)>> \in Listening(s)
             /\ s.active[Watcher(c, n)]
             /\ ~Bound(r, Body[c].x[n]) /\ Bound(s, Body[c].x[n]) => Watcher(c, n) \in Entries(s)
  <2> DEFINE t == <<Body[c].x[n][1], WatchList(c), Watcher(c, n)>>
  <2>1. t \in Listening(r) /\ r.active[Watcher(c, n)]
    BY DEF Watched
  <2>2. t[1] = Body[c].x[n][1] /\ t[3] = Watcher(c, n)
    OBVIOUS
  <2> HIDE DEF t
  <2>3. t \in Listening(s) /\ (~Singleton(r.dom[t[1]]) /\ Singleton(s.dom[t[1]]) => t[3] \in Entries(s))
    BY <2>1, <2>2 DEF Minds
  <2> QED
    BY <2>1, <2>2, <2>3 DEF t, Bound
<1>2. QED
  BY <1>1 DEF Watched, Fixed, Awake

(* Other constraints are heeded as before.                                    *)
LEMMA HeedOn ==
  ASSUME Library, program \in Programs, NEW c \in Cons, NEW J, Parts(c) \subseteq J,
         NEW r, Good(r), NEW s, ~s.failed, Shrinks(r, s), Minds(J, r, s),
         Entries(r) \subseteq Entries(s),
         \A i \in Parts(c) : s.active[i] = r.active[i],
         Heeds(r, c)
  PROVE  Heeds(s, c)
<1>1. CASE Entailed(r, c)
  BY <1>1, LeftShrinks DEF Entailed, Heeds
<1>2. CASE Watched(r, c) /\ (Fixed(r, c) => Awake(r, c))
  <2>1. \A n \in Places(c) : Watcher(c, n) \in J /\ s.active[Watcher(c, n)] = r.active[Watcher(c, n)]
    BY WatcherOf
  <2>2. Watched(s, c) /\ (Fixed(s, c) => Fixed(r, c) \/ Awake(s, c))
    BY <1>2, <2>1, WatchedOn
  <2>3. Awake(r, c) => Awake(s, c)
    BY DEF Awake
  <2> QED
    BY <1>2, <2>2, <2>3 DEF Heeds
<1>3. QED
  BY <1>1, <1>2 DEF Heeds

(* A constraint whose method has run; it looks after itself if it is met      *)
(* whenever all its variables were bound before.                              *)
LEMMA OwnHeeds ==
  ASSUME Library, program \in Programs, NEW c \in Cons, Body[c].kind # "NEQBinBC",
         NEW r, Good(r), NEW s, ~s.failed, Obeys(c, r, s),
         \/ Entailed(r, c)
         \/ /\ Watched(r, c) /\ (Fixed(r, c) => Entailed(s, c))
            /\ \A n \in Places(c) : s.active[Watcher(c, n)] = r.active[Watcher(c, n)]
  PROVE  Heeds(s, c)
<1>1. CASE Entailed(r, c)
  <2>1. Shrinks(r, s)
    BY DEF Obeys, Modest, Narrows
  <2> QED
    BY <1>1, <2>1, LeftShrinks DEF Entailed, Heeds
<1>2. CASE /\ Watched(r, c) /\ (Fixed(r, c) => Entailed(s, c))
           /\ \A n \in Places(c) : s.active[Watcher(c, n)] = r.active[Watcher(c, n)]
  <2>1. Minds(Ids, r, s)
    BY DEF Obeys, Minded
  <2>2. \A n \in Places(c) : Watcher(c, n) \in Ids
    BY WatcherOf
  <2>3. Watched(s, c) /\ (Fixed(s, c) => Fixed(r, c) \/ Awake(s, c))
    BY <1>2, <2>1, <2>2, WatchedOn
  <2> QED
    BY <1>2, <2>3 DEF Heeds
<1>3. QED
  BY <1>1, <1>2

--------------------------------------------------------------------------------
(* What the operations on a view leave is what they ask for.                  *)
LEMMA CutEffect ==
  ASSUME program \in Programs, NEW r, Good(r), ~r.failed, NEW s, ~s.failed,
         NEW v \in Views(Vars), NEW K, Cuts(r, s, v[1], Seen(v, K)), NEW a \in LeftIn(s)
  PROVE  At(a, v) \in K
<1> DEFINE x == v[1]
           L == Seen(v, K)
<1>1. x \in Vars
  BY ViewFields
<1>2. s.dom = [r.dom EXCEPT ![x] = @ \cap L]
  BY DEF Cuts
<1>3. r.dom \in [Vars -> Domains]
  BY GoodFields
<1> HIDE DEF L
<1>4. s.dom[x] = r.dom[x] \cap L
  BY <1>1, <1>2, <1>3
<1>5. a[x] \in s.dom[x]
  BY <1>1 DEF LeftIn, Fits
<1>6. a[x] \in L
  BY <1>4, <1>5
<1>7. QED
  BY <1>6 DEF At, Seen, L

LEMMA OnlyItself ==
  ASSUME NEW r, Good(r), NEW s, NEW x \in Vars, NEW K, Cuts(r, s, x, K), NEW y \in Vars, y # x, ~s.failed
  PROVE  s.dom[y] = r.dom[y]
<1>1. r.dom \in [Vars -> Domains]
  BY GoodFields
<1>2. CASE r.failed
  BY <1>2 DEF Cuts
<1>3. CASE ~r.failed
  <2>1. s.dom = [r.dom EXCEPT ![x] = @ \cap K]
    BY <1>3 DEF Cuts
  <2> QED
    BY <1>1, <2>1
<1>4. QED
  BY <1>2, <1>3

LEMMA AssignDone ==
  ASSUME program \in Programs, NEW r, Good(r), ~r.failed, NEW v \in Views(Vars), NEW w \in Int,
         ~Assign(r, v, w).failed, NEW a \in LeftIn(Assign(r, v, w))
  PROVE  At(a, v) = w
<1>1. r \in States(Vars, Ids, {r.mem}, {r.aux}) /\ Identifiers(Ids)
  BY GoodState, TheIdentifiers
<1>2. Cuts(r, Assign(r, v, w), v[1], Seen(v, {w}))
  BY <1>1, ViewAssign
<1>3. QED
  BY <1>2, CutEffect

(* Narrowed to an interval: the view is in it, the other variables as before. *)
LEMMA BoundsDone ==
  ASSUME program \in Programs, NEW r, Good(r), ~r.failed, NEW v \in Views(Vars),
         NEW lo \in Int, NEW hi \in Int, ~UpdateBounds(r, v, lo, hi).failed
  PROVE  LET s == UpdateBounds(r, v, lo, hi)
         IN /\ \A a \in LeftIn(s) : lo <= At(a, v) /\ At(a, v) <= hi
            /\ \A y \in Vars : y # v[1] => s.dom[y] = r.dom[y]
<1> DEFINE s == UpdateBounds(r, v, lo, hi)
<1>1. Identifiers(Ids) /\ v[1] \in Vars
  BY TheIdentifiers, ViewFields
<1>2. ASSUME NEW q, Good(q)
      PROVE  /\ Narrows(States(Vars, Ids, {q.mem}, {q.aux}), q, RemoveAbove(q, v, hi))
             /\ Cuts(q, RemoveAbove(q, v, hi), v[1], Seen(v, AtMost(hi)))
             /\ Narrows(States(Vars, Ids, {q.mem}, {q.aux}), q, RemoveBelow(q, v, lo))
             /\ Cuts(q, RemoveBelow(q, v, lo), v[1], Seen(v, AtLeast(lo)))
  BY <1>1, <1>2, GoodState, ViewRemoveAbove, ViewRemoveBelow
<1>3. ASSUME NEW q, Narrows(States(Vars, Ids, {r.mem}, {r.aux}), r, q), NEW K, Cuts(r, q, v[1], Seen(v, K)),
             Narrows(States(Vars, Ids, {q.mem}, {q.aux}), q, s), NEW L, Cuts(q, s, v[1], Seen(v, L))
      PROVE  /\ \A a \in LeftIn(s) : At(a, v) \in K /\ At(a, v) \in L
             /\ \A y \in Vars : y # v[1] => s.dom[y] = r.dom[y]
  <2>1. Good(q)
    BY <1>3, GoodNarrows
  <2>2. q.failed => s = q
    BY <1>3 DEF Cuts
  <2>3. ~q.failed
    BY <2>2
  <2>4. LeftIn(s) \subseteq LeftIn(q)
    BY <1>3, <2>1, LeftShrinks DEF Narrows
  <2>5. \A a \in LeftIn(s) : At(a, v) \in K /\ At(a, v) \in L
    BY <1>3, <2>1, <2>3, <2>4, CutEffect
  <2>6. \A y \in Vars : y # v[1] => s.dom[y] = q.dom[y] /\ q.dom[y] = r.dom[y]
    BY <1>1, <1>3, <2>1, <2>3, OnlyItself
  <2> QED
    BY <2>5, <2>6
<1>4. CASE Opposite(v)
  <2> DEFINE q == RemoveAbove(r, v, hi)
  <2>1. Narrows(States(Vars, Ids, {r.mem}, {r.aux}), r, q) /\ Cuts(r, q, v[1], Seen(v, AtMost(hi)))
    BY <1>2
  <2> HIDE DEF q
  <2>2. Good(q)
    BY <2>1, GoodNarrows
  <2>3. s = RemoveBelow(q, v, lo)
    BY <1>4 DEF UpdateBounds, q
  <2> HIDE DEF s
  <2>4. Narrows(States(Vars, Ids, {q.mem}, {q.aux}), q, s) /\ Cuts(q, s, v[1], Seen(v, AtLeast(lo)))
    BY <1>2, <2>2, <2>3
  <2>5. /\ \A a \in LeftIn(s) : At(a, v) \in AtMost(hi) /\ At(a, v) \in AtLeast(lo)
        /\ \A y \in Vars : y # v[1] => s.dom[y] = r.dom[y]
    BY <1>3, <2>1, <2>4
  <2> QED
    BY <2>5 DEF AtMost, AtLeast, s
<1>5. CASE ~Opposite(v)
  <2> DEFINE q == RemoveBelow(r, v, lo)
  <2>1. Narrows(States(Vars, Ids, {r.mem}, {r.aux}), r, q) /\ Cuts(r, q, v[1], Seen(v, AtLeast(lo)))
    BY <1>2
  <2> HIDE DEF q
  <2>2. Good(q)
    BY <2>1, GoodNarrows
  <2>3. s = RemoveAbove(q, v, hi)
    BY <1>5 DEF UpdateBounds, q
  <2> HIDE DEF s
  <2>4. Narrows(States(Vars, Ids, {q.mem}, {q.aux}), q, s) /\ Cuts(q, s, v[1], Seen(v, AtMost(hi)))
    BY <1>2, <2>2, <2>3
  <2>5. /\ \A a \in LeftIn(s) : At(a, v) \in AtLeast(lo) /\ At(a, v) \in AtMost(hi)
        /\ \A y \in Vars : y # v[1] => s.dom[y] = r.dom[y]
    BY <1>3, <2>1, <2>4
  <2> QED
    BY <2>5 DEF AtMost, AtLeast, s
<1>6. QED
  BY <1>4, <1>5

(* A newcomer to a list of listeners is heard, and so are those before it.    *)
LEMMA ListenAdds ==
  ASSUME NEW r, Good(r), ~r.failed, NEW v \in Views(Vars), NEW l \in Lists, NEW i \in Ids,
         NEW s, s = Listen(r, v, l, i), Good(s)
  PROVE  /\ s.dom = r.dom /\ s.active = r.active /\ s.failed = r.failed
         /\ Listening(r) \subseteq Listening(s) /\ <<v[1], l, i>> \in Listening(s)
<1> DEFINE x == v[1]
           old == r.listen[x][l]
           q == <<i>> \o old
<1>1. r \in States(Vars, Ids, {r.mem}, {r.aux}) /\ x \in Vars /\ r.listen \in [Vars -> [Lists -> Seq(Ids)]]
  BY GoodState, ViewFields, GoodFields
<1>2. s = [r EXCEPT !.listen[x][l] = q]
  BY DEF Listen
<1>3. old \in Seq(Ids)
  BY <1>1
<1> HIDE DEF old
<1>4. /\ DOMAIN old = 1..Len(old) /\ DOMAIN q = 1..(Len(old) + 1) /\ Len(old) \in Nat
      /\ q[1] = i /\ \A k \in 1..Len(old) : q[k + 1] = old[k]
  BY <1>3
<1> HIDE DEF q
<1>5. /\ s.dom = r.dom /\ s.active = r.active /\ s.failed = r.failed
      /\ s.listen = [r.listen EXCEPT ![x][l] = q]
  BY <1>1, <1>2 DEF States
<1>6. /\ s.listen[x][l] = q
      /\ \A y \in Vars, m \in Lists : y # x \/ m # l => s.listen[y][m] = r.listen[y][m]
  BY <1>1, <1>5
<1> HIDE DEF x
<1>7. <<x, l, i>> \in Listening(s)
  <2>1. 1 \in DOMAIN s.listen[x][l] /\ <<x, l, i>> = <<x, l, s.listen[x][l][1]>>
    BY <1>4, <1>6
  <2> QED
    BY <1>1, <2>1, ListeningOf
<1>8. ASSUME NEW t \in Listening(r)
      PROVE  t \in Listening(s)
  <2>1. PICK y \in Vars, m \in Lists : \E k \in DOMAIN r.listen[y][m] : t = <<y, m, r.listen[y][m][k]>>
    BY <1>8, ListeningOf
  <2> PICK k \in DOMAIN r.listen[y][m] : t = <<y, m, r.listen[y][m][k]>>
    BY <2>1
  <2>2. CASE y = x /\ m = l
    <3>1. k \in 1..Len(old) /\ t = <<x, l, old[k]>>
      BY <1>4, <2>1, <2>2 DEF old
    <3>2. k + 1 \in DOMAIN s.listen[x][l] /\ t = <<x, l, s.listen[x][l][k + 1]>>
      BY <1>4, <1>6, <3>1
    <3> QED
      BY <1>1, <3>2, ListeningOf
  <2>3. CASE ~(y = x /\ m = l)
    <3>1. k \in DOMAIN s.listen[y][m] /\ t = <<y, m, s.listen[y][m][k]>>
      BY <1>6, <2>1, <2>3
    <3> QED
      BY <3>1, ListeningOf
  <2> QED
    BY <2>2, <2>3
<1>9. QED
  BY <1>5, <1>7, <1>8 DEF x

(* With less left, what was entailed still is.                                *)
LEMMA EntailedOn ==
  ASSUME program \in Programs, NEW c, NEW r, Ready(r), NEW s, Work(c, r, s), Entailed(r, c)
  PROVE  Entailed(s, c)
BY LeftShrinks DEF Entailed, Ready, Work, Narrows

--------------------------------------------------------------------------------
(* x <= y: once the maximum of x is that of y, which is bound, nothing fails. *)
LEMMA LessFixed ==
  ASSUME Library, program \in Programs, NEW c \in Cons, Body[c].kind = "LessOrEqual",
         NEW r, Good(r), ~r.failed, Fixed(r, c),
         NEW u, u = LessOrEqualPropagate(r, <<c, 0>>, Body[c]), ~u.failed
  PROVE  Entailed(u, c)
<1> DEFINE x == Body[c].x[1]
           y == Body[c].x[2]
           s == RemoveAbove(r, x, Hi(r, y))
           t == RemoveBelow(s, y, Lo(s, x))
<1>1. x \in Views(Vars) /\ y \in Views(Vars) /\ Identifiers(Ids) /\ 2 \in Places(c)
  <2>1. Len(Body[c].x) = 2
    BY ShapeOf DEF Shape, Terns
  <2> QED
    BY <2>1, TwoViews, TheIdentifiers DEF Places
<1>2. \A a : holds(a, c) <=> At(a, x) <= At(a, y)
  BY Meaning
<1>3. Bound(r, y)
  BY <1>1 DEF Fixed
<1>4. u = SetActive(t, <<c, 0>>, Hi(t, x) >= Lo(t, y))
  BY DEF LessOrEqualPropagate
<1> HIDE DEF x, y
<1>5. Hi(r, y) \in Int
  BY <1>1, ViewBounds
<1>6. /\ Narrows(States(Vars, Ids, {r.mem}, {r.aux}), r, s)
      /\ Cuts(r, s, x[1], Seen(x, AtMost(Hi(r, y))))
  BY <1>1, <1>5, GoodState, ViewRemoveAbove
<1>7. Good(s)
  BY <1>6, GoodNarrows
<1> HIDE DEF s
<1>8. Lo(s, x) \in Int
  BY <1>1, <1>7, ViewBounds
<1>9. Narrows(States(Vars, Ids, {s.mem}, {s.aux}), s, t) /\ Cuts(s, t, y[1], Seen(y, AtLeast(Lo(s, x))))
  BY <1>1, <1>7, <1>8, GoodState, ViewRemoveBelow
<1>10. Good(t)
  BY <1>7, <1>9, GoodNarrows
<1> HIDE DEF t
<1>11. ~t.failed /\ u.dom = t.dom
  <2>1. t \in States(Vars, Ids, {t.mem}, {t.aux})
    BY <1>10, GoodState
  <2>2. ~t.failed
    BY <1>4 DEF SetActive
  <2> QED
    BY <1>4, <2>1, <2>2 DEF SetActive, States
<1>12. ~s.failed
  BY <1>9, <1>11 DEF Cuts
<1>13. LeftIn(u) = LeftIn(t) /\ LeftIn(t) \subseteq LeftIn(s) /\ LeftIn(s) \subseteq LeftIn(r)
  <2>1. LeftIn(u) = LeftIn(t)
    BY <1>11 DEF LeftIn
  <2> QED
    BY <1>6, <1>7, <1>9, <2>1, LeftShrinks DEF Narrows
<1>14. ASSUME NEW a \in LeftIn(s) PROVE holds(a, c)
  <2>1. At(a, x) \in AtMost(Hi(r, y))
    BY <1>1, <1>6, <1>12, CutEffect
  <2>2. Hi(r, y) = At(a, y)
    BY <1>1, <1>3, <1>13, ViewOf
  <2> QED
    BY <1>2, <2>1, <2>2 DEF AtMost
<1>15. QED
  BY <1>13, <1>14 DEF Entailed

(* x = y + k: the bounds of a bound variable are those of the other one.      *)
LEMMA EqualFixed ==
  ASSUME Library, program \in Programs, NEW c \in Cons, Body[c].kind = "EQBinBC",
         NEW r, Ready(r), ~r.failed, NEW n, ~EQNarrow(r, Body[c], n).failed
  PROVE  /\ n = 1 /\ Bound(r, Body[c].x[1]) => Entailed(EQNarrow(r, Body[c], n), c)
         /\ n # 1 /\ Bound(r, Body[c].x[2]) => Entailed(EQNarrow(r, Body[c], n), c)
         /\ n = 1 => \A z \in Vars : z # Body[c].x[2][1] => EQNarrow(r, Body[c], n).dom[z] = r.dom[z]
<1> DEFINE x == Body[c].x[1]
           y == Body[c].x[2]
           k == Body[c].k
           s == EQNarrow(r, Body[c], n)
<1>1. x \in Views(Vars) /\ y \in Views(Vars) /\ k \in Int
  BY TwoViews
<1>2. \A a : holds(a, c) <=> At(a, x) = At(a, y) + k
  BY Meaning
<1>3. /\ n = 1 => s = UpdateBounds(r, y, Lo(r, x) - k, Hi(r, x) - k)
      /\ n # 1 => s = UpdateBounds(r, x, Lo(r, y) + k, Hi(r, y) + k)
  BY DEF EQNarrow
<1>4. Work(c, r, s)
  BY EqualWork
<1> HIDE DEF x, y, k, s
<1>5. Good(r) /\ Lo(r, x) \in Int /\ Lo(r, y) \in Int /\ Hi(r, x) \in Int /\ Hi(r, y) \in Int
  BY <1>1, ViewBounds DEF Ready
<1>6. LeftIn(s) \subseteq LeftIn(r)
  BY <1>4, <1>5, LeftShrinks DEF Work, Narrows
<1>7. \A a \in LeftIn(s) : /\ At(a, x) \in Int /\ At(a, y) \in Int
                           /\ Bound(r, y) => Lo(r, y) = At(a, y) /\ Hi(r, y) = At(a, y)
                           /\ Bound(r, x) => Lo(r, x) = At(a, x) /\ Hi(r, x) = At(a, x)
  BY <1>1, <1>5, <1>6, ViewOf
<1>8. ASSUME n = 1
      PROVE  /\ Bound(r, x) => Entailed(s, c)
             /\ \A z \in Vars : z # y[1] => s.dom[z] = r.dom[z]
  <2>1. Lo(r, x) - k \in Int /\ Hi(r, x) - k \in Int
    BY <1>1, <1>5
  <2>2. ~s.failed
    BY DEF s
  <2>3. /\ \A a \in LeftIn(s) : Lo(r, x) - k <= At(a, y) /\ At(a, y) <= Hi(r, x) - k
        /\ \A z \in Vars : z # y[1] => s.dom[z] = r.dom[z]
    BY <1>1, <1>3, <1>5, <1>8, <2>1, <2>2, BoundsDone
  <2> QED
    BY <1>1, <1>2, <1>5, <1>7, <2>3 DEF Entailed
<1>9. ASSUME n # 1, Bound(r, y) PROVE Entailed(s, c)
  <2>1. Lo(r, y) + k \in Int /\ Hi(r, y) + k \in Int
    BY <1>1, <1>5
  <2>2. ~s.failed
    BY DEF s
  <2>3. \A a \in LeftIn(s) : Lo(r, y) + k <= At(a, x) /\ At(a, x) <= Hi(r, y) + k
    BY <1>1, <1>3, <1>5, <1>9, <2>1, <2>2, BoundsDone
  <2>4. ASSUME NEW a \in LeftIn(s) PROVE At(a, x) = At(a, y) + k
    <3>1. Lo(r, y) = At(a, y) /\ Hi(r, y) = At(a, y) /\ At(a, x) \in Int /\ At(a, y) \in Int
      BY <1>7, <1>9, <2>4
    <3>2. At(a, y) + k <= At(a, x) /\ At(a, x) <= At(a, y) + k
      BY <2>3, <2>4, <3>1
    <3>3. k \in Int
      BY <1>1
    <3>4. At(a, y) + k \in Int
      BY <3>1, <3>3
    <3> QED
      BY <3>1, <3>2, <3>4
  <2> QED
    BY <1>2, <2>4 DEF Entailed
<1>10. QED
  BY <1>8, <1>9 DEF x, y, s

(* x = y + z: narrowed from two that are bound, the third is what it has to   *)
(* be, and the two stay as they are.                                          *)
LEMMA TernFixed ==
  ASSUME Library, program \in Programs, NEW c \in Cons, Body[c].kind \in Terns,
         NEW r, Ready(r), ~r.failed, NEW n \in 1..3, ~TernNarrow(r, Body[c], n).failed
  PROVE  /\ (\A m \in 1..3 : m # n => Bound(r, Body[c].x[m])) => Entailed(TernNarrow(r, Body[c], n), c)
         /\ \A z \in Vars : z # Body[c].x[n][1] => TernNarrow(r, Body[c], n).dom[z] = r.dom[z]
<1> DEFINE x == Body[c].x[1]
           y == Body[c].x[2]
           z == Body[c].x[3]
           s == TernNarrow(r, Body[c], n)
<1>1. x \in Views(Vars) /\ y \in Views(Vars) /\ z \in Views(Vars)
  BY TwoViews
<1>2. \A a : holds(a, c) <=> At(a, x) = At(a, y) + At(a, z)
  BY Meaning
<1>3. /\ n = 1 => s = UpdateBounds(r, x, Lo(r, y) + Lo(r, z), Hi(r, y) + Hi(r, z))
      /\ n = 2 => s = UpdateBounds(r, y, Lo(r, x) - Hi(r, z), Hi(r, x) - Lo(r, z))
      /\ n = 3 => s = UpdateBounds(r, z, Lo(r, x) - Hi(r, y), Hi(r, x) - Lo(r, y))
  BY DEF TernNarrow
<1>4. Work(c, r, s)
  BY TernWork
<1>5. (\A m \in 1..3 : m # n => Bound(r, Body[c].x[m])) =>
         (n # 1 => Bound(r, x)) /\ (n # 2 => Bound(r, y)) /\ (n # 3 => Bound(r, z))
  OBVIOUS
<1>6. ~s.failed
  OBVIOUS
<1> DEFINE fixed == (n # 1 => Bound(r, x)) /\ (n # 2 => Bound(r, y)) /\ (n # 3 => Bound(r, z))
<1> HIDE DEF x, y, z, s
<1>7. Good(r) /\ \A v \in {x, y, z} : Lo(r, v) \in Int /\ Hi(r, v) \in Int
  BY <1>1, ViewBounds DEF Ready
<1>8. LeftIn(s) \subseteq LeftIn(r)
  BY <1>4, <1>7, LeftShrinks DEF Work, Narrows
<1>9. \A a \in LeftIn(s), v \in {x, y, z} :
         At(a, v) \in Int /\ (Bound(r, v) => Lo(r, v) = At(a, v) /\ Hi(r, v) = At(a, v))
  BY <1>1, <1>7, <1>8, ViewOf
<1>10. CASE n = 1
  <2>1. Lo(r, y) + Lo(r, z) \in Int /\ Hi(r, y) + Hi(r, z) \in Int
    BY <1>7
  <2>2. /\ \A a \in LeftIn(s) : Lo(r, y) + Lo(r, z) <= At(a, x) /\ At(a, x) <= Hi(r, y) + Hi(r, z)
        /\ \A v \in Vars : v # x[1] => s.dom[v] = r.dom[v]
    BY <1>1, <1>3, <1>6, <1>7, <1>10, <2>1, BoundsDone
  <2>3. ASSUME fixed, NEW a \in LeftIn(s) PROVE At(a, x) = At(a, y) + At(a, z)
    <3>1. /\ Lo(r, y) = At(a, y) /\ Hi(r, y) = At(a, y) /\ Lo(r, z) = At(a, z) /\ Hi(r, z) = At(a, z)
          /\ At(a, x) \in Int /\ At(a, y) \in Int /\ At(a, z) \in Int
      BY <1>9, <1>10, <2>3
    <3>2. At(a, y) + At(a, z) <= At(a, x) /\ At(a, x) <= At(a, y) + At(a, z)
      BY <2>2, <2>3, <3>1
    <3> QED
      BY <3>1, <3>2
  <2>4. fixed => Entailed(s, c)
    BY <1>2, <2>3 DEF Entailed
  <2> QED
    BY <1>5, <1>10, <2>2, <2>4 DEF x, s
<1>11. CASE n = 2
  <2>1. Lo(r, x) - Hi(r, z) \in Int /\ Hi(r, x) - Lo(r, z) \in Int
    BY <1>7
  <2>2. /\ \A a \in LeftIn(s) : Lo(r, x) - Hi(r, z) <= At(a, y) /\ At(a, y) <= Hi(r, x) - Lo(r, z)
        /\ \A v \in Vars : v # y[1] => s.dom[v] = r.dom[v]
    BY <1>1, <1>3, <1>6, <1>7, <1>11, <2>1, BoundsDone
  <2>3. fixed => Entailed(s, c)
    BY <1>2, <1>7, <1>9, <1>11, <2>2 DEF Entailed
  <2> QED
    BY <1>5, <1>11, <2>2, <2>3 DEF y, s
<1>12. CASE n = 3
  <2>1. Lo(r, x) - Hi(r, y) \in Int /\ Hi(r, x) - Lo(r, y) \in Int
    BY <1>7
  <2>2. /\ \A a \in LeftIn(s) : Lo(r, x) - Hi(r, y) <= At(a, z) /\ At(a, z) <= Hi(r, x) - Lo(r, y)
        /\ \A v \in Vars : v # z[1] => s.dom[v] = r.dom[v]
    BY <1>1, <1>3, <1>6, <1>7, <1>12, <2>1, BoundsDone
  <2>3. fixed => Entailed(s, c)
    BY <1>2, <1>7, <1>9, <1>12, <2>2 DEF Entailed
  <2> QED
    BY <1>5, <1>12, <2>2, <2>3 DEF z, s
<1>13. QED
  BY <1>10, <1>11, <1>12

--------------------------------------------------------------------------------
(* The two methods that may switch themselves off.                            *)
LEMMA LessHeeds ==
  ASSUME Library, program \in Programs, NEW c \in Cons, Body[c].kind = "LessOrEqual",
         NEW r, Ready(r), ~r.failed, Watched(r, c),
         NEW s, s = LessOrEqualPropagate(r, <<c, 0>>, Body[c]), ~s.failed
  PROVE  Heeds(s, c)
<1>1. Obeys(c, r, s)
  BY WorkSelf, LessOrEqualObeys
<1>2. Good(r) /\ Good(s) /\ <<c, 0>> \in Ids
  BY <1>1, ShapeOf DEF Obeys, Ready
<1>3. Fixed(r, c) => Entailed(s, c)
  BY <1>2, LessFixed
<1>4. CASE s.active[<<c, 0>>]
  <2>1. \A n \in Places(c) : Watcher(c, n) = <<c, 0>> /\ r.active[<<c, 0>>]
    <3>1. Body[c].parts = 0
      BY ShapeOf DEF Shape
    <3> QED
      BY <3>1 DEF Watcher, Watched
  <2>2. r.active \in [Ids -> BOOLEAN] /\ s.active \in [Ids -> BOOLEAN]
    BY <1>2, GoodFields
  <2>3. r.active[<<c, 0>>] \in BOOLEAN /\ s.active[<<c, 0>>] \in BOOLEAN
    BY <1>2, <2>2
  <2>4. \A n \in Places(c) : s.active[Watcher(c, n)] = r.active[Watcher(c, n)]
    BY <1>4, <2>1, <2>3
  <2> QED
    BY <1>1, <1>2, <1>3, <2>4, OwnHeeds
<1>5. CASE ~s.active[<<c, 0>>]
  <2>1. SwitchedOff(s, c)
    BY <1>5, OffAtAll
  <2> QED
    BY <1>1, <2>1 DEF Obeys, Infers, Entailed, Heeds
<1>6. QED
  BY <1>4, <1>5

LEMMA LightHeeds ==
  ASSUME Library, program \in Programs, NEW c \in Cons, Body[c].kind = "NEQBinBCLight",
         NEW r, Ready(r), ~r.failed, Ripe(r, <<c, 0>>),
         NEW s, s = NEQLightPropagate(r, <<c, 0>>, Body[c]), ~s.failed
  PROVE  Heeds(s, c)
<1> DEFINE x == Body[c].x[1]
           y == Body[c].x[2]
           u == IF Bound(r, y) THEN Remove(r, x, Lo(r, y) + Body[c].k)
                ELSE Remove(r, y, Lo(r, x) - Body[c].k)
<1>1. Bound(r, x) \/ Bound(r, y)
  BY DEF Ripe, BodyOf, NEQs, Awaits
<1>2. Work(c, r, u) /\ (~u.failed => \A a \in LeftIn(u) : holds(a, c))
  <2>1. Body[c].kind \in NEQs
    BY DEF NEQs
  <2> QED
    BY <1>1, <2>1, DifferFrom
<1>3. s = SetActive(u, <<c, 0>>, FALSE)
  BY DEF NEQLightPropagate
<1> HIDE DEF u
<1>4. Good(u) /\ <<c, 0>> \in Ids
  BY <1>2, ShapeOf DEF Work, Ready
<1>5. ~u.failed /\ s.dom = u.dom
  <2>1. u \in States(Vars, Ids, {u.mem}, {u.aux})
    BY <1>4, GoodState
  <2>2. ~u.failed
    BY <1>3 DEF SetActive
  <2>3. s = [u EXCEPT !.active[<<c, 0>>] = FALSE]
    BY <1>3, <2>2 DEF SetActive
  <2> QED
    BY <2>1, <2>2, <2>3 DEF States
<1>6. LeftIn(s) = LeftIn(u)
  BY <1>5 DEF LeftIn
<1>7. QED
  BY <1>2, <1>5, <1>6 DEF Heeds, Entailed

(* The closures of the other disequality, which leave the lists.              *)
LEMMA NeqHeeds ==
  ASSUME Library, program \in Programs, NEW c \in Cons, Body[c].kind = "NEQBinBC",
         NEW r, Ready(r), ~r.failed, NEW n, Ripe(r, <<c, n>>),
         NEW s, s = NEQNarrow(r, <<c, n>>, Body[c]), ~s.failed
  PROVE  Heeds(s, c)
<1> DEFINE x == Body[c].x[1]
           y == Body[c].x[2]
           p == IF n = 1 THEN Remove(r, y, Lo(r, x) - Body[c].k)
                ELSE Remove(r, x, Lo(r, y) + Body[c].k)
           q == Detach(p, x, "onBind", <<c, 1>>)
           u == Detach(q, y, "onBind", <<c, 2>>)
<1>1. (n = 1 /\ Bound(r, x)) \/ (n = 2 /\ Bound(r, y))
  BY DEF Ripe, BodyOf, Awaits, NEQs
<1>2. Work(c, r, p) /\ (~p.failed => \A a \in LeftIn(p) : holds(a, c))
  <2>1. Body[c].kind \in NEQs
    BY DEF NEQs
  <2> QED
    BY <1>1, <2>1, DifferFrom
<1>3. s = u
  BY DEF NEQNarrow
<1>4. x \in Views(Vars) /\ y \in Views(Vars) /\ <<c, 1>> \in Parts(c) /\ <<c, 2>> \in Parts(c)
      /\ "onBind" \in Lists
  <2>1. Body[c].parts = 2
    BY ShapeOf DEF Shape
  <2> QED
    BY <2>1, TwoViews DEF Parts, Lists
<1> HIDE DEF p, x, y
<1>5. Work(c, p, q)
  BY <1>2, <1>4, WorkDetach DEF Work
<1> HIDE DEF q
<1>6. Work(c, q, u)
  BY <1>4, <1>5, WorkDetach DEF Work
<1> HIDE DEF u
<1>7. Ready(p) /\ Ready(q) /\ ~q.failed /\ ~p.failed
  BY <1>2, <1>3, <1>5, <1>6 DEF Work
<1>8. Entailed(p, c)
  BY <1>2, <1>7 DEF Entailed
<1>9. Entailed(q, c)
  BY <1>5, <1>7, <1>8, EntailedOn
<1>10. Entailed(u, c)
  BY <1>6, <1>7, <1>9, EntailedOn
<1>11. QED
  BY <1>3, <1>10 DEF Heeds

LEMMA EqualHeeds ==
  ASSUME Library, program \in Programs, NEW c \in Cons, Body[c].kind = "EQBinBC",
         NEW r, Ready(r), ~r.failed, Sure(r, {c}), Watched(r, c),
         NEW n, NEW s, s = EQNarrow(r, Body[c], n), ~s.failed
  PROVE  Heeds(s, c)
<1>1. Obeys(c, r, s)
  BY EqualObeys
<1>2. Work(c, r, s)
  BY EqualWork
<1>3. Fixed(r, c) => Bound(r, Body[c].x[1]) /\ Bound(r, Body[c].x[2])
  <2>1. Len(Body[c].x) = 2
    BY ShapeOf DEF Shape, Terns
  <2>2. 1 \in Places(c) /\ 2 \in Places(c)
    BY <2>1 DEF Places
  <2> QED
    BY <2>2 DEF Fixed
<1>4. Fixed(r, c) => Entailed(s, c)
  BY <1>3, EqualFixed
<1>5. \A m \in Places(c) : s.active[Watcher(c, m)] = r.active[Watcher(c, m)]
  BY <1>2 DEF Work
<1>6. QED
  BY <1>1, <1>4, <1>5, OwnHeeds DEF Ready

LEMMA TernHeeds ==
  ASSUME Library, program \in Programs, NEW c \in Cons, Body[c].kind \in Terns,
         NEW r, Ready(r), ~r.failed, Sure(r, {c}), Watched(r, c),
         NEW n, Ripe(r, <<c, n>>), NEW s, s = TernWake(r, Body[c], n), ~s.failed
  PROVE  Heeds(s, c)
<1>1. n \in 1..3
  BY DEF Ripe, Closure, BodyOf
<1>2. Obeys(c, r, s)
  BY TernObeys
<1>3. Fixed(r, c) => \A m \in 1..3 : Bound(r, Body[c].x[m])
  <2>1. Len(Body[c].x) = 3
    BY ShapeOf DEF Shape
  <2> QED
    BY <2>1 DEF Fixed, Places
<1>4. \E j, m \in 1..3 : s = TernNarrow(TernNarrow(r, Body[c], j), Body[c], m)
  <2>1. n = 1 \/ n = 2 \/ n = 3
    BY <1>1
  <2>2. 1 \in 1..3 /\ 2 \in 1..3 /\ 3 \in 1..3
    OBVIOUS
  <2> QED
    BY <2>1, <2>2 DEF TernWake
<1>5. PICK j, m \in 1..3 : s = TernNarrow(TernNarrow(r, Body[c], j), Body[c], m)
  BY <1>4
<1> DEFINE p == TernNarrow(r, Body[c], j)
           u == TernNarrow(p, Body[c], m)
<1>6. Work(c, r, p) /\ (~p.failed /\ Fixed(r, c) => Entailed(p, c))
  <2>1. Work(c, r, p)
    BY TernWork
  <2>2. ~p.failed /\ Fixed(r, c) => Entailed(p, c)
    BY <1>3, TernFixed
  <2> QED
    BY <2>1, <2>2
<1> HIDE DEF p
<1>7. Work(c, p, u) /\ Ready(p)
  <2>1. Ready(p)
    BY <1>6 DEF Work
  <2> QED
    BY <2>1, TernWork
<1>8. s = u
  BY <1>5 DEF p
<1> HIDE DEF u
<1>9. Fixed(r, c) => Entailed(s, c)
  <2>1. ~p.failed
    BY <1>7, <1>8 DEF Work
  <2> QED
    BY <1>6, <1>7, <1>8, <2>1, EntailedOn
<1>10. \A k \in Places(c) : s.active[Watcher(c, k)] = r.active[Watcher(c, k)]
  BY <1>6, <1>7, <1>8 DEF Work
<1>11. QED
  BY <1>2, <1>9, <1>10, OwnHeeds DEF Ready, Terns

--------------------------------------------------------------------------------
(* What is posted looks after itself from then on.                            *)
LEMMA WatchTwo ==
  ASSUME Library, program \in Programs, NEW c \in Cons, Body[c].kind \notin Terns,
         NEW r, Good(r), ~r.failed, \A i \in Parts(c) : r.active[i],
         NEW p, p = Listen(r, Body[c].x[1], WatchList(c), Watcher(c, 1)), Good(p),
         NEW q, q = Listen(p, Body[c].x[2], WatchList(c), Watcher(c, 2)), Good(q),
         Body[c].kind # "EQBinDC"
  PROVE  Watched(q, c) /\ q.dom = r.dom /\ q.active = r.active /\ ~q.failed
<1>1. Places(c) = {1, 2}
  <2>1. Len(Body[c].x) = 2
    BY ShapeOf DEF Shape
  <2> QED
    BY <2>1 DEF Places
<1>2. \A n \in {1, 2} : Watcher(c, n) \in Parts(c) /\ Watcher(c, n) \in Ids /\ Body[c].x[n] \in Views(Vars)
  BY <1>1, WatcherOf
<1>3. WatchList(c) \in Lists
  BY DEF WatchList, Lists
<1>4. /\ p.dom = r.dom /\ p.active = r.active /\ ~p.failed
      /\ <<Body[c].x[1][1], WatchList(c), Watcher(c, 1)>> \in Listening(p)
  BY <1>2, <1>3, ListenAdds
<1>5. /\ q.dom = p.dom /\ q.active = p.active /\ ~q.failed /\ Listening(p) \subseteq Listening(q)
      /\ <<Body[c].x[2][1], WatchList(c), Watcher(c, 2)>> \in Listening(q)
  BY <1>2, <1>3, <1>4, ListenAdds
<1>6. QED
  BY <1>1, <1>2, <1>4, <1>5 DEF Watched

LEMMA LessPosted ==
  ASSUME Library, program \in Programs, NEW c \in Cons, Body[c].kind = "LessOrEqual",
         NEW r, Ready(r), ~r.failed, \A i \in Parts(c) : r.active[i],
         NEW s, s = LessOrEqualPost(r, <<c, 0>>, Body[c]), ~s.failed
  PROVE  Heeds(s, c)
<1> DEFINE i == <<c, 0>>
           p == Listen(r, Body[c].x[1], "onBounds", i)
           q == Listen(p, Body[c].x[2], "onBounds", i)
<1>1. /\ Watcher(c, 1) = i /\ Watcher(c, 2) = i /\ WatchList(c) = "onBounds" /\ "onBounds" \in Lists
      /\ i \in Parts(c) /\ Body[c].x[1] \in Views(Vars) /\ Body[c].x[2] \in Views(Vars)
  <2>1. Body[c].parts = 0 /\ <<c, 0>> \in Parts(c)
    BY ShapeOf, PartsOf, OwnParts DEF Shape
  <2> QED
    BY <2>1, TwoViews DEF Watcher, WatchList, NEQs, Lists
<1>2. \A v : WellPlaced(<<v, "onBounds", i>>)
  BY DEF WellPlaced, Closure, BodyOf, Terns, NEQs
<1> HIDE DEF i
<1>3. Work(c, r, p)
  BY <1>1, <1>2, WorkListen
<1> HIDE DEF p
<1>4. Ready(p)
  BY <1>3 DEF Work
<1>5. Work(c, p, q)
  BY <1>1, <1>2, <1>4, WorkListen
<1>6. Ready(q)
  BY <1>5 DEF Work
<1>7. Watched(q, c) /\ ~q.failed
  <2>1. Good(r) /\ Good(p) /\ Good(q) /\ Body[c].kind \notin Terns
    BY <1>4, <1>6 DEF Ready, Terns
  <2> QED
    BY <1>1, <2>1, WatchTwo DEF p
<1>8. s = LessOrEqualPropagate(q, <<c, 0>>, Body[c])
  BY DEF LessOrEqualPost, ListenBoth, q, p, i
<1> HIDE DEF q
<1>9. QED
  BY <1>6, <1>7, <1>8, LessHeeds

(* The disequalities wait only if neither variable is bound.                  *)
LEMMA DifferPosted ==
  ASSUME Library, program \in Programs, NEW c \in Cons, Body[c].kind \in NEQs,
         NEW r, Ready(r), ~r.failed, \A i \in Parts(c) : r.active[i],
         NEW s, ~s.failed,
         s = IF Body[c].kind = "NEQBinBC" THEN NEQPost(r, <<c, 0>>, Body[c])
             ELSE NEQLightPost(r, <<c, 0>>, Body[c])
  PROVE  Heeds(s, c)
<1> DEFINE b == Body[c]
           x == b.x[1]
           y == b.x[2]
           i == Watcher(c, 1)
           j == Watcher(c, 2)
           p == Listen(r, x, "onBind", i)
           q == Listen(p, y, "onBind", j)
           t == Remove(r, x, Lo(r, y) + b.k)
           u == Remove(r, y, Lo(r, x) - b.k)
<1>1. /\ Places(c) = {1, 2} /\ WatchList(c) = "onBind" /\ "onBind" \in Lists
      /\ b.kind = "NEQBinBC" => i = <<c, 1>> /\ j = <<c, 2>>
      /\ b.kind # "NEQBinBC" => b.kind = "NEQBinBCLight" /\ i = <<c, 0>> /\ j = <<c, 0>>
      /\ b.kind \notin Terns /\ b.kind # "EQBinDC"
  <2>1. Len(b.x) = 2 /\ (b.kind = "NEQBinBC" => b.parts = 2) /\ (b.kind = "NEQBinBCLight" => b.parts = 0)
    BY ShapeOf DEF Shape, Terns, NEQs
  <2> QED
    BY <2>1 DEF Places, WatchList, Lists, Watcher, NEQs, Terns
<1>2. i \in Parts(c) /\ j \in Parts(c) /\ x \in Views(Vars) /\ y \in Views(Vars)
  BY <1>1, WatcherOf
<1>3. WellPlaced(<<x[1], "onBind", i>>) /\ WellPlaced(<<y[1], "onBind", j>>)
  <2>1. CASE b.kind = "NEQBinBC"
    <3>1. WellPlaced(<<x[1], "onBind", <<c, 1>> >>) /\ WellPlaced(<<y[1], "onBind", <<c, 2>> >>)
      BY <1>1, <2>1 DEF WellPlaced, Closure, BodyOf, Awaits
    <3> QED
      BY <1>1, <2>1, <3>1
  <2>2. CASE b.kind # "NEQBinBC"
    BY <1>1, <2>2 DEF WellPlaced, Closure, BodyOf, Awaits
  <2> QED
    BY <2>1, <2>2
<1>4. /\ Bound(r, y) /\ ~t.failed => Entailed(t, c)
      /\ Bound(r, x) /\ ~u.failed => Entailed(u, c)
  BY DifferFrom DEF Entailed
<1>5. ASSUME ~Bound(r, x), ~Bound(r, y) PROVE Heeds(q, c)
  <2> HIDE DEF i, j, x, y, b
  <2>1. Work(c, r, p)
    BY <1>1, <1>2, <1>3, WorkListen
  <2>2. Ready(p)
    BY <2>1 DEF Work
  <2> HIDE DEF p
  <2>3. Work(c, p, q)
    BY <1>1, <1>2, <1>3, <2>2, WorkListen
  <2>4. Good(r) /\ Good(p) /\ Good(q)
    BY <2>2, <2>3 DEF Work, Ready
  <2>5. Watched(q, c) /\ q.dom = r.dom
    BY <1>1, <2>4, WatchTwo DEF p, i, j, x, y, b
  <2>6. ~Fixed(q, c)
    BY <1>1, <1>5, <2>5 DEF Fixed, Bound, x, b
  <2> QED
    BY <2>5, <2>6 DEF Heeds
<1>6. \/ s = t /\ Bound(r, y)
      \/ s = u /\ Bound(r, x)
      \/ s = q /\ ~Bound(r, x) /\ ~Bound(r, y)
  <2>1. CASE b.kind = "NEQBinBC"
    <3>1. q = Listen(Listen(r, x, "onBind", <<c, 1>>), y, "onBind", <<c, 2>>)
      BY <1>1, <2>1
    <3>2. s = NEQPost(r, <<c, 0>>, b)
      BY <2>1
    <3> HIDE DEF q, t, u
    <3> QED
      BY <3>1, <3>2 DEF NEQPost, t, u
  <2>2. CASE b.kind # "NEQBinBC"
    <3>1. q = Listen(Listen(r, x, "onBind", <<c, 0>>), y, "onBind", <<c, 0>>)
      BY <1>1, <2>2
    <3>2. s = NEQLightPost(r, <<c, 0>>, b)
      BY <2>2
    <3> HIDE DEF q, t, u
    <3> QED
      BY <3>1, <3>2 DEF NEQLightPost, ListenBoth, t, u
  <2> QED
    BY <2>1, <2>2
<1> HIDE DEF t, u, q
<1>7. QED
  BY <1>4, <1>5, <1>6 DEF Heeds

(* An equality narrows, then listens: if its variables end up bound, it is    *)
(* because the last to be narrowed was narrowed from the other one.           *)
LEMMA EqualPosted ==
  ASSUME Library, program \in Programs, NEW c \in Cons, Body[c].kind = "EQBinBC",
         Body[c].x[1][1] # Body[c].x[2][1],
         NEW r, Ready(r), ~r.failed, \A i \in Parts(c) : r.active[i],
         NEW s, s = EQPost(r, <<c, 0>>, Body[c]), ~s.failed
  PROVE  Heeds(s, c)
<1> DEFINE b == Body[c]
           x == b.x[1]
           y == b.x[2]
           k == b.k
           m == EQNarrow(r, b, 2)
           n == EQNarrow(m, b, 1)
           p == Listen(n, x, "onBounds", <<c, 1>>)
           q == Listen(p, y, "onBounds", <<c, 2>>)
           t == Assign(r, y, Lo(r, x) - k)
           u == Assign(r, x, Lo(r, y) + k)
<1>1. /\ Places(c) = {1, 2} /\ WatchList(c) = "onBounds" /\ "onBounds" \in Lists
      /\ Watcher(c, 1) = <<c, 1>> /\ Watcher(c, 2) = <<c, 2>>
      /\ b.kind \notin Terns /\ b.kind # "EQBinDC"
  <2>1. Len(b.x) = 2 /\ b.parts = 2
    BY ShapeOf DEF Shape, Terns
  <2> QED
    BY <2>1 DEF Places, WatchList, Lists, Watcher, NEQs, Terns
<1>2. <<c, 1>> \in Parts(c) /\ <<c, 2>> \in Parts(c) /\ x \in Views(Vars) /\ y \in Views(Vars) /\ k \in Int
  BY <1>1, WatcherOf, TwoViews
<1>3. \A i, l, z : WellPlaced(<<z, l, <<c, i>> >>)
  BY DEF WellPlaced, Closure, BodyOf, Terns, NEQs
<1>4. \A a : holds(a, c) <=> At(a, x) = At(a, y) + k
  BY Meaning
<1>5. Good(r) /\ Lo(r, x) \in Int /\ Lo(r, y) \in Int
  BY <1>2, ViewBounds DEF Ready
<1>6. ASSUME Bound(r, x), ~t.failed PROVE Entailed(t, c)
  <2>1. Work(c, r, t) /\ Lo(r, x) - k \in Int
    BY <1>2, <1>5, <1>6, EqualWork
  <2>2. LeftIn(t) \subseteq LeftIn(r)
    BY <1>5, <2>1, LeftShrinks DEF Work, Narrows
  <2>3. ASSUME NEW a \in LeftIn(t) PROVE At(a, x) = At(a, y) + k
    <3>1. At(a, y) = Lo(r, x) - k
      BY <1>2, <1>5, <1>6, <2>1, AssignDone
    <3>2. At(a, x) = Lo(r, x) /\ At(a, x) \in Int
      BY <1>2, <1>5, <1>6, <2>2, ViewOf
    <3> QED
      BY <1>2, <3>1, <3>2
  <2> QED
    BY <1>4, <2>3 DEF Entailed
<1>7. ASSUME Bound(r, y), ~u.failed PROVE Entailed(u, c)
  <2>1. Work(c, r, u) /\ Lo(r, y) + k \in Int
    BY <1>2, <1>5, <1>7, EqualWork
  <2>2. LeftIn(u) \subseteq LeftIn(r)
    BY <1>5, <2>1, LeftShrinks DEF Work, Narrows
  <2>3. ASSUME NEW a \in LeftIn(u) PROVE At(a, x) = At(a, y) + k
    <3>1. At(a, x) = Lo(r, y) + k
      BY <1>2, <1>5, <1>7, <2>1, AssignDone
    <3>2. At(a, y) = Lo(r, y)
      BY <1>2, <1>5, <1>7, <2>2, ViewOf
    <3> QED
      BY <3>1, <3>2
  <2> QED
    BY <1>4, <2>3 DEF Entailed
<1>8. ASSUME ~q.failed PROVE Heeds(q, c)
  <2> HIDE DEF x, y, k
  <2>1. Work(c, r, m)
    BY EqualWork
  <2>2. Ready(m)
    BY <2>1 DEF Work
  <2>3. Work(c, m, n)
    BY <2>2, EqualWork
  <2>4. Ready(n)
    BY <2>3 DEF Work
  <2> HIDE DEF m
  <2>5. /\ ~n.failed /\ ~m.failed /\ Bound(m, x) => Entailed(n, c)
        /\ ~n.failed /\ ~m.failed => n.dom[x[1]] = m.dom[x[1]]
    <3>1. x[1] \in Vars /\ x[1] # y[1]
      BY <1>2, ViewFields DEF x, y, b
    <3> QED
      BY <2>2, <3>1, EqualFixed DEF x, y, b
  <2> HIDE DEF n
  <2>6. Work(c, n, p)
    BY <1>1, <1>2, <1>3, <2>4, WorkListen
  <2>7. Ready(p)
    BY <2>6 DEF Work
  <2> HIDE DEF p
  <2>8. Work(c, p, q)
    BY <1>1, <1>2, <1>3, <2>7, WorkListen
  <2> HIDE DEF q
  <2>9. ~p.failed /\ ~n.failed /\ ~m.failed
    BY <1>8, <2>3, <2>6, <2>8 DEF Work
  <2>10. \A i \in Parts(c) : n.active[i]
    BY <2>1, <2>3 DEF Work
  <2>11. Good(n) /\ Good(p) /\ Good(q)
    BY <2>4, <2>7, <2>8 DEF Work, Ready
  <2>12. Watched(q, c) /\ q.dom = n.dom
    BY <1>1, <2>9, <2>10, <2>11, WatchTwo DEF p, q, x, y, b
  <2>13. Fixed(q, c) => Bound(m, x)
    <3>1. Fixed(q, c) => Singleton(q.dom[x[1]])
      BY <1>1 DEF Fixed, Bound, x, b
    <3> QED
      BY <2>5, <2>9, <2>12, <3>1 DEF Bound
  <2>14. LeftIn(q) = LeftIn(n)
    BY <2>12 DEF LeftIn
  <2>15. Fixed(q, c) => Entailed(q, c)
    BY <2>5, <2>9, <2>13, <2>14 DEF Entailed
  <2> QED
    BY <2>12, <2>15 DEF Heeds
<1>9. \/ s = t /\ Bound(r, x)
      \/ s = u /\ Bound(r, y)
      \/ s = q
  BY DEF EQPost
<1> HIDE DEF t, u, q
<1>10. QED
  BY <1>6, <1>7, <1>8, <1>9 DEF Heeds

LEMMA TernListensIn ==
  ASSUME Library, program \in Programs, NEW c \in Cons, Body[c].kind \in Terns, NEW r, Ready(r), ~r.failed,
         NEW n \in 1..3
  PROVE  LET s == TernListen(r, Body[c], c, n)
         IN /\ Ready(s) /\ ~s.failed /\ s.dom = r.dom /\ s.active = r.active
            /\ Listening(r) \subseteq Listening(s)
            /\ <<Body[c].x[n][1], WatchList(c), Watcher(c, n)>> \in Listening(s)
<1> DEFINE s == TernListen(r, Body[c], c, n)
<1>1. Work(c, r, s)
  BY TernListens
<1>2. /\ Body[c].parts = 3 /\ n \in Places(c) /\ WatchList(c) = "onBounds" /\ "onBounds" \in Lists
      /\ Watcher(c, n) = <<c, n>>
  <2>1. Body[c].parts = 3 /\ Len(Body[c].x) = 3
    BY ShapeOf DEF Shape
  <2> QED
    BY <2>1 DEF Places, WatchList, Lists, Watcher, NEQs, Terns
<1>3. Body[c].x[n] \in Views(Vars) /\ Watcher(c, n) \in Ids
  BY <1>2, WatcherOf
<1>4. Good(r) /\ Good(s) /\ Ready(s)
  BY <1>1 DEF Work, Ready
<1>5. s = Listen(r, Body[c].x[n], WatchList(c), Watcher(c, n))
  BY <1>2 DEF TernListen
<1>6. QED
  <2> HIDE DEF s
  <2>1. /\ Ready(s) /\ ~s.failed /\ s.dom = r.dom /\ s.active = r.active
        /\ Listening(r) \subseteq Listening(s)
        /\ <<Body[c].x[n][1], WatchList(c), Watcher(c, n)>> \in Listening(s)
    BY <1>2, <1>3, <1>4, <1>5, ListenAdds
  <2> QED
    BY <2>1 DEF s

(* So does a sum of two.                                                      *)
LEMMA TernRelated ==
  ASSUME Library, program \in Programs, NEW c \in Cons, Body[c].kind \in Terns,
         Body[c].x[3][1] \notin {Body[c].x[1][1], Body[c].x[2][1]},
         NEW r, Ready(r), ~r.failed, \A i \in Parts(c) : r.active[i],
         NEW s, s = TernRelate(r, <<c, 0>>, Body[c]), ~s.failed
  PROVE  Heeds(s, c)
<1> DEFINE b == Body[c]
           k == TernNarrow(r, b, 1)
           m == TernNarrow(k, b, 2)
           n == TernNarrow(m, b, 3)
           p == TernListen(n, b, c, 1)
           q == TernListen(p, b, c, 2)
           o == TernListen(q, b, c, 3)
<1>1. 1 \in 1..3 /\ 2 \in 1..3 /\ 3 \in 1..3 /\ Places(c) = {1, 2, 3}
  <2>1. Len(Body[c].x) = 3
    BY ShapeOf DEF Shape
  <2> QED
    BY <2>1 DEF Places
<1>2. s = o
  BY DEF TernRelate
<1>3. Work(c, r, k)
  BY <1>1, TernWork
<1>4. Ready(k)
  BY <1>3 DEF Work
<1> HIDE DEF k
<1>5. Work(c, k, m)
  BY <1>1, <1>4, TernWork
<1>6. Ready(m)
  BY <1>5 DEF Work
<1> HIDE DEF m
<1>7. Work(c, m, n)
  BY <1>1, <1>6, TernWork
<1>8. Ready(n)
  BY <1>7 DEF Work
<1>9. ~m.failed /\ ~n.failed => /\ Bound(m, b.x[1]) /\ Bound(m, b.x[2]) => Entailed(n, c)
                                /\ \A z \in Vars : z # b.x[3][1] => n.dom[z] = m.dom[z]
  <2> SUFFICES ASSUME ~m.failed, ~n.failed
               PROVE  /\ Bound(m, b.x[1]) /\ Bound(m, b.x[2]) => Entailed(n, c)
                      /\ \A z \in Vars : z # b.x[3][1] => n.dom[z] = m.dom[z]
    OBVIOUS
  <2>1. \A j \in 1..3 : j # 3 => j = 1 \/ j = 2
    OBVIOUS
  <2>2. /\ (\A j \in 1..3 : j # 3 => Bound(m, b.x[j])) => Entailed(n, c)
        /\ \A z \in Vars : z # b.x[3][1] => n.dom[z] = m.dom[z]
    BY <1>1, <1>6, TernFixed
  <2> HIDE DEF b, n
  <2> QED
    BY <2>1, <2>2
<1> HIDE DEF n
<1>10. Work(c, n, p)
  BY <1>1, <1>8, TernListens
<1>11. Ready(p)
  BY <1>10 DEF Work
<1>12. Work(c, p, q)
  BY <1>1, <1>11, TernListens
<1>13. Ready(q)
  BY <1>12 DEF Work
<1>14. Work(c, q, o)
  BY <1>1, <1>13, TernListens
<1>15. ~q.failed /\ ~p.failed /\ ~n.failed /\ ~m.failed
  BY <1>2, <1>7, <1>10, <1>12, <1>14 DEF Work
<1> HIDE DEF p, q, o
<1>16. /\ p.dom = n.dom /\ p.active = n.active
       /\ <<b.x[1][1], WatchList(c), Watcher(c, 1)>> \in Listening(p)
  <2>1. p = TernListen(n, Body[c], c, 1)
    BY DEF p
  <2>2. 1 \in 1..3 /\ Ready(n) /\ ~n.failed
    BY <1>8, <1>15
  <2> QED
    BY <2>1, <2>2, TernListensIn
<1>17. /\ q.dom = p.dom /\ q.active = p.active /\ Listening(p) \subseteq Listening(q)
       /\ <<b.x[2][1], WatchList(c), Watcher(c, 2)>> \in Listening(q)
  <2>1. q = TernListen(p, Body[c], c, 2)
    BY DEF q
  <2>2. 2 \in 1..3 /\ Ready(p) /\ ~p.failed
    BY <1>11, <1>15
  <2> QED
    BY <2>1, <2>2, TernListensIn
<1>18. /\ o.dom = q.dom /\ o.active = q.active /\ Listening(q) \subseteq Listening(o)
       /\ <<b.x[3][1], WatchList(c), Watcher(c, 3)>> \in Listening(o)
  <2>1. o = TernListen(q, Body[c], c, 3)
    BY DEF o
  <2>2. 3 \in 1..3 /\ Ready(q) /\ ~q.failed
    BY <1>13, <1>15
  <2> QED
    BY <2>1, <2>2, TernListensIn
<1>19. Watched(o, c)
  <2>1. \A j \in Places(c) : o.active[Watcher(c, j)]
    <3>1. o.active = r.active
      BY <1>3, <1>5, <1>7, <1>16, <1>17, <1>18 DEF Work
    <3> QED
      BY <3>1, WatcherOf
  <2> QED
    BY <1>1, <1>16, <1>17, <1>18, <2>1 DEF Watched
<1>20. Fixed(o, c) => Entailed(o, c)
  <2>1. b.x[1][1] \in Vars /\ b.x[2][1] \in Vars
    BY <1>1, WatcherOf, ViewFields
  <2>2. m.dom[b.x[1][1]] = o.dom[b.x[1][1]] /\ m.dom[b.x[2][1]] = o.dom[b.x[2][1]]
    BY <1>9, <1>15, <1>16, <1>17, <1>18, <2>1
  <2>3. Fixed(o, c) => Bound(m, b.x[1]) /\ Bound(m, b.x[2])
    BY <1>1, <2>2 DEF Fixed, Bound
  <2>4. LeftIn(o) = LeftIn(n)
    BY <1>16, <1>17, <1>18 DEF LeftIn
  <2> QED
    BY <1>9, <1>15, <2>3, <2>4 DEF Entailed
<1>21. QED
  BY <1>2, <1>19, <1>20 DEF Heeds

LEMMA TernPosted ==
  ASSUME Library, program \in Programs, NEW c \in Cons, Body[c].kind \in Terns,
         Body[c].x[3][1] \notin {Body[c].x[1][1], Body[c].x[2][1]},
         NEW r, Ready(r), ~r.failed, \A i \in Parts(c) : r.active[i],
         NEW s, ~s.failed,
         s = IF Body[c].kind = "EQTernBC" THEN EQTernPost(r, <<c, 0>>, Body[c])
             ELSE EQTernBoolPost(r, <<c, 0>>, Body[c])
  PROVE  Heeds(s, c)
<1> DEFINE b == Body[c]
           x == b.x[1]
           y == b.x[2]
           z == b.x[3]
           t == Assign(r, z, Lo(r, x) - Lo(r, y))
           u == Assign(r, y, Lo(r, x) - Lo(r, z))
           w == Assign(r, x, Lo(r, y) + Lo(r, z))
           o == TernRelate(r, <<c, 0>>, b)
<1>1. x \in Views(Vars) /\ y \in Views(Vars) /\ z \in Views(Vars)
  BY TwoViews
<1>2. \A a : holds(a, c) <=> At(a, x) = At(a, y) + At(a, z)
  BY Meaning
<1>3. Good(r) /\ \A v \in {x, y, z} : Lo(r, v) \in Int
  BY <1>1, ViewBounds DEF Ready
<1>4. /\ Bound(r, x) /\ Bound(r, y) => Work(c, r, t)
      /\ Bound(r, x) /\ Bound(r, z) => Work(c, r, u)
      /\ Bound(r, y) /\ Bound(r, z) => Work(c, r, w)
  BY TernWork
<1>5. ~o.failed => Heeds(o, c)
  BY TernRelated
<1>6. \/ s = t /\ Bound(r, x) /\ Bound(r, y)
      \/ s = u /\ Bound(r, x) /\ Bound(r, z)
      \/ s = w /\ Bound(r, y) /\ Bound(r, z)
      \/ s = o
  <2>1. s # Fail(r)
    <3>1. r \in States(Vars, Ids, {r.mem}, {r.aux})
      BY <1>3, GoodState
    <3>2. Fail(r).failed
      BY <3>1 DEF Fail, States
    <3> QED
      BY <3>2
  <2> HIDE DEF o
  <2>2. CASE b.kind = "EQTernBC"
    BY <2>2 DEF EQTernPost, o
  <2>3. CASE b.kind # "EQTernBC"
    BY <2>1, <2>3 DEF EQTernBoolPost, o
  <2> QED
    BY <2>2, <2>3
<1> HIDE DEF o, x, y, z, b
<1>7. \A a \in LeftIn(r), v \in {x, y, z} : At(a, v) \in Int /\ (Bound(r, v) => Lo(r, v) = At(a, v))
  BY <1>1, <1>3, ViewOf
<1>8. ASSUME s = t, Bound(r, x), Bound(r, y) PROVE Entailed(s, c)
  <2>1. Lo(r, x) - Lo(r, y) \in Int /\ LeftIn(t) \subseteq LeftIn(r)
    BY <1>3, <1>4, <1>8, LeftShrinks DEF Work, Narrows
  <2>2. \A a \in LeftIn(t) : At(a, z) = Lo(r, x) - Lo(r, y)
    BY <1>1, <1>3, <1>8, <2>1, AssignDone
  <2>3. ASSUME NEW a \in LeftIn(t) PROVE At(a, x) = At(a, y) + At(a, z)
    BY <1>7, <1>8, <2>1, <2>2, <2>3
  <2> QED
    BY <1>2, <1>8, <2>3 DEF Entailed
<1>9. ASSUME s = u, Bound(r, x), Bound(r, z) PROVE Entailed(s, c)
  <2>1. Lo(r, x) - Lo(r, z) \in Int /\ LeftIn(u) \subseteq LeftIn(r)
    BY <1>3, <1>4, <1>9, LeftShrinks DEF Work, Narrows
  <2>2. \A a \in LeftIn(u) : At(a, y) = Lo(r, x) - Lo(r, z)
    BY <1>1, <1>3, <1>9, <2>1, AssignDone
  <2>3. ASSUME NEW a \in LeftIn(u) PROVE At(a, x) = At(a, y) + At(a, z)
    BY <1>7, <1>9, <2>1, <2>2, <2>3
  <2> QED
    BY <1>2, <1>9, <2>3 DEF Entailed
<1>10. ASSUME s = w, Bound(r, y), Bound(r, z) PROVE Entailed(s, c)
  <2>1. Lo(r, y) + Lo(r, z) \in Int /\ LeftIn(w) \subseteq LeftIn(r)
    BY <1>3, <1>4, <1>10, LeftShrinks DEF Work, Narrows
  <2>2. \A a \in LeftIn(w) : At(a, x) = Lo(r, y) + Lo(r, z)
    BY <1>1, <1>3, <1>10, <2>1, AssignDone
  <2>3. ASSUME NEW a \in LeftIn(w) PROVE At(a, x) = At(a, y) + At(a, z)
    BY <1>7, <1>10, <2>1, <2>2, <2>3
  <2> QED
    BY <1>2, <1>10, <2>3 DEF Entailed
<1>11. QED
  BY <1>5, <1>6, <1>8, <1>9, <1>10 DEF Heeds

--------------------------------------------------------------------------------
(* Every method of the library looks after its own constraint.                *)
LEMMA PropagateHeeds ==
  ASSUME Library, Heedful, program \in Programs, NEW i \in Ids, NEW r, Ready(r), ~r.failed,
         Sure(r, {i[1]}), Ripe(r, i), Entailed(r, i[1]) \/ Watched(r, i[1]),
         NEW s, s = propagate(r, i), ~s.failed
  PROVE  Heeds(s, i[1])
<1> DEFINE c == i[1]
           b == Body[c]
<1>1. c \in Cons /\ i \in Parts(c) /\ i = <<c, i[2]>> /\ c \in ConsOf(program)
  BY IdOf DEF Cons
<1>2. s = ArithmeticPropagate(r, i, b)
  BY <1>1 DEF Library
<1>3. Shape(b) /\ b.kind # "EQBinDC"
  BY <1>1, ShapeOf DEF Heedful
<1>4. ASSUME b.parts = 0
      PROVE  i = <<c, 0>>
  <2>1. PICK n \in 0..0 : i = <<c, n>>
    BY <1>1, <1>4 DEF Parts
  <2> QED
    BY <2>1
<1>5. b.kind \in {"LessOrEqual", "NEQBinBCLight"} => i = <<c, 0>>
  BY <1>3, <1>4 DEF Shape
<1>6. CASE Entailed(r, c)
  <2>1. Obeys(c, r, s)
    BY PropagateObeys
  <2>2. Good(r) /\ Shrinks(r, s)
    BY <2>1 DEF Ready, Obeys, Modest, Narrows
  <2>3. Entailed(s, c)
    BY <1>6, <2>2, LeftShrinks DEF Entailed
  <2> QED
    BY <2>3 DEF Heeds
<1>7. ASSUME Watched(r, c)
      PROVE  Heeds(s, c)
  <2> HIDE DEF c
  <2>1. CASE b.kind = "LessOrEqual"
    <3>1. s = LessOrEqualPropagate(r, <<c, 0>>, b)
      BY <1>2, <1>5, <2>1 DEF ArithmeticPropagate
    <3> QED
      BY <1>1, <1>7, <2>1, <3>1, LessHeeds
  <2>2. CASE b.kind = "NEQBinBCLight"
    <3>1. s = NEQLightPropagate(r, <<c, 0>>, b) /\ Ripe(r, <<c, 0>>)
      BY <1>2, <1>5, <2>2 DEF ArithmeticPropagate
    <3> QED
      BY <1>1, <2>2, <3>1, LightHeeds
  <2>3. CASE b.kind = "NEQBinBC"
    <3>1. s = NEQNarrow(r, <<c, i[2]>>, b) /\ Ripe(r, <<c, i[2]>>)
      BY <1>1, <1>2, <2>3 DEF ArithmeticPropagate
    <3> QED
      BY <1>1, <2>3, <3>1, NeqHeeds
  <2>4. CASE b.kind = "EQBinBC"
    <3>1. s = EQNarrow(r, b, i[2]) /\ Sure(r, {c})
      BY <1>2, <2>4 DEF ArithmeticPropagate, c
    <3> QED
      BY <1>1, <1>7, <2>4, <3>1, EqualHeeds
  <2>5. CASE b.kind \in Terns
    <3>1. s = TernWake(r, b, i[2]) /\ Ripe(r, <<c, i[2]>>) /\ Sure(r, {c})
      BY <1>1, <1>2, <2>5 DEF ArithmeticPropagate, Terns, c
    <3> QED
      BY <1>1, <1>7, <2>5, <3>1, TernHeeds
  <2> QED
    BY <1>3, <2>1, <2>2, <2>3, <2>4, <2>5 DEF Shape, Basics, NEQs
<1>8. QED
  BY <1>6, <1>7

LEMMA PostHeeds ==
  ASSUME Library, Heedful, program \in Programs, NEW c \in Cons, NEW r, Ready(r), ~r.failed,
         \A i \in Parts(c) : r.active[i], NEW s, s = post(r, c), ~s.failed
  PROVE  Heeds(s, c)
<1> DEFINE b == Body[c]
           i == <<c, 0>>
<1>1. s = ArithmeticPost(r, i, b)
  BY DEF Library, Cons
<1>2. /\ b.kind \in Basics /\ b.kind # "EQBinDC"
      /\ b.kind = "EQBinBC" => b.x[1][1] # b.x[2][1]
      /\ b.kind \in Terns => b.x[3][1] \notin {b.x[1][1], b.x[2][1]}
  BY ShapeOf DEF Shape, Heedful, Cons
<1>3. CASE b.kind = "LessOrEqual"
  <2>1. s = LessOrEqualPost(r, i, b)
    BY <1>1, <1>3 DEF ArithmeticPost
  <2> QED
    BY <1>3, <2>1, LessPosted
<1>4. CASE b.kind \in NEQs
  <2>1. s = IF b.kind = "NEQBinBC" THEN NEQPost(r, i, b) ELSE NEQLightPost(r, i, b)
    BY <1>1, <1>4 DEF ArithmeticPost, NEQs
  <2> QED
    BY <1>4, <2>1, DifferPosted
<1>5. CASE b.kind = "EQBinBC"
  <2>1. s = EQPost(r, i, b)
    BY <1>1, <1>5 DEF ArithmeticPost
  <2> QED
    BY <1>2, <1>5, <2>1, EqualPosted
<1>6. CASE b.kind \in Terns
  <2>1. s = IF b.kind = "EQTernBC" THEN EQTernPost(r, i, b) ELSE EQTernBoolPost(r, i, b)
    BY <1>1, <1>6 DEF ArithmeticPost, Terns
  <2> QED
    BY <1>2, <1>6, <2>1, TernPosted
<1>7. QED
  BY <1>2, <1>3, <1>4, <1>5, <1>6 DEF Basics

--------------------------------------------------------------------------------
(* The steps of the search heed what was posted.                              *)
LEMMA PartsApartIn ==
  ASSUME Library, program \in Programs, NEW c \in Cons, NEW d, c # d
  PROVE  Parts(c) \subseteq Ids /\ Parts(c) \cap Parts(d) = {} /\ \A i \in Parts(c) : i[1] = c
<1>1. Parts(c) \subseteq Ids
  BY ShapeOf
<1>2. Parts(c) \cap Parts(d) = {} /\ \A i \in Parts(c) : i[1] = c
  BY DEF Parts
<1>3. QED
  BY <1>1, <1>2

LEMMA HeedsNext ==
  ASSUME NEW r, Becomes(r), program' = program, \A c \in posted' : Heeds(r, c)
  PROVE  (\A c \in posted : Heeds(Solver, c))'
<1>1. /\ Solver'.dom = r.dom /\ Solver'.listen = r.listen /\ Solver'.active = r.active
      /\ Solver'.queue = r.queue
  BY DEF Becomes, Solver
<1>2. Vars' = Vars /\ Values' = Values
  BY DEF Vars, Values
<1>3. Listening(Solver)' = Listening(r) /\ Entries(Solver)' = Entries(r) /\ LeftIn(Solver)' = LeftIn(r)
  BY <1>1, <1>2 DEF Listening, Entries, LeftIn, Fits
<1>4. ASSUME NEW c
      PROVE  Heeds(r, c) => Heeds(Solver, c)'
  <2>1. Entailed(r, c) => Entailed(Solver, c)'
    BY <1>3 DEF Entailed
  <2>2. Watched(r, c) => Watched(Solver, c)'
    BY <1>1, <1>3 DEF Watched, Watcher, WatchList, Places
  <2>3. Fixed(Solver, c)' => Fixed(r, c)
    BY <1>1 DEF Fixed, Bound, Places
  <2>4. Awake(r, c) => Awake(Solver, c)'
    BY <1>3 DEF Awake, Watcher, Places
  <2> QED
    BY <2>1, <2>2, <2>3, <2>4 DEF Heeds
<1>5. QED
  BY <1>4

LEMMA PoppedKeeps ==
  ASSUME Good(Solver), queue[Turn] # <<>>
  PROVE  Waiting \subseteq Entries(Popped) \cup {Taken}
<1> DEFINE q == queue[Turn]
           u == [queue EXCEPT ![Turn] = Tail(q)]
<1>1. Turn \in {CLOW, CHIGH} /\ queue \in [{CLOW, CHIGH} -> Seq(Ids)]
  <2>1. Solver.queue \in [{CLOW, CHIGH} -> Seq(Ids)] /\ Solver.queue = queue
    BY GoodFields DEF Solver
  <2> QED
    BY <2>1 DEF Turn
<1>2. q \in Seq(Ids) /\ q # <<>> /\ Taken = Head(q)
  BY <1>1 DEF Taken
<1>3. \A k \in DOMAIN q : q[k] = Taken \/ (k - 1 \in DOMAIN Tail(q) /\ Tail(q)[k - 1] = q[k])
  BY <1>2
<1>4. Popped.queue = u
  BY DEF Popped, Solver
<1>5. \A p \in {CLOW, CHIGH} : u[p] = IF p = Turn THEN Tail(q) ELSE queue[p]
  BY <1>1
<1> HIDE DEF u
<1>6. ASSUME NEW p \in {CLOW, CHIGH}, NEW k \in DOMAIN queue[p], queue[p][k] # Taken
      PROVE  \E j \in DOMAIN u[p] : u[p][j] = queue[p][k]
  <2>1. CASE p = Turn
    BY <1>3, <1>5, <1>6, <2>1
  <2>2. CASE p # Turn
    BY <1>5, <1>6, <2>2
  <2> QED
    BY <2>1, <2>2
<1>7. \A p \in {CLOW, CHIGH} : \A j \in DOMAIN u[p] : u[p][j] \in Entries(Popped)
  BY <1>4 DEF Entries
<1>8. QED
  BY <1>6, <1>7 DEF Waiting

(* Branching and the hook wake up whom they should.                           *)
LEMMA CutHeeds ==
  ASSUME Library, program \in Programs, NEW r, Good(r), NEW s, Good(s), ~s.failed,
         NEW S, Narrows(S, r, s), NEW x, NEW K, Cuts(r, s, x, K), NEW c \in Cons, Heeds(r, c)
  PROVE  Heeds(s, c)
<1>1. Wakes(r, s) /\ Shrinks(r, s) /\ Entries(r) \subseteq Entries(s)
  BY DEF Cuts, Narrows, Grows
<1>2. Minds(Ids, r, s) /\ s.active = r.active
  BY <1>1, WakesMinds DEF Wakes
<1>3. Parts(c) \subseteq Ids
  BY ShapeOf
<1>4. QED
  BY <1>1, <1>2, <1>3, HeedOn

LEMMA DecideHeeds ==
  ASSUME Library, HInv, NEW m \in program.moves, Decide(m[1], m[2]) \/ Refute(m[1], m[2]), pc' # "failed"
  PROVE  (\A c \in posted : Heeds(Solver, c))'
<1> DEFINE x == m[1]
           v == m[2]
           s == DomAssign(Solver, x, v)
           t == DomRemove(Solver, x, v)
           S == States(Vars, Ids, {Solver.mem}, {Solver.aux})
<1>1. IInv /\ Path /\ Ready(Solver)
  BY DEF HInv, AInv, SInv, IInv, Ready
<1>2. x \in Vars /\ v \in Int /\ pc # "failed" /\ Alive /\ program' = program /\ posted' = posted
  BY <1>1, ProgramsAssumption DEF IInv, Vars, Decide, Refute, Idle, Alive
<1>3. /\ program \in Programs /\ Good(Solver) /\ ~Solver.failed /\ posted \in SUBSET Cons
      /\ Identifiers(Ids) /\ Solver \in S
  BY <1>1, <1>2, SolverNow
<1> HIDE DEF x, v
<1>4. Good(s) /\ Narrows(S, Solver, s) /\ Cuts(Solver, s, x, {v})
  <2>1. Ready(s)
    BY <1>1, <1>2, BranchReady
  <2>2. Narrows(S, Solver, s) /\ Cuts(Solver, s, x, {v})
    BY <1>2, <1>3, AssignCuts
  <2> QED
    BY <2>1, <2>2 DEF Ready
<1>5. Good(t) /\ Narrows(S, Solver, t) /\ Cuts(Solver, t, x, Int \ {v})
  <2>1. Ready(t)
    BY <1>1, <1>2, BranchReady
  <2>2. Narrows(S, Solver, t) /\ Cuts(Solver, t, x, Int \ {v})
    BY <1>2, <1>3, RemoveCuts
  <2> QED
    BY <2>1, <2>2 DEF Ready
<1>6. \A c \in posted : Heeds(Solver, c)
  BY <1>2 DEF HInv
<1> HIDE DEF s, t, S
<1>7. ASSUME Narrowed(s)
      PROVE  (\A c \in posted : Heeds(Solver, c))'
  <2>1. Becomes(s) /\ ~s.failed
    BY <1>7 DEF Narrowed, Done
  <2>2. \A c \in posted : Heeds(s, c)
    BY <1>3, <1>4, <1>6, <2>1, CutHeeds
  <2> QED
    BY <1>2, <2>1, <2>2, HeedsNext
<1>8. ASSUME Narrowed(t)
      PROVE  (\A c \in posted : Heeds(Solver, c))'
  <2>1. Becomes(t) /\ ~t.failed
    BY <1>8 DEF Narrowed, Done
  <2>2. \A c \in posted : Heeds(t, c)
    BY <1>3, <1>5, <1>6, <2>1, CutHeeds
  <2> QED
    BY <1>2, <2>1, <2>2, HeedsNext
<1>9. Narrowed(s) \/ Narrowed(t)
  BY DEF Decide, Refute, s, t, x, v
<1>10. QED
  BY <1>7, <1>8, <1>9

LEMMA HooksHeeds ==
  ASSUME Library, HInv, Hooks, pc' # "failed"
  PROVE  (\A c \in posted : Heeds(Solver, c))'
<1> DEFINE v == program.obj[1]
           r == IF Unbeaten THEN Solver
                ELSE IF program.obj[2] = "min" THEN RemoveAbove(Solver, v, primal - 1)
                ELSE RemoveBelow(Solver, v, primal + 1)
           S == States(Vars, Ids, {Solver.mem}, {Solver.aux})
<1>1. Ran(r) /\ pc = "hooks" /\ program' = program /\ posted' = posted
  BY DEF Hooks
<1>2. IInv /\ Path /\ Ready(Solver)
  BY DEF HInv, AInv, SInv, IInv, Ready
<1>3. primal - 1 \in Int /\ primal + 1 \in Int
  BY <1>2 DEF IInv, Control
<1>4. ~Unbeaten => v \in Views(Vars)
  BY <1>2, ProgramsAssumption DEF Unbeaten, Vars, IInv
<1>5. /\ program \in Programs /\ Good(Solver) /\ ~Solver.failed /\ posted \in SUBSET Cons
      /\ Identifiers(Ids) /\ Solver \in S
  BY <1>1, <1>2, SolverNow DEF Alive
<1>6. \A c \in posted : Heeds(Solver, c)
  BY <1>1 DEF HInv
<1>7. ~r.failed /\ Becomes(r)
  BY <1>1 DEF Ran
<1> HIDE DEF v
<1>8. CASE Unbeaten
  BY <1>1, <1>6, <1>7, <1>8, HeedsNext
<1>9. CASE ~Unbeaten
  <2> DEFINE s == RemoveAbove(Solver, v, primal - 1)
             t == RemoveBelow(Solver, v, primal + 1)
  <2>1. Ready(s) /\ Ready(t)
    BY <1>1, <1>2, <1>3, <1>4, <1>9, BranchReady
  <2>2. Narrows(S, Solver, s) /\ Cuts(Solver, s, v[1], Seen(v, AtMost(primal - 1)))
    BY <1>3, <1>4, <1>5, <1>9, ViewRemoveAbove
  <2>3. Narrows(S, Solver, t) /\ Cuts(Solver, t, v[1], Seen(v, AtLeast(primal + 1)))
    BY <1>3, <1>4, <1>5, <1>9, ViewRemoveBelow
  <2>4. r = s \/ r = t
    BY <1>9
  <2> HIDE DEF r, s, t, S
  <2>5. Good(r) /\ Narrows(S, Solver, r) /\ \E K : Cuts(Solver, r, v[1], K)
    BY <2>1, <2>2, <2>3, <2>4 DEF Ready
  <2> PICK K : Cuts(Solver, r, v[1], K)
    BY <2>5
  <2>6. \A c \in posted : Heeds(r, c)
    BY <1>5, <1>6, <1>7, <2>5, CutHeeds
  <2> QED
    BY <1>1, <1>7, <2>6, HeedsNext
<1>10. QED
  BY <1>8, <1>9

LEMMA StepHeeds ==
  ASSUME Library, Heedful, HInv, Step, pc' # "failed"
  PROVE  (\A c \in posted : Heeds(Solver, c))'
<1> DEFINE r == IF active[Taken] THEN propagate(Popped, Taken) ELSE Popped
           d == Taken[1]
<1>1. pc = "loop" /\ queue[Turn] # <<>> /\ Ran(r) /\ program' = program /\ posted' = posted
  BY DEF Step
<1>2. ~r.failed /\ Becomes(r)
  BY <1>1 DEF Ran
<1>3. /\ Ready(Popped) /\ ~Popped.failed /\ Taken \in Ids /\ AInv
      /\ Sure(Popped, {d}) /\ Ripe(Popped, Taken)
  BY <1>1, PoppedReady DEF HInv
<1>4. program \in Programs /\ Good(Solver) /\ posted \subseteq Cons /\ Waiting = Entries(Solver)
  BY InvariantTypes DEF HInv, AInv, SInv, IInv, Control
<1>5. Alike(Solver, Popped) /\ Entries(Solver) \subseteq Entries(Popped) \cup {Taken}
  BY <1>1, <1>4, PoppedAlike, PoppedKeeps
<1>6. Solver.active = active /\ Popped.active = active
  BY <1>5 DEF Alike, Solver
<1> SUFFICES ASSUME NEW c \in posted
             PROVE  Heeds(r, c)
  BY <1>1, <1>2, HeedsNext
<1>7. c \in Cons /\ Heeds(Solver, c)
  BY <1>1, <1>4 DEF HInv
<1>8. /\ Entailed(Popped, c) <=> Entailed(Solver, c)
      /\ Watched(Popped, c) <=> Watched(Solver, c)
      /\ Fixed(Popped, c) <=> Fixed(Solver, c)
  BY <1>5, <1>6, SameWatch DEF Alike
<1>9. ASSUME \A n \in Places(c) : Watcher(c, n) # Taken
      PROVE  Heeds(Popped, c)
  <2>1. Awake(Solver, c) => Awake(Popped, c)
    BY <1>5, <1>9 DEF Awake
  <2> QED
    BY <1>7, <1>8, <2>1 DEF Heeds
<1>10. CASE active[Taken]
  <2>1. r = propagate(Popped, Taken) /\ Obeys(d, Popped, r)
    BY <1>1, <1>3, <1>10, CallsObey
  <2> HIDE DEF r
  <2>2. CASE c = d
    <3>1. Entailed(Popped, d) \/ Watched(Popped, d)
      BY <1>7, <1>8, <2>2 DEF Heeds
    <3> QED
      BY <1>2, <1>3, <1>4, <2>1, <2>2, <3>1, PropagateHeeds
  <2>3. CASE c # d
    <3>1. Heeds(Popped, c)
      BY <1>9, <2>3 DEF Watcher
    <3>2. /\ Shrinks(Popped, r) /\ Entries(Popped) \subseteq Entries(r)
          /\ Minds(Minded(d), Popped, r) /\ KeepsToItself(d, Popped, r)
      BY <2>1 DEF Obeys, Modest, Narrows, Grows
    <3>3. Parts(c) \subseteq Ids /\ Parts(c) \cap Parts(d) = {}
      BY <1>4, <1>7, <2>3, PartsApartIn
    <3>4. Parts(c) \subseteq Minded(d) /\ \A i \in Parts(c) : r.active[i] = Popped.active[i]
      BY <3>2, <3>3 DEF Minded, KeepsToItself
    <3>5. Good(Popped)
      BY <1>3 DEF Ready
    <3> QED
      BY <1>2, <1>4, <1>7, <3>1, <3>2, <3>4, <3>5, HeedOn
  <2> QED
    BY <2>2, <2>3
<1>11. CASE ~active[Taken]
  <2>1. r = Popped
    BY <1>11
  <2>2. CASE Entailed(Solver, c)
    BY <1>8, <2>1, <2>2 DEF Heeds
  <2>3. CASE Watched(Solver, c)
    <3>1. \A n \in Places(c) : Watcher(c, n) # Taken
      BY <1>6, <1>11, <2>3 DEF Watched
    <3> QED
      BY <1>9, <2>1, <3>1
  <2> QED
    BY <1>7, <2>2, <2>3 DEF Heeds
<1>12. QED
  BY <1>10, <1>11

LEMMA PostedHeeds ==
  ASSUME Library, Heedful, HInv, NEW c \in program.cons, NEW fix \in BOOLEAN,
         PostConstraint(c, fix), pc' # "failed"
  PROVE  (\A e \in posted : Heeds(Solver, e))' /\ pc' # "rest"
<1> DEFINE call == Call(c, fix)
           f == Fresh(call)
           s == post(f, c)
           on == [i \in DOMAIN active |-> active[i] \/ i[1] = c]
<1>1. /\ Idle /\ Run(call, <<>>) /\ c \in Cons /\ call.c = c /\ call.rest = FALSE
      /\ program' = program /\ posted' = posted \cup {c} /\ c \notin posted
  BY DEF PostConstraint, Cons, ConsOf, Call
<1>2. AInv /\ program \in Programs /\ Good(Solver) /\ posted \subseteq Cons
  BY DEF HInv, AInv, SInv, IInv, Control
<1>3. Ready(f) /\ ~f.failed /\ ~Nests(call) /\ Obeys(c, f, s) /\ ~aborts(f, c)
  <2>1. ~aborts(f, c)
    BY <1>1, <1>2 DEF Library, Cons
  <2> QED
    BY <1>1, <1>2, <2>1, FreshReady, CallsObey
<1>4. Becomes(s) /\ pc' = Done(s, fix \/ s.asked, <<>>)
  BY <1>1, <1>3 DEF Run, Call
<1>5. ~s.failed /\ pc' # "rest"
  BY <1>4 DEF Done
<1>6. f = New(Solver, c)
  BY <1>1 DEF Fresh
<1>7. /\ f.dom = Solver.dom /\ f.listen = Solver.listen /\ f.queue = Solver.queue
      /\ f.active = on /\ Solver.active = active /\ active \in [Ids -> BOOLEAN]
  <2>1. Solver.active \in [Ids -> BOOLEAN]
    BY <1>2, GoodFields
  <2> QED
    BY <1>6, <2>1 DEF New, Solver
<1>8. \A i \in Ids : f.active[i] = (active[i] \/ i[1] = c)
  BY <1>7
<1> HIDE DEF call, f, on
<1>9. Entries(f) = Entries(Solver)
  BY <1>7 DEF Entries
<1>10. ASSUME NEW e \in posted
       PROVE  Heeds(s, e)
  <2>1. e \in Cons /\ e # c /\ Heeds(Solver, e)
    BY <1>1, <1>2 DEF HInv, Idle
  <2>2. Parts(e) \subseteq Ids /\ Parts(e) \cap Parts(c) = {} /\ \A i \in Parts(e) : i[1] = e
    BY <1>2, <2>1, PartsApartIn
  <2>3. \A i \in Parts(e) : f.active[i] = Solver.active[i]
    <3>1. \A i \in Ids : active[i] \in BOOLEAN
      BY <1>7
    <3>2. \A i \in Parts(e) : i \in Ids /\ i[1] # c
      BY <2>1, <2>2
    <3> QED
      BY <1>7, <1>8, <3>1, <3>2
  <2>4. \A n \in Places(e) : f.active[Watcher(e, n)] = Solver.active[Watcher(e, n)]
    BY <1>2, <2>1, <2>3, WatcherOf
  <2>5. Heeds(f, e)
    <3>1. /\ Entailed(f, e) <=> Entailed(Solver, e)
          /\ Watched(f, e) <=> Watched(Solver, e)
          /\ Fixed(f, e) <=> Fixed(Solver, e)
      BY <1>7, <2>4, SameWatch
    <3> QED
      BY <1>9, <2>1, <3>1 DEF Heeds, Awake
  <2> HIDE DEF s
  <2>6. /\ Shrinks(f, s) /\ Entries(f) \subseteq Entries(s)
        /\ Minds(Minded(c), f, s) /\ KeepsToItself(c, f, s) /\ Good(f)
    BY <1>3 DEF Obeys, Modest, Narrows, Grows, Ready
  <2>7. Parts(e) \subseteq Minded(c) /\ \A i \in Parts(e) : s.active[i] = f.active[i]
    BY <2>2, <2>6 DEF Minded, KeepsToItself
  <2> QED
    BY <1>2, <1>5, <2>1, <2>5, <2>6, <2>7, HeedOn
<1>11. Heeds(s, c)
  <2>1. \A i \in Parts(c) : f.active[i]
    <3>1. \A i \in Parts(c) : i \in Ids /\ i[1] = c
      <4>1. Parts(c) \subseteq Ids
        BY <1>1, <1>2, ShapeOf
      <4> QED
        BY <4>1 DEF Parts
    <3> QED
      BY <1>8, <3>1
  <2> QED
    BY <1>1, <1>2, <1>3, <1>5, <2>1, PostHeeds
<1> HIDE DEF s
<1>12. \A e \in posted' : Heeds(s, e)
  BY <1>1, <1>10, <1>11
<1>13. QED
  BY <1>1, <1>4, <1>5, <1>12, HeedsNext

(* The steps that leave the solver as it is, and the levels.                  *)
LEMMA StillHeeds ==
  ASSUME HInv, UNCHANGED <<program, solver, posted>>, pc # "failed"
  PROVE  (\A c \in posted : Heeds(Solver, c))' /\ Waiting' = Waiting
<1>1. Becomes(Solver)
  BY DEF Becomes, Solver, solver
<1>2. QED
  BY <1>1, HeedsNext DEF HInv, Waiting, solver

Rested(f) == \A c \in f.posted : Rests(f, c)

LEMMA LevelsRest ==
  ASSUME HInv, program' = program,
         \A k \in DOMAIN saved' : (\E j \in DOMAIN saved : saved'[k] = saved[j]) \/ Rested(saved'[k])
  PROVE  (\A k \in DOMAIN saved : \A c \in saved[k].posted : Rests(saved[k], c))'
<1> SUFFICES ASSUME NEW k \in DOMAIN saved', NEW c \in saved'[k].posted
             PROVE  Rests(saved[k], c)'
  OBVIOUS
<1>1. PICK f : f = saved'[k]
  OBVIOUS
<1>2. Rests(f, c)
  BY <1>1 DEF HInv, Rested
<1>3. Vars' = Vars /\ Values' = Values
  BY DEF Vars, Values
<1>4. Listening(saved[k])' = Listening(f) /\ LeftIn(saved[k])' = LeftIn(f)
  BY <1>1, <1>3 DEF Listening, LeftIn, Fits
<1>5. Entailed(f, c) => Entailed(saved[k], c)'
  BY <1>4 DEF Entailed
<1>6. Watched(f, c) => Watched(saved[k], c)'
  BY <1>1, <1>4 DEF Watched, Watcher, WatchList, Places
<1>7. Fixed(saved[k], c)' => Fixed(f, c)
  BY <1>1 DEF Fixed, Bound, Places
<1>8. QED
  BY <1>2, <1>5, <1>6, <1>7 DEF Rests

LEMMA SaveRests ==
  ASSUME HInv, SaveState, Waiting = {}
  PROVE  (\A k \in DOMAIN saved : \A c \in saved[k].posted : Rests(saved[k], c))'
<1> DEFINE f == [dom |-> dom, listen |-> listen, active |-> active, mem |-> mem,
                 posted |-> posted, wanted |-> wanted]
           n == Len(saved)
<1>1. saved' = Append(saved, f) /\ program' = program /\ pc # "failed"
  BY DEF SaveState, Idle
<1>2. Rested(f)
  <2>1. /\ f.dom = Solver.dom /\ f.listen = Solver.listen /\ f.active = Solver.active
        /\ f.posted = posted
    BY DEF Solver
  <2>2. Entries(Solver) = {}
    BY InvariantTypes DEF HInv, AInv, SInv
  <2> HIDE DEF f
  <2> SUFFICES ASSUME NEW c \in posted
               PROVE  Rests(f, c)
    BY <2>1 DEF Rested
  <2>3. Heeds(Solver, c) /\ ~Awake(Solver, c)
    BY <1>1, <2>2 DEF HInv, Awake
  <2>4. /\ Entailed(f, c) <=> Entailed(Solver, c)
        /\ Watched(f, c) <=> Watched(Solver, c)
        /\ Fixed(f, c) <=> Fixed(Solver, c)
    BY <2>1, SameWatch
  <2> QED
    BY <2>3, <2>4 DEF Heeds, Rests
<1> HIDE DEF f
<1>3. saved \in Seq({saved[k] : k \in DOMAIN saved})
  BY DEF HInv, AInv, SInv, IInv, Levels
<1>4. DOMAIN saved' = 1..(n + 1) /\ saved'[n + 1] = f /\ n \in Nat
      /\ DOMAIN saved = 1..n /\ \A k \in 1..n : saved'[k] = saved[k]
  BY <1>1, <1>3
<1> HIDE DEF n
<1>5. \A k \in 1..(n + 1) : k \in 1..n \/ k = n + 1
  BY <1>4
<1>6. \A k \in DOMAIN saved' : (\E j \in DOMAIN saved : saved'[k] = saved[j]) \/ Rested(saved'[k])
  BY <1>2, <1>4, <1>5
<1>7. QED
  BY <1>1, <1>6, LevelsRest

LEMMA RestoreHeeds ==
  ASSUME HInv, RestoreState, Waiting = {}
  PROVE  /\ (\A c \in posted : Heeds(Solver, c))'
         /\ (\A k \in DOMAIN saved : \A c \in saved[k].posted : Rests(saved[k], c))'
<1> DEFINE n == Len(saved)
           top == saved[n]
           r == [dom |-> top.dom, listen |-> top.listen, queue |-> queue, scheduled |-> scheduled,
                 active |-> top.active, mem |-> top.mem, aux |-> aux, failed |-> FALSE, asked |-> FALSE]
<1>1. /\ saved # <<>> /\ saved' = SubSeq(saved, 1, n - 1) /\ program' = program
      /\ dom' = top.dom /\ listen' = top.listen /\ active' = top.active /\ mem' = top.mem
      /\ posted' = top.posted
      /\ UNCHANGED <<queue, scheduled, aux>>
  BY DEF RestoreState
<1>2. saved \in Seq({saved[k] : k \in DOMAIN saved})
  BY DEF HInv, AInv, SInv, IInv, Levels
<1>3. /\ DOMAIN saved' = 1..(n - 1) /\ DOMAIN saved = 1..n /\ n \in Nat /\ n \in DOMAIN saved
      /\ \A k \in 1..(n - 1) : saved'[k] = saved[k]
  BY <1>1, <1>2
<1>4. \A c \in top.posted : Rests(top, c)
  BY <1>3 DEF HInv
<1>5. (\A k \in DOMAIN saved : \A c \in saved[k].posted : Rests(saved[k], c))'
  <2> HIDE DEF n
  <2>1. \A k \in DOMAIN saved' : \E j \in DOMAIN saved : saved'[k] = saved[j]
    BY <1>3
  <2> QED
    BY <1>1, <2>1, LevelsRest
<1> HIDE DEF top
<1>6. Becomes(r) /\ r.dom = top.dom /\ r.listen = top.listen /\ r.active = top.active
  BY <1>1 DEF Becomes
<1> HIDE DEF r
<1>7. ASSUME NEW c \in top.posted
      PROVE  Heeds(r, c)
  <2>1. /\ Entailed(r, c) <=> Entailed(top, c)
        /\ Watched(r, c) <=> Watched(top, c)
        /\ Fixed(r, c) <=> Fixed(top, c)
    BY <1>6, SameWatch
  <2> QED
    BY <1>4, <2>1 DEF Heeds, Rests
<1>8. QED
  BY <1>1, <1>5, <1>6, <1>7, HeedsNext

LEMMA HeedInitially ==
  ASSUME Init
  PROVE  HInv
<1>1. AInv /\ posted = {} /\ DOMAIN saved = {} /\ pc # "rest"
  BY LibraryInitially DEF Init
<1>2. QED
  BY <1>1 DEF HInv

LEMMA HeedInductive ==
  ASSUME Library, Heedful, HInv, [TidyNext]_vars
  PROVE  HInv'
<1>1. AInv'
  BY LibraryInductive DEF HInv
<1>2. ASSUME UNCHANGED <<program, saved>>
      PROVE  (\A k \in DOMAIN saved : \A c \in saved[k].posted : Rests(saved[k], c))'
  BY <1>2, LevelsRest
<1>3. CASE Fixpoint
  <2>1. CASE Hooks
    BY <1>1, <1>2, <2>1, HooksHeeds DEF HInv, Hooks, Ran
  <2>2. CASE Step
    BY <1>1, <1>2, <2>2, StepHeeds DEF HInv, Step, Ran
  <2>3. CASE Finish
    BY <1>1, <1>2, <2>3, StillHeeds DEF HInv, Finish
  <2>4. CASE Resume
    BY <2>4 DEF HInv, AInv, SInv, IInv, Control, Resume
  <2> QED
    BY <1>3, <2>1, <2>2, <2>3, <2>4 DEF Fixpoint
<1>4. CASE Branch
  <2>1. CASE Tighten
    BY <1>1, <1>2, <2>1 DEF HInv, Tighten
  <2>2. CASE \E m \in program.moves : Decide(m[1], m[2]) \/ Refute(m[1], m[2])
    BY <1>1, <1>2, <2>2, DecideHeeds DEF HInv, Decide, Refute, Narrowed, Done
  <2> QED
    BY <1>4, <2>1, <2>2 DEF Branch
<1>5. CASE \E c \in program.cons, fix \in BOOLEAN : PostConstraint(c, fix)
  BY <1>1, <1>2, <1>5, PostedHeeds DEF HInv, PostConstraint
<1>6. CASE Waiting = {} /\ SaveState
  BY <1>1, <1>6, StillHeeds, SaveRests DEF HInv, SaveState, Idle
<1>7. CASE Waiting = {} /\ RestoreState
  BY <1>1, <1>7, RestoreHeeds DEF HInv, RestoreState
<1>8. CASE UNCHANGED vars
  <2>1. UNCHANGED <<program, solver, posted, pc, saved>>
    BY <1>8 DEF vars
  <2>2. pc # "failed" => (\A c \in posted : Heeds(Solver, c))'
    BY <2>1, StillHeeds
  <2>3. Waiting' = Waiting
    BY <2>1 DEF Waiting, solver
  <2> QED
    BY <1>1, <1>2, <2>1, <2>2, <2>3 DEF HInv
<1>9. QED
  BY <1>3, <1>4, <1>5, <1>6, <1>7, <1>8 DEF TidyNext

(* Where all variables are bound, one assignment is left, and it meets what   *)
(* was heeded when the queue is empty.                                        *)
LEMMA HeededHold ==
  ASSUME Library, HInv
  PROVE  SolutionsAreReal
<1> SUFFICES ASSUME pc = "rest", \A x \in Vars : Singleton(dom[x]), NEW c \in posted, NEW a \in Left
             PROVE  holds(a, c)
  BY DEF SolutionsAreReal
<1>1. program \in Programs /\ c \in Cons /\ Waiting = Entries(Solver) /\ Waiting = {}
  BY InvariantTypes DEF HInv, AInv, SInv, IInv, Control
<1>2. Heeds(Solver, c) /\ ~Awake(Solver, c)
  BY <1>1 DEF HInv, Awake
<1>3. Fixed(Solver, c)
  <2>1. ASSUME NEW n \in Places(c)
        PROVE  Singleton(dom[Body[c].x[n][1]])
    BY <1>1, WatcherOf, ViewFields
  <2> QED
    BY <2>1 DEF Fixed, Bound, Solver
<1>4. QED
  BY <1>2, <1>3 DEF Heeds, Entailed, Left

(* At rest with every variable bound, all that was posted on the path holds:  *)
(* what solve() reports is a solution.  A constraint has either been met for  *)
(* good, or it listens to each of its variables with a closure that is on,    *)
(* across backtracks too, and the one that is bound last puts it in the queue *)
(* (solver.cpp:66-93, constraint.cpp:67-227, 264-277).                        *)
THEOREM ArithmeticSolutionsAreReal ==
  ASSUME Library, Heedful
  PROVE  TidySpec => []SolutionsAreReal
<1>1. Init => HInv
  BY HeedInitially
<1>2. HInv /\ [TidyNext]_vars => HInv'
  BY HeedInductive
<1>3. HInv => SolutionsAreReal
  BY HeededHold
<1>4. QED
  BY <1>1, <1>2, <1>3, PTL DEF TidySpec
================================================================================
