----------------------------- MODULE IntervalLemmas -----------------------------
(* Least and greatest elements of sets of integers, induction along an        *)
(* interval, what a recursive function over an interval and a fold over a     *)
(* finite set are, and division: the lemmas the proofs about loops, sums and  *)
(* bounds rest on.                                                            *)
EXTENDS Integers, FiniteSetsExt, FiniteSetTheorems, WellFoundedInduction, TLAPS

(* A non-empty set of naturals has a least element, the one Min chooses       *)
(* (prefixes 0..k are well founded under strict inclusion).                   *)
LEMMA MinNat ==
  ASSUME NEW S \in SUBSET Nat, S # {}
  PROVE  /\ Min(S) \in S
         /\ \A y \in S : Min(S) <= y
<1> DEFINE T == {0..k : k \in S}
<1>1. T \subseteq FiniteSubsetsOf(Nat) /\ T # {}
  <2>1. \A k \in S : IsFiniteSet(0..k) /\ 0..k \in SUBSET Nat
    BY FS_Interval
  <2>2. \A X \in T : X \in FiniteSubsetsOf(Nat)
    BY <2>1 DEF FiniteSubsetsOf
  <2>3. PICK k \in S : TRUE
    OBVIOUS
  <2>4. 0..k \in T
    OBVIOUS
  <2>5. QED
    BY <2>2, <2>4
<1>2. IsWellFoundedOn(StrictSubsetOrdering(Nat), FiniteSubsetsOf(Nat))
  BY FS_StrictSubsetOrderingWellFounded
<1>3. PICK X \in T : \A Y \in T : ~(<<Y, X>> \in StrictSubsetOrdering(Nat))
  <2> HIDE DEF T
  <2> QED
    BY <1>1, <1>2, WFMin
<1>4. PICK x \in S : X = 0..x
  OBVIOUS
<1>5. ASSUME NEW y \in S, y < x PROVE FALSE
  <2>1. <<0..y, 0..x>> \in StrictSubsetOrdering(Nat)
    <3>1. 0..y \subseteq 0..x /\ x \in 0..x /\ x \notin 0..y
      BY <1>5
    <3>2. QED
      BY <3>1 DEF StrictSubsetOrdering
  <2>2. QED
    BY <1>3, <1>4, <2>1
<1>6. \A y \in S : x <= y
  BY <1>5
<1>7. QED
  BY <1>6 DEF Min

(* A non-empty set of integers bounded below has a least element.             *)
LEMMA LeastInt ==
  ASSUME NEW S \in SUBSET Int, NEW m \in Int, S # {}, \A y \in S : m <= y
  PROVE  Min(S) \in S /\ \A y \in S : Min(S) <= y
<1> DEFINE D == {y - m : y \in S}
<1>1. D \in SUBSET Nat /\ D # {}
  <2>1. \A y \in S : y - m \in Nat
    OBVIOUS
  <2> QED
    BY <2>1
<1>2. Min(D) \in D /\ \A y \in D : Min(D) <= y
  BY <1>1, MinNat
<1>3. PICK x \in S : Min(D) = x - m
  BY <1>2
<1>4. \A y \in S : x <= y
  <2> SUFFICES ASSUME NEW y \in S PROVE x <= y
    OBVIOUS
  <2>1. y - m \in D
    OBVIOUS
  <2>2. x - m <= y - m
    BY <1>2, <1>3, <2>1
  <2> QED
    BY <2>2
<1>5. QED
  BY <1>4 DEF Min

(* A non-empty set of integers bounded above has a greatest element.          *)
LEMMA GreatestInt ==
  ASSUME NEW S \in SUBSET Int, NEW m \in Int, S # {}, \A y \in S : y <= m
  PROVE  Max(S) \in S /\ \A y \in S : Max(S) >= y
<1> DEFINE D == {m - y : y \in S}
<1>1. D \in SUBSET Nat /\ D # {}
  OBVIOUS
<1>2. Min(D) \in D /\ \A y \in D : Min(D) <= y
  BY <1>1, MinNat
<1>3. PICK x \in S : Min(D) = m - x
  BY <1>2
<1>4. \A y \in S : x >= y
  <2> SUFFICES ASSUME NEW y \in S PROVE x >= y
    OBVIOUS
  <2>1. m - y \in D
    OBVIOUS
  <2>2. m - x <= m - y
    BY <1>2, <1>3, <2>1
  <2> QED
    BY <2>2
<1>5. QED
  BY <1>4 DEF Max

(* Induction upwards along an interval.                                       *)
LEMMA Upwards ==
  ASSUME NEW a \in Int, NEW b \in Int, NEW P,
         a \in P, \A y \in a..(b - 1) : y \in P => y + 1 \in P
  PROVE  \A y \in a..b : y \in P
<1> DEFINE C == {y \in a..b : y \notin P}
<1> SUFFICES ASSUME C # {} PROVE FALSE
  OBVIOUS
<1>1. Min(C) \in C /\ \A y \in C : Min(C) <= y
  <2>1. C \in SUBSET Int /\ \A y \in C : a <= y
    OBVIOUS
  <2> HIDE DEF C
  <2> QED
    BY <2>1, LeastInt
<1> DEFINE c == Min(C)
<1>2. c \in a..b /\ c \notin P /\ c # a
  BY <1>1
<1>3. c - 1 \in a..(b - 1) /\ c - 1 \notin C /\ (c - 1) + 1 = c
  BY <1>1, <1>2
<1>4. QED
  BY <1>2, <1>3

(* A finite set of integers is bounded.                                       *)
LEMMA FiniteBounds ==
  ASSUME NEW S \in SUBSET Int, IsFiniteSet(S)
  PROVE  \E lo \in Int, hi \in Int : \A y \in S : lo <= y /\ y <= hi
<1>1. PICK n \in Nat : \E f \in [1..n -> S] : \A y \in S : \E i \in 1..n : f[i] = y
  BY FS_NatSurjection DEF ExistsSurjection, Surjection
<1>2. PICK f \in [1..n -> S] : \A y \in S : \E i \in 1..n : f[i] = y
  BY <1>1
<1>0. \A i \in 1..n : f[i] \in S /\ f[i] \in Int
  BY <1>2
<1> DEFINE P == {k \in 0..n : \E lo \in Int, hi \in Int : \A i \in 1..k : lo <= f[i] /\ f[i] <= hi}
<1>3. 0 \in P
  OBVIOUS
<1>4. ASSUME NEW k \in 0..(n - 1), k \in P PROVE k + 1 \in P
  <2>1. PICK lo \in Int, hi \in Int : \A i \in 1..k : lo <= f[i] /\ f[i] <= hi
    BY <1>4
  <2>2. k + 1 \in 1..n /\ f[k + 1] \in Int /\ \A i \in 1..n : f[i] \in Int
    BY <1>0
  <2> DEFINE z == f[k + 1]
             a == IF z < lo THEN z ELSE lo
             b == IF z > hi THEN z ELSE hi
  <2>3. a \in Int /\ b \in Int /\ a <= z /\ z <= b /\ a <= lo /\ hi <= b
    BY <2>2
  <2>4. \A i \in 1..(k + 1) : i \in 1..k \/ f[i] = z
    OBVIOUS
  <2> HIDE DEF z, a, b
  <2>5. \A i \in 1..(k + 1) : a <= f[i] /\ f[i] <= b
    <3> SUFFICES ASSUME NEW i \in 1..(k + 1) PROVE a <= f[i] /\ f[i] <= b
      OBVIOUS
    <3>1. CASE f[i] = z
      BY <2>3, <3>1
    <3>2. CASE i \in 1..k
      <4>1. f[i] \in Int /\ lo <= f[i] /\ f[i] <= hi
        BY <2>1, <2>2, <3>2
      <4> QED
        BY <2>3, <4>1
    <3> QED
      BY <2>4, <3>1, <3>2
  <2>6. k + 1 \in 0..n
    OBVIOUS
  <2> QED
    BY <2>3, <2>5, <2>6
<1>5. n \in P
  <2>1. \A k \in 0..(n - 1) : k \in P => k + 1 \in P
    BY <1>4
  <2>2. 0 \in Int /\ n \in Int
    OBVIOUS
  <2> HIDE DEF P
  <2>3. \A k \in 0..n : k \in P
    BY <1>3, <2>1, <2>2, Upwards
  <2> QED
    BY <2>3
<1>6. PICK lo \in Int, hi \in Int : \A i \in 1..n : lo <= f[i] /\ f[i] <= hi
  BY <1>5
<1>7. \A y \in S : lo <= y /\ y <= hi
  BY <1>2, <1>6
<1>8. QED
  BY <1>7

(* A function on an interval defined from its value at the start and from the *)
(* value before exists, and its values stay where each turn keeps them.       *)
Unrolled(g, a, b, e, F) == g = [y \in a..b |-> IF y = a THEN e ELSE F[y][g[y - 1]]]

LEMMA Unrolls ==
  ASSUME NEW a \in Int, NEW b \in Int, NEW T, NEW F, NEW e, e \in T[a],
         \A y \in (a + 1)..b : \A s \in T[y - 1] : F[y][s] \in T[y]
  PROVE  \E g : /\ Unrolled(g, a, b, e, F)
                /\ \A y \in a..b : g[y] \in T[y]
<1> USE DEF Unrolled
<1> DEFINE P == {m \in Int : \E g : /\ g = [y \in a..m |-> IF y = a THEN e ELSE F[y][g[y - 1]]]
                                    /\ \A y \in a..m : g[y] \in T[y]}
<1>1. CASE b < a
  <2> DEFINE g == [y \in a..b |-> e]
  <2>1. g = [y \in a..b |-> IF y = a THEN e ELSE F[y][g[y - 1]]]
    BY <1>1
  <2> QED
    BY <1>1, <2>1
<1>2. CASE a <= b
  <2>1. a \in P
    <3> DEFINE g == [y \in a..a |-> e]
    <3>1. \A y \in a..a : y = a
      OBVIOUS
    <3>2. g = [y \in a..a |-> IF y = a THEN e ELSE F[y][g[y - 1]]]
      BY <3>1
    <3>3. \A y \in a..a : g[y] \in T[y]
      BY <3>1
    <3> QED
      BY <3>2, <3>3
  <2>2. ASSUME NEW m \in a..(b - 1), m \in P PROVE m + 1 \in P
    <3>1. PICK g : /\ g = [y \in a..m |-> IF y = a THEN e ELSE F[y][g[y - 1]]]
                   /\ \A y \in a..m : g[y] \in T[y]
      BY <2>2
    <3> DEFINE h == [y \in a..(m + 1) |-> IF y = m + 1 THEN F[m + 1][g[m]] ELSE g[y]]
    <3>2. \A y \in a..m : h[y] = g[y] /\ g[y] = IF y = a THEN e ELSE F[y][g[y - 1]]
      BY <3>1
    <3>3. h[m + 1] = F[m + 1][g[m]] /\ h[m] = g[m] /\ (m + 1) - 1 = m /\ m + 1 # a
      OBVIOUS
    <3>4. \A y \in a..(m + 1) : h[y] = IF y = a THEN e ELSE F[y][h[y - 1]]
      <4> SUFFICES ASSUME NEW y \in a..(m + 1) PROVE h[y] = IF y = a THEN e ELSE F[y][h[y - 1]]
        OBVIOUS
      <4> HIDE DEF h
      <4>1. CASE y = m + 1
        BY <3>3, <4>1
      <4>2. CASE y # m + 1
        <5>1. y \in a..m /\ (y # a => y - 1 \in a..m)
          BY <4>2
        <5> QED
          BY <3>2, <5>1
      <4>3. QED
        BY <4>1, <4>2
    <3>5. h = [y \in a..(m + 1) |-> IF y = a THEN e ELSE F[y][h[y - 1]]]
      <4>1. h = [y \in a..(m + 1) |-> h[y]]
        OBVIOUS
      <4> HIDE DEF h
      <4> QED
        BY <3>4, <4>1
    <3>6. \A y \in a..(m + 1) : h[y] \in T[y]
      <4> SUFFICES ASSUME NEW y \in a..(m + 1) PROVE h[y] \in T[y]
        OBVIOUS
      <4>1. CASE y = m + 1
        <5>0. m \in Int /\ m \in a..m /\ m + 1 \in (a + 1)..b /\ (m + 1) - 1 = m
          OBVIOUS
        <5>1. g[m] \in T[(m + 1) - 1]
          BY <3>1, <5>0
        <5>2. F[m + 1][g[m]] \in T[m + 1]
          BY <5>0, <5>1
        <5> QED
          BY <3>3, <4>1, <5>2
      <4>2. CASE y # m + 1
        <5>1. y \in a..m
          BY <4>2
        <5> QED
          BY <3>1, <3>2, <5>1
      <4>3. QED
        BY <4>1, <4>2
    <3> HIDE DEF h
    <3>7. \E f : /\ f = [y \in a..(m + 1) |-> IF y = a THEN e ELSE F[y][f[y - 1]]]
                 /\ \A y \in a..(m + 1) : f[y] \in T[y]
      BY <3>5, <3>6
    <3>8. m + 1 \in Int
      OBVIOUS
    <3> QED
      BY <3>7, <3>8, Zenon
  <2> HIDE DEF P
  <2>3. b \in P
    <3>1. \A y \in a..(b - 1) : y \in P => y + 1 \in P
      BY <2>2
    <3>2. \A y \in a..b : y \in P
      BY <2>1, <3>1, Upwards
    <3> QED
      BY <1>2, <3>2
  <2> QED
    BY <2>3, Zenon DEF P
<1>3. QED
  BY <1>1, <1>2

(* A function on the subsets of a finite set defined from its value at the    *)
(* empty set and from that at the subset less one element, as the folds are.  *)
Folded(g, S, e, F, pick) == g = [T \in SUBSET S |-> IF T = {} THEN e ELSE F[T][g[T \ {pick[T]}]]]

LEMMA FoldExists ==
  ASSUME NEW S, IsFiniteSet(S), NEW e, NEW F, NEW pick, \A T \in SUBSET S : T # {} => pick[T] \in T
  PROVE  \E g : Folded(g, S, e, F, pick)
<1> DEFINE UpTo(n) == {T \in SUBSET S : Cardinality(T) <= n}
           turn(g, T) == IF T = {} THEN e ELSE F[T][g[T \ {pick[T]}]]
           P == {n \in Nat : \E g : g = [T \in UpTo(n) |-> turn(g, T)]}
<1>1. \A T \in SUBSET S : /\ IsFiniteSet(T) /\ Cardinality(T) \in Nat
                          /\ Cardinality(T) <= Cardinality(S)
                          /\ Cardinality(T) = 0 <=> T = {}
  BY FS_Subset, FS_CardinalityType, FS_EmptySet
<1>2. \A T \in SUBSET S : T # {} => /\ T \ {pick[T]} \in SUBSET S
                                    /\ Cardinality(T \ {pick[T]}) = Cardinality(T) - 1
  BY <1>1, FS_RemoveElement
<1>3. 0 \in P
  <2> DEFINE g == [T \in UpTo(0) |-> e]
  <2>1. \A T \in UpTo(0) : T = {}
    BY <1>1
  <2>2. g = [T \in UpTo(0) |-> turn(g, T)]
    BY <2>1
  <2> QED
    BY <2>2
<1>4. ASSUME NEW m \in 0..(Cardinality(S) - 1), m \in P PROVE m + 1 \in P
  <2>1. PICK g : g = [T \in UpTo(m) |-> turn(g, T)]
    BY <1>4
  <2> DEFINE h == [T \in UpTo(m + 1) |-> turn(g, T)]
  <2>2. m \in Nat /\ m + 1 \in Nat
    OBVIOUS
  <2>3. \A T \in UpTo(m) : T \in UpTo(m + 1) /\ g[T] = turn(g, T)
    <3>1. \A T \in UpTo(m) : T \in UpTo(m + 1)
      BY <1>1, <2>2
    <3> HIDE DEF UpTo, turn
    <3> QED
      BY <2>1, <3>1
  <2>4. \A T \in UpTo(m) : h[T] = g[T]
    <3> HIDE DEF turn, UpTo
    <3> QED
      BY <2>3
  <2>5. \A T \in UpTo(m + 1) : T # {} => T \ {pick[T]} \in UpTo(m)
    BY <1>1, <1>2, <2>2
  <2>6. \A T \in UpTo(m + 1) : turn(g, T) = turn(h, T)
    <3> HIDE DEF h, UpTo
    <3> QED
      BY <2>4, <2>5
  <2>7. h = [T \in UpTo(m + 1) |-> turn(h, T)]
    <3> HIDE DEF turn, UpTo
    <3> QED
      BY <2>6
  <2> HIDE DEF h, turn, UpTo
  <2> QED
    BY <2>2, <2>7
<1>5. Cardinality(S) \in P
  <2>1. Cardinality(S) \in Nat
    BY <1>1
  <2>2. \A m \in 0..(Cardinality(S) - 1) : m \in P => m + 1 \in P
    BY <1>4
  <2> HIDE DEF P
  <2>3. \A m \in 0..Cardinality(S) : m \in P
    BY <1>3, <2>1, <2>2, Upwards
  <2> QED
    BY <2>1, <2>3
<1>6. UpTo(Cardinality(S)) = SUBSET S
  BY <1>1
<1>7. PICK g : g = [T \in UpTo(Cardinality(S)) |-> turn(g, T)]
  BY <1>5
<1> HIDE DEF UpTo
<1>8. g = [T \in SUBSET S |-> turn(g, T)]
  BY <1>6, <1>7
<1>9. QED
  BY <1>8 DEF Folded

(* The values of a fold stay where each turn keeps them.                      *)
Turns(S, e, F, pick, V) ==
    /\ \A T \in SUBSET S : T # {} => pick[T] \in T
    /\ e \in V[{}]
    /\ \A T \in SUBSET S : T # {} => \A s \in V[T \ {pick[T]}] : F[T][s] \in V[T]

LEMMA FoldStays ==
  ASSUME NEW S, IsFiniteSet(S), NEW e, NEW F, NEW pick, NEW V, NEW g, Folded(g, S, e, F, pick),
         Turns(S, e, F, pick, V)
  PROVE  \A T \in SUBSET S : g[T] \in V[T]
<1> USE DEF Turns
<1> DEFINE C == {T \in SUBSET S : g[T] \notin V[T]}
           sizes == {Cardinality(T) : T \in C}
<1> SUFFICES ASSUME C # {} PROVE FALSE
  OBVIOUS
<1>1. \A T \in SUBSET S : /\ IsFiniteSet(T) /\ Cardinality(T) \in Nat
  BY FS_Subset, FS_CardinalityType
<1>2. sizes \in SUBSET Nat /\ sizes # {}
  BY <1>1
<1>3. Min(sizes) \in sizes /\ \A n \in sizes : Min(sizes) <= n
  <2> HIDE DEF sizes
  <2> QED
    BY <1>2, MinNat
<1>4. PICK T \in C : \A U \in C : Cardinality(T) <= Cardinality(U)
  <2>1. PICK T \in C : Cardinality(T) = Min(sizes)
    BY <1>3
  <2>2. \A U \in C : Cardinality(U) \in sizes
    OBVIOUS
  <2> HIDE DEF C, sizes
  <2> QED
    BY <1>3, <2>1, <2>2
<1>5. g[T] = IF T = {} THEN e ELSE F[T][g[T \ {pick[T]}]]
  BY DEF Folded
<1>6. T # {}
  BY <1>5
<1> DEFINE U == T \ {pick[T]}
<1>7. U \in SUBSET S /\ Cardinality(U) = Cardinality(T) - 1
  BY <1>1, <1>6, FS_RemoveElement
<1>8. g[U] \in V[U]
  BY <1>1, <1>4, <1>7
<1>9. QED
  BY <1>5, <1>6, <1>8

(* There is a fold, with its values where each turn keeps them.               *)
LEMMA FoldMeets ==
  ASSUME NEW S, IsFiniteSet(S), NEW e, NEW F, NEW pick, NEW V, Turns(S, e, F, pick, V)
  PROVE  \E g : Folded(g, S, e, F, pick) /\ \A T \in SUBSET S : g[T] \in V[T]
<1>1. \A T \in SUBSET S : T # {} => pick[T] \in T
  BY DEF Turns
<1>2. PICK g : Folded(g, S, e, F, pick)
  BY <1>1, FoldExists
<1>3. \A T \in SUBSET S : g[T] \in V[T]
  BY <1>2, FoldStays
<1>4. QED
  BY <1>2, <1>3

(* The greatest element of an initial interval, and what is left without it.  *)
LEMMA Initial ==
  ASSUME NEW n \in Nat
  PROVE  /\ IsFiniteSet(1..n)
         /\ \A T \in SUBSET (1..n) : T # {} => Max(T) \in T
         /\ 1..0 = {}
         /\ \A i \in 1..n : /\ 1..i \in SUBSET (1..n) /\ 1..i # {} /\ Max(1..i) = i
                             /\ (1..i) \ {i} = 1..(i - 1) /\ i - 1 \in 0..n
<1>1. IsFiniteSet(1..n)
  BY FS_Interval
<1>2. ASSUME NEW T \in SUBSET (1..n), T # {} PROVE Max(T) \in T /\ \A y \in T : Max(T) >= y
  <2>1. T \in SUBSET Int /\ n \in Int /\ \A y \in T : y <= n
    OBVIOUS
  <2> QED
    BY <1>2, <2>1, GreatestInt
<1>3. ASSUME NEW i \in 1..n PROVE Max(1..i) = i
  <2>1. 1..i \in SUBSET (1..n) /\ i \in 1..i
    OBVIOUS
  <2>2. Max(1..i) \in 1..i /\ \A y \in 1..i : Max(1..i) >= y
    BY <1>2, <2>1
  <2>3. \A y \in 1..i : y <= i /\ y \in Int
    OBVIOUS
  <2> DEFINE x == Max(1..i)
  <2>4. x \in 1..i /\ x >= i
    BY <2>1, <2>2
  <2> HIDE DEF x
  <2>5. x = i
    BY <2>4
  <2> QED
    BY <2>5 DEF x
<1>4. \A i \in 1..n : /\ 1..i \in SUBSET (1..n) /\ 1..i # {}
                      /\ (1..i) \ {i} = 1..(i - 1) /\ i - 1 \in 0..n
  OBVIOUS
<1>5. QED
  BY <1>1, <1>2, <1>3, <1>4

(* There is a fold of a sequence from left to right, and it stays where each  *)
(* turn keeps it.                                                             *)
Closed(n, D, F) == \A i \in 1..n : \A x \in D : F[i][x] \in D
FoldOf(g, n, e, F) == g = [T \in SUBSET (1..n) |->
                              IF T = {} THEN e ELSE F[Max(T)][g[T \ {Max(T)}]]]

LEMMA FoldTurns ==
  ASSUME NEW n \in Nat, NEW D, NEW e \in D, NEW F, Closed(n, D, F)
  PROVE  \E g : FoldOf(g, n, e, F) /\ \A T \in SUBSET (1..n) : g[T] \in D
<1> USE DEF Closed, FoldOf
<1> DEFINE S == 1..n
           pick == [T \in SUBSET S |-> Max(T)]
           G == [T \in SUBSET S |-> F[Max(T)]]
           V == [T \in SUBSET S |-> D]
<1>1. IsFiniteSet(S) /\ \A T \in SUBSET S : T # {} => Max(T) \in T
  BY Initial
<1>2. Turns(S, e, G, pick, V)
  <2>1. \A T \in SUBSET S : T # {} => pick[T] \in T
    BY <1>1
  <2>2. e \in V[{}]
    OBVIOUS
  <2>3. ASSUME NEW T \in SUBSET S, T # {}, NEW x \in V[T \ {pick[T]}] PROVE G[T][x] \in V[T]
    <3>1. x \in D /\ Max(T) \in S
      BY <1>1, <2>3
    <3> QED
      BY <3>1
  <2> HIDE DEF S, pick, G, V
  <2> QED
    BY <2>1, <2>2, <2>3 DEF Turns
<1>3. PICK g : Folded(g, S, e, G, pick) /\ \A T \in SUBSET S : g[T] \in V[T]
  <2> HIDE DEF S, pick, G, V
  <2> QED
    BY <1>1, <1>2, FoldMeets
<1>4. g = [T \in SUBSET S |-> IF T = {} THEN e ELSE G[T][g[T \ {pick[T]}]]]
  BY <1>3 DEF Folded
<1>5. g = [T \in SUBSET S |-> IF T = {} THEN e ELSE F[Max(T)][g[T \ {Max(T)}]]]
  BY <1>4
<1>6. \A T \in SUBSET S : g[T] \in D
  BY <1>3
<1>7. QED
  BY <1>5, <1>6

Follows(g, n, D, e, F) ==
    /\ g[{}] = e
    /\ \A T \in SUBSET (1..n) : T # {} /\ g[T \ {Max(T)}] \in D
                                    => g[T] = F[Max(T)][g[T \ {Max(T)}]]

LEMMA FoldKeeps ==
  ASSUME NEW n \in Nat, NEW D, NEW e \in D, NEW F, Closed(n, D, F), NEW g, Follows(g, n, D, e, F)
  PROVE  \A i \in 0..n : /\ g[1..i] \in D
                         /\ i # 0 => g[1..i] = F[i][g[1..(i - 1)]]
<1> USE DEF Closed, Follows
<1>1. /\ 1..0 = {}
      /\ \A i \in 1..n : /\ 1..i \in SUBSET (1..n) /\ 1..i # {} /\ Max(1..i) = i
                         /\ (1..i) \ {i} = 1..(i - 1) /\ i - 1 \in 0..n
  BY Initial
<1>2. ASSUME NEW i \in 1..n, g[1..(i - 1)] \in D
      PROVE  g[1..i] = F[i][g[1..(i - 1)]] /\ g[1..i] \in D
  <2>1. g[1..i] = F[i][g[1..(i - 1)]]
    BY <1>1, <1>2
  <2> QED
    BY <1>2, <2>1
<1> DEFINE P == {i \in 0..n : g[1..i] \in D}
<1>3. 0 \in P
  BY <1>1
<1>4. ASSUME NEW i \in 0..(n - 1), i \in P PROVE i + 1 \in P
  <2>1. i + 1 \in 1..n /\ i + 1 \in 0..n /\ (i + 1) - 1 = i
    OBVIOUS
  <2>2. g[1..i] \in D
    BY <1>4
  <2> DEFINE j == i + 1
  <2>3. j \in 1..n /\ g[1..(j - 1)] \in D
    BY <2>1, <2>2
  <2> HIDE DEF j
  <2>4. g[1..j] \in D
    BY <1>2, <2>3
  <2> QED
    BY <2>1, <2>4 DEF j
<1>5. \A i \in 0..n : i \in P
  <2>1. 0 \in Int /\ n \in Int
    OBVIOUS
  <2>2. \A i \in 0..(n - 1) : i \in P => i + 1 \in P
    BY <1>4
  <2> HIDE DEF P
  <2> QED
    BY <1>3, <2>1, <2>2, Upwards
<1>6. ASSUME NEW i \in 0..n PROVE g[1..i] \in D /\ (i # 0 => g[1..i] = F[i][g[1..(i - 1)]])
  <2>1. g[1..i] \in D
    BY <1>5
  <2>2. CASE i = 0
    BY <2>1, <2>2
  <2>3. CASE i # 0
    <3>1. i \in 1..n /\ i - 1 \in 0..n
      BY <2>3
    <3>2. g[1..(i - 1)] \in D
      BY <1>5, <3>1
    <3> QED
      BY <1>2, <2>1, <3>1, <3>2
  <2> QED
    BY <2>2, <2>3
<1>7. QED
  BY <1>6

(* What quotient and remainder are.                                           *)
LEMMA DivMod ==
  ASSUME NEW d \in Nat \ {0}, NEW v \in Int
  PROVE  /\ v \div d \in Int /\ v % d \in 0..(d - 1)
         /\ v = d * (v \div d) + (v % d)
  OBVIOUS

(* There is one quotient and one remainder.                                   *)
LEMMA DivUnique ==
  ASSUME NEW d \in Nat \ {0}, NEW k \in Int, NEW b \in 0..(d - 1)
  PROVE  (d * k + b) \div d = k /\ (d * k + b) % d = b
<1> DEFINE v == d * k + b
           q == v \div d
<1>1. v \in Int /\ q \in Int /\ v % d \in 0..(d - 1) /\ v = d * q + (v % d)
  BY DivMod
<1>2. ~(q < k)
  OBVIOUS
<1>3. ~(q > k)
  OBVIOUS
<1>4. QED
  BY <1>1, <1>2, <1>3

(* Quotients rounded down and up, and exact ones.                             *)
LEMMA FloorOrder ==
  ASSUME NEW d \in Nat \ {0}, NEW m \in Int, NEW u \in Int
  PROVE  d * u <= m <=> u <= m \div d
<1> DEFINE q == m \div d
           b == m % d
<1>1. q \in Int /\ b \in 0..(d - 1) /\ m = d * q + b
  BY DivMod
<1>2. \A j, k \in Int : j <= k => d * j <= d * k
  OBVIOUS
<1>3. d * (q + 1) = d * q + d
  BY <1>1
<1> HIDE DEF q, b
<1>4. CASE u <= q
  <2>1. d * u <= d * q
    BY <1>1, <1>2, <1>4
  <2>2. d * u \in Int /\ d * q \in Int
    BY <1>1
  <2> QED
    BY <1>1, <1>4, <2>1, <2>2 DEF q
<1>5. CASE ~(u <= q)
  <2>1. q + 1 <= u /\ q + 1 \in Int
    BY <1>1, <1>5
  <2>2. d * (q + 1) <= d * u
    BY <1>2, <2>1
  <2>3. d * u \in Int /\ d * q \in Int
    BY <1>1
  <2>4. ~(d * u <= m)
    BY <1>1, <1>3, <2>2, <2>3
  <2> QED
    BY <1>5, <2>4 DEF q
<1>6. QED
  BY <1>4, <1>5

LEMMA CeilOrder ==
  ASSUME NEW d \in Nat \ {0}, NEW m \in Int, NEW u \in Int
  PROVE  d * u >= m <=> u >= -((-m) \div d)
<1>1. d * (-u) = -(d * u) /\ d * u \in Int
  OBVIOUS
<1>2. d * (-u) <= -m <=> -u <= (-m) \div d
  BY FloorOrder
<1>3. (-m) \div d \in Int
  BY DivMod
<1>4. QED
  BY <1>1, <1>2, <1>3

LEMMA ExactQuotient ==
  ASSUME NEW d \in Nat \ {0}, NEW m \in Int, NEW u \in Int
  PROVE  d * u = m <=> m % d = 0 /\ u = m \div d
<1> DEFINE q == m \div d
           b == m % d
<1>1. q \in Int /\ b \in 0..(d - 1) /\ m = d * q + b
  BY DivMod
<1>2. d * u = m => m \div d = u /\ m % d = 0
  <2>1. 0 \in 0..(d - 1) /\ d * u + 0 = d * u
    OBVIOUS
  <2>2. (d * u + 0) \div d = u /\ (d * u + 0) % d = 0
    BY <2>1, DivUnique
  <2> QED
    BY <2>1, <2>2
<1>3. b = 0 /\ u = q => d * u = m
  BY <1>1
<1>4. QED
  BY <1>2, <1>3

(* The order of integers is that of their quotients, then of the remainders.  *)
LEMMA DivOrder ==
  ASSUME NEW d \in Nat \ {0}, NEW v \in Int, NEW w \in Int
  PROVE  v <= w <=> \/ v \div d < w \div d
                    \/ v \div d = w \div d /\ v % d <= w % d
<1>1. \A p \in Int, q \in Int : p < q => d * p + d <= d * q
  OBVIOUS
<1>2. /\ v \div d \in Int /\ v % d \in 0..(d - 1) /\ v = d * (v \div d) + (v % d)
      /\ w \div d \in Int /\ w % d \in 0..(d - 1) /\ w = d * (w \div d) + (w % d)
  BY DivMod
<1> DEFINE p == v \div d
           a == v % d
           q == w \div d
           b == w % d
<1> HIDE DEF p, a, q, b
<1>3. /\ p \in Int /\ q \in Int /\ a \in 0..(d - 1) /\ b \in 0..(d - 1)
      /\ v = d * p + a /\ w = d * q + b
  BY <1>2 DEF p, a, q, b
<1>4. p < q => v <= w
  BY <1>1, <1>3
<1>5. q < p => ~(v <= w)
  BY <1>1, <1>3
<1>6. p = q => (v <= w <=> a <= b)
  BY <1>3
<1>7. v <= w <=> p < q \/ (p = q /\ a <= b)
  BY <1>3, <1>4, <1>5, <1>6
<1>8. QED
  BY <1>7 DEF p, a, q, b

(* What a turn brings about and no later one undoes holds in the end.         *)
LEMMA FoldReaches ==
  ASSUME NEW n \in Nat, NEW D, NEW e \in D, NEW F, Closed(n, D, F), NEW g, Follows(g, n, D, e, F),
         NEW j \in 1..n, NEW P, \A x \in D : F[j][x] \in P,
         \A i \in 1..n : \A x \in D : x \in P => F[i][x] \in P
  PROVE  g[1..n] \in P
<1>1. \A i \in 0..n : g[1..i] \in D /\ (i # 0 => g[1..i] = F[i][g[1..(i - 1)]])
  <2> TAKE i \in 0..n
  <2> QED
    BY FoldKeeps
<1> DEFINE R == {i \in 0..n : g[1..i] \in P}
<1>2. j \in R
  <2>1. j - 1 \in 0..n /\ j \in 0..n /\ j # 0
    OBVIOUS
  <2> QED
    BY <1>1, <2>1
<1>3. ASSUME NEW i \in j..(n - 1), i \in R PROVE i + 1 \in R
  <2>1. i + 1 \in 1..n /\ i + 1 \in 0..n /\ i + 1 # 0 /\ (i + 1) - 1 = i /\ i \in 0..n
    OBVIOUS
  <2>2. g[1..(i + 1)] = F[i + 1][g[1..i]] /\ g[1..i] \in D
    BY <1>1, <2>1
  <2> QED
    BY <1>3, <2>1, <2>2
<1> HIDE DEF R
<1>4. \A i \in j..n : i \in R
  BY <1>2, <1>3, Upwards
<1>5. n \in R
  BY <1>4
<1>6. QED
  BY <1>5 DEF R
================================================================================
