---------------------------- MODULE BitDomainProofs ----------------------------
(* For every word width, size and least value: the count over the words       *)
(* counts, the scans end inside the array, the bounds and the size are those  *)
(* of the set, each operation does and tells what its name says, and the      *)
(* whole is an implementation of IntDomain.                                   *)
EXTENDS BitDomain, IntervalLemmas, FunctionTheorems, SequenceTheorems

Bits == 0..(W - 1)
WordOf(v) == (v - IMin) \div W
BitOf(v) == (v - IMin) % W

WordsOK == words \in [0..(NbWords - 1) -> SUBSET Bits]

(* The values whose bits are those of S in word k; the set bits of some words.*)
In(k, S) == {v \in Int : WordOf(v) = k /\ BitOf(v) \in S}
InWords(A) == {v \in Int : WordOf(v) \in A /\ GetBit(v)}

(* The four trailed fields, and when they describe a domain: the bounds lie   *)
(* in the array and are members, the size counts the members.                 *)
FieldsSet == [0..(NbWords - 1) -> SUBSET Bits] \X Int \X Int \X Int

Proper(f) == /\ f \in FieldsSet
             /\ IMin <= f[2] /\ f[3] < IMin + N
             /\ f[2] \in DomainOf(f) /\ f[3] \in DomainOf(f)
             /\ f[4] = Cardinality(DomainOf(f))

(* Every open level has saved a domain, and unless it failed there is one.    *)
IInv == /\ TypeOK
        /\ saved \in Seq(FieldsSet)
        /\ \A k \in DOMAIN saved : Proper(saved[k])
        /\ ~failed => Proper(fields)

(* What a listener that heard H knows of a domain that went from f to g.      *)
Ran(s) == {s[i] : i \in DOMAIN s}

Tells(f, g, H) ==
    /\ H \subseteq {"bind", "change", "changeMin", "changeMax"}
    /\ "change" \in H <=> DomainOf(f) # DomainOf(g)
    /\ "bind" \in H <=> DomainOf(f) # DomainOf(g) /\ g[4] = 1
    /\ "changeMin" \in H <=> f[2] # g[2]
    /\ "changeMax" \in H <=> f[3] # g[3]

Told(cond, n) == IF cond THEN {n} ELSE {}

(* An operation that leaves the values of E: it fails if there are none.      *)
Result(E) ==
    /\ <<words', min', max', sz'>> \in FieldsSet
    /\ failed' = (E = {}) /\ told' \in Seq(Notifications) /\ saved' = saved
    /\ E # {} => /\ Proper(<<words', min', max', sz'>>)
                 /\ DomainOf(<<words', min', max', sz'>>) = E
                 /\ Tells(fields, <<words', min', max', sz'>>, Ran(told'))
--------------------------------------------------------------------------------

(* Each value has one bit in one word, and the words stand in order.          *)
LEMMA Places ==
  ASSUME NEW v \in Int
  PROVE  /\ WordOf(v) \in Int /\ BitOf(v) \in Bits /\ v = IMin + W * WordOf(v) + BitOf(v)
         /\ \A w \in Int : v <= w <=> \/ WordOf(v) < WordOf(w)
                                      \/ WordOf(v) = WordOf(w) /\ BitOf(v) <= BitOf(w)
<1>1. W \in Nat \ {0} /\ IMin \in Int /\ v - IMin \in Int
  BY BitDomainAssumption
<1>2. /\ WordOf(v) \in Int /\ BitOf(v) \in Bits /\ v - IMin = W * WordOf(v) + BitOf(v)
  BY <1>1, DivMod DEF WordOf, BitOf, Bits
<1>3. v = IMin + W * WordOf(v) + BitOf(v)
  BY <1>1, <1>2 DEF Bits
<1>4. ASSUME NEW w \in Int
      PROVE  v <= w <=> \/ WordOf(v) < WordOf(w)
                        \/ WordOf(v) = WordOf(w) /\ BitOf(v) <= BitOf(w)
  <2>1. w - IMin \in Int /\ (v <= w <=> v - IMin <= w - IMin)
    BY <1>1
  <2> QED
    BY <1>1, <2>1, DivOrder DEF WordOf, BitOf
<1>5. QED
  BY <1>2, <1>3, <1>4

(* Each bit of each word stands for one value.                                *)
LEMMA ValueAt ==
  ASSUME NEW k \in Int, NEW b \in Bits
  PROVE  /\ IMin + W * k + b \in Int
         /\ WordOf(IMin + W * k + b) = k /\ BitOf(IMin + W * k + b) = b
<1>1. W \in Nat \ {0} /\ IMin \in Int /\ W * k \in Int /\ b \in Int
  BY BitDomainAssumption DEF Bits
<1>2. (IMin + W * k + b) - IMin = W * k + b
  BY <1>1
<1>3. QED
  BY <1>1, <1>2, DivUnique DEF WordOf, BitOf, Bits

(* A word holds bits, a word past the array too.                              *)
LEMMA WordType ==
  ASSUME WordsOK, NEW k
  PROVE  Word(k) \in SUBSET Bits
  BY DEF WordsOK, Word, Bits

(* As many values as bits.                                                    *)
LEMMA WordCounts ==
  ASSUME NEW k \in Int, NEW S \in SUBSET Bits
  PROVE  IsFiniteSet(In(k, S)) /\ Cardinality(In(k, S)) = Cardinality(S)
<1>1. IsFiniteSet(S)
  <2>1. W \in Nat \ {0} /\ 0 \in Int /\ W - 1 \in Int
    BY BitDomainAssumption
  <2>2. IsFiniteSet(Bits)
    BY <2>1, FS_Interval DEF Bits
  <2> QED
    BY <2>2, FS_Subset
<1> DEFINE f == [b \in S |-> IMin + W * k + b]
<1>2. \A b \in S : f[b] \in Int /\ WordOf(f[b]) = k /\ BitOf(f[b]) = b
  BY ValueAt
<1>3. f \in [S -> In(k, S)]
  BY <1>2 DEF In
<1>4. \A v \in In(k, S) : BitOf(v) \in S /\ f[BitOf(v)] = v
  BY Places DEF In
<1>5. \A a, b \in S : f[a] = f[b] => a = b
  BY <1>2
<1> HIDE DEF f
<1>6. f \in Bijection(S, In(k, S))
  <2>1. \A v \in In(k, S) : \E b \in S : f[b] = v
    BY <1>4
  <2> QED
    BY <1>3, <1>5, <2>1, Fun_IsBij
<1>7. ExistsBijection(S, In(k, S))
  BY <1>6 DEF ExistsBijection
<1>8. QED
  BY <1>1, <1>7, FS_Bijection

(* The set bits of finitely many words are finitely many.                     *)
LEMMA WordsFinite ==
  ASSUME NEW a \in Int, NEW b \in Int, NEW A \in SUBSET (a..b)
  PROVE  IsFiniteSet(InWords(A))
<1>1. W \in Nat \ {0} /\ IMin \in Int /\ W * a \in Int /\ W * b \in Int
  BY BitDomainAssumption
<1> DEFINE lo == IMin + W * a
           hi == IMin + W * b + W
<1>2. InWords(A) \in SUBSET (lo..hi)
  <2> SUFFICES ASSUME NEW v \in Int, WordOf(v) \in a..b PROVE v \in lo..hi
    BY DEF InWords
  <2>1. WordOf(v) \in Int /\ BitOf(v) \in Bits /\ v = IMin + W * WordOf(v) + BitOf(v)
    BY Places
  <2>2. W * a <= W * WordOf(v) /\ W * WordOf(v) <= W * b
    BY <1>1, <2>1
  <2>3. W * WordOf(v) \in Int /\ 0 <= BitOf(v) /\ BitOf(v) < W /\ BitOf(v) \in Int
    BY <1>1, <2>1 DEF Bits
  <2> DEFINE p == W * WordOf(v)
             q == W * a
             r == W * b
  <2> HIDE DEF p, q, r
  <2>4. p \in Int /\ q \in Int /\ r \in Int /\ q <= p /\ p <= r /\ v = IMin + p + BitOf(v)
    BY <1>1, <2>1, <2>2, <2>3 DEF p, q, r
  <2>5. IMin + q <= v /\ v <= IMin + r + W
    BY <1>1, <2>3, <2>4
  <2> QED
    BY <2>5 DEF q, r
<1>3. lo \in Int /\ hi \in Int
  BY <1>1
<1> HIDE DEF lo, hi
<1>4. QED
  BY <1>2, <1>3, FS_Interval, FS_Subset

(* The sum over whole words counts their set bits.                            *)
LEMMA WordsCount ==
  ASSUME WordsOK, NEW a \in Int, NEW b \in Int
  PROVE  MapThenSumSet(LAMBDA k : Cardinality(Word(k)), a..b) = Cardinality(InWords(a..b))
<1> DEFINE A == a..b
           pick == [T \in SUBSET A |-> CHOOSE x \in T : TRUE]
           turn(g, T) == IF T = {} THEN 0
                         ELSE LET x == CHOOSE x \in T : TRUE IN Cardinality(Word(x)) + g[T \ {x}]
           iter == CHOOSE g : g = [T \in SUBSET A |-> turn(g, T)]
           D == Nat \cup {iter[T] : T \in SUBSET A}
           F == [T \in SUBSET A |-> [n \in D |-> Cardinality(Word(pick[T])) + n]]
           V == [T \in SUBSET A |-> {Cardinality(InWords(T))}]
<1>1. IsFiniteSet(A)
  BY FS_Interval
<1>2. \A T \in SUBSET A : T # {} => pick[T] \in T
  OBVIOUS
<1>3. ASSUME NEW T \in SUBSET A, T # {}
      PROVE  /\ Cardinality(InWords(T \ {pick[T]})) \in Nat
             /\ Cardinality(InWords(T)) = Cardinality(Word(pick[T])) + Cardinality(InWords(T \ {pick[T]}))
  <2> DEFINE x == pick[T]
             U == T \ {x}
  <2>1. x \in T /\ x \in Int /\ U \in SUBSET A
    <3>1. x \in T
      BY <1>2, <1>3
    <3> HIDE DEF pick, F, V, D, turn
    <3>2. A \subseteq Int
      OBVIOUS
    <3> QED
      BY <3>1, <3>2
  <2> HIDE DEF x
  <2>2. Word(x) \in SUBSET Bits
    BY WordType
  <2>3. InWords(T) = InWords(U) \cup In(x, Word(x)) /\ InWords(U) \cap In(x, Word(x)) = {}
    BY <2>1 DEF InWords, In, GetBit, WordOf, BitOf
  <2>4. IsFiniteSet(InWords(U)) /\ Cardinality(InWords(U)) \in Nat
    BY <2>1, WordsFinite, FS_CardinalityType
  <2>5. /\ IsFiniteSet(In(x, Word(x))) /\ Cardinality(In(x, Word(x))) = Cardinality(Word(x))
        /\ Cardinality(In(x, Word(x))) \in Nat
    BY <2>1, <2>2, WordCounts, FS_CardinalityType
  <2> DEFINE P == InWords(U)
             Q == In(x, Word(x))
             n == Cardinality(Word(x))
  <2>8. IsFiniteSet(P) /\ IsFiniteSet(Q) /\ P \cap Q = {} /\ InWords(T) = P \cup Q /\ Cardinality(Q) = n
    BY <2>3, <2>4, <2>5
  <2> HIDE DEF P, Q, n
  <2>9. Cardinality(InWords(T)) = Cardinality(P) + n - Cardinality({})
    BY <2>8, FS_Union
  <2>6. Cardinality(InWords(T)) = Cardinality(InWords(U)) + Cardinality(Word(x)) - Cardinality({})
    BY <2>9 DEF P, n
  <2>7. Cardinality(InWords(T)) = Cardinality(Word(x)) + Cardinality(InWords(U))
    BY <2>4, <2>5, <2>6, FS_EmptySet
  <2> QED
    BY <2>4, <2>7 DEF x
<1>4. 0 \in V[{}]
  <2>1. InWords({}) = {}
    BY DEF InWords
  <2> QED
    BY <2>1, FS_EmptySet
<1>5. \A T \in SUBSET A : T # {} => \A s \in V[T \ {pick[T]}] : F[T][s] \in V[T]
  <2> SUFFICES ASSUME NEW T \in SUBSET A, T # {}, NEW s \in V[T \ {pick[T]}]
               PROVE  F[T][s] \in V[T]
    OBVIOUS
  <2>1. s = Cardinality(InWords(T \ {pick[T]})) /\ s \in Nat
    BY <1>3
  <2>2. Cardinality(InWords(T)) = Cardinality(Word(pick[T])) + s
    BY <1>3, <2>1
  <2>3. s \in D
    BY <2>1
  <2> HIDE DEF pick, D
  <2> QED
    BY <2>1, <2>2, <2>3
<1>6. ASSUME NEW g, \A T \in SUBSET A : g[T] \in D
      PROVE  Folded(g, A, 0, F, pick) <=> g = [T \in SUBSET A |-> turn(g, T)]
  <2>1. ASSUME NEW T \in SUBSET A
        PROVE  (IF T = {} THEN 0 ELSE F[T][g[T \ {pick[T]}]]) = turn(g, T)
    <3>1. g[T \ {pick[T]}] \in D
      BY <1>6
    <3>2. F[T][g[T \ {pick[T]}]] = Cardinality(Word(pick[T])) + g[T \ {pick[T]}]
      <4> HIDE DEF D, pick
      <4> QED
        BY <3>1
    <3> HIDE DEF F, D
    <3> QED
      BY <3>2
  <2> HIDE DEF A, F, pick, turn
  <2> QED
    BY <2>1 DEF Folded
<1>7. \A g : Folded(g, A, 0, F, pick) => \A T \in SUBSET A : g[T] \in V[T]
  <2> HIDE DEF A, F, pick, V
  <2>1. Turns(A, 0, F, pick, V)
    BY <1>2, <1>4, <1>5 DEF Turns
  <2> SUFFICES ASSUME NEW g, Folded(g, A, 0, F, pick) PROVE \A T \in SUBSET A : g[T] \in V[T]
    OBVIOUS
  <2> QED
    BY <1>1, <2>1, FoldStays
<1>8. \E g : g = [T \in SUBSET A |-> turn(g, T)]
  <2>1. PICK g : Folded(g, A, 0, F, pick)
    <3> HIDE DEF A, F, pick
    <3> QED
      BY <1>1, <1>2, FoldExists
  <2>2. \A T \in SUBSET A : g[T] \in D
    <3>1. \A T \in SUBSET A : g[T] = Cardinality(InWords(T)) /\ Cardinality(InWords(T)) \in Nat
      BY <1>7, <2>1, WordsFinite, FS_CardinalityType
    <3> QED
      BY <3>1
  <2> HIDE DEF A, F, pick, turn, D
  <2> QED
    BY <1>6, <2>1, <2>2
<1>9. iter = [T \in SUBSET A |-> turn(iter, T)]
  <2> HIDE DEF turn, A
  <2> QED
    BY <1>8
<1>10. Folded(iter, A, 0, F, pick)
  <2>1. \A T \in SUBSET A : iter[T] \in D
    OBVIOUS
  <2> HIDE DEF A, F, pick, turn, D, iter
  <2> QED
    BY <1>6, <1>9, <2>1
<1>11. iter[A] = Cardinality(InWords(A))
  <2> HIDE DEF F, pick, iter
  <2> QED
    BY <1>7, <1>10
<1>12. MapThenSumSet(LAMBDA k : Cardinality(Word(k)), A) = iter[A]
  BY DEF MapThenSumSet, MapThenFoldSet
<1>13. QED
  BY <1>11, <1>12

(* Two disjoint parts of a set of finitely many values.                       *)
LEMMA Disjoint ==
  ASSUME NEW S, NEW T, IsFiniteSet(S), IsFiniteSet(T), S \cap T = {}
  PROVE  IsFiniteSet(S \cup T) /\ Cardinality(S \cup T) = Cardinality(S) + Cardinality(T)
<1>1. Cardinality(S) \in Nat /\ Cardinality(T) \in Nat /\ Cardinality({}) = 0
  BY FS_CardinalityType, FS_EmptySet
<1>2. IsFiniteSet(S \cup T) /\ Cardinality(S \cup T) = Cardinality(S) + Cardinality(T) - Cardinality(S \cap T)
  BY FS_Union
<1>3. Cardinality(S \cap T) = 0
  BY <1>1
<1>4. QED
  BY <1>1, <1>2, <1>3

(* count (domain.cpp:39-76) counts the values whose bit is set, whatever word *)
(* boundaries its arguments lie on, past the array included.                  *)
LEMMA CountCounts ==
  ASSUME WordsOK, NEW from \in Int, NEW to \in Int, from <= to + 1
  PROVE  Count(from, to) = Cardinality({v \in from..to : GetBit(v)})
<1> DEFINE fw == WordOf(from)
           fb == BitOf(from)
           tw == WordOf(to + 1)
           tb == BitOf(to + 1)
           B == {v \in from..to : GetBit(v)}
<1>1. W \in Nat \ {0} /\ IMin \in Int /\ to + 1 \in Int /\ to - IMin + 1 = (to + 1) - IMin
  BY BitDomainAssumption
<1>2. /\ fw \in Int /\ tw \in Int /\ fb \in Bits /\ tb \in Bits
      /\ fw < tw \/ (fw = tw /\ fb <= tb)
  BY <1>1, Places
<1>3. ASSUME NEW v \in Int
      PROVE  /\ WordOf(v) \in Int /\ BitOf(v) \in Bits
             /\ from <= v <=> fw < WordOf(v) \/ (fw = WordOf(v) /\ fb <= BitOf(v))
             /\ v <= to <=> ~(tw < WordOf(v) \/ (tw = WordOf(v) /\ tb <= BitOf(v)))
             /\ GetBit(v) <=> BitOf(v) \in Word(WordOf(v))
  <2>1. v <= to <=> ~(to + 1 <= v)
    OBVIOUS
  <2>2. to + 1 <= v <=> tw < WordOf(v) \/ (tw = WordOf(v) /\ tb <= BitOf(v))
    BY <1>1, Places
  <2> QED
    BY <2>1, <2>2, Places DEF GetBit, WordOf, BitOf
<1>4. Count(from, to) =
        IF fw = tw THEN Cardinality(Word(fw) \cap (fb..(tb - 1)))
        ELSE Cardinality(Word(fw) \cap (fb..(W - 1)))
             + MapThenSumSet(LAMBDA k : Cardinality(Word(k)), (fw + 1)..(tw - 1))
             + Cardinality(Word(tw) \cap (0..(tb - 1)))
  BY <1>1 DEF Count, WordOf, BitOf
<1> HIDE DEF fw, fb, tw, tb
<1>5. \A b \in Bits : b \in Int /\ 0 <= b /\ b <= W - 1
  BY <1>1 DEF Bits
<1>9. fb \in Int /\ tb \in Int /\ 0 <= fb /\ 0 <= tb /\ fb <= W - 1 /\ tb <= W - 1
  BY <1>2, <1>5
<1>10. ASSUME NEW v \in Int
       PROVE  BitOf(v) \in Int /\ WordOf(v) \in Int /\ 0 <= BitOf(v) /\ BitOf(v) <= W - 1
  BY <1>3, <1>5
<1>6. CASE fw = tw
  <2> DEFINE S == Word(fw) \cap (fb..(tb - 1))
  <2>1. S \in SUBSET Bits
    BY WordType
  <2>2. B = In(fw, S)
    <3>1. ASSUME NEW v \in Int
          PROVE  v \in B <=> v \in In(fw, S)
      <4>1. v \in B <=> from <= v /\ v <= to /\ GetBit(v)
        OBVIOUS
      <4>2. v \in In(fw, S) <=> WordOf(v) = fw /\ BitOf(v) \in Word(fw) /\ fb <= BitOf(v) /\ BitOf(v) < tb
        BY <1>9, <1>10 DEF In
      <4> HIDE DEF B
      <4> HIDE DEF S
      <4> QED
        BY <1>2, <1>3, <1>6, <1>9, <1>10, <4>1, <4>2
    <3>2. B \subseteq Int /\ In(fw, S) \subseteq Int
      BY DEF In
    <3> HIDE DEF B, S
    <3> QED
      BY <3>1, <3>2
  <2>3. Count(from, to) = Cardinality(S)
    BY <1>4, <1>6
  <2> HIDE DEF S, B
  <2>4. Cardinality(In(fw, S)) = Cardinality(S)
    BY <1>2, <2>1, WordCounts
  <2>5. Count(from, to) = Cardinality(B)
    BY <2>2, <2>3, <2>4
  <2> QED
    BY <2>5 DEF B
<1>7. CASE fw # tw
  <2> DEFINE S == Word(fw) \cap (fb..(W - 1))
             M == (fw + 1)..(tw - 1)
             T == Word(tw) \cap (0..(tb - 1))
  <2>1. S \in SUBSET Bits /\ T \in SUBSET Bits
    BY WordType
  <2>2. ASSUME NEW v \in Int
        PROVE  /\ v \in B <=> v \in In(fw, S) \/ v \in InWords(M) \/ v \in In(tw, T)
               /\ ~(v \in In(fw, S) /\ v \in InWords(M))
               /\ ~(v \in In(tw, T) /\ v \in InWords(M))
               /\ ~(v \in In(fw, S) /\ v \in In(tw, T))
    <3>1. v \in B <=> from <= v /\ v <= to /\ GetBit(v)
      OBVIOUS
    <3>2. v \in In(fw, S) <=> WordOf(v) = fw /\ BitOf(v) \in Word(fw) /\ fb <= BitOf(v)
      BY <1>1, <1>9, <1>10 DEF In
    <3>3. v \in In(tw, T) <=> WordOf(v) = tw /\ BitOf(v) \in Word(tw) /\ BitOf(v) < tb
      BY <1>1, <1>9, <1>10 DEF In
    <3>4. v \in InWords(M) <=> fw < WordOf(v) /\ WordOf(v) < tw /\ GetBit(v)
      BY <1>2, <1>3 DEF InWords
    <3> HIDE DEF B, S, T, M
    <3> QED
      BY <1>2, <1>3, <1>7, <1>9, <1>10, <3>1, <3>2, <3>3, <3>4
  <2>3. B \subseteq Int /\ In(fw, S) \subseteq Int /\ InWords(M) \subseteq Int /\ In(tw, T) \subseteq Int
    BY DEF In, InWords
  <2>10. fw + 1 \in Int /\ tw - 1 \in Int
    BY <1>2
  <2>4. MapThenSumSet(LAMBDA k : Cardinality(Word(k)), M) = Cardinality(InWords(M))
    BY <2>10, WordsCount
  <2>5. IsFiniteSet(InWords(M))
    BY <2>10, WordsFinite
  <2>6. /\ IsFiniteSet(In(fw, S)) /\ Cardinality(In(fw, S)) = Cardinality(S)
        /\ IsFiniteSet(In(tw, T)) /\ Cardinality(In(tw, T)) = Cardinality(T)
    BY <1>2, <2>1, WordCounts
  <2>7. Count(from, to) = Cardinality(S) + MapThenSumSet(LAMBDA k : Cardinality(Word(k)), M) + Cardinality(T)
    BY <1>4, <1>7
  <2> HIDE DEF B, S, T, M
  <2>8. /\ B = (In(fw, S) \cup InWords(M)) \cup In(tw, T)
        /\ In(fw, S) \cap InWords(M) = {}
        /\ (In(fw, S) \cup InWords(M)) \cap In(tw, T) = {}
    BY <2>2, <2>3
  <2>11. /\ IsFiniteSet(In(fw, S) \cup InWords(M))
         /\ Cardinality(In(fw, S) \cup InWords(M)) = Cardinality(S) + Cardinality(InWords(M))
    BY <2>5, <2>6, <2>8, Disjoint
  <2>12. Cardinality((In(fw, S) \cup InWords(M)) \cup In(tw, T))
            = Cardinality(In(fw, S) \cup InWords(M)) + Cardinality(In(tw, T))
    BY <2>6, <2>8, <2>11, Disjoint
  <2>9. Cardinality(B) = Cardinality(S) + Cardinality(InWords(M)) + Cardinality(T)
    BY <2>6, <2>8, <2>11, <2>12
  <2> QED
    BY <2>4, <2>7, <2>9 DEF B
<1>8. QED
  BY <1>6, <1>7

(* The values of the domain have their bits inside the array.                 *)
LEMMA InArray ==
  ASSUME NEW v \in Int, IMin <= v, v < IMin + N
  PROVE  WordOf(v) \in 0..(NbWords - 1) /\ v \in IMin..(IMin + NbWords * W - 1)
<1> DEFINE n == NbWords
           r == (N + W - 1) % W
<1>1. /\ W \in Nat \ {0} /\ N \in Nat \ {0} /\ IMin \in Int
  BY BitDomainAssumption
<1>2. n \in Int /\ r \in 0..(W - 1) /\ N + W - 1 = W * n + r
  <2>1. N + W - 1 \in Int
    BY <1>1
  <2> QED
    BY <1>1, <2>1, DivMod DEF NbWords
<1>3. WordOf(v) \in Int /\ BitOf(v) \in 0..(W - 1) /\ v = IMin + W * WordOf(v) + BitOf(v)
  BY Places DEF Bits
<1> DEFINE k == WordOf(v)
           b == BitOf(v)
<1> HIDE DEF n, r, k, b
<1>4. /\ n \in Int /\ r \in 0..(W - 1) /\ N + W - 1 = W * n + r
      /\ k \in Int /\ b \in 0..(W - 1) /\ v = IMin + W * k + b
  BY <1>2, <1>3 DEF k, b
<1>5. N <= W * n /\ W * n \in Int /\ W * k \in Int
  BY <1>1, <1>4
<1>6. W * k < W * n
  BY <1>1, <1>4, <1>5
<1>7. 0 <= k
  <2>1. k < 0 => W * k + W <= 0
    BY <1>1, <1>4
  <2> QED
    BY <1>1, <1>4, <1>5, <2>1
<1>8. k < n
  <2>1. n <= k => W * n <= W * k
    BY <1>1, <1>4
  <2> QED
    BY <1>4, <1>5, <1>6, <2>1
<1>9. v <= IMin + n * W - 1
  <2>1. n * W = W * n
    BY <1>1, <1>4
  <2> QED
    BY <1>1, <1>4, <1>5, <2>1
<1>10. n * W \in Int
  BY <1>1, <1>4
<1>11. QED
  BY <1>1, <1>4, <1>7, <1>8, <1>9, <1>10 DEF n, k

(* What the domain of proper fields is.                                       *)
LEMMA ProperDomain ==
  ASSUME NEW f, Proper(f)
  PROVE  /\ f[1] \in [0..(NbWords - 1) -> SUBSET Bits] /\ f[2] \in Int /\ f[3] \in Int /\ f[4] \in Int
         /\ IsFiniteSet(DomainOf(f)) /\ Cardinality(DomainOf(f)) = f[4] /\ f[4] \in Nat \ {0}
         /\ DomainOf(f) \subseteq f[2]..f[3]
         /\ f[2] <= f[3]
         /\ f[4] = 1 <=> f[2] = f[3]
<1>1. f[1] \in [0..(NbWords - 1) -> SUBSET Bits] /\ f[2] \in Int /\ f[3] \in Int /\ f[4] \in Int
  BY DEF Proper, FieldsSet
<1>2. DomainOf(f) \subseteq f[2]..f[3]
  BY DEF DomainOf
<1>3. IsFiniteSet(DomainOf(f))
  BY <1>1, <1>2, FS_Interval, FS_Subset
<1>4. f[2] \in DomainOf(f) /\ f[3] \in DomainOf(f) /\ Cardinality(DomainOf(f)) = f[4]
  BY DEF Proper
<1>5. f[4] \in Nat \ {0}
  BY <1>3, <1>4, FS_CardinalityType, FS_EmptySet
<1>6. f[2] <= f[3]
  BY <1>1, <1>2, <1>4
<1>7. ASSUME f[4] = 1 PROVE f[2] = f[3]
  <2>1. PICK x : DomainOf(f) = {x}
    BY <1>3, <1>4, <1>7, FS_Singleton
  <2> QED
    BY <1>4, <2>1
<1>8. ASSUME f[2] = f[3] PROVE f[4] = 1
  <2>1. DomainOf(f) = {f[2]}
    BY <1>1, <1>2, <1>4, <1>8
  <2> QED
    BY <1>4, <2>1, FS_Singleton
<1>9. QED
  BY <1>1, <1>2, <1>3, <1>4, <1>5, <1>6, <1>7, <1>8

(* The fields as they are: the domain is what the bits between the bounds say.*)
LEMMA DomainNow ==
  ASSUME Proper(fields)
  PROVE  /\ WordsOK /\ min \in Int /\ max \in Int /\ sz \in Nat \ {0}
         /\ IMin <= min /\ max < IMin + N /\ min <= max
         /\ min \in DomainOf(fields) /\ max \in DomainOf(fields)
         /\ sz = Cardinality(DomainOf(fields)) /\ IsFiniteSet(DomainOf(fields))
         /\ \A v \in Int : v \in DomainOf(fields) <=> min <= v /\ v <= max /\ GetBit(v)
         /\ DomainOf(fields) \subseteq min..max
         /\ sz = 1 <=> min = max
<1>1. fields[1] = words /\ fields[2] = min /\ fields[3] = max /\ fields[4] = sz
  BY DEF fields
<1>2. /\ WordsOK /\ min \in Int /\ max \in Int /\ sz \in Nat \ {0} /\ min <= max
      /\ IsFiniteSet(DomainOf(fields)) /\ sz = Cardinality(DomainOf(fields))
      /\ DomainOf(fields) \subseteq min..max /\ (sz = 1 <=> min = max)
  BY <1>1, ProperDomain DEF WordsOK
<1>3. /\ IMin <= min /\ max < IMin + N
      /\ min \in DomainOf(fields) /\ max \in DomainOf(fields)
  BY <1>1 DEF Proper
<1>4. ASSUME NEW v \in Int
      PROVE  v \in DomainOf(fields) <=> min <= v /\ v <= max /\ GetBit(v)
  <2>1. v \in DomainOf(fields) <=> v \in min..max /\ BitOf(v) \in words[WordOf(v)]
    BY <1>1 DEF DomainOf, BitOf, WordOf
  <2>2. ASSUME min <= v, v <= max PROVE WordOf(v) \in DOMAIN words
    <3>1. IMin <= v /\ v < IMin + N
      BY <1>2, <1>3, <2>2, BitDomainAssumption
    <3> QED
      BY <1>2, <3>1, InArray DEF WordsOK
  <2>3. ASSUME min <= v, v <= max PROVE GetBit(v) <=> BitOf(v) \in words[WordOf(v)]
    BY <2>2, <2>3 DEF GetBit, Word, BitOf, WordOf
  <2> QED
    BY <1>2, <2>1, <2>3
<1>5. QED
  BY <1>2, <1>3, <1>4

(* findMin and findMax (domain.cpp:78-109) stay in the array while the other  *)
(* bound lies ahead, and stop at the nearest member.                          *)
LEMMA FoundMin ==
  ASSUME Proper(fields), NEW from \in Int, min <= from, from <= max, NEW m \in FindMin(from)
  PROVE  /\ m \in DomainOf(fields) /\ from <= m
         /\ \A v \in DomainOf(fields) : from <= v => m <= v
<1> DEFINE up == {v \in SetBits : v >= from}
<1>1. \A v \in DomainOf(fields) : v \in Int /\ v \in SetBits /\ (from <= v => v \in up)
  <2> SUFFICES ASSUME NEW v \in DomainOf(fields) PROVE v \in Int /\ v \in SetBits
    OBVIOUS
  <2>1. v \in Int /\ min <= v /\ v <= max /\ GetBit(v)
    BY DomainNow
  <2>2. IMin <= v /\ v < IMin + N
    BY <2>1, DomainNow, BitDomainAssumption
  <2> QED
    BY <2>1, <2>2, InArray DEF SetBits
<1>2. max \in up
  BY <1>1, DomainNow
<1>3. m = Min(up)
  BY <1>2 DEF FindMin
<1>4. up \in SUBSET Int /\ \A v \in up : from <= v /\ GetBit(v)
  BY BitDomainAssumption DEF SetBits
<1> HIDE DEF up
<1>5. m \in up /\ \A v \in up : m <= v
  BY <1>2, <1>3, <1>4, LeastInt
<1>6. m \in DomainOf(fields)
  <2>1. m \in Int /\ GetBit(m) /\ from <= m /\ m <= max
    BY <1>2, <1>4, <1>5
  <2> QED
    BY <2>1, DomainNow
<1>7. QED
  BY <1>1, <1>4, <1>5, <1>6

(* The same downwards.                                                       *)
LEMMA FoundMax ==
  ASSUME Proper(fields), NEW from \in Int, min <= from, from <= max, NEW m \in FindMax(from)
  PROVE  /\ m \in DomainOf(fields) /\ m <= from
         /\ \A v \in DomainOf(fields) : v <= from => v <= m
<1> DEFINE down == {v \in SetBits : v <= from}
<1>1. \A v \in DomainOf(fields) : v \in Int /\ v \in SetBits /\ (v <= from => v \in down)
  <2> SUFFICES ASSUME NEW v \in DomainOf(fields) PROVE v \in Int /\ v \in SetBits
    OBVIOUS
  <2>1. v \in Int /\ min <= v /\ v <= max /\ GetBit(v)
    BY DomainNow
  <2>2. IMin <= v /\ v < IMin + N
    BY <2>1, DomainNow, BitDomainAssumption
  <2> QED
    BY <2>1, <2>2, InArray DEF SetBits
<1>2. min \in down
  BY <1>1, DomainNow
<1>3. m = Max(down)
  BY <1>2 DEF FindMax
<1>4. down \in SUBSET Int /\ \A v \in down : v <= from /\ GetBit(v)
  BY BitDomainAssumption DEF SetBits
<1> HIDE DEF down
<1>5. m \in down /\ \A v \in down : m >= v
  BY <1>2, <1>3, <1>4, GreatestInt
<1>6. m \in DomainOf(fields)
  <2>1. m \in Int /\ GetBit(m) /\ m <= from /\ min <= m
    BY <1>2, <1>4, <1>5
  <2> QED
    BY <2>1, DomainNow
<1>7. QED
  BY <1>1, <1>4, <1>5, <1>6

(* Both give integers wherever they stop.                                     *)
LEMMA FoundType ==
  ASSUME NEW from \in Int
  PROVE  FindMin(from) \subseteq Int /\ FindMax(from) \subseteq Int
<1>1. IMin \in Int /\ NbWords * W \in Int
  <2>1. W \in Nat \ {0} /\ N + W - 1 \in Int /\ IMin \in Int
    BY BitDomainAssumption
  <2>2. NbWords \in Int
    BY <2>1, DivMod DEF NbWords
  <2> QED
    BY <2>1, <2>2
<1> DEFINE up == {v \in SetBits : v >= from}
           down == {v \in SetBits : v <= from}
<1>2. up \in SUBSET Int /\ down \in SUBSET Int /\ (\A v \in up : from <= v) /\ (\A v \in down : v <= from)
  BY <1>1 DEF SetBits
<1>3. /\ FindMin(from) = IF up # {} THEN {Min(up)} ELSE {IMin + NbWords * W, IMin + NbWords * W + 1}
      /\ FindMax(from) = IF down # {} THEN {Max(down)} ELSE {IMin - 1, IMin - 2}
  BY DEF FindMin, FindMax
<1> HIDE DEF up, down
<1>4. (up # {} => Min(up) \in Int) /\ (down # {} => Max(down) \in Int)
  BY <1>2, LeastInt, GreatestInt
<1>5. IMin + NbWords * W \in Int /\ IMin + NbWords * W + 1 \in Int /\ IMin - 1 \in Int /\ IMin - 2 \in Int
  BY <1>1
<1>6. QED
  BY <1>3, <1>4, <1>5

--------------------------------------------------------------------------------
(* The notifications of a sequence made of parts.                             *)
LEMMA RanConcat ==
  ASSUME NEW s \in Seq(Notifications), NEW t \in Seq(Notifications)
  PROVE  s \o t \in Seq(Notifications) /\ Ran(s \o t) = Ran(s) \cup Ran(t)
<1> DEFINE u == s \o t
<1>1. /\ u \in Seq(Notifications) /\ Len(u) = Len(s) + Len(t)
      /\ \A i \in 1..(Len(s) + Len(t)) : u[i] = IF i <= Len(s) THEN s[i] ELSE t[i - Len(s)]
  BY ConcatProperties
<1> HIDE DEF u
<1>2. /\ DOMAIN u = 1..Len(u) /\ DOMAIN s = 1..Len(s) /\ DOMAIN t = 1..Len(t)
      /\ Len(s) \in Nat /\ Len(t) \in Nat
  BY <1>1, LenProperties
<1>3. ASSUME NEW i \in DOMAIN u PROVE u[i] \in Ran(s) \cup Ran(t)
  <2>1. CASE i <= Len(s)
    BY <1>1, <1>2, <2>1 DEF Ran
  <2>2. CASE ~(i <= Len(s))
    <3>1. i - Len(s) \in DOMAIN t /\ u[i] = t[i - Len(s)]
      BY <1>1, <1>2, <2>2
    <3> QED
      BY <3>1 DEF Ran
  <2> QED
    BY <2>1, <2>2
<1>4. ASSUME NEW i \in DOMAIN s PROVE s[i] \in Ran(u)
  <2>1. i \in DOMAIN u /\ u[i] = s[i]
    BY <1>1, <1>2
  <2> QED
    BY <2>1 DEF Ran
<1>5. ASSUME NEW i \in DOMAIN t PROVE t[i] \in Ran(u)
  <2>1. Len(s) + i \in DOMAIN u /\ u[Len(s) + i] = t[i]
    BY <1>1, <1>2
  <2> QED
    BY <2>1 DEF Ran
<1>6. Ran(u) = Ran(s) \cup Ran(t)
  BY <1>3, <1>4, <1>5 DEF Ran
<1>7. QED
  BY <1>1, <1>6 DEF u

(* The parts they are made of.                                                *)
LEMMA RanParts ==
  ASSUME NEW n \in Notifications, NEW m \in Notifications, NEW c \in BOOLEAN
  PROVE  /\ <<>> \in Seq(Notifications) /\ Ran(<<>>) = {}
         /\ <<n>> \in Seq(Notifications) /\ Ran(<<n>>) = {n}
         /\ <<n, m>> \in Seq(Notifications) /\ Ran(<<n, m>>) = {n, m}
         /\ When(c, n) \in Seq(Notifications) /\ Ran(When(c, n)) = IF c THEN {n} ELSE {}
<1>1. <<>> \in Seq(Notifications) /\ Ran(<<>>) = {}
  BY DEF Ran
<1>2. <<n>> \in Seq(Notifications) /\ Ran(<<n>>) = {n}
  BY DEF Ran
<1>3. <<n, m>> \in Seq(Notifications) /\ Ran(<<n, m>>) = {n, m}
  BY DEF Ran
<1>4. QED
  BY <1>1, <1>2, <1>3 DEF When

(* An operation fails when empty() is among what it tells.                    *)
LEMMA Notified ==
  ASSUME NEW s \in Seq(Notifications), Notify(s)
  PROVE  /\ told' \in Seq(Notifications)
         /\ "empty" \in Ran(s) => failed' = TRUE
         /\ "empty" \notin Ran(s) => failed' = FALSE /\ told' = s
<1> DEFINE e == {i \in DOMAIN s : s[i] = "empty"}
<1>1. failed' = (e # {}) /\ told' = IF e = {} THEN s ELSE SubSeq(s, 1, Min(e))
  BY DEF Notify
<1>2. e # {} <=> "empty" \in Ran(s)
  BY DEF Ran
<1>3. DOMAIN s = 1..Len(s) /\ Len(s) \in Nat
  BY LenProperties
<1>4. e # {} => SubSeq(s, 1, Min(e)) \in Seq(Notifications)
  <2> SUFFICES ASSUME e # {} PROVE SubSeq(s, 1, Min(e)) \in Seq(Notifications)
    OBVIOUS
  <2>1. e \in SUBSET Nat
    BY <1>3
  <2>2. Min(e) \in e
    <3> HIDE DEF e
    <3> QED
      BY <2>1, MinNat
  <2>3. Min(e) \in 1..Len(s)
    BY <1>3, <2>2
  <2>4. \A i \in 1..Min(e) : s[i] \in Notifications
    BY <1>3, <2>3, ElementOfSeq
  <2> QED
    BY <2>3, <2>4, SubSeqProperties
<1>5. QED
  BY <1>1, <1>2, <1>4

(* Bounds that move to two members keep what lies between.                    *)
LEMMA Clipped ==
  ASSUME Proper(fields), NEW a \in DomainOf(fields), NEW b \in DomainOf(fields), a <= b, NEW n,
         n = Cardinality({v \in DomainOf(fields) : a <= v /\ v <= b})
  PROVE  /\ Proper(<<words, a, b, n>>)
         /\ DomainOf(<<words, a, b, n>>) = {v \in DomainOf(fields) : a <= v /\ v <= b}
<1> DEFINE g == <<words, a, b, n>>
           E == {v \in DomainOf(fields) : a <= v /\ v <= b}
<1>1. g[1] = words /\ g[2] = a /\ g[3] = b /\ g[4] = n
  OBVIOUS
<1>2. fields[1] = words /\ fields[2] = min /\ fields[3] = max
  BY DEF fields
<1>3. /\ a \in Int /\ b \in Int /\ min <= a /\ b <= max /\ min \in Int /\ max \in Int
      /\ IMin <= min /\ max < IMin + N /\ IsFiniteSet(DomainOf(fields))
      /\ DomainOf(fields) \subseteq min..max
  BY DomainNow
<1>4. DomainOf(g) = E
  BY <1>1, <1>2, <1>3 DEF DomainOf
<1>5. n \in Int
  <2>1. IsFiniteSet(E)
    BY <1>3, FS_Subset
  <2> QED
    BY <2>1, FS_CardinalityType
<1>6. g \in FieldsSet
  BY <1>3, <1>5, DomainNow DEF FieldsSet, WordsOK
<1>7. a \in E /\ b \in E
  BY <1>3
<1>8. IMin <= a /\ b < IMin + N
  BY <1>3, BitDomainAssumption
<1> HIDE DEF g, E
<1>9. Proper(g)
  BY <1>1, <1>4, <1>6, <1>7, <1>8 DEF Proper, E
<1>10. QED
  BY <1>4, <1>9 DEF g, E

(* An operation that returns early leaves the domain as it is, and is silent. *)
LEMMA NothingResult ==
  ASSUME IInv, ~failed, Nothing
  PROVE  Result(DomainOf(fields))
<1>1. Proper(fields) /\ <<words', min', max', sz'>> = fields
  BY DEF IInv, Nothing, fields
<1>2. DomainOf(fields) # {}
  BY <1>1, DomainNow
<1>3. told' = <<>> /\ Ran(told') = {} /\ <<>> \in Seq(Notifications)
  BY RanParts DEF Nothing, Ran
<1>4. failed' = FALSE /\ saved' = saved
  BY DEF Nothing
<1>5. Proper(fields) /\ fields \in FieldsSet
  BY <1>1 DEF Proper
<1>6. QED
  BY <1>1, <1>2, <1>3, <1>4, <1>5 DEF Result, Tells

(* A failing operation.                                                       *)
LEMMA EmptyResult ==
  ASSUME IInv, Notify(<<"empty">>), <<words', min', max', sz'>> \in FieldsSet, saved' = saved
  PROVE  Result({})
<1>1. <<"empty">> \in Seq(Notifications) /\ Ran(<<"empty">>) = {"empty"}
  BY RanParts DEF Notifications
<1>2. failed' = TRUE /\ told' \in Seq(Notifications)
  BY <1>1, Notified
<1>3. QED
  BY <1>2 DEF Result

(* What the invariant says before an operation.                               *)
LEMMA FieldsType ==
  ASSUME IInv
  PROVE  words \in [0..(NbWords - 1) -> SUBSET Bits] /\ min \in Int /\ max \in Int /\ sz \in Int
         /\ fields \in FieldsSet
  BY DEF IInv, TypeOK, FieldsSet, fields, Bits

(* A domain that was clipped, and heard of it.                                *)
LEMMA ClippedResult ==
  ASSUME IInv, ~failed, NEW a \in DomainOf(fields), NEW b \in DomainOf(fields), a <= b,
         min' = a, max' = b, words' = words, saved' = saved,
         sz' = Cardinality({v \in DomainOf(fields) : a <= v /\ v <= b}),
         NEW s \in Seq(Notifications), Notify(s), a # min \/ b # max,
         Ran(s) = {"change"} \cup Told(sz' = 1, "bind")
                             \cup Told(min # a, "changeMin") \cup Told(max # b, "changeMax")
  PROVE  Result({v \in DomainOf(fields) : a <= v /\ v <= b})
<1> DEFINE g == <<words', min', max', sz'>>
           E == {v \in DomainOf(fields) : a <= v /\ v <= b}
<1>1. Proper(fields) /\ fields[2] = min /\ fields[3] = max
  BY DEF IInv, fields
<1>2. Proper(g) /\ DomainOf(g) = E
  BY <1>1, Clipped
<1>3. g[2] = a /\ g[3] = b /\ g[4] = sz'
  OBVIOUS
<1>4. a \in E /\ a \in Int /\ b \in Int /\ min \in Int /\ max \in Int /\ min \in DomainOf(fields)
      /\ max \in DomainOf(fields) /\ min <= a /\ b <= max
  BY <1>1, DomainNow
<1>5. DomainOf(fields) # E
  <2>1. CASE a # min
    <3>1. min \notin E
      BY <1>4, <2>1
    <3> HIDE DEF E
    <3> QED
      BY <1>4, <3>1
  <2>2. CASE b # max
    <3>1. max \notin E
      BY <1>4, <2>2
    <3> HIDE DEF E
    <3> QED
      BY <1>4, <3>1
  <2>3. QED
    BY <2>1, <2>2
<1>6. "empty" \notin Ran(s)
  BY DEF Told
<1>7. failed' = FALSE /\ told' = s
  BY <1>6, Notified
<1> HIDE DEF g, E
<1>8. Tells(fields, g, Ran(s))
  BY <1>1, <1>2, <1>3, <1>5 DEF Tells, Told
<1>9. g \in FieldsSet /\ E # {}
  BY <1>2, <1>4 DEF Proper
<1>10. QED
  BY <1>2, <1>7, <1>8, <1>9 DEF Result, g, E

(* assign (domain.cpp:111-129) keeps at most its value.                       *)
LEMMA AssignResult ==
  ASSUME IInv, NEW v \in Int, Assign(v)
  PROVE  Result({w \in DomainOf(fields) : w = v})
<1>1. ~failed /\ Proper(fields)
  BY DEF Assign, IInv
<1> DEFINE D == DomainOf(fields)
           E == {w \in D : w = v}
<1>2. D \subseteq min..max /\ min \in D /\ max \in D /\ min \in Int /\ max \in Int
      /\ (sz = 1 <=> min = max) /\ \A w \in Int : w \in D <=> min <= w /\ w <= max /\ GetBit(w)
  BY <1>1, DomainNow
<1>3. CASE sz = 1 /\ v = min /\ Nothing
  <2>1. E = D
    BY <1>2, <1>3
  <2> HIDE DEF E, D
  <2>2. Result(E)
    BY <1>1, <1>3, <2>1, NothingResult DEF D
  <2> QED
    BY <2>2 DEF E, D
<1>4. CASE (v < min \/ v > max \/ ~GetBit(v)) /\ Notify(<<"empty">>) /\ sz' = 0 /\ UNCHANGED <<words, min, max, saved>>
  <2>1. v \notin D
    BY <1>2, <1>4
  <2>2. E = {}
    BY <2>1
  <2>3. <<words', min', max', sz'>> \in FieldsSet
    BY <1>4, FieldsType DEF FieldsSet
  <2>4. Result({})
    BY <1>4, <2>3, EmptyResult
  <2> HIDE DEF E, D
  <2>5. Result(E)
    BY <2>2, <2>4
  <2> QED
    BY <2>5 DEF E, D
<1>5. CASE /\ ~(sz = 1 /\ v = min)
           /\ min <= v /\ v <= max /\ GetBit(v)
           /\ min' = v /\ max' = v /\ sz' = 1
           /\ Notify(<<"bind", "change">> \o When(min # v, "changeMin") \o When(max # v, "changeMax"))
           /\ UNCHANGED <<words, saved>>
  <2> DEFINE s == <<"bind", "change">> \o When(min # v, "changeMin") \o When(max # v, "changeMax")
  <2>1. v \in D /\ v <= v
    BY <1>2, <1>5
  <2>2. {w \in D : v <= w /\ w <= v} = E
    <3>1. \A w \in D : w \in Int
      BY <1>2
    <3> HIDE DEF D
    <3> QED
      BY <3>1
  <2>3. Cardinality(E) = 1
    <3>1. E = {v}
      BY <2>1
    <3> QED
      BY <3>1, FS_Singleton
  <2>4. v # min \/ v # max
    BY <1>2, <1>5
  <2>5. s \in Seq(Notifications) /\ Ran(s) = {"bind", "change"} \cup Told(min # v, "changeMin")
                                                                \cup Told(max # v, "changeMax")
    <3> DEFINE a == <<"bind", "change">>
               b == When(min # v, "changeMin")
               c == When(max # v, "changeMax")
    <3>1. a \in Seq(Notifications) /\ Ran(a) = {"bind", "change"}
      BY RanParts DEF Notifications
    <3>2. b \in Seq(Notifications) /\ Ran(b) = Told(min # v, "changeMin")
      BY RanParts DEF Notifications, Told
    <3>3. c \in Seq(Notifications) /\ Ran(c) = Told(max # v, "changeMax")
      BY RanParts DEF Notifications, Told
    <3> HIDE DEF a, b, c
    <3>4. a \o b \in Seq(Notifications) /\ Ran(a \o b) = Ran(a) \cup Ran(b)
      BY <3>1, <3>2, RanConcat
    <3>5. (a \o b) \o c \in Seq(Notifications) /\ Ran((a \o b) \o c) = Ran(a \o b) \cup Ran(c)
      BY <3>3, <3>4, RanConcat
    <3> QED
      BY <3>1, <3>2, <3>3, <3>4, <3>5 DEF a, b, c
  <2>6. Ran(s) = {"change"} \cup Told(sz' = 1, "bind")
                            \cup Told(min # v, "changeMin") \cup Told(max # v, "changeMax")
    BY <1>5, <2>5 DEF Told
  <2>7. Notify(s)
    BY <1>5
  <2> HIDE DEF s, E, D
  <2>8. Result({w \in D : v <= w /\ w <= v})
    BY <1>1, <1>5, <2>1, <2>2, <2>3, <2>4, <2>5, <2>6, <2>7, ClippedResult DEF D
  <2> QED
    BY <2>2, <2>8 DEF E, D
<1>6. QED
  BY <1>3, <1>4, <1>5 DEF Assign

(* What the shared tail of remove tells after the notifications of first.     *)
LEMMA ShrinkTells ==
  ASSUME NEW first \in Seq(Notifications), Shrink(first)
  PROVE  /\ sz' = sz - 1
         /\ \E s \in Seq(Notifications) :
               /\ Notify(s)
               /\ Ran(s) = Ran(first) \cup {"change"} \cup Told(sz' = 1, "bind") \cup Told(sz' = 0, "empty")
<1> DEFINE a == When(sz' = 1, "bind")
           b == When(sz' = 0, "empty")
           c == <<"change">>
           s == first \o a \o b \o c
<1>1. sz' = sz - 1 /\ Notify(s)
  BY DEF Shrink
<1>2. a \in Seq(Notifications) /\ Ran(a) = Told(sz' = 1, "bind")
  BY RanParts DEF Notifications, Told
<1>3. b \in Seq(Notifications) /\ Ran(b) = Told(sz' = 0, "empty")
  BY RanParts DEF Notifications, Told
<1>4. c \in Seq(Notifications) /\ Ran(c) = {"change"}
  BY RanParts DEF Notifications
<1> HIDE DEF a, b, c
<1>5. first \o a \in Seq(Notifications) /\ Ran(first \o a) = Ran(first) \cup Ran(a)
  BY <1>2, RanConcat
<1>6. (first \o a) \o b \in Seq(Notifications) /\ Ran((first \o a) \o b) = Ran(first \o a) \cup Ran(b)
  BY <1>3, <1>5, RanConcat
<1>7. s \in Seq(Notifications) /\ Ran(s) = Ran((first \o a) \o b) \cup Ran(c)
  BY <1>4, <1>6, RanConcat
<1>8. Ran(s) = Ran(first) \cup {"change"} \cup Told(sz' = 1, "bind") \cup Told(sz' = 0, "empty")
  BY <1>2, <1>3, <1>4, <1>5, <1>6, <1>7
<1> HIDE DEF s
<1>9. QED
  BY <1>1, <1>7, <1>8

(* What removeBelow and removeAbove tell.                                     *)
LEMMA CutTells ==
  ASSUME NEW n \in Notifications,
         Notify(<<n, "change">> \o When(sz' = 0, "empty") \o When(sz' = 1, "bind"))
  PROVE  \E s \in Seq(Notifications) :
            /\ Notify(s)
            /\ Ran(s) = {n, "change"} \cup Told(sz' = 0, "empty") \cup Told(sz' = 1, "bind")
<1> DEFINE a == <<n, "change">>
           b == When(sz' = 0, "empty")
           c == When(sz' = 1, "bind")
           s == a \o b \o c
<1>1. a \in Seq(Notifications) /\ Ran(a) = {n, "change"}
  BY RanParts DEF Notifications
<1>2. b \in Seq(Notifications) /\ Ran(b) = Told(sz' = 0, "empty")
  BY RanParts DEF Notifications, Told
<1>3. c \in Seq(Notifications) /\ Ran(c) = Told(sz' = 1, "bind")
  BY RanParts DEF Notifications, Told
<1>4. Notify(s)
  OBVIOUS
<1> HIDE DEF a, b, c
<1>5. a \o b \in Seq(Notifications) /\ Ran(a \o b) = Ran(a) \cup Ran(b)
  BY <1>1, <1>2, RanConcat
<1>6. s \in Seq(Notifications) /\ Ran(s) = Ran(a \o b) \cup Ran(c)
  BY <1>3, <1>5, RanConcat
<1> HIDE DEF s
<1>7. Ran(s) = {n, "change"} \cup Told(sz' = 0, "empty") \cup Told(sz' = 1, "bind")
  BY <1>1, <1>2, <1>3, <1>5, <1>6
<1>8. QED
  BY <1>4, <1>6, <1>7

(* remove of the least value (domain.cpp:137-144).                            *)
LEMMA RemoveMinResult ==
  ASSUME IInv, ~failed, min' \in FindMin(min + 1), Shrink(<<"changeMin">>),
         UNCHANGED <<words, max, saved>>
  PROVE  Result(DomainOf(fields) \ {min})
<1> DEFINE D == DomainOf(fields)
           E == D \ {min}
<1>1. Proper(fields)
  BY DEF IInv
<1>2. /\ D \subseteq min..max /\ min \in D /\ max \in D /\ min \in Int /\ max \in Int /\ min <= max
      /\ (sz = 1 <=> min = max) /\ IsFiniteSet(D) /\ sz = Cardinality(D) /\ sz \in Nat \ {0}
  BY <1>1, DomainNow
<1>3. /\ sz' = sz - 1
      /\ \E s \in Seq(Notifications) :
               /\ Notify(s)
               /\ Ran(s) = {"changeMin"} \cup {"change"} \cup Told(sz' = 1, "bind") \cup Told(sz' = 0, "empty")
  <2>1. <<"changeMin">> \in Seq(Notifications) /\ Ran(<<"changeMin">>) = {"changeMin"}
    BY RanParts DEF Notifications
  <2> DEFINE first == <<"changeMin">>
  <2>2. Shrink(first)
    OBVIOUS
  <2>3. first \in Seq(Notifications) /\ Ran(first) = {"changeMin"}
    BY <2>1
  <2> HIDE DEF first
  <2>4. sz' = sz - 1 /\ \E s \in Seq(Notifications) :
          /\ Notify(s)
          /\ Ran(s) = Ran(first) \cup {"change"} \cup Told(sz' = 1, "bind") \cup Told(sz' = 0, "empty")
    BY <2>2, <2>3, ShrinkTells
  <2> QED
    BY <2>3, <2>4
<1>4. PICK s \in Seq(Notifications) :
               /\ Notify(s)
               /\ Ran(s) = {"changeMin"} \cup {"change"} \cup Told(sz' = 1, "bind") \cup Told(sz' = 0, "empty")
  BY <1>3
<1>5. Cardinality(E) = sz - 1
  BY <1>2, FS_RemoveElement
<1>6. CASE sz = 1
  <2>1. E = {}
    BY <1>2, <1>6
  <2>2. "empty" \in Ran(s)
    BY <1>3, <1>4, <1>6 DEF Told
  <2>3. failed' = TRUE /\ told' \in Seq(Notifications)
    BY <1>4, <2>2, Notified
  <2>4. min' \in Int
    BY <1>2, FoundType
  <2>5. <<words', min', max', sz'>> \in FieldsSet
    <3>1. sz' \in Int
      BY <1>2, <1>3
    <3> QED
      BY <1>2, <2>4, <3>1, FieldsType DEF FieldsSet
  <2>6. Result({})
    BY <2>3, <2>5 DEF Result
  <2> HIDE DEF E, D
  <2>7. Result(E)
    BY <2>1, <2>6
  <2> QED
    BY <2>7 DEF E, D
<1>7. CASE sz # 1
  <2>1. min <= min + 1 /\ min + 1 <= max /\ min + 1 \in Int
    BY <1>2, <1>7
  <2>2. /\ min' \in D /\ min + 1 <= min' /\ \A v \in D : min + 1 <= v => min' <= v
    BY <1>1, <2>1, FoundMin
  <2>3. E = {v \in D : min' <= v /\ v <= max}
    <3>1. \A v \in D : v \in Int /\ min <= v /\ v <= max
      BY <1>2
    <3>2. \A v \in D : v # min => min + 1 <= v
      BY <1>2, <3>1
    <3>3. \A v \in D : v # min <=> min' <= v
      BY <1>2, <2>2, <3>1, <3>2
    <3> HIDE DEF D
    <3> QED
      BY <3>1, <3>3
  <2>4. sz' = Cardinality({v \in D : min' <= v /\ v <= max})
    BY <1>3, <1>5, <2>3
  <2>5. min' <= max /\ min' # min
    BY <1>2, <2>1, <2>2
  <2>6. Ran(s) = {"change"} \cup Told(sz' = 1, "bind")
                            \cup Told(min # min', "changeMin") \cup Told(max # max, "changeMax")
    BY <1>2, <1>3, <1>4, <1>7, <2>5 DEF Told
  <2> DEFINE a == min'
  <2>7. max' = max /\ words' = words /\ saved' = saved /\ a = min'
    OBVIOUS
  <2> HIDE DEF D, E, a
  <2>8. Result({v \in D : a <= v /\ v <= max})
    BY <1>2, <1>4, <2>2, <2>4, <2>5, <2>6, <2>7, ClippedResult DEF D
  <2> QED
    BY <2>3, <2>7, <2>8 DEF D, E
<1>8. QED
  BY <1>6, <1>7

(* remove of the greatest value (domain.cpp:145-151).                         *)
LEMMA RemoveMaxResult ==
  ASSUME IInv, ~failed, max # min, max' \in FindMax(max - 1), Shrink(<<"changeMax">>),
         UNCHANGED <<words, min, saved>>
  PROVE  Result(DomainOf(fields) \ {max})
<1> DEFINE D == DomainOf(fields)
           E == D \ {max}
<1>1. Proper(fields)
  BY DEF IInv
<1>2. /\ D \subseteq min..max /\ min \in D /\ max \in D /\ min \in Int /\ max \in Int /\ min <= max
      /\ (sz = 1 <=> min = max) /\ IsFiniteSet(D) /\ sz = Cardinality(D) /\ sz \in Nat \ {0}
  BY <1>1, DomainNow
<1>3. /\ sz' = sz - 1
      /\ \E s \in Seq(Notifications) :
               /\ Notify(s)
               /\ Ran(s) = {"changeMax"} \cup {"change"} \cup Told(sz' = 1, "bind") \cup Told(sz' = 0, "empty")
  <2>1. <<"changeMax">> \in Seq(Notifications) /\ Ran(<<"changeMax">>) = {"changeMax"}
    BY RanParts DEF Notifications
  <2> DEFINE first == <<"changeMax">>
  <2>2. Shrink(first)
    OBVIOUS
  <2>3. first \in Seq(Notifications) /\ Ran(first) = {"changeMax"}
    BY <2>1
  <2> HIDE DEF first
  <2>4. sz' = sz - 1 /\ \E s \in Seq(Notifications) :
          /\ Notify(s)
          /\ Ran(s) = Ran(first) \cup {"change"} \cup Told(sz' = 1, "bind") \cup Told(sz' = 0, "empty")
    BY <2>2, <2>3, ShrinkTells
  <2> QED
    BY <2>3, <2>4
<1>4. PICK s \in Seq(Notifications) :
               /\ Notify(s)
               /\ Ran(s) = {"changeMax"} \cup {"change"} \cup Told(sz' = 1, "bind") \cup Told(sz' = 0, "empty")
  BY <1>3
<1>5. Cardinality(E) = sz - 1
  BY <1>2, FS_RemoveElement
<1>6. min <= max - 1 /\ max - 1 <= max /\ max - 1 \in Int
  BY <1>2
<1>7. /\ max' \in D /\ max' <= max - 1 /\ \A v \in D : v <= max - 1 => v <= max'
  BY <1>1, <1>6, FoundMax
<1>8. E = {v \in D : min <= v /\ v <= max'}
  <2>1. \A v \in D : v \in Int /\ min <= v /\ v <= max
    BY <1>2
  <2>2. \A v \in D : v # max => v <= max - 1
    BY <1>2, <2>1
  <2>3. \A v \in D : v # max <=> v <= max'
    BY <1>2, <1>7, <2>1, <2>2
  <2> HIDE DEF D
  <2> QED
    BY <2>1, <2>3
<1>9. sz' = Cardinality({v \in D : min <= v /\ v <= max'})
  BY <1>3, <1>5, <1>8
<1>10. min <= max' /\ max' # max
  BY <1>2, <1>6, <1>7
<1>11. Ran(s) = {"change"} \cup Told(sz' = 1, "bind")
                           \cup Told(min # min, "changeMin") \cup Told(max # max', "changeMax")
  BY <1>2, <1>3, <1>4, <1>10 DEF Told
<1> DEFINE b == max'
<1>12. min' = min /\ words' = words /\ saved' = saved /\ b = max'
  OBVIOUS
<1> HIDE DEF D, E, b
<1>13. Result({v \in D : min <= v /\ v <= b})
  BY <1>2, <1>4, <1>7, <1>9, <1>10, <1>11, <1>12, ClippedResult DEF D
<1>14. QED
  BY <1>8, <1>12, <1>13 DEF D, E

(* remove of a value between the bounds clears its bit (domain.cpp:152-158).  *)
LEMMA RemoveInnerResult ==
  ASSUME IInv, ~failed, NEW v \in Int, min < v, v < max, GetBit(v),
         words' = [words EXCEPT ![(v - IMin) \div W] = @ \ {(v - IMin) % W}],
         Shrink(<<>>), UNCHANGED <<min, max, saved>>
  PROVE  Result(DomainOf(fields) \ {v})
<1> DEFINE D == DomainOf(fields)
           E == D \ {v}
           g == <<words', min', max', sz'>>
<1>1. Proper(fields) /\ fields[1] = words /\ fields[2] = min /\ fields[3] = max
  BY DEF IInv, fields
<1>2. /\ D \subseteq min..max /\ min \in D /\ max \in D /\ min \in Int /\ max \in Int /\ min <= max
      /\ IsFiniteSet(D) /\ sz = Cardinality(D) /\ sz \in Nat \ {0}
      /\ WordsOK /\ IMin <= min /\ max < IMin + N
      /\ \A u \in Int : u \in D <=> min <= u /\ u <= max /\ GetBit(u)
  BY <1>1, DomainNow
<1>3. v \in D
  BY <1>2
<1>4. Cardinality(E) = sz - 1
  BY <1>2, <1>3, FS_RemoveElement
<1>5. /\ sz' = sz - 1
      /\ \E s \in Seq(Notifications) :
            /\ Notify(s)
            /\ Ran(s) = {"change"} \cup Told(sz' = 1, "bind") \cup Told(sz' = 0, "empty")
  <2> DEFINE first == <<>>
  <2>1. first \in Seq(Notifications) /\ Ran(first) = {} /\ Shrink(first)
    BY RanParts DEF Notifications
  <2> HIDE DEF first
  <2>2. sz' = sz - 1 /\ \E s \in Seq(Notifications) :
          /\ Notify(s)
          /\ Ran(s) = Ran(first) \cup {"change"} \cup Told(sz' = 1, "bind") \cup Told(sz' = 0, "empty")
    BY <2>1, ShrinkTells
  <2> QED
    BY <2>1, <2>2
<1>6. PICK s \in Seq(Notifications) :
            /\ Notify(s)
            /\ Ran(s) = {"change"} \cup Told(sz' = 1, "bind") \cup Told(sz' = 0, "empty")
  BY <1>5
<1>7. words' \in [0..(NbWords - 1) -> SUBSET Bits]
  BY <1>2 DEF WordsOK
<1>8. ASSUME NEW u \in Int, min <= u, u <= max
      PROVE  BitOf(u) \in words'[WordOf(u)] <=> GetBit(u) /\ u # v
  <2>1. WordOf(u) \in 0..(NbWords - 1) /\ WordOf(v) \in 0..(NbWords - 1)
    <3>1. IMin <= u /\ u < IMin + N /\ IMin <= v /\ v < IMin + N
      BY <1>2, <1>8, BitDomainAssumption
    <3> QED
      BY <3>1, InArray
  <2>2. GetBit(u) <=> BitOf(u) \in words[WordOf(u)]
    BY <1>2, <2>1 DEF GetBit, Word, BitOf, WordOf, WordsOK
  <2>3. words' = [words EXCEPT ![WordOf(v)] = @ \ {BitOf(v)}]
    BY DEF WordOf, BitOf
  <2>4. words'[WordOf(u)] = IF WordOf(u) = WordOf(v) THEN words[WordOf(u)] \ {BitOf(v)}
                            ELSE words[WordOf(u)]
    BY <1>2, <2>1, <2>3 DEF WordsOK
  <2>5. u = v <=> WordOf(u) = WordOf(v) /\ BitOf(u) = BitOf(v)
    BY Places
  <2> QED
    BY <2>2, <2>4, <2>5
<1>9. g[1] = words' /\ g[2] = min /\ g[3] = max /\ g[4] = sz - 1
  BY <1>5
<1>10. DomainOf(g) = E
  <2>1. DomainOf(g) = {u \in min..max : BitOf(u) \in words'[WordOf(u)]}
    BY <1>9 DEF DomainOf, BitOf, WordOf
  <2>2. \A u \in min..max : BitOf(u) \in words'[WordOf(u)] <=> u \in D /\ u # v
    BY <1>2, <1>8
  <2>3. \A u \in D : u \in min..max
    BY <1>2
  <2> HIDE DEF D, g
  <2>4. DomainOf(g) = D \ {v}
    BY <2>1, <2>2, <2>3
  <2> QED
    BY <2>4
<1>11. min \in E /\ max \in E
  BY <1>2
<1> DEFINE n == sz'
<1>12. g \in FieldsSet
  <2>1. sz' \in Int /\ min' \in Int /\ max' \in Int
    BY <1>2, <1>5
  <2> QED
    BY <1>7, <2>1 DEF FieldsSet
<1> HIDE DEF D, E, g
<1>13. Proper(g)
  BY <1>2, <1>4, <1>9, <1>10, <1>11, <1>12 DEF Proper
<1>14. sz' # 0
  BY <1>4, <1>5, <1>9, <1>10, <1>13, ProperDomain
<1>15. "empty" \notin Ran(s)
  BY <1>6, <1>14 DEF Told
<1>16. failed' = FALSE /\ told' = s
  BY <1>6, <1>15, Notified
<1>17. D # E
  BY <1>3 DEF E
<1>18. Tells(fields, g, Ran(s))
  BY <1>1, <1>5, <1>6, <1>9, <1>10, <1>14, <1>17 DEF Tells, Told, D
<1>19. QED
  BY <1>10, <1>11, <1>12, <1>13, <1>16, <1>18 DEF Result, g, D, E

(* remove (domain.cpp:131-159) takes out its value.                           *)
LEMMA RemoveResult ==
  ASSUME IInv, NEW v \in Int, Remove(v)
  PROVE  Result(DomainOf(fields) \ {v})
<1> DEFINE D == DomainOf(fields)
<1>1. ~failed /\ Proper(fields)
  BY DEF Remove, IInv
<1>2. \A u \in Int : u \in D <=> min <= u /\ u <= max /\ GetBit(u)
  BY <1>1, DomainNow
<1>3. CASE (v < min \/ v > max \/ ~GetBit(v)) /\ Nothing
  <2>1. min \in Int /\ max \in Int
    BY <1>1, DomainNow
  <2>2. D \ {v} = D
    BY <1>2, <1>3, <2>1
  <2>3. Result(D)
    BY <1>1, <1>3, NothingResult
  <2> HIDE DEF D
  <2>4. Result(D \ {v})
    BY <2>2, <2>3
  <2> QED
    BY <2>4 DEF D
<1>4. CASE v = min /\ min' \in FindMin(min + 1) /\ Shrink(<<"changeMin">>) /\ UNCHANGED <<words, max, saved>>
  BY <1>1, <1>4, RemoveMinResult
<1>5. CASE v = max /\ v # min /\ max' \in FindMax(max - 1) /\ Shrink(<<"changeMax">>)
           /\ UNCHANGED <<words, min, saved>>
  BY <1>1, <1>5, RemoveMaxResult
<1>6. CASE /\ min < v /\ v < max /\ GetBit(v)
           /\ words' = [words EXCEPT ![(v - IMin) \div W] = @ \ {(v - IMin) % W}]
           /\ Shrink(<<>>)
           /\ UNCHANGED <<min, max, saved>>
  BY <1>1, <1>6, RemoveInnerResult
<1>7. QED
  BY <1>3, <1>4, <1>5, <1>6 DEF Remove

(* A compact domain has every value between its bounds.                       *)
LEMMA Compact ==
  ASSUME Proper(fields), IsCompact
  PROVE  DomainOf(fields) = min..max
<1>1. /\ DomainOf(fields) \subseteq min..max /\ min \in Int /\ max \in Int /\ min <= max
      /\ sz = Cardinality(DomainOf(fields))
  BY DomainNow
<1>2. IsFiniteSet(min..max) /\ Cardinality(min..max) = max - min + 1
  BY <1>1, FS_Interval
<1>3. QED
  BY <1>1, <1>2, FS_Subset DEF IsCompact

(* removeBelow (domain.cpp:161-177) keeps the values from its argument on.    *)
LEMMA RemoveBelowResult ==
  ASSUME IInv, NEW v \in Int, RemoveBelow(v)
  PROVE  Result({w \in DomainOf(fields) : w >= v})
<1> DEFINE D == DomainOf(fields)
           E == {w \in D : w >= v}
<1>1. ~failed /\ Proper(fields)
  BY DEF RemoveBelow, IInv
<1>2. /\ D \subseteq min..max /\ min \in D /\ max \in D /\ min \in Int /\ max \in Int /\ min <= max
      /\ IsFiniteSet(D) /\ sz = Cardinality(D) /\ sz \in Nat \ {0} /\ WordsOK
      /\ \A u \in Int : u \in D <=> min <= u /\ u <= max /\ GetBit(u)
  BY <1>1, DomainNow
<1>3. \A w \in D : w \in Int /\ min <= w /\ w <= max
  BY <1>2
<1>4. CASE v <= min /\ Nothing
  <2>1. E = D
    BY <1>2, <1>3, <1>4
  <2>2. Result(D)
    BY <1>1, <1>4, NothingResult
  <2> HIDE DEF D, E
  <2>3. Result(E)
    BY <2>1, <2>2
  <2> QED
    BY <2>3 DEF D, E
<1>5. CASE v > max /\ Notify(<<"empty">>) /\ UNCHANGED <<words, min, max, sz, saved>>
  <2>1. E = {}
    BY <1>2, <1>3, <1>5
  <2>2. <<words', min', max', sz'>> \in FieldsSet
    BY <1>5, FieldsType DEF FieldsSet
  <2>3. Result({})
    BY <1>5, <2>2, EmptyResult
  <2> HIDE DEF D, E
  <2>4. Result(E)
    BY <2>1, <2>3
  <2> QED
    BY <2>4 DEF D, E
<1>6. CASE /\ min < v /\ v <= max
           /\ sz' = sz - (IF IsCompact THEN v - min ELSE Count(min, v - 1))
           /\ IF IsCompact THEN min' = v ELSE min' \in FindMin(v)
           /\ Notify(<<"changeMin", "change">> \o When(sz' = 0, "empty") \o When(sz' = 1, "bind"))
           /\ UNCHANGED <<words, max, saved>>
  <2>1. min' \in D /\ v <= min' /\ \A w \in D : v <= w => min' <= w
    <3>1. CASE IsCompact
      BY <1>1, <1>2, <1>3, <1>6, <3>1, Compact
    <3>2. CASE ~IsCompact
      BY <1>1, <1>2, <1>6, <3>2, FoundMin
    <3> QED
      BY <3>1, <3>2
  <2>2. E = {w \in D : min' <= w /\ w <= max}
    <3>1. \A w \in D : w >= v <=> min' <= w /\ w <= max
      BY <1>2, <1>3, <2>1
    <3> HIDE DEF D
    <3> QED
      BY <3>1
  <2>3. IsFiniteSet(E) /\ IsFiniteSet(D \ E) /\ Cardinality(D \ E) \in Nat /\ Cardinality(E) \in Nat
        /\ sz = Cardinality(E) + Cardinality(D \ E)
    <3>1. E \in SUBSET D /\ (D \ E) \in SUBSET D /\ E \cup (D \ E) = D /\ E \cap (D \ E) = {}
      OBVIOUS
    <3> HIDE DEF D, E
    <3>2. IsFiniteSet(E) /\ IsFiniteSet(D \ E)
      BY <1>2, <3>1, FS_Subset
    <3> QED
      BY <1>2, <3>1, <3>2, FS_CardinalityType, Disjoint
  <2>4. Cardinality(D \ E) = IF IsCompact THEN v - min ELSE Count(min, v - 1)
    <3>1. D \ E = {w \in min..(v - 1) : w \in D}
      <4>1. \A w \in D : ~(w >= v) <=> w \in min..(v - 1)
        BY <1>3, <1>2
      <4> HIDE DEF D
      <4> QED
        BY <4>1
    <3>2. CASE IsCompact
      <4>1. D \ E = min..(v - 1)
        <5>1. \A w \in min..(v - 1) : w \in min..max
          BY <1>2, <1>6
        <5> QED
          BY <1>1, <3>1, <3>2, <5>1, Compact
      <4>2. Cardinality(min..(v - 1)) = v - min
        BY <1>2, <1>6, FS_Interval
      <4> QED
        BY <3>2, <4>1, <4>2
    <3>3. CASE ~IsCompact
      <4>1. D \ E = {w \in min..(v - 1) : GetBit(w)}
        <5>1. \A w \in min..(v - 1) : w \in Int /\ min <= w /\ w <= max
          BY <1>2, <1>6
        <5>2. \A w \in min..(v - 1) : w \in D <=> GetBit(w)
          BY <1>2, <5>1
        <5> HIDE DEF D
        <5> QED
          BY <3>1, <5>2
      <4>2. min <= (v - 1) + 1 /\ v - 1 \in Int
        BY <1>2, <1>6
      <4>3. Count(min, v - 1) = Cardinality({w \in min..(v - 1) : GetBit(w)})
        BY <1>2, <4>2, CountCounts
      <4> QED
        BY <3>3, <4>1, <4>3
    <3> QED
      BY <3>2, <3>3
  <2>5. sz' = Cardinality(E)
    BY <1>2, <1>6, <2>3, <2>4
  <2>6. max \in E /\ min' <= max /\ min' # min
    BY <1>2, <1>3, <1>6, <2>1
  <2>7. sz' # 0
    BY <2>3, <2>5, <2>6, FS_EmptySet
  <2>8. PICK s \in Seq(Notifications) :
            /\ Notify(s)
            /\ Ran(s) = {"changeMin", "change"} \cup Told(sz' = 0, "empty") \cup Told(sz' = 1, "bind")
    BY <1>6, CutTells DEF Notifications
  <2>9. Ran(s) = {"change"} \cup Told(sz' = 1, "bind")
                            \cup Told(min # min', "changeMin") \cup Told(max # max, "changeMax")
    BY <2>6, <2>7, <2>8 DEF Told
  <2> DEFINE a == min'
  <2>10. max' = max /\ words' = words /\ saved' = saved /\ a = min'
    BY <1>6
  <2>11. sz' = Cardinality({w \in D : min' <= w /\ w <= max})
    BY <2>2, <2>5
  <2> HIDE DEF D, E, a
  <2>12. Result({w \in D : a <= w /\ w <= max})
    BY <1>1, <1>2, <2>1, <2>6, <2>8, <2>9, <2>10, <2>11, ClippedResult DEF D
  <2> QED
    BY <2>2, <2>10, <2>12 DEF D, E
<1>7. QED
  BY <1>4, <1>5, <1>6 DEF RemoveBelow

(* removeAbove (domain.cpp:179-195) keeps the values up to its argument.      *)
LEMMA RemoveAboveResult ==
  ASSUME IInv, NEW v \in Int, RemoveAbove(v)
  PROVE  Result({w \in DomainOf(fields) : w <= v})
<1> DEFINE D == DomainOf(fields)
           E == {w \in D : w <= v}
<1>1. ~failed /\ Proper(fields)
  BY DEF RemoveAbove, IInv
<1>2. /\ D \subseteq min..max /\ min \in D /\ max \in D /\ min \in Int /\ max \in Int /\ min <= max
      /\ IsFiniteSet(D) /\ sz = Cardinality(D) /\ sz \in Nat \ {0} /\ WordsOK
      /\ \A u \in Int : u \in D <=> min <= u /\ u <= max /\ GetBit(u)
  BY <1>1, DomainNow
<1>3. \A w \in D : w \in Int /\ min <= w /\ w <= max
  BY <1>2
<1>4. CASE v >= max /\ Nothing
  <2>1. E = D
    BY <1>2, <1>3, <1>4
  <2>2. Result(D)
    BY <1>1, <1>4, NothingResult
  <2> HIDE DEF D, E
  <2>3. Result(E)
    BY <2>1, <2>2
  <2> QED
    BY <2>3 DEF D, E
<1>5. CASE v < min /\ Notify(<<"empty">>) /\ UNCHANGED <<words, min, max, sz, saved>>
  <2>1. E = {}
    BY <1>2, <1>3, <1>5
  <2>2. <<words', min', max', sz'>> \in FieldsSet
    BY <1>5, FieldsType DEF FieldsSet
  <2>3. Result({})
    BY <1>5, <2>2, EmptyResult
  <2> HIDE DEF D, E
  <2>4. Result(E)
    BY <2>1, <2>3
  <2> QED
    BY <2>4 DEF D, E
<1>6. CASE /\ min <= v /\ v < max
           /\ sz' = sz - (IF IsCompact THEN max - v ELSE Count(v + 1, max))
           /\ IF IsCompact THEN max' = v ELSE max' \in FindMax(v)
           /\ Notify(<<"changeMax", "change">> \o When(sz' = 0, "empty") \o When(sz' = 1, "bind"))
           /\ UNCHANGED <<words, min, saved>>
  <2>1. max' \in D /\ max' <= v /\ \A w \in D : w <= v => w <= max'
    <3>1. CASE IsCompact
      BY <1>1, <1>2, <1>3, <1>6, <3>1, Compact
    <3>2. CASE ~IsCompact
      BY <1>1, <1>2, <1>6, <3>2, FoundMax
    <3> QED
      BY <3>1, <3>2
  <2>2. E = {w \in D : min <= w /\ w <= max'}
    <3>1. \A w \in D : w <= v <=> min <= w /\ w <= max'
      BY <1>2, <1>3, <2>1
    <3> HIDE DEF D
    <3> QED
      BY <3>1
  <2>3. IsFiniteSet(E) /\ IsFiniteSet(D \ E) /\ Cardinality(D \ E) \in Nat /\ Cardinality(E) \in Nat
        /\ sz = Cardinality(E) + Cardinality(D \ E)
    <3>1. E \in SUBSET D /\ (D \ E) \in SUBSET D /\ E \cup (D \ E) = D /\ E \cap (D \ E) = {}
      OBVIOUS
    <3> HIDE DEF D, E
    <3>2. IsFiniteSet(E) /\ IsFiniteSet(D \ E)
      BY <1>2, <3>1, FS_Subset
    <3> QED
      BY <1>2, <3>1, <3>2, FS_CardinalityType, Disjoint
  <2>4. Cardinality(D \ E) = IF IsCompact THEN max - v ELSE Count(v + 1, max)
    <3>1. D \ E = {w \in (v + 1)..max : w \in D}
      <4>1. \A w \in D : ~(w <= v) <=> w \in (v + 1)..max
        BY <1>3, <1>2
      <4> HIDE DEF D
      <4> QED
        BY <4>1
    <3>2. CASE IsCompact
      <4>1. D \ E = (v + 1)..max
        <5>1. \A w \in (v + 1)..max : w \in min..max
          BY <1>2, <1>6
        <5> QED
          BY <1>1, <3>1, <3>2, <5>1, Compact
      <4>2. Cardinality((v + 1)..max) = max - v
        BY <1>2, <1>6, FS_Interval
      <4> QED
        BY <3>2, <4>1, <4>2
    <3>3. CASE ~IsCompact
      <4>1. D \ E = {w \in (v + 1)..max : GetBit(w)}
        <5>1. \A w \in (v + 1)..max : w \in Int /\ min <= w /\ w <= max
          BY <1>2, <1>6
        <5>2. \A w \in (v + 1)..max : w \in D <=> GetBit(w)
          BY <1>2, <5>1
        <5> HIDE DEF D
        <5> QED
          BY <3>1, <5>2
      <4>2. v + 1 <= max + 1 /\ v + 1 \in Int
        BY <1>2, <1>6
      <4>3. Count(v + 1, max) = Cardinality({w \in (v + 1)..max : GetBit(w)})
        BY <1>2, <4>2, CountCounts
      <4> QED
        BY <3>3, <4>1, <4>3
    <3> QED
      BY <3>2, <3>3
  <2>5. sz' = Cardinality(E)
    BY <1>2, <1>6, <2>3, <2>4
  <2>6. min \in E /\ min <= max' /\ max' # max
    BY <1>2, <1>3, <1>6, <2>1
  <2>7. sz' # 0
    BY <2>3, <2>5, <2>6, FS_EmptySet
  <2>8. PICK s \in Seq(Notifications) :
            /\ Notify(s)
            /\ Ran(s) = {"changeMax", "change"} \cup Told(sz' = 0, "empty") \cup Told(sz' = 1, "bind")
    BY <1>6, CutTells DEF Notifications
  <2>9. Ran(s) = {"change"} \cup Told(sz' = 1, "bind")
                            \cup Told(min # min, "changeMin") \cup Told(max # max', "changeMax")
    BY <2>6, <2>7, <2>8 DEF Told
  <2> DEFINE b == max'
  <2>10. min' = min /\ words' = words /\ saved' = saved /\ b = max'
    BY <1>6
  <2>11. sz' = Cardinality({w \in D : min <= w /\ w <= max'})
    BY <2>2, <2>5
  <2> HIDE DEF D, E, b
  <2>12. Result({w \in D : min <= w /\ w <= b})
    BY <1>1, <1>2, <2>1, <2>6, <2>8, <2>9, <2>10, <2>11, ClippedResult DEF D
  <2> QED
    BY <2>2, <2>10, <2>12 DEF D, E
<1>7. QED
  BY <1>4, <1>5, <1>6 DEF RemoveAbove

--------------------------------------------------------------------------------
(* An operation leaves a domain, or has failed.                               *)
LEMMA ResultKeeps ==
  ASSUME IInv, NEW E, Result(E)
  PROVE  IInv'
<1> DEFINE g == <<words', min', max', sz'>>
<1>1. g \in FieldsSet /\ failed' = (E = {}) /\ told' \in Seq(Notifications) /\ saved' = saved
      /\ (E # {} => Proper(g))
  BY DEF Result
<1>2. fields' = g /\ g[1] = words' /\ g[2] = min' /\ g[3] = max' /\ g[4] = sz'
  BY DEF fields
<1> HIDE DEF g
<1>3. words' \in [0..(NbWords - 1) -> SUBSET Bits] /\ min' \in Int /\ max' \in Int /\ sz' \in Int
  BY <1>1, <1>2 DEF FieldsSet
<1>4. TypeOK'
  BY <1>1, <1>3 DEF TypeOK, IInv, Bits
<1>5. (~failed => Proper(fields))'
  BY <1>1, <1>2
<1>6. QED
  BY <1>1, <1>4, <1>5 DEF IInv

(* The constructor (domain.cpp:24-49) sets the N bits of its values, the last *)
(* word in part.                                                              *)
LEMMA InitKeeps == Init => IInv
<1> SUFFICES ASSUME Init PROVE IInv
  OBVIOUS
<1>1. W \in Nat \ {0} /\ N \in Nat \ {0} /\ IMin \in Int
  BY BitDomainAssumption
<1>2. words = [k \in 0..(NbWords - 1) |->
                  IF k = NbWords - 1 /\ N % W # 0 THEN 0..((N % W) - 1) ELSE 0..(W - 1)]
  BY DEF Init
<1>3. /\ N % W \in 0..(W - 1) /\ N \div W \in Int /\ N = W * (N \div W) + (N % W)
  BY <1>1, DivMod
<1>4. WordsOK
  <2>1. 0..((N % W) - 1) \subseteq Bits
    BY <1>1, <1>3 DEF Bits
  <2> QED
    BY <1>2, <2>1 DEF WordsOK, Bits
<1>5. N % W # 0 => NbWords - 1 = N \div W
  <2> SUFFICES ASSUME N % W # 0 PROVE NbWords - 1 = N \div W
    OBVIOUS
  <2> DEFINE q == N \div W
             r == N % W
  <2> HIDE DEF q, r
  <2>1. q \in Int /\ r - 1 \in 0..(W - 1) /\ q + 1 \in Int /\ N = W * q + r /\ r \in Int
    BY <1>1, <1>3 DEF q, r
  <2>2. W * q \in Int /\ W * (q + 1) = W * q + W
    BY <1>1, <2>1
  <2>3. N + W - 1 = W * (q + 1) + (r - 1)
    BY <1>1, <2>1, <2>2
  <2>4. (N + W - 1) \div W = q + 1
    BY <1>1, <2>1, <2>3, DivUnique
  <2> QED
    BY <2>1, <2>4 DEF NbWords, q
<1>6. ASSUME NEW v \in IMin..(IMin + N - 1)
      PROVE  BitOf(v) \in words[WordOf(v)]
  <2>1. v \in Int /\ IMin <= v /\ v < IMin + N
    BY <1>1
  <2>2. WordOf(v) \in 0..(NbWords - 1) /\ BitOf(v) \in Bits /\ v = IMin + W * WordOf(v) + BitOf(v)
        /\ WordOf(v) \in Int
    BY <2>1, InArray, Places
  <2>3. CASE WordOf(v) = NbWords - 1 /\ N % W # 0
    <3>1. words[WordOf(v)] = 0..((N % W) - 1)
      BY <1>2, <2>2, <2>3
    <3>2. WordOf(v) = N \div W
      BY <1>5, <2>3
    <3> DEFINE k == WordOf(v)
               b == BitOf(v)
               r == N % W
    <3>3. k \in Int /\ b \in 0..(W - 1) /\ r \in 0..(W - 1) /\ v = IMin + W * k + b /\ N = W * k + r
      BY <1>3, <2>2, <3>2 DEF Bits
    <3> HIDE DEF k, b, r
    <3>4. W * k \in Int
      BY <1>1, <3>3
    <3>5. b \in 0..(r - 1)
      BY <1>1, <2>1, <3>3, <3>4
    <3> QED
      BY <3>1, <3>5 DEF b, r
  <2>4. CASE ~(WordOf(v) = NbWords - 1 /\ N % W # 0)
    <3>1. words[WordOf(v)] = Bits
      BY <1>2, <2>2, <2>4 DEF Bits
    <3> QED
      BY <2>2, <3>1
  <2> QED
    BY <2>3, <2>4
<1>7. fields[1] = words /\ fields[2] = IMin /\ fields[3] = IMin + N - 1 /\ fields[4] = N
  BY DEF fields, Init
<1>8. DomainOf(fields) = IMin..(IMin + N - 1)
  BY <1>6, <1>7 DEF DomainOf, BitOf, WordOf
<1>9. Cardinality(IMin..(IMin + N - 1)) = N
  <2>1. IMin + N - 1 \in Int /\ IMin <= IMin + N - 1
    BY <1>1
  <2>2. Cardinality(IMin..(IMin + N - 1)) = (IMin + N - 1) - IMin + 1
    BY <1>1, <2>1, FS_Interval
  <2> QED
    BY <1>1, <2>2
<1>10. fields \in FieldsSet
  <2>1. words \in [0..(NbWords - 1) -> SUBSET Bits] /\ IMin \in Int /\ IMin + N - 1 \in Int /\ N \in Int
    BY <1>1, <1>4 DEF WordsOK
  <2>2. fields = <<words, IMin, IMin + N - 1, N>>
    BY DEF fields, Init
  <2> QED
    BY <2>1, <2>2 DEF FieldsSet
<1>11. Proper(fields)
  BY <1>1, <1>7, <1>8, <1>9, <1>10 DEF Proper
<1>12. saved = <<>> /\ saved \in Seq(FieldsSet) /\ DOMAIN saved = {}
  BY DEF Init
<1>13. TypeOK
  <2>1. min \in Int /\ max \in Int /\ sz \in Int
    BY <1>1 DEF Init
  <2>3. failed \in BOOLEAN
    BY DEF Init
  <2>4. told \in Seq(Notifications)
    BY DEF Init
  <2>2. Len(saved) <= MaxLevels
    BY <1>12, BitDomainAssumption
  <2> QED
    BY <1>4, <2>1, <2>2, <2>3, <2>4 DEF TypeOK, WordsOK, Bits
<1>14. QED
  BY <1>11, <1>12, <1>13 DEF IInv

(* What saveState pushes on the trail is the domain of now.                   *)
LEMMA SaveKeeps == ASSUME IInv, Save PROVE IInv'
<1>1. /\ fields \in FieldsSet /\ saved \in Seq(FieldsSet) /\ Proper(fields)
      /\ saved' = Append(saved, fields) /\ fields' = fields /\ failed' = failed
  BY DEF Save, IInv, Proper, fields
<1>2. /\ saved' \in Seq(FieldsSet) /\ Len(saved') = Len(saved) + 1
      /\ Len(saved) \in Nat
      /\ \A k \in 1..Len(saved) : saved'[k] = saved[k]
      /\ saved'[Len(saved) + 1] = fields
  BY <1>1, AppendProperties, LenProperties
<1>3. ASSUME NEW k \in DOMAIN saved' PROVE Proper(saved'[k])
  <2>1. k \in 1..(Len(saved) + 1)
    BY <1>2, LenProperties
  <2>2. CASE k = Len(saved) + 1
    BY <1>1, <1>2, <2>2
  <2>3. CASE k # Len(saved) + 1
    <3>1. k \in DOMAIN saved
      BY <1>1, <1>2, <2>1, <2>3, LenProperties
    <3>2. k \in 1..Len(saved)
      BY <1>2, <2>1, <2>3
    <3> QED
      BY <1>2, <3>1, <3>2 DEF IInv
  <2> QED
    BY <2>2, <2>3
<1>4. Len(saved') <= MaxLevels
  <2>1. Len(saved) < MaxLevels /\ MaxLevels \in Nat
    BY BitDomainAssumption DEF Save
  <2> QED
    BY <1>2, <2>1
<1>5. TypeOK'
  BY <1>4 DEF Save, IInv, TypeOK, Notifications
<1>6. (~failed => Proper(fields))'
  BY <1>1
<1>7. QED
  BY <1>2, <1>3, <1>5, <1>6 DEF IInv

(* What comes back is the domain that was saved.                              *)
LEMMA RestoreKeeps ==
  ASSUME IInv, Restore
  PROVE  IInv' /\ fields' = saved[Len(saved)] /\ saved # <<>> /\ failed' = FALSE
         /\ saved' = SubSeq(saved, 1, Len(saved) - 1)
<1> DEFINE m == Len(saved)
           f == saved[m]
<1>1. saved \in Seq(FieldsSet) /\ m \in Nat \ {0} /\ DOMAIN saved = 1..m
  <2>1. saved # <<>> /\ saved \in Seq(FieldsSet)
    BY DEF Restore, IInv
  <2>2. Len(saved) # 0
    BY <2>1, EmptySeq
  <2> QED
    BY <2>1, <2>2, LenProperties
<1>2. f \in FieldsSet /\ Proper(f)
  BY <1>1 DEF IInv
<1>3. /\ words' = f[1] /\ min' = f[2] /\ max' = f[3] /\ sz' = f[4]
      /\ saved' = SubSeq(saved, 1, m - 1) /\ failed' = FALSE /\ told' = <<>> /\ saved # <<>>
  BY DEF Restore
<1> HIDE DEF m, f
<1>4. fields' = f
  <2>1. f = <<f[1], f[2], f[3], f[4]>>
    BY <1>2 DEF FieldsSet
  <2>2. fields' = <<words', min', max', sz'>>
    BY DEF fields
  <2> QED
    BY <1>3, <2>1, <2>2
<1>5. \A k \in 1..m : saved[k] \in FieldsSet
  BY <1>1
<1>6. /\ saved' \in Seq(FieldsSet) /\ Len(saved') = m - 1 /\ DOMAIN saved' = 1..(m - 1)
      /\ \A k \in 1..(m - 1) : saved'[k] = saved[k]
  BY <1>1, <1>3, <1>5, SubSeqProperties DEF m
<1>7. \A k \in DOMAIN saved' : Proper(saved'[k])
  BY <1>1, <1>6 DEF IInv
<1>8. TypeOK'
  <2>1. words' \in [0..(NbWords - 1) -> SUBSET Bits] /\ min' \in Int /\ max' \in Int /\ sz' \in Int
    BY <1>2, <1>3 DEF FieldsSet
  <2>2. Len(saved') <= MaxLevels
    <3>1. m <= MaxLevels /\ MaxLevels \in Nat
      BY BitDomainAssumption DEF IInv, TypeOK, m
    <3> QED
      BY <1>1, <1>6, <3>1
  <2>3. told' \in Seq(Notifications)
    BY <1>3
  <2>4. failed' \in BOOLEAN
    BY <1>3
  <2> QED
    BY <2>1, <2>2, <2>3, <2>4 DEF TypeOK, Bits
<1>9. (~failed => Proper(fields))'
  BY <1>2, <1>4
<1>10. IInv'
  BY <1>6, <1>7, <1>8, <1>9 DEF IInv
<1>11. QED
  BY <1>3, <1>4, <1>10 DEF m, f

(* Whatever the step.                                                         *)
LEMMA StepKeeps == IInv /\ [Next]_vars => IInv'
<1> SUFFICES ASSUME IInv, [Next]_vars PROVE IInv'
  OBVIOUS
<1>1. ASSUME NEW v \in Arguments, Assign(v) \/ Remove(v) \/ RemoveBelow(v) \/ RemoveAbove(v)
      PROVE  IInv'
  <2>1. v \in Int
    BY BitDomainAssumption
  <2>2. \E E : Result(E)
    BY <1>1, <2>1, AssignResult, RemoveResult, RemoveBelowResult, RemoveAboveResult
  <2> QED
    BY <2>2, ResultKeeps
<1>2. CASE UNCHANGED vars
  BY <1>2 DEF vars, IInv, TypeOK, fields
<1>3. QED
  BY <1>1, <1>2, SaveKeeps, RestoreKeeps DEF Next

(* In every state, of every level: the bounds are members, the size counts,   *)
(* and no scan has left the array.                                            *)
THEOREM Invariant == Spec => []IInv
  BY InitKeeps, StepKeeps, PTL DEF Spec

(* A domain that has not failed is never empty, its bounds are members and    *)
(* its size is right: isBound and the compact shortcut of removeBelow and     *)
(* removeAbove (domain.cpp:167, 185) may be trusted.                          *)
THEOREM BoundsAndSizeHolds == Spec => []BoundsAndSize
<1>1. IInv => BoundsAndSize
  <2> SUFFICES ASSUME IInv PROVE BoundsAndSize
    OBVIOUS
  <2>1. ASSUME ~failed
        PROVE  sz = Cardinality(DomainOf(fields)) /\ {min, max} \subseteq DomainOf(fields)
    BY <2>1, DomainNow DEF IInv
  <2> QED
    BY <2>1 DEF BoundsAndSize, IInv
<1>2. QED
  BY <1>1, Invariant, PTL

--------------------------------------------------------------------------------
(* The abstract state: the set of the fields, empty once failed, and the sets *)
(* the levels saved.                                                          *)
Abstract == IF failed THEN {} ELSE DomainOf(fields)
AbstractSaved == [i \in DOMAIN saved |-> DomainOf(saved[i])]

(* The bounds of the fields are the least and the greatest value.             *)
LEMMA Extremes ==
  ASSUME NEW f, Proper(f)
  PROVE  Min(DomainOf(f)) = f[2] /\ Max(DomainOf(f)) = f[3]
<1> DEFINE D == DomainOf(f)
<1>1. /\ f[2] \in D /\ f[3] \in D /\ f[2] \in Int /\ f[3] \in Int
      /\ \A v \in D : v \in Int /\ f[2] <= v /\ v <= f[3]
  BY ProperDomain DEF Proper
<1> HIDE DEF D
<1>2. Min(D) \in D /\ (\A v \in D : Min(D) <= v)
  BY <1>1, LeastInt
<1>3. Max(D) \in D /\ (\A v \in D : Max(D) >= v)
  BY <1>1, GreatestInt
<1>4. Min(D) = f[2]
  BY <1>1, <1>2
<1>5. Max(D) = f[3]
  BY <1>1, <1>3
<1>6. QED
  BY <1>4, <1>5 DEF D

(* The notifications are the ones the abstract domain asks for.               *)
LEMMA TellsExactly ==
  ASSUME NEW f, Proper(f), NEW g, Proper(g), NEW H, Tells(f, g, H)
  PROVE  H = Domain!Events(DomainOf(f), DomainOf(g))
<1> DEFINE A == DomainOf(f)
           B == DomainOf(g)
           Wanted(e) == CASE e = "change"    -> A # B
                          [] e = "bind"      -> A # B /\ Cardinality(B) = 1
                          [] e = "changeMin" -> Min(A) # Min(B)
                          [] e = "changeMax" -> Max(A) # Max(B)
<1>1. Domain!Events(A, B) = {e \in {"change", "bind", "changeMin", "changeMax"} : Wanted(e)}
  BY DEF Domain!Events, Domain!Min, Domain!Max, Min, Max
<1>2. Cardinality(B) = g[4]
  BY DEF Proper
<1>3. Min(A) = f[2] /\ Min(B) = g[2] /\ Max(A) = f[3] /\ Max(B) = g[3]
  BY Extremes
<1>4. /\ H \subseteq {"bind", "change", "changeMin", "changeMax"}
      /\ "change" \in H <=> A # B
      /\ "bind" \in H <=> A # B /\ g[4] = 1
      /\ "changeMin" \in H <=> f[2] # g[2]
      /\ "changeMax" \in H <=> f[3] # g[3]
  BY DEF Tells
<1> HIDE DEF A, B
<1>5. /\ Wanted("change") <=> "change" \in H
      /\ Wanted("bind") <=> "bind" \in H
      /\ Wanted("changeMin") <=> "changeMin" \in H
      /\ Wanted("changeMax") <=> "changeMax" \in H
  BY <1>2, <1>3, <1>4
<1> HIDE DEF Wanted
<1>6. QED
  BY <1>1, <1>4, <1>5 DEF A, B

(* An operation that leaves the values of S narrows the domain to S.          *)
LEMMA ResultNarrows ==
  ASSUME IInv, ~failed, NEW S, Result(DomainOf(fields) \cap S)
  PROVE  Domain!Narrow(S)
<1> DEFINE E == DomainOf(fields) \cap S
           g == <<words', min', max', sz'>>
<1>1. /\ failed' = (E = {}) /\ saved' = saved
      /\ E # {} => Proper(g) /\ DomainOf(g) = E /\ Tells(fields, g, Ran(told'))
  BY DEF Result
<1>2. fields' = g
  BY DEF fields
<1> HIDE DEF g
<1>3. Abstract = DomainOf(fields) /\ Proper(fields)
  BY DEF Abstract, IInv
<1>4. Abstract' = E
  BY <1>1, <1>2 DEF Abstract
<1>5. Heard' = Ran(told')
  BY DEF Heard, Ran
<1>6. ~failed' => Heard' = Domain!Events(Abstract, Abstract')
  <2> SUFFICES ASSUME ~failed' PROVE Heard' = Domain!Events(Abstract, Abstract')
    OBVIOUS
  <2>1. E # {}
    BY <1>1
  <2>2. Ran(told') = Domain!Events(DomainOf(fields), DomainOf(g))
    BY <1>1, <1>3, <2>1, TellsExactly
  <2> QED
    BY <1>1, <1>3, <1>4, <1>5, <2>1, <2>2
<1>7. AbstractSaved' = AbstractSaved
  BY <1>1 DEF AbstractSaved
<1>8. E = Abstract \cap S
  BY <1>3
<1> HIDE DEF E
<1>9. Abstract' = Abstract \cap S /\ failed' = (Abstract \cap S = {})
  BY <1>1, <1>4, <1>8
<1>10. QED
  BY <1>6, <1>7, <1>9 DEF Domain!Narrow, Abstract, AbstractSaved

(* Each operation is the one of its name of the abstract domain.              *)
LEMMA OperationsRefine ==
  ASSUME IInv, NEW v \in Int
  PROVE  /\ Assign(v) => Domain!Assign(v)
         /\ Remove(v) => Domain!Remove(v)
         /\ RemoveBelow(v) => Domain!RemoveBelow(v)
         /\ RemoveAbove(v) => Domain!RemoveAbove(v)
<1> DEFINE D == DomainOf(fields)
<1>1. ~failed => Abstract = D
  BY DEF Abstract
<1>2. ASSUME Assign(v) PROVE Domain!Assign(v)
  <2>1. ~failed
    BY <1>2 DEF Assign
  <2>2. Result({w \in D : w = v})
    BY <1>2, AssignResult
  <2>3. {w \in D : w = v} = D \cap {v}
    OBVIOUS
  <2> HIDE DEF D
  <2>4. Result(D \cap {v})
    BY <2>2, <2>3
  <2> QED
    BY <2>1, <2>4, ResultNarrows DEF Domain!Assign, D
<1>3. ASSUME Remove(v) PROVE Domain!Remove(v)
  <2>1. ~failed
    BY <1>3 DEF Remove
  <2>2. Result(D \ {v})
    BY <1>3, RemoveResult
  <2>3. D \ {v} = D \cap (Abstract \ {v})
    BY <1>1, <2>1
  <2> HIDE DEF D
  <2>4. Result(D \cap (Abstract \ {v}))
    BY <2>2, <2>3
  <2>5. Domain!Narrow(Abstract \ {v})
    BY <2>1, <2>4, ResultNarrows DEF D
  <2> QED
    BY <2>5 DEF Domain!Remove, Abstract
<1>4. ASSUME RemoveBelow(v) PROVE Domain!RemoveBelow(v)
  <2>1. ~failed
    BY <1>4 DEF RemoveBelow
  <2>2. Result({w \in D : w >= v})
    BY <1>4, RemoveBelowResult
  <2>3. {w \in D : w >= v} = D \cap {w \in Abstract : w >= v}
    BY <1>1, <2>1
  <2> HIDE DEF D
  <2>4. Result(D \cap {w \in Abstract : w >= v})
    BY <2>2, <2>3
  <2>5. Domain!Narrow({w \in Abstract : w >= v})
    BY <2>1, <2>4, ResultNarrows DEF D
  <2> QED
    BY <2>5 DEF Domain!RemoveBelow, Abstract
<1>5. ASSUME RemoveAbove(v) PROVE Domain!RemoveAbove(v)
  <2>1. ~failed
    BY <1>5 DEF RemoveAbove
  <2>2. Result({w \in D : w <= v})
    BY <1>5, RemoveAboveResult
  <2>3. {w \in D : w <= v} = D \cap {w \in Abstract : w <= v}
    BY <1>1, <2>1
  <2> HIDE DEF D
  <2>4. Result(D \cap {w \in Abstract : w <= v})
    BY <2>2, <2>3
  <2>5. Domain!Narrow({w \in Abstract : w <= v})
    BY <2>1, <2>4, ResultNarrows DEF D
  <2> QED
    BY <2>5 DEF Domain!RemoveAbove, Abstract
<1>6. QED
  BY <1>2, <1>3, <1>4, <1>5

(* Every operation narrows the set as its name says and tells the listener    *)
(* exactly what changed (domain.cpp:111-195).                                 *)
THEOREM OperationsExactHold == Spec => OperationsExact
<1>1. IInv /\ [Next]_vars =>
         [\A v \in Arguments : /\ Assign(v) => Domain!Assign(v)
                               /\ Remove(v) => Domain!Remove(v)
                               /\ RemoveBelow(v) => Domain!RemoveBelow(v)
                               /\ RemoveAbove(v) => Domain!RemoveAbove(v)]_vars
  BY OperationsRefine, BitDomainAssumption
<1>2. QED
  BY <1>1, Invariant, PTL DEF Spec, OperationsExact

(* The constructor builds the whole range.                                    *)
LEMMA InitRefines == Init => Domain!Init
<1> SUFFICES ASSUME Init PROVE Domain!Init
  OBVIOUS
<1>1. Proper(fields) /\ failed = FALSE /\ fields[2] = IMin /\ fields[3] = IMin + N - 1 /\ sz = N
  BY InitKeeps DEF IInv, Init, fields
<1>2. DomainOf(fields) = IMin..(IMin + N - 1)
  <2>1. DomainOf(fields) \subseteq IMin..(IMin + N - 1)
    BY <1>1, ProperDomain
  <2>2. Cardinality(DomainOf(fields)) = N
    BY <1>1, DomainNow
  <2>3. IMin \in Int /\ N \in Nat \ {0} /\ IMin + N - 1 \in Int /\ IMin <= IMin + N - 1
    BY BitDomainAssumption
  <2>4. IsFiniteSet(IMin..(IMin + N - 1)) /\ Cardinality(IMin..(IMin + N - 1)) = (IMin + N - 1) - IMin + 1
    BY <2>3, FS_Interval
  <2>5. (IMin + N - 1) - IMin + 1 = N
    BY <2>3
  <2> QED
    BY <2>1, <2>2, <2>4, <2>5, FS_Subset
<1>3. AbstractSaved = <<>>
  BY DEF Init, AbstractSaved
<1>4. Abstract = IMin..(IMin + N - 1)
  BY <1>1, <1>2 DEF Abstract
<1>5. Heard = {}
  BY DEF Init, Heard
<1>6. QED
  BY <1>1, <1>3, <1>4, <1>5 DEF Domain!Init, Abstract, AbstractSaved

(* Saving saves.                                                              *)
LEMMA SaveRefines == ASSUME IInv, Save PROVE Domain!Save
<1> DEFINE m == Len(saved)
           t == Append(AbstractSaved, DomainOf(fields))
           Sets == SUBSET Int
<1>1. saved' = Append(saved, fields) /\ ~failed /\ fields' = fields /\ failed' = failed
  BY DEF Save, fields
<1>2. saved \in Seq(FieldsSet) /\ fields \in FieldsSet /\ m \in Nat /\ DOMAIN saved = 1..m
  BY <1>1, LenProperties DEF IInv, Proper
<1>3. /\ DOMAIN saved' = 1..(m + 1) /\ saved'[m + 1] = fields
      /\ \A k \in 1..m : saved'[k] = saved[k]
  <2>1. /\ saved' \in Seq(FieldsSet) /\ Len(saved') = m + 1
        /\ \A k \in 1..m : saved'[k] = saved[k]
        /\ saved'[m + 1] = fields
    BY <1>1, <1>2, AppendProperties
  <2> QED
    BY <2>1, LenProperties
<1> HIDE DEF m, Sets
<1>4. \A f \in FieldsSet : DomainOf(f) \in Sets
  BY DEF FieldsSet, DomainOf, Sets
<1>5. \A k \in 1..m : saved[k] \in FieldsSet
  BY <1>2
<1>6. AbstractSaved \in [1..m -> Sets] /\ \A k \in 1..m : AbstractSaved[k] = DomainOf(saved[k])
  BY <1>2, <1>4, <1>5 DEF AbstractSaved
<1>7. AbstractSaved \in Seq(Sets) /\ Len(AbstractSaved) = m
  BY <1>2, <1>6, SeqDef, LenProperties
<1>8. /\ t \in Seq(Sets) /\ Len(t) = m + 1
      /\ \A k \in 1..m : t[k] = AbstractSaved[k]
      /\ t[m + 1] = DomainOf(fields)
  BY <1>2, <1>4, <1>7, AppendProperties
<1>9. t \in [1..(m + 1) -> Sets]
  BY <1>8, LenProperties
<1>10. AbstractSaved' = [k \in 1..(m + 1) |-> DomainOf(saved'[k])]
  BY <1>3 DEF AbstractSaved
<1> HIDE DEF t
<1>11. \A k \in 1..(m + 1) : t[k] = DomainOf(saved'[k])
  <2> SUFFICES ASSUME NEW k \in 1..(m + 1) PROVE t[k] = DomainOf(saved'[k])
    OBVIOUS
  <2>1. k = m + 1 \/ k \in 1..m
    BY <1>2
  <2>2. CASE k = m + 1
    BY <1>3, <1>8, <2>2
  <2>3. CASE k \in 1..m
    BY <1>3, <1>6, <1>8, <2>3
  <2> QED
    BY <2>1, <2>2, <2>3
<1>12. AbstractSaved' = t
  BY <1>9, <1>10, <1>11
<1>13. Abstract = DomainOf(fields) /\ Abstract' = Abstract
  BY <1>1 DEF Abstract
<1>14. AbstractSaved' = Append(AbstractSaved, Abstract)
  BY <1>12, <1>13 DEF t
<1>15. QED
  BY <1>1, <1>13, <1>14 DEF Domain!Save, Abstract, AbstractSaved

(* Restoring brings back the set that was saved.                              *)
LEMMA RestoreRefines == ASSUME IInv, Restore PROVE Domain!Restore
<1> DEFINE m == Len(saved)
           t == SubSeq(AbstractSaved, 1, m - 1)
           Sets == SUBSET Int
<1>1. /\ fields' = saved[m] /\ saved # <<>> /\ failed' = FALSE
      /\ saved' = SubSeq(saved, 1, m - 1)
  BY RestoreKeeps
<1>2. saved \in Seq(FieldsSet) /\ m \in Nat \ {0} /\ DOMAIN saved = 1..m
  <2>1. saved \in Seq(FieldsSet)
    BY DEF IInv
  <2>2. Len(saved) # 0
    BY <1>1, <2>1, EmptySeq
  <2> QED
    BY <2>1, <2>2, LenProperties
<1> HIDE DEF m, Sets
<1>3. \A k \in 1..m : saved[k] \in FieldsSet
  BY <1>2
<1>4. DOMAIN saved' = 1..(m - 1) /\ \A k \in 1..(m - 1) : saved'[k] = saved[k]
  <2>1. /\ saved' \in Seq(FieldsSet) /\ Len(saved') = m - 1
        /\ \A k \in 1..(m - 1) : saved'[k] = saved[k]
    BY <1>1, <1>2, <1>3, SubSeqProperties DEF m
  <2> QED
    BY <2>1, LenProperties
<1>5. \A f \in FieldsSet : DomainOf(f) \in Sets
  BY DEF FieldsSet, DomainOf, Sets
<1>6. AbstractSaved \in [1..m -> Sets] /\ \A k \in 1..m : AbstractSaved[k] = DomainOf(saved[k])
  BY <1>2, <1>3, <1>5 DEF AbstractSaved
<1>7. AbstractSaved \in Seq(Sets) /\ Len(AbstractSaved) = m
  BY <1>2, <1>6, SeqDef, LenProperties
<1>8. /\ t \in Seq(Sets) /\ Len(t) = m - 1
      /\ \A k \in 1..(m - 1) : t[k] = AbstractSaved[k]
  <2>1. \A k \in 1..(m - 1) : AbstractSaved[k] \in Sets
    BY <1>2, <1>6
  <2> QED
    BY <1>2, <1>7, <2>1, SubSeqProperties
<1>9. t \in [1..(m - 1) -> Sets]
  BY <1>8, LenProperties
<1>10. AbstractSaved' = [k \in 1..(m - 1) |-> DomainOf(saved'[k])]
  BY <1>4 DEF AbstractSaved
<1> HIDE DEF t
<1>11. \A k \in 1..(m - 1) : t[k] = DomainOf(saved'[k])
  <2> SUFFICES ASSUME NEW k \in 1..(m - 1) PROVE t[k] = DomainOf(saved'[k])
    OBVIOUS
  <2>1. k \in 1..m
    BY <1>2
  <2> QED
    BY <1>4, <1>6, <1>8, <2>1
<1>12. AbstractSaved' = SubSeq(AbstractSaved, 1, Len(AbstractSaved) - 1)
  BY <1>7, <1>9, <1>10, <1>11 DEF t
<1>13. Abstract' = AbstractSaved[Len(AbstractSaved)]
  <2>1. Abstract' = DomainOf(saved[m])
    BY <1>1 DEF Abstract
  <2> QED
    BY <1>2, <1>6, <1>7, <2>1
<1>14. AbstractSaved # <<>>
  BY <1>2, <1>7, EmptySeq
<1>15. QED
  BY <1>1, <1>12, <1>13, <1>14 DEF Domain!Restore, Abstract, AbstractSaved

(* Every step is a step of the abstract domain, or none.                      *)
LEMMA StepRefines == IInv /\ [Next]_vars => [Domain!Next]_(Domain!vars)
<1> SUFFICES ASSUME IInv, [Next]_vars PROVE [Domain!Next]_(Domain!vars)
  OBVIOUS
<1>1. ASSUME NEW S, Domain!Narrow(S) PROVE Domain!Next
  <2>1. Domain!Narrow(Abstract \cap S)
    <3>1. Abstract \cap (Abstract \cap S) = Abstract \cap S
      OBVIOUS
    <3> QED
      BY <1>1, <3>1 DEF Domain!Narrow, Abstract
  <2> QED
    BY <2>1 DEF Domain!Next, Abstract
<1>2. ASSUME NEW v \in Arguments, Assign(v) \/ Remove(v) \/ RemoveBelow(v) \/ RemoveAbove(v)
      PROVE  Domain!Next
  <2>1. v \in Int
    BY BitDomainAssumption
  <2>2. \/ Domain!Assign(v) \/ Domain!Remove(v)
        \/ Domain!RemoveBelow(v) \/ Domain!RemoveAbove(v)
    BY <1>2, <2>1, OperationsRefine
  <2>3. \E S : Domain!Narrow(S)
    BY <2>2 DEF Domain!Assign, Domain!Remove, Domain!RemoveBelow, Domain!RemoveAbove
  <2> QED
    BY <1>1, <2>3
<1>3. CASE UNCHANGED vars
  BY <1>3 DEF vars, Domain!vars, Heard, fields
<1>4. QED
  BY <1>2, <1>3, SaveRefines, RestoreRefines DEF Next, Domain!Next

(* Over any run it is a set that four operations narrow and that backtracking *)
(* restores: the bit domain implements IntDomain (domain.hpp:34-61).          *)
THEOREM BitDomainIsIntDomain == Spec => IsIntDomain
  BY InitRefines, StepRefines, Invariant, PTL DEF Spec, IsIntDomain, Domain!Spec
================================================================================
